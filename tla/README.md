# TLA+ models of Dialpark and Dialler

Dialpark is an on-premises call server written in Go (`server/`); Dialler is its
iOS softphone (`ios/`). A phone that iOS has suspended cannot be called directly,
so the server keeps a small signalling connection to each phone (the *gateway*),
*wakes* the phone when a call comes in, waits for its SIP registration, and only
then sends the INVITE. Around that core it enrols devices, sells licence seats,
registers lines with a PBX and transfers calls.

This directory models the parts of that program where several goroutines, a
network, a disk or a person's impatience meet: TLA+ modules, the TLC
configurations that check them on small instances, and TLAPS proofs for the
parts that matter most. `PROJECT.json` lists the components, the runs, the
hazards each property is aimed at, the source lines each definition models, and
for every checked property a mutation of the model that breaks it.

## 1. The system and its parts

| part | state | operations | meets |
|---|---|---|---|
| endpoint registry (`internal/registry`) | users, their device, contact and expiry; calls waiting for a registration | Provision, Deprovision, Register, Unregister, WaitRegistered, WaitRouteChange | SIP registrar, call set-up, admin hooks |
| wake gateway (`internal/gateway`) | one session per device and client kind; remembered wakes and cancels | HandleConn (hello, attach, replay, read loop, detach), Wake, CancelWake, ForgetWake, wake_ack, Disconnect | phones, call set-up, admin hooks |
| enrolment store (`internal/enroll`) | device records in memory and in `devices.json`; seat cache | Create, Issue, MintCode, CancelCode, Claim, Revoke, Purge, SetConfig, SetDescription, PBX line writes, SetSeats | HTTP handlers, gateway authentication, licence |
| HTTP handlers and hooks (`internal/enroll/*handler.go`, `cmd/dialpark-server`) | none of their own | one store write each, then hooks on registry, gateway and PBX lines | all of the above |
| call set-up (`internal/b2bua/b2bua.go`) | one goroutine per call, the table of waits | serveDialog, wakeAndWaitFrom, bridge, HandleWakeAck | registry, gateway, SIP stack, PBX |
| bridged call (`internal/b2bua/transfer.go`) | two legs, pumps, hold player, transfer in progress | wait, setHeld, qualifyLegs, transfer, offloadToPBX | SIP stack, gateway, PBX |
| PBX lines (`internal/pbxline`) | one loop per line, its credential, its registration | Put, Delete, Start, Stop, the loop, the clock watcher | PBX, admin hooks |
| media relay (`internal/b2bua`, type `pump`) | per stream: offsets of numbers and timestamps, SSRC, last packet; the hold player's flag | forward, writeLocal, rebase, inheritTimeline, playHold | bridged call, both RTP sockets |
| registrar (`internal/sipauth`, `b2bua.go`) | nonces and their counts; the binding in the registry | Challenge, Verify, handleRegister, authenticate, routeFor | phones, enrolment store, registry, admin hooks |
| trunk connection (`b2bua.go`, `qualify.go`, `status.go`) | sipgo's pooled connection, the qualifier's verdict | INVITE, watchdog, redial, dropTrunkConnection, OPTIONS | PBX, every trunk call |
| licence (`internal/licence`) | installed token, last seat count told, install id | Open, Install, tick, callback | enrolment store |
| directory (`internal/directory`, `DirectoryService.swift`) | contacts with versions and tombstones, in memory and in a file per device; the phone's copy | upserts, deletes, star, replace, copy, migrate, delta sync | administrators, gateway notices, the app |
| event ring (`internal/events`) | the last events in a fixed buffer | Emit, Since, restart | every part emits; administrators poll |
| admin API guards (`internal/admin`, claim limiter of `handler.go`) | connection and handler slots, token buckets, sliding windows | Accept, Close, Allow, sweep, Guard, InflightLimit | administrators, claiming phones |
| admin web UI (`internal/adminui`) | sessions, stashed forms, last fetched pages | login, pages, writes with and without a version, replay after a login, show a code once | operators, admin API |
| status, diagnostics, log level | views, uploaded files, one timer | reads, a few writes | administrators |
| app: gateway session (`GatewaySession.swift`, `LANSocketTransport.swift`, `SessionMachine.swift`) | the keeper's flags and three timers, the connection, the wakes seen | connect, disconnect, setActive, forward, the timers, the connection's callbacks | gateway, the app or the push extension |
| app: call controller, engine | tracked calls, timers | events from socket, SIP stack and CallKit | server, CallKit |

What is hard in it:

* **Interleaving.** Locks are short: a list is copied under a lock and used after
  it (replay of wakes, Disconnect, hooks after a write, licence callbacks).
* **Order of events.** A wake may overtake the connection it is for; a cancel may
  overtake the wake; a REGISTER may come between a look and a wait; an old
  connection ends after its replacement began.
* **Failure half-way.** A save fails or the process dies after memory changed; the
  second of two steps is refused; the PBX accepts a transfer and then reports
  nothing.
* **Timers.** The ring timer, the decline grace, the in-dialog qualifier and the
  SIP stack's own timeouts race real answers.
* **Counters that wrap.** RTP numbers and timestamps are re-based across music,
  silences, clock jumps and transfers, modulo 2^16 and 2^32.
* **Copies of state.** The phone's directory, the web UI's pages, the seat count the
  store was told and the binding of a phone are all copies of something that moves on.
* **Something must happen.** A waiting call, a replaced connection, a call whose
  party vanished must end.

## 2. Modules

| module | models | proofs |
|---|---|---|
| `Registry` | `registry.go` | `RegistryProofs` |
| `Gateway` | `gateway.go` | `GatewayProofs` |
| `DeviceRecords`, `EnrolStore` | `enroll.go`, `line.go` | `EnrolStoreProofs` |
| `CredentialStore` | the abstract specification of `devices.json` | refinement in `EnrolStoreProofs` |
| `AdminHooks` | `admin_handler.go`, `handler.go`, `main.go`, `pbxlines.go`, `cmd/.../licence.go` | `AdminSideProofs` |
| `Registrar` | `sipauth`, `handleRegister`, the INVITE gate and `routeFor` of `b2bua.go`, the hooks of `main.go` on a binding | `SipSideProofs` |
| `TrunkPool` | the trunk connection of `b2bua.go`, `qualify.go`, `status.go` | `SipSideProofs` |
| `MediaPump` | `pump` of `b2bua.go`, `startLocked` and `playHold` of `transfer.go` | `CallSetupProofs` |
| `Directory` | `directory.go`, its admin handler, `DirectoryService.swift`, the sync of `AppModel.swift` | `AdminSideProofs` |
| `Licence` | `internal/licence/manager.go` | `AdminSideProofs` |
| `EventRing` | `internal/events` | `AdminSideProofs` |
| `AdminDoor` | `internal/admin`, the claim limiter | `AdminSideProofs` |
| `AdminConsole` | `internal/adminui` | `AdminSideProofs` |
| `CallSetup` | `b2bua.go`: one incoming call | `CallSetupProofs` |
| `BridgedCall` | `transfer.go`: one call in progress | `BridgedCallProofs` |
| `PbxLine` | `pbxline.go`, `sipreg.go` | `SipSideProofs` |
| `GatewaySession` | `GatewaySession.swift`, `LANSocketTransport.swift`, `SessionMachine.swift` | `GatewaySessionProofs` |

`MC<module>` extends a module and gives TLC its instance values. `MCAdminSide` (hooks,
directory, licence, events, door, claims, console) and `MCSipSide` (media, registrar,
trunk) each hold several parts that share no state: a behaviour picks one part in its
initial state and takes the steps of that part's own next-state relation, so the sum
of the state spaces is checked and not their product. How the models correspond to
the code:

**Registry.** `byUser`, `byDevice` and `waiters` are the three maps. Every method
holds the mutex throughout and is one action, named as in the code. A waiting
call is two steps: the check that returns or parks (`checkOrPark`), and what it
does when its channel is closed (`Wake`) or its context ends (`GiveUp`). A channel
is named by the call that made it. The clock ticks, so a registration can expire
while a call waits.

**Gateway.** A connection runs through the steps of `HandleConn`, which ends each
step where the mutex is released or a frame is written: attach, emit presence,
`pendingFor`, one frame of replay at a time, `cancelsFor`, replay, read loop,
detach. Beside it run the call (Wake, CancelWake, ForgetWake, the last two taking
their list of sessions and then writing frame by frame) and the hook that rotates
a credential or takes a seat away and then calls `DisconnectWith`. `scenario`,
chosen in the initial state, says which of these a behaviour contains.

**EnrolStore.** A write is `Begin` (the mutation under `mu`), `Persist` or
`SaveFail`, and `Finish`; `Restart` may come between any two. The relations of
`DeviceRecords` say what each write does to a record and are shared with the
abstract `CredentialStore`, whose variable is the file alone. Credentials and
codes are numbers never drawn before. `acked` and `spent` record what the outside
has been told.

**AdminHooks.** A request is the list of steps it still has to take: its store
write (atomic here, which `EnrolStore` justifies) and then its hooks in the code's
order. `prov` is the set of provisioned devices, `lines` the lines the manager
holds, `queue` the seat holders in order. `Restart` rebuilds both from the records
as `main` does.

**CallSetup.** One call: `serveDialog` with the route it looked up, the dead-flow
test, the wake, the tracked wait, `bridge` with retargets and trunk redials, the
three things that can abandon an INVITE, and `Close`, diago's last word. The
phone says one thing about the call, on the wake or on the INVITE; the caller may
hang up and the ring timer fire at any step.

**BridgedCall.** `wait` is the loop, one step per lock or channel operation;
`transfer(t)` is the REFER's goroutine; `HungUp` says what a BYE does (nothing, to a
party that has vanished). Channels that one transfer makes and another step
closes are named by the transfer that made them, so a field overwritten by a
second transfer is seen. `unwatched` marks transfers that began after the wait
loop had passed the point where it looks for one.

**PbxLine.** One user's line objects (a deleted and re-written line is a new
object with a loop of its own), the token channels `changed` and `late`, the one
cached REGISTER request the loop and the unregister share, and the exchange, which
takes requests in the order they are sent and accepts, refuses or drops them.

**GatewaySession.** The keeper's flags change under its lock, one action for each
locked section; what follows unlocked (`inner.connect`, arming the deadline,
`inner.disconnect`) is a step of the thread that does it: the host, the pump or a
task. A Swift `Task` is a record that sleeps, fires or is cancelled, and `handle` says
which one each of `reconnect`, `attemptTask` and `waitingGraceTask` names: a task whose
handle was overwritten goes on. `Task.isCancelled` and the lock that follows it are one
step. The transport's blocks (`ops`) and its events (`stream`) are queues. A wake stays
in force throughout, so its expiry is left out.

**MediaPump.** The stream one leg hears. The relay goroutine stops at its read, at the
test of `localOnly` and at the pump's mutex; a hold player may start, write and be
cancelled at each; a transfer replaces the pump and `inheritTimeline` hands the numbers
over. What a source sends next is relative to its newest packet (`Arrivals`: in order,
lost, late, silence, stall, frozen clock, steps back and ahead, renumbering, new
SSRC). Both counters wrap inside the instance.

**Directory.** A write changes memory under `mu` and then, under `wmu` alone, renames the
file and calls the hooks, or puts memory back; a crash may come between. The phone has
a session, frames it has not handled yet, a book, and up to two syncs: the event
loop's and the one after the user's own write. `hist` remembers what the directory
held at each version.

**Licence.** `Open`, the installs and the tick take the manager's mutex for one step and
deliver the count in another; `ahead` remembers, for each, whose earlier count is still undelivered.

**Registrar.** A REGISTER is verified in one step and written to the registry in a
later one; an admin write (revoke, re-issue, claim, seat change) changes the store in
one step and the registry in its hook. Phones keep the credential they were given, so
a phone with an old one and a phone with the new one of the same device both try.

**TrunkPool.** sipgo's pool holds one connection for the trunk's address; closing it
leaves it there until its reader notices. A connection may be stuck, and what was
written to it may arrive later. Watchdogs, Timer B and the qualifier may time out on
any connection, since a PBX may also be slow.

**EventRing.** An emitter that meets a reader drops its event; the ring is overwritten
from its oldest slot; a client polls with the number it was last given.

**AdminDoor.** A request passes the connection limit, the rate limiter, the bearer guard
and the in-flight cap in the order of `Chain`, and gives back what it took. `ideal` is
the bucket each source would have, were idle ones never swept. The claim limiter's list of
times is the set of the numbers of the claims it remembers, in `claimed`.

**AdminConsole.** A press of a button is a form with the version its page showed. Its
write is sent, executed and answered in three steps; the UI may give up between any
two and the request may still be executed. Expired sessions stash the form, and a
login replays it.

## 3. Runs

| run | module | instance | shows |
|---|---|---|---|
| `registry` | `MCRegistry` | 2 users, 2 devices, 2 contacts, 2 calls | no lost wake-up, no leaked waiter, sound device index (`RegistrySound`), waits end |
| `gateway` | `MCGateway` | 1 device, 2 connections, 1 call woken twice, or 1 rotation and a seat loss | wakes and cancels reach whoever is up (`ReachesAll`), table sound, replaced handlers end |
| `enrol_store` | `MCEnrolStore` | 2 devices, 2 users, 2 credentials, failing saves, crashes | durability and unique users (`StoreSound`), no rollback of a credential, codes single-use, no oversell, refinement |
| `enrol_seats` | `MCEnrolStore` | 2 devices, 3 credentials, seat counts 1, 2 and none | seat cache exact, a seat kept until the count falls |
| `call_setup` | `MCCallSetup` | 3 routes, 1 retarget, all targets | one final response, no ghost ring, filtered calls ring through, calls end |
| `pbx_line` | `MCPbxLine` | 1 line object, 2 secrets, deletion, StartSpread on and off | no credential lost, no stale token, shown registered is bound, Stop drops (`LineSound`) |
| `bridged_call` | `MCBridgedCall` | caller on the trunk, 1 transfer to each kind of target, 1 vanished party | no orphaned leg or wake, refusal keeps the call and music is owned (`CallIntact`), a handover is awaited, the call does not outlive its parties |
| `gateway_session` | `MCGatewaySession` | 4 host calls or mishaps in any mix, 4 tasks, 2 delays, 1 call | never down without a timer, belief true, a wanted session comes up and stays up |
| `admin_side` | `MCAdminSide` | see the cfg | the next table |
| `sip_side` | `MCSipSide` | see the cfg | the next table |
| `gateway_stale_token` | `MCGateway` | 1 connection, 1 rotation | finding 1 |
| `bridged_overlap` | `MCBridgedCall` | 2 transfers, both parties on the trunk | finding 2 |

| part | run | instance | shows |
|---|---|---|---|
| hooks | `admin_side` | 2 devices, one request at a time, restarts, 0-2 seats | `HooksFollow`: live devices are provisioned, lines follow records and seats |
| directory | `admin_side` | 2 contact ids, 2 addresses, 2 writes, 1 fault, 2 syncs | `BookIsSnapshot`: the phone's book is what the directory held at the book's version; `BookCaughtUp`: at rest nothing is missing; `NothingOverwritten`: no conditional write or migration goes over what its writer did not know |
| licence | `admin_side` | 4 tokens, 2 installs, the tick, 2 starts | `SeatsTold`: at rest the store has the count last computed from the token in the file |
| events | `admin_side` | ring of 3, 6 events, pages of 1 and 2, 1 restart | `NoSilentGap`: a poller sees every event or is told that some are gone |
| door, claims | `admin_side` | 3 requests, 2 sources, 2 connections, 1 handler, 3 ticks | `DoorSound`: no allowance made by a sweep, no claim beyond the window, slots come back exactly once |
| console | `admin_side` | 1 operator, 2 presses, 3 logins, 2 changes elsewhere | `OnceAsTold`: a press is executed at most once and as told; `NeverBlind`: no save over a version not shown |
| media | `sip_side` | 16 numbers, 64 timestamps, 4 packets of 11 kinds, 2 players, 1 transfer, failing writes | `StreamCarriesOn`: numbers go on without a repeat; `TimelineKept`: timestamps neither jump nor stand still |
| registrar | `sip_side` | 3 phones on 2 devices, 2 connections, 2 admin writes, 1 call | `BindingSound`: a user's calls go to the phone entitled to them or nowhere; `LiveFlowKept`: a routing check drops no live registration |
| trunk | `sip_side` | 2 calls and the qualifier, 3 connections, 2 breaks | `NoGhostInvite`: a call given up on or redialled leaves no INVITE that may still arrive |

**Bounds.** Two of everything that can be confused with another: two users so a
device can move, two connections so one can supersede the other, two devices so
one can push the other over the seats, two credentials so one can be the older.
One device suffices in `Gateway` because its tables are per device. Two calls
waiting on one user exercise both kinds of wait. `MaxRoutes = 3` lets the callee move
once more than `maxRetargets` follows. One transfer already meets every other actor
of `BridgedCall`; two at once are `bridged_overlap`. `Vanish` happens to one party,
`Holders` are the two original parties, the only legs whose hold has an effect.
In `GatewaySession` four outside events (host calls, drops, stalls, refusals, late
answers) let a foreground change meet a failure and its retry; two delays, none and
the longest, since the ones between behave like either. In `MediaPump` the moduli are
small so that both wrap within a few packets; `FrozenBreak < TimelineBreak` and
`Reorder < NumMod / 2`, as in the code. Two writes and one fault in `Directory` let a version number be taken back and
given again; three visits at a door of two connections and one handler meet each limit;
three phones on two devices include an old and a new holder of one credential.
`enrol_seats` is a run of its own because its two properties do not hold when a save
fails while `SetSeats` intervenes (section 5). Counters (`MaxNow`, `MaxVersion`, `MaxLines`, `MaxTransfers`, `Credentials`) are named
constants in guards.

**Types.** The type invariant of `Registry`, `EnrolStore`, `BridgedCall` and `Registrar` is
a part of `RegistrySound`, `StoreSound`, `CallIntact` and `BindingSound`; that of `CallSetup` is
proved; the other modules state theirs as documentation of their state.

**Deadlock** is checked everywhere but in `Gateway`, where every connection and
call is used once and the system may simply be finished, in `GatewaySession`,
where a session nobody wants is at rest, and in the two suites, whose parts stop
at their bounds.

**Fairness** is weak, and only for what the program does by itself: goroutines that
are runnable run; the ring timer fires; a SIP transaction ends, with an answer or by
Timer B; an INVITE that was cancelled returns; the qualifier's ticker ticks; the
exchange answers or the transaction fails. Nothing a person or a phone does is
fair: they may never hang up, register or answer. `wait` in `BridgedCall` is one
fair action, since it is one goroutine. The two suites check safety only and state no
fairness. `Recovers` also rests on the order of delays:
the attempt's deadline (10 s) and the longest backoff (15 s) end after a handshake and
after whatever the phone does at once, and a welcome comes after the latter too. Each
time one of these is overtaken counts as a mishap, so every such race is explored but
not repeated for ever. Without that order TLC shows the keeper closing a session that
has just come up, again and again.

## 4. What is proved

The proofs hold for every value of the constants under the named `ASSUME`s of the
modules (model values distinct from the sets they are outside of, counters in
`Nat`, target sets within the kinds the code has).

* `RegistryProofs`: `RegistrySound`, that is `TypeOK`, `DeviceIndexed`, `NoWaiterLeak` and
  `NoLostWakeup`. The inductive invariant is their conjunction. `NoLostWakeup` needs `NoWaiterLeak`, since a
  registration closes the channels of one user and must therefore reach every call
  parked on that user; and it needs that time only takes contacts away
  (`TickSatisfies`).
* `EnrolStoreProofs`: `StoreSound`, that is `TypeOK`, `UserUnique` and `IdleIsDurable`, and
  `ImplementsStore`, the refinement of `CredentialStore`. The invariant adds to them what a write in progress
  owes (`WriterSound`): before the save its backup equals the file and the map is one
  write (`OneWrite`) away from it; after the save the two are equal. Without it a
  failed save could restore anything. `OneRecordChanges` shows that a write touches
  one record and takes a user only if it is free. On top of it `CredInv` gives
  `NoOlderCredential` and `CodeSingleUse`: credentials are drawn in order, so it is enough
  that the file never falls behind what was answered (`FileCurrent`) and that a write in
  flight carries the credential it will answer with and has taken the code it will report
  spent off every record (`InFlight`). `CountExact`, that the count is the number of holders
  in memory and in the backup, gives `NoOversell`, with failed saves and crashes.
  `SeatsExact` and `SeatKept` are proved under `~SaveMayFail`, the hypothesis of the run that
  checks them: section 5 shows what a failed save does to them.
* `CallSetupProofs`: `TypeOK`, `OneFinal`, `NoGhostRing` and the action property `BusyKept`.
  `FinalInv` ties the responses sent to the control point; `RingInv` says who still has
  to end the wake at each point, what an ack says about the phone, and that a
  recorded cause has already taken the wake.
* `GatewayProofs`: `TableSound`, which is inductive with the types, and `ReachesAll`. For
  the latter `AllOwed` says, for each session and call, by which step the session will
  still be told: the replay it has not begun, the frame in its list, or the list that
  `Wake` or `CancelWake` is working through. The two sides overlap under the mutex, so one of them
  always owes the frame.
* `SipSideProofs`, the trunk: `NoGhostInvite`, since a connection that is not closed is the one
  in the pool (`OnlyPooled`) and an unsent INVITE waits on a stuck one (`UnsentStuck`), so
  whoever closes it takes them all. The registrar: `BindingSound` and `LiveFlowKept`, from an
  invariant that ties a verified request to the entitlement it was verified under and a
  pending hook to what it will still remove.
* `SipSideProofs`, a PBX line: `CredentialRegistered` for any numbers, secrets, line objects and
  deletions. `SoundLoop` says of one loop that a deadline and a late token belong to a wait,
  and that a credential not yet read is signalled or about to be read. `LineSound` is
  proved for a user with one number and one line object that is never deleted, or never written again
  (`OneLine`): the phases `Serving`, `Winding` and `Dropping` keep the loop's request and the
  unregister's apart. The hypothesis is what the code needs and not what the prover needs: with a
  second number or a second object TLC refutes `Served` (section 5).
* `AdminSideProofs`, the licence: `SeatsTold`. The count last computed has been delivered, or
  waits behind every other undelivered one (`LastDelivered`), and a count that is not the
  token's has an install still to come (`CountWorth`). The event ring: `NoSilentGap`, for any capacity and page
  size; the ring holds the last `count` numbers in order and a cursor is a number the
  client was given. The console: `OnceAsTold` and `NeverBlind`. A press is in one place at a
  time (`OnePlace`: stash, call or orphan), a press on its way has not been executed
  unless its call says so (`OnItsWay`), and a form carries a version its operator was shown
  (`VersionsCarried`).
* `AdminSideProofs`, the directory: `BookIsSnapshot` and `NothingOverwritten` from `SnapInv`, `BookCaughtUp` from
  `CaughtInv`. `SnapInv` says that memory and file are at most one write apart (`TwoSteps`), that
  every version in use has in `hist` the contents it had (`HistTrue`), and, for each version
  a copy was taken at, that what a directory calls unchanged since then is as it was then (`CopiesTrue`);
  `ApplyIsSnapshot` is the lemma that a delta applied to such a copy gives the new version.
  `CaughtInv` says that a phone behind the file has an event in its inbox, a question or an
  answer under way (`NotBehind`), and the same for one ahead (`NotAhead`).

* `AdminSideProofs`, the door: `DoorSound`. `NoneGained` says that no source has more tokens than it
  would have, were no bucket ever swept; `ClaimsRemembered` that every claim a window still
  holds is remembered, so that the count the limiter tests is not too small; `SlotsReturned` is
  inductive with the types.
* `AdminSideProofs`, the hooks: `HooksFollow`, for any devices and seats, while requests are answered one
  at a time (`Requests = {r}`, the instance of the run: with two, TLC refutes `LinesServed`,
  section 5). What the records ask for is so, or a step still on the request's list makes it so
  (`LiveKept`, `ServedKept`, `SeatlessKept`); no step on the list undoes what the records ask for
  (`HooksKept`); and what a write tested when its request came still holds when it is made
  (`ListKept`).
* `BridgedCallProofs`: `NoOrphan`, `CallIntact` and `OffloadOver`, for any number of transfers, targets,
  trunk legs and holders, as long as no REFER is taken during a transfer (`~Overlap`; with overlap
  TLC refutes `OffloadOver`, section 5). `CallInv` accounts for every leg that is up: it is a party,
  about to become one, or about to be released (`Accounted`); a transfer that has not escaped
  `wait` holds it up (`NoneEscapes`), so the legs `wait` hangs up are the call's legs as they are
  (`LegsKnown`), and at the end none is left and no wake (`OverMeans`). `HandoverAwaited` is proved
  for one transfer, since TLC refutes it with two (section 5); for any number, `CallWatchedAwaited`
  says that `wait` hangs up under no transfer that it knows of.
* `GatewaySessionProofs`: `BeliefTrue` and `NeverWedged`, for any number of tasks, queued blocks, events
  and mishaps. The last word of the stream on the session is true (`NewsTrue`), and `BeliefKept` lets the
  keeper be wrong only while the word that corrects it is on its way. `NeverWedged` needs two
  invariants: a session that is wanted and down has a task, a thread, news or a close that will
  make news (`Driven`), and, where the machine is closed already, so that a close makes none, an open
  on its way (`Reopens`). `HandleKept` is why a cancelled timer is never one of another kind.
* `CallSetupProofs`, the media: `StreamCarriesOn`, for any counter widths, arrivals, players and failed
  writes. The pump that feeds the leg knows the highest number sent (`Wired`), and the number its
  source is to continue at is as far beyond it as packets failed to be written (`Owed`, `Followed`).
  The remainders are lemmas (`ModSum`, `SeqDiffIs`, `CarriedTo`, `OwedAfter`), as the SMT backend decides none of
  them by itself. The hypothesis `NumbersNear` says that a packet sent as the next of its stream
  is less than half the numbers ahead of the highest sent. It is an invariant of the run, and
  what the code needs: a source that jumps further within one SSRC is, to `int16`, an old packet,
  and TLC then refutes `StreamCarriesOn`.

The long invariants (`SnapInv`, `CaughtInv`, `Alone` of a line, `CallInv`, `SessionInv`, `HooksInv`, `StreamInv`)
were tried with TLC, on the instance of their run or a larger one, before they were proved.
The proofs changed the models in a few places: `Licence` now remembers, for each undelivered
count, which others are ahead of it (`ahead`); the exchange of
`PbxLine` no longer chooses between overlapping `CASE` arms, whose meaning TLA+ leaves open;
`AdminDoor` names the claims its limiter remembers by number; `AdminHooks` orders a set by rank and takes one
device out of the queue by its place, in the place of a sort and a filter; and the constants of `MediaPump`
are assumed to be ordered as the code's are (2^16 numbers, a reordering of 64).

Only model-checked:

* everything under fairness (`WaitEnds`, `ReplacedEnds`, `CallEnds`, `CredentialTried`, `CallOver`,
  `Recovers`): liveness and `ENABLED` are outside what the prover does;
* `TimelineKept` of `MediaPump`: it holds of the arrivals of its run and not of all arrivals. A source whose
  clock steps back a frame with each packet, while the packets come two or more frames apart, is
  followed back a frame each time: neither the frozen-clock count, which such gaps suspend, nor the
  break detection stops it.

## 5. Findings

Each is a run that TLC ends with a counterexample; the comment it contradicts is
quoted in `PROJECT.json`.

1. **A stale token stays connected** (`gateway_stale_token`, `gateway.go:513`): a connection
   authenticated before a rotation and attached after `Disconnect` took its list of
   sessions keeps its session on the old token.
2. **One channel for two offloads** (`bridged_overlap`, `transfer.go:846`): when the PBX
   completes two transfers of one call at once, the end of the first closes the
   channel of the second, and the end of the second closes it again.

Other divergences were met while modelling. They are stated in the modules, with the
comment they contradict, and TLC refutes them when they are added to a
configuration; no run is kept for them:

| property | module | what happens |
|---|---|---|
| `SeatsExact` with `SaveMayFail` | `EnrolStore` | `SetSeats` between a mutation and its failed save is undone by the restore (`enroll.go:406`) |
| `IfMatchHonoured` | `EnrolStore` | a conditional write tests a version that a failing save takes back |
| `ForgottenNotRung` | `Gateway` | a replay already under way sends a wake that was just forgotten |
| `FreshWakeDelivered` | `Gateway` | a cancel whose replay was already under way follows the fresh wake of the same call |
| `PresenceTruthful` | `Gateway` | presence events of a supersede are emitted out of order |
| `RevokedLineDown`, `RevokedUnknown` | `AdminHooks` | a line written for a revoked device is registered; a code minted for one provisions it again |
| `RefusalLeavesNothing` | `AdminHooks` | two requests create a device each and the second is then refused the last seat, its record staying |
| `LinesServed` with two requests | `AdminHooks` | the hooks of a `DELETE` and a `PUT` of one line run in the other order than their writes; the line is stored and not registered (`pbxlines.go:161`) |
| `DeadFlowOnly` | `CallSetup` | a dead flow is unregistered by user, and a newer registration with it |
| `DeclineHeard` | `CallSetup` | an ack that arrives between the wake and `trackWait` is lost |
| `BusyRingsThrough` | `CallSetup` | the app's own 486 can win over its busy ack |
| `DeleteDrops` | `PbxLine` | the loop of a deleted line writes its own expiry into the request the unregister is about to send |
| `RefusedParks` | `PbxLine` | the token of a write the loop had already read wakes it after the refusal |
| `Served` with two line objects | `PbxLine` | the `Expires: 0` of a deleted line follows the REGISTER of the one written in its place (`pbxline.go:375`) |
| `Served` with two numbers | `PbxLine` | the request kept for a user goes on naming the number it was built with (`sipreg.go:156`), so a line whose number was changed stays bound under the old one |
| `MusicStops` | `BridgedCall` | `wait` cancels the pumps but not the hold player (`transfer.go:365`) |
| `HandoverAwaited` with two transfers | `BridgedCall` | `awaitHandover` forgets the channel of that moment, whichever transfer made it |
| `StaysDown` | `GatewaySession` | a backoff that had decided to attempt opens a connection after `disconnect()` closed the last one |
| `RefusedRests` | `GatewaySession` | a backoff asleep when the server refuses is not cancelled and attempts once more |
| `RingsOnce` | `GatewaySession` | each connection gets a new session machine, so a wake the gateway replays is surfaced again (`LANSocketTransport.swift:60`) |
| `UpNotRefused` | `GatewaySession` | a refusal forwarded after `connect` or `setActive` cleared the mark marks the attempt that follows; its next drop is not retried |
| `WelcomeResyncs` | `Directory` | a `directory_changed` sent between attach and the welcome is dropped by the app, and the welcome's version was read before the write (`PROTOCOL.md:164`) |
| `ExpiryTold` | `Licence` | a count computed before an expiry is delivered after the expiry's own, and the store keeps those seats (`manager.go:20`) |
| `BindingCurrent` | `Registrar` | a claim disconnects the gateway session of the old credential's holder and leaves its SIP binding (`SPEC.md:1983`, `main.go:775`) |
| `RedialFresh` | `TrunkPool` | the redial may be given the connection just closed, still in the pool (`b2bua.go:1355`) |
| `NothingChanged` | `AdminConsole` | the UI says "nothing was changed" of a write whose answer was lost (`server.go:374`) |
| `RestartNoticed` | `EventRing` | after a restart a client whose number the new ring has already passed is not told (`events.go:125`) |
| `OwnsStream` | `MediaPump` | the deferred reset of a cancelled player clears the flag of the next one (`b2bua.go:1999`) |
| `WriterInStep` | `MediaPump` | a failed write has moved the packet writer's timestamp but not the pump's |

Properties that hold only with an exception say so in their comment; the exceptions are
kept in history variables (`crossed`, `torn`, `early`, `taken`, `late`, `reused`) that name
the step which spoils them. They are:

* media: `startLocked` does not wait for the pump it replaces, so one packet of the old
  pump may cross the swap; a packet that comes late just after a re-basing may collide
  with a number already sent; a renumbering by exactly half the number space stands still;
  packets that arrive in pairs hide a frozen clock;
* directory: a failed save, a crash before the rename or a purge gives version numbers out
  twice, which neither If-Match nor the phone can tell; two overlapping syncs may put an
  older book over a newer; a contact with duplicates loses its star in the migration; a
  device enrolled again under its id keeps the book it has;
  a conditional write that is refused leaves an empty directory in memory;
* registrar: a REGISTER verified before a seat was lost may be written after it; a
  registration renewed between a call's look and its `Unregister` goes with the dead one;
* trunk: a caller that hangs up before Timer B leaves its INVITE unsent on a stuck
  connection; a drop may close a healthy connection that another call has redialled on;
* door: the claim limiter never forgets a source; the event ring takes a `since` near 2^64
  for a negative skip.

## 6. Not modelled

* Status, diagnostics, log level: read-only views, uploaded files and one timer.
* Trunk and lines lookup: pure lookups, whose outcome is a choice in `CallSetup` and
  `BridgedCall`.
* Parsing and formatting (SIP headers, SDP, QR codes, CSV, JSON, the wire protocol), TLS and
  certificate pinning, digest and licence signatures (one bit: it verifies or not), QoS
  marking, music clips, web templates, SwiftUI screens, command-line tools: no state
  machine of their own, or cryptography.
* The app's call controller, engine, push provider, enrolment client and recents: their
  order of events is decided by CallKit, the iOS extension host and baresip, none of which
  is in the repository.
* Of modelled parts: codec negotiation is a choice between working and not; failing to
  start the relay pumps after a transfer (`transfer.go:593`), the byte-copy relay used by
  tests, the directory's dry run and the web UI's CSV parsing are left out.

Vendored code (sipgo, diago, baresip) is modelled by how the server uses it and marked
external.

## 7. Plan

Every safety property of a passing run but `TimelineKept` is proved. A theorem about the leg's
timeline would need a hypothesis on the source's clock; none has been found that is weaker than a list
of cases such as `Arrivals`.

Models left: `GatewaySession` composed with `Gateway`; the seat count of `Licence` composed with
`EnrolStore`.

## 8. Running

In this directory, `tlc -config MCRegistry.cfg MCRegistry` checks a run and
`tlapm RegistryProofs.tla` a proof module; `AdminSideProofs` takes about ten minutes, the others
two or less. The longest runs, `bridged_call`, `admin_side` and
`sip_side`, take about two minutes each on two cores.
