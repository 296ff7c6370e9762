# wakehub in TLA+

A verification development for wakehub, a LAN power hub: a Go server that wakes
machines with magic packets and powers them off through a client process on
each machine, driven from a web UI, from schedules and from the Bemfa MQTT
cloud.  The modules model the code under `src/`; TLC checks them on small
instances, TLAPS proves the theorems for all instances.  `PROJECT.json` lists
the runs, the sensitivity variants that break each property, the lines every
definition stands for, and the hazards the properties are for.

## The system

| part | state | operations | talks to |
| --- | --- | --- | --- |
| client hub (`internal/clientlink`) | map key -> entry, token; one goroutine per connection | HandleWS, SendControl, SetToken, List/Get/Online | clients over WebSocket, device service |
| client process (`internal/clientapp`) | session, recentShutdownIDs, command goroutines, backoff delay | Run, Session, HandleControlMsg | the hub, the host's shell |
| config store (`internal/config`) | the configuration in memory and in `config.json` | Open, Upsert/Delete of devices, groups, schedules; settings; tokens | everybody |
| Bemfa manager (`internal/bemfa`) | MQTT device, topic -> device map, status, log ring | Reconfigure, EnsureDevice, RemoveDevice, callbacks | the MQTT library, the device service |
| device service (`internal/device`) | none of its own | Create, Update, Delete, FromClient, Wake, Shutdown, Batch, OnSchedule, OnSettingsChanged | store, manager, hub, wol, audit, notify |
| schedule runner (`internal/schedule`) | none; lastRunDay in the store | tick, fire | store, device service |
| probe (`internal/probe`) | cache id -> last result | tick, ProbeDevice | store, hub (addresses of clients), notifications |
| settings (`internal/web`, `internal/openwrt`) | none; `/etc/config/wakehub` on OpenWrt | GET/PUT settings, UCI writeback, uci-sync at start | store, hub, manager |
| audit log (`internal/audit`) | ring of entries | Add, List | device service |
| bootstrap (`cmd/server`) | none | open, listen flag, token, StartBemfa, goroutines, stop | all of the above |
| client on its host (`cmd/client`, `internal/clientcfg`, `internal/service`) | executable, `config.json`, systemd unit | service install, uninstall, start, stop; update apply | systemd, GitHub Releases |
| mDNS, notify, wol, web UI | | | |

What is hard in it: every connection has its own goroutine on the server, the
hub's map is read before a write and written after a read, connections are
superseded while their handlers still run, hosts vanish without a word, power
off is by nature a race between the command and its acknowledgement; the store
is changed in memory before it is saved, a save may fail and a process may stop
in the middle of one; the manager's map of subscriptions shadows the store and
neither lock covers both; schedules are matched against the minute of the clock
and marked after they fired; a batch walks its devices one by one while others
edit them; probes of one device overlap, and store and report in separate steps;
a setting is in four places (memory, file, UCI, hub) that are brought in line one
after the other, by requests that overlap; installs and updates are sequences of file operations and calls to
systemd, any of which may be the last.

What makes each part correct: the hub's registry holds exactly the live owner of
each key; a command runs at most once per request and only when asked for; a
change the store confirmed survives; the MQTT subscriptions are those the stored
devices ask for; a schedule runs once on its day and is marked only if it ran;
the audit ring is a bounded log; what a call answers is what the log says; the
changes reported of a device add up to what the cache shows, and that is in the
end the truth; a setting that was put by itself is in force everywhere; and a
client machine is never left without an executable, nor running what is not
installed, but for known reasons.

## Modules

| module | models | source |
| --- | --- | --- |
| `WsLink` | messages, and what the code relies on of WebSocket connections | `internal/protocol`; gorilla/websocket (external) |
| `Hub` | the server's end of the link | `clientlink/hub.go` |
| `ClientSession` | the machine's end | `clientapp/session.go`, `shutdown.go`, `protocol.go`, `run.go`, `power.go` |
| `ClientLink` | both composed, with faults; the properties | |
| `PowerOrders` | abstract: what a remote power-off owes the one who orders it | |
| `MCClientLink` | instances for TLC | |
| `ClientLinkProofs` | theorems about `ClientLink` | |
| `ScheduleRunner` | runner, clock, schedules in memory and on disk, their API | `schedule/runner.go`, `config/store.go`, `web/handlers_extra.go` |
| `MCScheduleRunner`, `ScheduleRunnerProofs` | instances, theorems | |
| `BemfaManager` | the MQTT manager as a value, each method as the set of its outcomes | `bemfa/manager.go` |
| `DeviceService` | requests of the web API between store and manager, restart | `device/service.go`, `config/store.go`, `web/server.go` |
| `MCDeviceService`, `DeviceServiceProofs` | instances, theorems | |
| `ConfigStore` | `config.json`, the settings and their copies over many lives of the server | `config/store.go`, `web/server.go`, `openwrt/uci.go`, `cmd/server/main.go`, `wakehub-uci-sync`, `init.d/wakehub` |
| `Durable` | abstract: what a store owes its users | |
| `ConfigStoreProofs` | theorems about `ConfigStore` | |
| `AuditRing` | the ring buffer | `audit/log.go` |
| `BoundedLog` | abstract: the newest entries, newest first | |
| `AuditRingProofs` | theorems about `AuditRing` | |
| `DeviceActions` | wake, shutdown, batches, groups and schedule reports over the audit ring | `device/service.go`, `config/store.go`, `web/handlers_extra.go`, `schedule/runner.go` |
| `MCDeviceActions`, `DeviceActionsProofs` | an instance, theorems | |
| `ProbeRunner` | the online probe: ticks, requests, cache, notifications of changes | `probe/probe.go`, `device/service.go` |
| `ProbeRunnerProofs` | theorems about `ProbeRunner` | |
| `ClientHost` | the client's files, its service and the commands that change them | `cmd/client/main.go`, `clientapp/install.go`, `merge.go`, `update.go`, `clientcfg`, `service/service_unix.go` |
| `MCClientHost`, `ClientHostProofs` | an instance, theorems | |

### ClientLink

A connection is two queues with a state at each end (`WsLink`).  Each accepted
connection has a handler whose program counter `hpc` runs through the steps of
`HandleWS` that other goroutines can come between: read hello, read the token
under its lock, register, write hello_ok, read frames, apply an acknowledgement,
clean up.  `SendControl` is three steps: find the entry under the lock, write on
its connection after, answer the caller with the request id (`Answer`).  The
client may run the command, and the server may die, before the last: then nobody
hears of a call that was carried out.  A machine has a session, the goroutine of
each command it runs, and the ids it remembers.  `ClientLink` composes the two
and adds what the world does: connections break with or without notice,
processes stop and start, hosts lose power, the server restarts, the token
rotates.

`PowerOrders` is what all of this is for: an order is given when the frame that
asks for a power-off is written on the client's connection (`hub.go:119`),
whether or not the call that wrote it is ever answered, carried out when the
command has run, told when the hub logs the acknowledgement; no message,
connection or handler appears in it.  `Orders` maps the links to it: the ids
written (`Ordering`), the commands of each process (`runs`), those that ended
well (`executed`) and those the hub's log has as executed (`hubLog`).

Left out of the entry: NICs, host name and LastSeen (no decision reads them).
Left out of the client: the length of the backoff (waiting is not doing
anything), the pruning of remembered ids after ten minutes, frames of unknown
type.  Connections that never send a hello belong to the model only as ones whose
hello is lost.

### ScheduleRunner

One action per step of `tick` and `fire`: `Tick` copies the list and finds what
is due, `Fire` begins to perform a schedule, `Mark` records the day.  The API
edits and deletes between any two of them; POST is `Put` on an unused id, and a
PUT of a deleted id stores it again, as the code does.  A body may carry a
`lastRunDay`: GET returns the field, the handlers decode the body straight into
a schedule, and the store keeps its own only over an empty one
(`store.go:631`).  So a client that sends back what it read earlier can undo the
mark of a run, and one that sends today's date can set a mark without a run.  The
histories account for both: `ran` counts runs of an entry since a body last
brought the mark of another day, `ever` has the days a body brought along
besides those the schedule ran on.  What performing does to
devices is left out but for the time it takes: it ends in a step of its own.
Assumed of the ticker: every minute is sampled (it fires every 20 s) unless the
runner is still busy or the server is down.

### BemfaManager and DeviceService

All of the manager's methods hold its lock from beginning to end, so each is one
step of its caller, and the manager is a record with operators for its methods;
the operators return the set of outcomes, with and without failures at the
broker.  The service has no lock: a request is a sequence of the steps `Remove`,
`Upsert`, `Ensure`, `SaveAgain`, `Erase`, `Snapshot`, `Reconfigured`, and the
steps of several requests interleave.  The check of a request is one step with
what follows it, since what it reads (the account) is not what that step writes.
`FromClient` saves a device as it found it in a list (`Adopt` is the beginning of
its `Update`), so it may write back what another request changed in between.

The manager forgets a topic even when the broker's unsubscribe fails
(`manager.go:370-378`), and the broker goes on delivering to its old handler.
`subs` is what the broker delivers, `topics` what the manager knows, and
`refused` remembers the topics this happened to.  A failed unsubscribe and a
failed subscribe of one topic in one resynchronization are two failures
(`Mishaps`).  `overlap` remembers that requests ran into each other.  It ends with
a restart, and with a save of the settings that had the server to itself
(`apart`), which works from what is stored.

A device is what the manager reads of it.  Bodies are what the UI sends: a
device with Bemfa off has no topic (`app.js:401`).  That CreateTopic may fail
makes no difference to any of this (the code subscribes anyway); reconnecting,
status and the log ring are left out; failing saves are `ConfigStore`'s subject.

### ConfigStore

The steps of `saveLocked` (temporary file, rename), of `Open` with its migration,
of `main` up to serving, of the requests that change the configuration, and of
uci-sync.  The store's lock is held from a change to the end of its save, so one
save is under way at most.  Devices, groups and schedules are the number of the
last change made to them; a password is hashed or not; the token stands for the
settings.

A PUT of the settings changes memory and saves; in writeback mode it is mirrored
into UCI (`WriteGlobals`), which runs uci-sync, whose reading (`SyncRead`) and
writing (`SyncMove`) of the file are two steps next to the saves of other
requests; then `OnSettingsChanged` takes a snapshot and tells the hub.  Each of
these is a step, and two PUTs may be anywhere in them at once.  A PUT whose
password bcrypt refuses stops half-way through its changes in memory.  What the
manager does with the same snapshot is in `DeviceService`.

`drift` remembers that a PUT failed or ran into another one, `raced` that
something was saved between uci-sync's reading and writing.  Without them
`SettledInForce` and `LostOnlyToSync` could speak of nothing but single requests.

Three modes: not under OpenWrt, under LuCI with the settings read-only in the web
UI, as installed, and writeback.  Stops are stops of the process: `os.WriteFile`
does not sync, and what a power loss does to the file system is not modelled (an
empty file opens as defaults).  The service manager is assumed to start a new
process only after the old one is gone.  uci-sync's own `cat` does not fail:
a full disk could leave it half a file to move (see Not modelled).

### AuditRing

The slice, `next` and `full` of the ring with `Add` and `List`, and the abstract
log it implements.  It has no run of its own: `DeviceActions` extends it.

### DeviceActions

Every caller (an HTTP request, a Bemfa message, the schedule runner) is a
goroutine with one call at a time, which walks a list of devices: look one up
and send, write the entry, go on.  A list is kept as how often it names each
device, and a call takes them in any order: what the properties say does not
depend on the order, and any order includes the code's.  A group is copied when the call begins
(`GetGroup`).  Edits of devices and groups come between any two steps; each is
one step under the store's lock.  Whether a send succeeds is a choice, which
stands for packets that do not go out, devices without a client and the hub's
answers; `Hub` has those.  Restarts are shutdowns under another name here, and
notifications change nothing.  Saves that fail leave memory as a save that
succeeds does, and only memory is in this module.

### ProbeRunner

A probe is four steps, with no lock over them: the device and the addresses of
its client are read (`Begin`), the host answers or does not (`Answer`), the result
goes into the cache and what it replaced comes back (`Store`), and if it was a
change it is reported (`Report`).  The runner's goroutine has one probe under way
and a list of devices (`todo`) that it read at the tick; a request has one of its
own.  Hosts go up and down, clients connect and leave, devices are edited and
deleted in between.  Time is kept as ages, so that nothing grows: of each result
since `CheckedAt`, of each probe since it began, of the tick since it read the
clock (`lag`); `Cap` bounds what is told apart, and the assumption on intervals
says that it is enough.

`sent` and `net` are what the webhook has heard, `crossed` and `outdated` name the
two races: a change stored while another was still to be reported, and a result
stored that is older than the runner's last probe.

### ClientHost

One variable per file (`exe`, `exe.new`, `exe.old`, `config.json` and its
temporary, the unit), one for what systemd is to do, one for the process it runs.
A command is a program counter through the steps of `runInstall`,
`UninstallService` or `runUpdate`; every step but those whose error the code
drops may return an error, the rename that completes an update is rolled back,
the rollback may fail too, and a command may be killed or the machine go down
before any step.  A file being written is `Part`.

`loose` remembers what a command left to the next start of the process: an
update without `-service` says so (`main.go:361`), an install cut short between
its save and its restart, a stop that failed and was ignored (`main.go:347`).
Without it the two `...InForce` properties could only speak of undisturbed
histories.  So does a start that fails: `systemctl start` is tried once, its error
is returned (`main.go:359`) or dropped, after an update that failed as well
(`main.go:352`), and the service stays down until somebody starts it
(`StartFails`).

Commands do not overlap: nothing in the code keeps two from running at once, and
two administrators updating one machine at one moment is not what it is for.
Development builds, the choice of the asset and the archive formats are the
choices of failing or not; Windows is left out.

## Runs and bounds

`CHECK_DEADLOCK FALSE` stands in every cfg but that of `client_host` because these
systems stop when the bounds on requests, faults and time are used up; none of
them may get stuck earlier, which the liveness runs show where it matters.

| run | instance | checks | states |
| --- | --- | --- | --- |
| `link_shared` | machines with the token and a key, without the token and the same key, without a key; 3 connections, one rotation of the token | `ControlOnlyAfterAdmission`, `FatalIsRefusal`, `EntryHasHandler`, `OpenIsRegistered`, `ExecutedEventIsTrue`, `OnlyOwnerDeregisters` | 3.54M |
| `link_requests` | two machines with a key each, two API calls that may draw the same request id | `RunsAtMostOnce`, `KeepsOrders` | 2.44M |
| `link_live` | one machine, two faults of any kind, a restart of the server between writing a frame and answering for it among them, under fairness | `ComesOnline`, `GoneGoesOffline`, `KeepsOrders` | 567k |
| `schedules` | two schedules, two days of two minutes, two edits with or without a `lastRunDay`, a fault, a clock set back | `OncePerLife`, `MarkedRan`, `NothingLeftBehind` | 1.46M |
| `schedule_missed` | violation: days of four minutes, no edits | `PassedMinuteIsServed` | |
| `bemfa` | two admins, five requests (FromClient among them) over two devices with topics of their own, one failure of the broker, a restart | `NoOrphan`, `EnabledIsSubscribed`, `MapIsBroker`, `DeletedStaysDeleted` | 2.64M |
| `bemfa_taken` | violation: two devices may have one topic | `EnabledIsSubscribed` | |
| `config_store` | all three modes; two changes, two PUTs that may overlap, two failures of any kind, two stops, LuCI with a token, under fairness | `FileOpens`, `ServesHashed`, `ServesWithToken`, `SettledInForce`, `LostOnlyToSync`, `KeepsPromises`, `TokenKept`, `ServesAgain` | 919k |
| `config_unset` | violation: LuCI has no token | `TokenKept` | |
| `device_actions` | two devices and a group, a request and the runner, lists of both devices, two calls, two edits, a ring of four entries; symmetric in the devices | `ReplyMatchesLog`, `GroupsForgetDeleted`, `IsBoundedLog` | 434k |
| `client_host` | three versions, installs that give the token, the key or nothing; three commands, two failures, one kill or reboot, under fairness | `NeverTorn`, `BinaryKept`, `NoDowngrade`, `ConfigInForce`, `VersionInForce`, `FieldsKept`, `ServiceComesBack` | 477k |
| `probe` | a device, the runner and a request; two changes of host or client, an edit or a deletion, ticks that take half a period, under fairness | `NewsIsCurrent`, `ChangesAddUp`, `Paced`, `Follows` | 620k |

Why the bounds are enough to be of interest:

* Links: a takeover needs two connections of one key, a late cleanup a third; a
  request id collides with one clock value for two calls; `MaxQueue` 1 lets a
  frame be under way while its sender goes on.  The history a property speaks of
  is part of the state, so nothing is lost to the bound on faults but sequences
  of more than that many.
* Schedules: a day boundary, a weekday that matches and one that does not, a
  minute visited twice, a deed whose mark is lost to a stop or a failed save, or
  to a body that brings an old one.
* Devices: a topic typed in with a dash, one left to the hub, a device switched
  off, moved, deleted and edited after; two requests that overlap, then a save of
  the settings and an edit that follows it; an unsubscribe that fails.
* Store: a change after a failed save, a stop between any two steps of the start
  and of a save, a second stop while recovering from the first; two PUTs that
  overlap, one that succeeds after one that failed, a change saved while uci-sync
  is at work.
* Actions: a device deleted between two sends of a batch, a group deleted or saved again with a deleted device, a
  schedule and a request on one group, a fifth entry in a ring of four.
  A list that names a device twice, whose first send fails, is beyond the run;
  the theorem covers every list.
* Probe: a request that begins before the runner's probe of the same device and
  ends after it, changes of both to be reported at once, a device deleted or
  turned off while it is on the tick's list.  Devices share nothing but the time a
  tick takes, which `MaxLag` gives each; the theorems cover any number.
* Client host: an update over an update, of which `exe.old` is a witness; an
  update that fails twice, once in its rollback or its start; a release that is withdrawn and
  one whose second number has two digits; a reboot in the midst of an install.

### The three violations

Each shows a statement of the repository that the code does not keep; the
findings in `PROJECT.json` quote it.

* `schedule_missed`: performing takes the runner past the minute of another
  schedule (a notification nobody answers costs 8 s per device, one after the
  other), which is then not run that day.
* `bemfa_taken`: two devices have one topic; giving it up for one takes it from
  the other.
* `config_unset`: on OpenWrt, with no token set in LuCI, each start of the
  service makes up another token.

### What the properties exclude, and why

* `RunsAtMostOnce` and `KeepsOrders` do not say that a caller whose command ran
  was told so: the server may die, or the client be faster, between the frame
  and the answer (`hub.go:119-122`).
* `OncePerLife` lets a schedule run again after a body brought the `lastRunDay` of
  another day, and `MarkedRan` lets a mark stand for a body that brought it
  (`store.go:631`).
* `NoOrphan`, `EnabledIsSubscribed` and `DeletedStaysDeleted` speak of requests
  that did not overlap since the last start or the last save of the settings that
  had the server to itself (`Settled`).  With overlap they are false of the code:
  a device deleted between the check and the save of an edit comes back
  (`service.go:155`, `169`), and a reconfiguration works from a snapshot older
  than a device saved meanwhile (`service.go:391`).  Only `MapIsBroker` holds
  whatever overlaps.
* `NoOrphan` is about what the broker delivers, and leaves out topics whose
  unsubscribe failed: neither a delete nor an edit reports that, and the next
  synchronization does not know of them (`manager.go:370-378`).
* `NoOrphan` is about normalized topics.  One stored as typed in, because MQTT was
  not running when it was saved (`service.go:148`), is later subscribed as it is
  (`manager.go:323`), and an edit then subscribes the normalized form and leaves
  the other.
* `EnabledIsSubscribed` leaves out devices whose last subscription failed: the
  code reports that and leaves it to the next save.
* `TokenKept` is about tokens that were in the file when the server stopped, and
  that UCI agreed with in writeback mode; in `config_store` LuCI has a token set.
* `SettledInForce` is about PUTs that succeeded by themselves: of two that overlap
  the one stored last may be propagated first (`service.go:391`), one refused
  half-way (`server.go:194`) or whose mirroring fails (`server.go:216`) leaves hub
  and memory apart, and the next PUT that has the server to itself brings them
  together.
* `KeepsPromises` says nothing of the writeback mode, where a change saved between
  uci-sync's reading and writing is lost (`uci.go:63`); `LostOnlyToSync` says that
  nothing else is.
* `NewsIsCurrent` leaves out changes that cross: two goroutines store in one order
  and may report in the other.  `ChangesAddUp` holds for those too.
* `Paced` leaves out results older than the one they replace: a request that took
  longer than the runner's probe makes the device look older than it is.
* `ServesHashed` is about passwords bcrypt takes (at most 72 bytes).
* No property says that the server has read an acceptance before the host is off
  (`shutdown.go:35`): the client writes it to the socket first and waits for
  nothing, so it may be lost with the host.  `ExecutedEventIsTrue` is what holds.
* `GroupsForgetDeleted` allows a group to name a deleted device that its own last
  save named: `UpsertGroup` does not look the devices up.
* `ReplyMatchesLog` speaks of calls whose entries the ring still has.
* `ServiceComesBack` is about one step that fails before the start.  A kill or a
  second failure (a rollback that fails) can leave no executable in its place, or
  a stopped service; a start that fails is not tried again.
* `VersionInForce` and `ConfigInForce` except what `loose` holds, see above.

## Fairness

`link_live` assumes weak fairness of each connection's handler, of each machine's
attempt to connect, of its session and of each command's goroutine: the Go
scheduler runs every goroutine that can run, read deadlines end a read from a
peer that is gone, and `Run` retries for ever.  Nothing is assumed of API calls,
pings, faults, token rotation and machines being switched on.

`config_store` assumes weak fairness of the steps of the start and of a save: the
process runs, and systemd or procd start it again when it ends.  procd gives up
after five quick failures in a row, more than the two failing saves of the run.
Nothing is assumed of requests.

`probe` assumes weak fairness of time, of the runner between two probes, and of
the steps of each probe: the ticker goes on, and a ping, a TCP connection and a
webhook all have timeouts.  Nothing is assumed of hosts, clients, edits and
requests.  `Follows` asks for a device whose host stays as it is from some time on.

`client_host` assumes weak fairness of the steps of a command: its downloads have
timeouts and systemctl returns.  Nothing is assumed of failures, kills, the
administrator or the process.

The other runs check safety only.

## Theorems

TLAPS proves them for all values of the constants under their assumptions
(typings, distinctness of the special values such as `None`, and
`DeviceAssumption`, `FileAssumption` and the like, each stated in the module that
declares the constants and evaluated by TLC in the runs).

* `ClientLinkProofs`: `TypeCorrect`, `RegistryOwned`, `OneOpenPerKey`,
  `SuccessorSafe`, `AtMostOnce`, `AdmittedFirst`, `OnlyRefusedExit`,
  `ExecutedIsTrue`, `LinksKeepOrders`: all the safety properties of the links.
  `TypeInv` adds to `TypeOK` what a handler knows at each stage (`Knows`).  `RegistryInv` ties the map to the handlers: an entry's
  connection has a handler of that key past registration and before its cleanup,
  and a greeted connection still open at the hub is its key's entry; neither part
  is inductive without the other.  `OnceInv` counts the runs of an id against the
  ids remembered.  `LineInv` says what is on a connection: the first frame read is
  a hello, nothing goes out before it is judged, and a call that found an entry
  reaches that key's client or nobody (`Reaches`).  On it rest `RefusalInv` (a
  client that cannot be refused has sent its own hello and is sent no error) and
  `TruthInv`: as long as a connection works, hub and client agree on whose it is
  (`Speaker`), what is on the way to a client was asked for its key, and what is
  on the way back tells of commands that ended well on a machine of that key.
  `Moves` and `Effect` sum up what the steps of a client do to connections and
  goroutines.  `LinksKeepOrders` is the refinement of `PowerOrders`: with
  `TruthInv` and `OnceInv` every step of the links is the giving, carrying out,
  forgetting or telling of an order, or a stutter (`OrdersStep`, one lemma for
  each); answering a call is a stutter, as is losing one.
* `ScheduleRunnerProofs`: `TypeCorrect`, `OnceADay`, `MarksAreTrue`,
  `TicksAreComplete`.  `OnceInv` says where a run that is not yet marked must be:
  in the runner's hand; a body may bring a mark of its own between any two
  steps, and then begins the count anew.  `MarkedInv` says that the runner marks only what it began;
  `OnItsWayInv` that what is due in a minute it looked at is on its list.
* `DeviceServiceProofs`: `TypeCorrect`, `MapIsTrue`, `NothingOrphaned`,
  `DeletedForGood`, `EnabledIsReached`.  The invariant is the type
  of the store, that every request under way has in hand what its next step needs
  (`Proper`), and that every method of the manager keeps the map true, proved
  method by method over all its outcomes (`Fine`); that alone gives the first
  two, whatever overlaps.  `Fine` also has the converse: what the broker delivers
  without a refused unsubscribe is in the map (`Sure`), which carries
  `NothingOrphaned` from the map to the broker.  `Alone` adds, as long as requests do not overlap,
  that what the one under way has read is still so (`Present`) and that every
  subscription belongs to the device it should belong to at this point of the
  request (`Titled`); two devices may well have one topic.  `Solo` says that a save
  of the settings which ran by itself has the stored devices in its snapshot, also
  when requests overlapped before it: this is how `Alone` comes back after an
  overlap.  `EnabledIsReached`
  assumes that they do not (`TopicsApart`), which `bemfa_taken` shows it must:
  then the topics in the store and in the requests stay those of one device each,
  overlapping requests included (`Entries`), and no step about one device takes
  the topic of another (`Attended`).
* `ConfigStoreProofs`: `TypeCorrect`, `NeverTorn`, `Hashed`, `HubHasToken`,
  `OnlyARaceLoses`, `PutHeals`, `ConfirmedIsKept`, `TokenSurvives`.  `Migrated`
  says what memory and file are like at each stage of the start, `Held` what a PUT
  has in hand, `Ordered` that file, memory and changes made are in order of age:
  together `IInv`, from which the refinement of `Durable` follows.  `SInv` adds
  where the token is while a PUT runs by itself (`Alone`, step by step) and when
  none is under way (`Settled`).  `TokenSurvives` assumes that LuCI always has a
  token; `config_unset` shows that it must.
* `ProbeRunnerProofs`: `TypeCorrect`, `LastNewsIsCurrent`, `ChangesReportedOnce`,
  `IntervalsAreKept`.  For the first two every step is either calm for a device or
  stores or reports a change of it (`Calm`, `StoreEffect`, `ReportEffect`); `News`
  says where the last change is, `Sums` counts the changes still to be reported
  with the notifications sent.  `Pace` relates the age of a result, of a probe
  under way and of the runner's last probe to the lag of the tick.
* `DeviceActionsProofs`: `TypeCorrect`, `AnswersAreInTheLog`, `GroupsForget`,
  `LogOfActions` (the log stays the bounded log under all of it).  The
  invariant says of a call that each of its results has an entry among those made
  since it began, as far back as the ring goes (`ResultsLogged`); it needs of the ring
  only that adding an entry keeps the others in place (`AddInList`, from
  `AuditRingProofs`).
* `AuditRingProofs`: `RingTyped` and `RingIsBoundedLog`, the refinement of
  `BoundedLog` for every capacity.
* `ClientHostProofs`: `TypeCorrect`, `FilesAreWhole`, `BinaryIsKept`,
  `UpdatesGoForward`, `ConfigIsInForce`, `VersionIsInForce`, `InstallKeepsFields`.  `UpdateOk` says what an
  update relies on at each step (`exe.new` whole before the renames, `exe.old`
  whole between them), `InstallOk` that what is to be written differs from the
  file by flags only, `RunOk` that a service stopped for an update stays down
  until the new executable is in place.  `NewerIsLater` shows that
  `isNewerVersion` is the order of version numbers.

Type invariants are proved, not run: they say nothing a run would add.

Only model-checked: liveness (`ComesOnline`, `GoneGoesOffline`, `ServesAgain`,
`ServiceComesBack`, `Follows`), which the prover cannot do.

## Not modelled

* mDNS, the wake-on-LAN sender, the web front end and the Windows service: see the
  components in `PROJECT.json`.  They keep no state that others read.
* Notifications but for those of the probe, and of those which ones are switched
  on and what becomes of a webhook that fails: it is logged.
* Request decoding, JSON, formatting and logging, and authentication, with the
  exemption of the WebSocket path from it.
* Settings other than token, password and listen address.
* A disk that is full while uci-sync writes (`wakehub-uci-sync:135`): half a file
  would be moved into place.
* NICs and host name of an entry, which a frame still being read of a superseded
  connection may overwrite (`hub.go:221`).  Only the probe reads them; in
  `ProbeRunner` they are those of some client.
* The client's backoff and the pruning of remembered request ids, which is by the
  clock of the process (ten minutes).
* The clock set forward or back under the probe runner, which compares times of
  day, and a device whose probe method is none the prober knows.
* A power loss that takes files the client wrote and did not sync
  (`update.go`, `clientcfg`): a reboot leaves the files of `ClientHost` as they were
  written.

## Plan

Done: links, schedules, devices and MQTT, store and settings with UCI, batches
over the audit log, the probe, the client's host.  Left, in this order:

1. The client's backoff and the pruning of remembered request ids.
2. Reconnecting to the MQTT broker, when its library is part of the sources.
