# VPNToris: models and proofs

VPNToris brings up several VPN tunnels at once, each with its own routes and
DNS domains, and keeps the rest of the host's network as it was. The program
has two long-running halves: a *controller* that runs as the user and serves
the tray, the command line and the desktop apps over HTTP, and a *privileged
helper* that runs the VPN engines and changes routes and resolvers. This
directory holds TLA+ models of both, the TLC configurations that check them,
and proofs about both.

Paths below are relative to `src/vpntoris-tray/` unless they start with `src/`.

## 1. Inventory

### The parts, their state and operations

| part | code | state | operations |
|---|---|---|---|
| transaction manager and journal | `internal/nativeengine/{manager,journal,types}.go` | one JSON file per transaction; the `Transaction` object of each running operation | `Activate`, `Deactivate`, `Recover`, `rollback`; `Begin`, `Save`, `List`, `Remove` |
| plans and backends | `internal/nativeengine/plan.go`, `internal/netbackend/` | none of its own: the host's routes and resolvers | `BuildNetworkPlan`, `Apply`, `Undo`, `Owned`, the commands of Linux, macOS and Windows |
| helper sessions | `internal/nativehelper/{service,interface,process_*}.go` | `sessions` map; per session state, transaction, interface, process, log file | `Start`, `SendOTP`, `Stop`, `Reset`, `Status`; goroutine `monitor` with `applyNetwork` and `finish` |
| OpenVPN management | `internal/nativehelper/openvpn*.go` | management connection, challenge, stored credentials | goroutine `manageOpenVPN`, prompts and answers |
| IPsec daemon | `internal/nativehelper/ipsec.go` | one charon and one password FIFO for all IPsec sessions; a configuration file per profile | `startIPSecLocked`, `ensureIPSecDaemonLocked`, `stopIPSecLocked`, idle stop; goroutines of `swanctl --initiate` and of the daemon |
| helper IPC | `internal/helperipc/`, `internal/fortihelper/` | none | one request for each connection; `Validate` |
| controller | `main.go`, `native_*_unix.go` | `connectionIntent` (names, busy, profiles), profile files, prompts, progress | HTTP handlers, `connectVPNWithFailover`, goroutine `monitorConnections` |
| profile file, history, traffic, analytics | `main.go` | `profiles.json` under `configMu`, `history.json`, traffic samples, statistics with a file | `upsertConfig`, `deleteConfig`, `recordHistory`, `monitorTraffic`, `saveAnalyticsLocked`, requests to clear |
| parsing and views | `main.go`, `native_common.go`, `native_*_unix.go` | none | `parseRoutes`, `parseFlows`, route check, `buildProposals`, `overrideOpenVPNRemote`, `withDNSServerRoutes`, the requests of the four protocols |
| OpenVPN sanitizer | `internal/openvpnconfig/` | none | `Sanitize` |
| front ends | `cmd/vpntoris-tray/` (tray in Go, GTK window in Python) | menus, one flag for all dialogs, passwords through the credential store | add, edit, delete and connect a profile |
| credential store | `internal/credentials/` | keyring of the platform, `credentials.json` | `Write`, `Read`, `Delete` |
| engine supervisor, manifests | `internal/nativeengine/{supervisor,manifest}.go` | one process | `Start`, `Wait`, `Stop`; `LoadEngineManifest` |
| helper process, repair command | `cmd/vpntoris-native-helper/`, `cmd/vpntoris-service/` | none | recover, then serve; recover from a second process |
| others | `routerhelper/`, `cli/`, `swift/`, `src/scripts/`, small commands | see section 8 | |

### How they interact

- Tray, CLI and apps call the controller over HTTP. Every handler runs in a
  goroutine of its own beside `monitorConnections`; all share the maps of
  `connectionIntent` under one lock that is held for single accesses only.
- The controller asks the helper over a local socket or pipe, one request for
  each connection. Any request may fail, before or after it was served.
- The helper serves a request under one mutex. The `monitor` goroutine of each
  session and, for OpenVPN, `manageOpenVPN` take the same mutex for their
  updates only; in between they read logs and sockets and run commands.
- `monitor` calls `Manager.Activate` *without* the mutex once the engine has
  reported its interface; `Stop`, `Reset`, a failure and `finish` call
  `Manager.Deactivate` with it.
- The manager calls the backend, which runs `ip`, `resolvectl`, `route` or
  PowerShell, or writes files under `/etc/resolver`.
- IPsec sessions have no `monitor`. `Start` brings the shared charon up, loads
  the profile and leaves a goroutine waiting for `swanctl`; `SendOTP` writes
  into a FIFO that the exchange inside charon reads, with the mutex held.
- Tray and window each hold passwords in a credential store, and give them to
  the controller with the connect request. Both work on the same keyring and
  the same `credentials.json`, and on the controller's profile file through
  its API.
- Goroutines of the controller share three files: profiles, history,
  statistics.
- At start-up the helper rolls back every transaction in the journal, and only
  then serves. The service manager starts it again when it fails.

### What is hard, and what makes each part correct

- **Manager.** A crash, a failing write or a failing command can fall between
  any two accesses. Correct: whatever is on the host is claimed on disk; a
  transaction without a file has left nothing behind; a helper that serves has
  started clean; recovery comes to an end.
- **Backends.** Two profiles, the host's own entries and dying interfaces meet
  in the same tables, and the three platforms add and remove by different
  keys, and a removal may fail without anybody hearing of it. Correct: profiles
  are independent, whatever the program has put there is accounted for by a record
  or by such a removal, and recovery takes only what a record claims.
- **Sessions.** State is checked under the mutex and used after it was let go.
  Correct: one engine for each profile, no transaction lost, a connected session
  has its routes, no session that looks alive without a goroutine to end it,
  stopped means released.
- **Controller.** The loop reads the intent, asks the helper and acts in three
  steps while handlers run. Correct: a dismissed profile stays down, a wanted
  one is tried again, one attempt at a time, no mark is left behind.
- **IPsec.** One daemon and one FIFO for all sessions, and a result that
  arrives when its session may be stopped, replaced or without a daemon.
  Correct: a connected session is in the daemon the service holds, one daemon
  at a time across restarts, no session loses its channel, no secret stays
  behind, a negotiation ends.
- **Front ends.** Handlers wait in dialogs for minutes while others run;
  passwords live in stores that fail by themselves, and two processes rewrite one
  `credentials.json` without a common lock. Correct: no password without a
  profile, a read gives what was written last, no flag sticks; where the two
  processes undo each other these fail, and the properties say exactly where.
- **Files.** Several goroutines, three disciplines (a lock and a rename; none;
  a lock, a delay and a lazy load). Correct: no edit lost, the last events in
  order, nothing counted twice, what was once saved is not written over unread.
- **Requests.** The controller builds what the helper judges by rules of its
  own. Correct: exactly the sound profiles are accepted.

`PROJECT.json` lists the hazards one by one at their lines, each with the
properties that would catch it going wrong or a note saying why none does yet.

## 2. Modules

    WriteAheadLedger            what the journal promises
        ^ implemented by
    TransactionManager          manager.go, journal.go
        ^ extended by
    NetBackend                  plan.go, netbackend/

    HelperService               nativehelper: requests, monitor, manageOpenVPN
    IpsecDaemon                 nativehelper: ipsec.go
    Controller                  main.go: handlers, monitorConnections

    ProfileRegister             what the profile file promises
        ^ implemented by
    Records                     main.go: profiles, history, traffic, analytics

    OpenVPNConfig               openvpnconfig, overrideOpenVPNRemote
        ^ extended by
    Requests                    native_*_unix.go, fortihelper, parseFlows

    Desktop                     tray, GTK window, credentials

    *_proofs                    theorems and proofs of the module in their name
    MC*                         instances for TLC

**WriteAheadLedger** is the abstract specification: a set of claimed changes
and a set of changes on the host. A record may be rewritten as long as it
claims what is there; a change is made only when it is claimed.

**TransactionManager** has one step for each access to disk or backend, so that
`Crash` falls between any two. `journal` is the files, `memory` the objects,
`pc` and `at` the place of each operation and its loop index. `Save` is one
step: the code writes a temporary file and renames it, so the record is the old
or the new one. An error after the rename (the directory cannot be synced)
leaves the new record behind an error, and the model has that outcome. A failing
`Apply` or `Undo` may have done its work or not. Records that cannot be parsed
are the failing outcome of `Start`. The states of a mutation, the order of the
loops, which errors are returned and which are dropped, are those of the code.

**NetBackend** extends the manager by what its mutations do: `host` is the set
of routes and resolvers, `link` the tunnel interfaces. `LinuxAdd`, `DarwinAdd`,
`WindowsAdd` and the three `...Removes` are the commands as updates of that
set; for example `ip route replace` takes the place of a route of the same
destination, `resolvectl` sets servers for a link whatever the domain, and the
Windows rules are recognised by domain and comment. `Undo` drops the error of
its command, so it always succeeds, and each such removal may have done nothing;
`MaxSilent` bounds how often that happens and `left` is the history of the entries
left so. `Owned` looks at the kind only, as the code does. The host has entries of
its own for the same destination, link and domain, the resolver file of macOS
included, which the program's file of that name takes the place of.

**HelperService** has one action for each request and each critical section of
the two goroutines. Sessions are numbered by `Start`, and a session's number is
its engine's interface. `Activate`, `RecordTransaction` and `Connect` are three
steps because the code takes, releases and takes the mutex again. The log file
belongs to the profile and is truncated by `Start` while an older engine may
still write; `EngineUp` lets either report be the first. `Activate` and
`Deactivate` are single steps: their insides are TransactionManager. `Activate`
succeeds, fails and is rolled back, or fails with a rollback that fails too, which
leaves a record on disk and no session that has it (`abandoned`). `Release` is the
loop of `Reset` over the sessions as well as the single release of the others: of
the sessions to release any subset may fail. `StoreConnection` stands between the
dial of `manageOpenVPN` and its reading, since the session may have ended
meanwhile; `ReadLine` also reads what a dead engine has left in the socket's
buffer. `late` names the sessions such a prompt has put to wait after `finish`
had settled them.

**Controller** has one action for each critical section of `connectionIntent`
and one for each request to the helper. The helper is a state per profile that
moves on its own and may restart; a request may fail with or without having
been served. `asked` and `crossed` are history variables: what the user asked
last, and whether something was in flight at that moment.

**IpsecDaemon** has one action for each critical section of `service.mu` and
one for each thing that happens outside it: charon ends, `swanctl` returns, the
exchange opens the FIFO. `mutex` is a variable because two requests keep the
lock while they wait, `Start` for the socket of the daemon and `SendOTP` for a
reader. Every step of `Start` may fail, with what it leaves behind: a daemon told
to end, a file that was written half (`WriteFails`, `LoadFails`). `fifo` holds the
session that made the FIFO now at the path; `asks` the one an exchange has open,
which may be an older one that is no longer at the path. `Crash` keeps processes
and files and forgets the rest. `late`, `crossed`, `leftover` and `strays` are
history variables that name the exceptions of the properties.

**Desktop** has a task for each handler that is open; its `pc` is the place
between two dialogs, requests or accesses to a store. `store` picks the platform
and what the probes have found: the keyring with a file behind it (`hybrid`), the
file alone (`file`), the tray on the file and the window on both (`mixed`: the tray
decides once, at its start, and the window tries `secret-tool` each time), or
Windows. An access is what the code makes of it: `AccessKeyring`, then
`LoadFile`, then `PutFile`, which writes the *whole* file from what was read
before. The tray's handlers hold a mutex from the reading to the writing
(`MutexFree`); the window is another process and does not know of it, so it may
come in between, and the two may even rename each other's temporary file
(`Collide`, `GiveUp`). On Linux one task is the window's, which does not take part
in the dialog flag; there the tray only connects and adds, because its menus are
flat (`menu_linux.go`). A failing keyring may have done its work or not. Four
history variables name what may then go wrong: `behind`, the names the other
process has changed in the file since it was read; `clean`, the accesses under way
that went well and had no company on their name; `unclean`, the names whose last
write was not a clean one or was undone in the file since; `unsettled`, the names
whose profile went away behind somebody's back. The pre-shared key of a profile
takes the same way one call later and is left out. A menu that is deleted and shown
again gets further goroutines in the code; the model has one for each item.

**Records** is three small systems in one module, of which `part` picks one, so
that their states add up and do not multiply. `os.WriteFile` is two steps, a
truncation and a write, since a crash or another goroutine may come in between. A
history file that cannot be read is taken for an empty one, and the next write makes
it so. `counter` is the engine's and falls back to zero with each session; `sample`
is what `monitorTraffic` has read before it takes the lock. The statistics are
loaded by whoever uses them first (`UseStatistics`), and `MonitorFlows` may save
them without having loaded them; a restart empties the memory and loads nothing.
`recorded` is the list of events the history file is to hold the last of, from the
last thing on that could lose any (`overlap`); `kept` is what the statistics file
has once held, and `lost` names the steps that give it up.

**OpenVPNConfig** and **Requests** are pure. A text is a sequence of lines of the
classes that `Sanitize` and `overrideOpenVPNRemote` tell apart, over a set `Words`
of tags, directives and gateways. Beside the code's functions stands how OpenVPN
itself reads a text (`Read`, `Directives`, `Gateways`; external): inline blocks
end with the tag they began with, and a directive may have leading dashes, which
neither of the code's functions looks for. An address is a row of `Bits` bits and a
route an address with a prefix length, written with host bits or without. The
limits of the helper on routes, domains and servers are the constants `MaxRoutes`,
`MaxDomains` and `MaxServers`. `phase1` and `phase2` are lists of ciphers, of which
some are broken names that no parser takes; the five numbers of an IPsec profile
(`Timing`) are unset, below what the controller raises them to, good, or above what
the helper takes; identities are texts, and fragmentation and the DPD action are as
in the file. A profile may have no host. `networks` is what `parseFlows` finds in the
text of the routes: it takes spaces for separators too, which `parseRoutes` does
not. `Requests` has a step only to look at one profile after the other: `Connect`
builds, validates and sends. Its properties state what a sound profile is without
the functions of the code, and compare.

## 3. Runs

| run | question | result |
|---|---|---|
| `manager` | does the journal cover the host through every crash and failure, and does recovery end? | holds |
| `net_backend` | are disjoint profiles independent on all three platforms, is everything left on the host accounted for, and does recovery take only what a record claims? | holds |
| `net_shared_route` | does that go for two profiles with a destination in common? | no, finding 1 |
| `net_foreign_file` | does recovery spare a resolver file of the host's own on macOS? | no, finding 2 |
| `service` | one engine per profile, no lost transaction, no connected session without its routes, no stranded session, with and without the management goroutine; do negotiations end, stops release, and does that goroutine leave? | holds |
| `ipsec` | is a connected session served, is there one daemon, does nobody take a channel or leave a secret, do negotiations end? | holds |
| `ipsec_stop_others` | is a negotiating profile left alone when another is stopped? | no, finding 3 |
| `controller` | does a dismissed profile stay down and a wanted one get tried, one attempt at a time? | holds |
| `controller_reset` | does a reset stop everything? | no, finding 4 |
| `records` | is no edit lost, the history complete, nothing counted twice, nothing saved written over unread? | holds |
| `requests` | is exactly the sound profile accepted, with its servers routed, one gateway in the engine's text, and its flows shown under it? | holds |
| `desktop` | no password without a profile, no stale read in either process, no stuck dialog flag? | holds, but for names where the two processes undo each other |

Type invariants are proved (section 5) and not repeated in the runs.

### Bounds, and why they are enough

- `manager`: two transactions, two mutations each, three failures. Two
  mutations distinguish the order of undoing and a failure in the middle of a
  plan; two transactions distinguish what one recovery does to each; three
  failures allow a crash, a failing write and a failing command in one history,
  or a crash during the recovery from a crash. The safety properties are proved
  for every value.
- `net_backend`: two profiles with one route and one domain each, plans of four
  mutations (process, interface, route, domain), all three platforms, host
  entries for the same destination, link and domain (on macOS the resolver file of
  the first profile's domain), two failures and beside them one removal that fails
  unheard. An entry conflicts with at most one other at a time, so two profiles and
  the host's own entry show every pair. `HostIsAccounted` and `RecoveryTakesClaimed`
  are proved for every number of silent removals.
- `service`: two sessions, which are one for each of two profiles that read stdin,
  or two of one such profile, so that an old session and its successor overlap, or
  one of an OpenVPN profile with its management goroutine (`MaxMixed`: once a
  session is of OpenVPN there is one at most, since that goroutine touches nothing
  of other sessions); one failure. The safety properties are proved for any mixture.
- `controller`: one profile, one connect request and two reconnect goroutines.
  Profiles share nothing but the loop and the reset; two goroutines are what it
  takes for two attempts at one profile to overlap.
- `ipsec`: two profiles, both with a second factor, so that they compete for the
  FIFO; two sessions, of two profiles or of one twice; two daemons, the second of
  which takes the place of one that was dropped, lost or left by a crash; one
  failure, which may be a crash. Safety is proved for every value.
- `desktop`: two names make a rename and let one process undo the other's change of
  another name; a password or none makes an old and a new answer, as none typed over
  one is the case of an older answer left behind; two handlers make a race, and one
  of them is the window's on Linux; all four combinations of stores; one failure of
  a store or a request. Names are symmetric; the properties are invariants, so the
  symmetry is sound. Safety is proved for every value.
- `records`: three goroutines on each file (the third enters while two overlap), a
  history of two entries of four events, three sessions of two bytes, two failures:
  a session that starts lower than the last sample, a restart in between, a failing
  read or save.
- `requests`: addresses of two bits, so that prefixes of each length, host bits,
  overlaps and the whole space occur; limits of three routes, one domain, two
  servers and seven lines, each of which is reached and passed. The profiles vary
  one group of fields at a time around a good one (routes, domains and servers;
  credentials; identities and authentication of IPsec, its options and its ciphers;
  the text; two profiles with up to two routes), because the code's checks do not
  relate fields of different groups. The texts are all those of up to four lines of
  ten kinds, and without a host of up to two: a block, a directive in it and its end
  need three, and one more gives a second remote. Holds of every file, by proof.
- The violation runs have the smallest constants that show the behaviour, most
  of them without any failure at all.

`CHECK_DEADLOCK FALSE` stands in every configuration because each system may
stop: all transactions or sessions of the bound are used up, or nobody asks for
anything.

### Properties worth a word

- `JournalCoversEffects` relates disk and host, not memory and host: it is what
  makes a crash harmless. `LedgerSpec` says the same of steps.
- `HostIsAccounted` says what that comes to on the host itself, where a removal may
  fail unheard: an entry of the program is claimed by a record or is one such a
  removal has left; and of those a route, and on Linux a resolver, goes with its
  tunnel. A resolver left so on macOS or Windows stays until another record
  claims the same one.
- `RecoveryTakesClaimed` is what recovery does promise on all platforms. That it
  spares a foreign resolver file is what the repository says; it does not
  (finding 2).
- `ServingStartsClean` is why the helper may exit after a failed recovery: it
  never serves on top of leftovers.
- `RecordIsOwned` says that a transaction on disk is always in the hands of a
  goroutine that will still release it, whichever of `Stop`, `Reset`, a failure
  and `finish` ran between `Activate` and the entry of the transaction. Together
  with `StopReleases` it shows that a stopped session, which may still have its
  transaction for a while, has it released in the end.
- `ConnectedHasRoutes` is what an old session's late release could break: records
  and rows are per session, so it does not, unless the old session has read the
  *new* engine's interface from the log they share. That exception is in the
  property, and in section 6.
- `LiveIsWatched` excepts a session that a prompt puts to wait after its engine's end
  has been handled (`late`). With OpenVPN that can happen; the property says that it
  is the only way.
- `ConnectedIsServed` is what makes the end of a daemon visible:
  `waitForIPSecDaemon` fails the connected sessions, which is right only if these
  are in that daemon. The idle stop looks at connected sessions so as not to break
  it, and does not look at others, which is finding 3. The exception (`late`) is a
  success that was waiting for the mutex when its daemon was dropped.
- `NegotiationEnds` of IpsecDaemon excepts one state by name, `Hangs`: `SendOTP`
  holds the mutex and nobody has the FIFO open that it writes to. That is what the
  code can do; the property says that it is the only way.
- `ChannelStays` shows that of the many places that remove the FIFO none hits a
  later session of the same profile.
- `SecretsHaveProfile` and `LastWrittenIsRead` are about three pieces of state that
  no transaction ties together: the profile file, the keyring and the file behind
  it, of which two processes rewrite the last as a whole. Their exceptions are the
  steps in which the code does leave something behind (a store that fails, a writer
  beside another on one name, a file written back from before the other process
  changed it), recorded for each name when they happen; the next clean write of the
  name ends the exception. What is left to show is that every other order of
  accesses, by both processes and in all four combinations of stores, is harmless.
- `FlagFollowsDialogs` holds although the flag is not a counter, because nothing
  ever sets it but a dialog that will clear it. The price is that it may be clear
  while a dialog is open (`nested`).
- `TotalsAreReal` would be false if the first sample after a start counted; that
  it does not is also why bytes moved between two sessions are never counted.
- `HistoryComplete` has no permanent exception: a failing read, an overlap or a
  write that was cut off may lose what was there at that moment, and from then on
  the property holds of what the file has.
- `StatisticsKept` is about the lazy load: everyone who adds to the statistics loads
  them first. `monitorAnalyticsFlows` does not when it finds no flows and saves all
  the same, which after a restart writes an empty map over the file; that step is
  among those that `lost` names.
- `AcceptedIffSound` has both directions: what is accepted is sound, and what the
  controller builds from a sound profile is never refused. A sound profile is one
  within every check of `Validate`: the limits on routes, domains and servers, the
  identities, fragmentation and DPD action, and the numbers, of which one that is
  too low is raised and one that is too high refused. The second direction found the
  deviations on requests in section 6.
- `DismissedStaysDown` holds of a profile for which nothing was in flight when
  it was dismissed; with something in flight it does not (finding 4 for reset).
- `BusyHasCall` is what keeps a wanted profile from never being tried again:
  the mark is only ever held by an attempt that will clear it, even when a reset
  has cleared it and a second attempt has set it again. The second attempt's
  mark is then cleared by the first, which is why `SingleReconnect` excepts
  profiles dismissed during an attempt.

## 4. Fairness

- Manager: the code between two accesses runs on, and the helper is started
  again: `Restart=on-failure`, `RestartSec=2`
  (`src/scripts/linux/vpntoris-native.service:16-17`) and `KeepAlive`
  (`src/scripts/macos/native-helper.plist:16`). Failures are bounded by
  `MaxFaults`, so the liveness properties say: once failures stop.
- Service: the goroutines run, and the monitor's deadline passes. That an
  engine told to terminate does terminate is an assumption about the engines;
  the code sends the signal and, on Unix, nothing stronger. No fairness is given
  to requests, to `SeeInterface` or `EngineUp`, nor to engines that were not
  told to end. `ReaderEnds` has strong fairness: once the engine has gone, the
  scanner still gives the lines in the socket's buffer, and there are only so many.
- IPsec: the code under the mutex runs on; writer and reader of a FIFO meet;
  `swanctl` gives up at its timeout (`ipsec.go:61`). `InitiateDone` has strong
  fairness: it waits for the mutex, which other requests may take again and again,
  and Go's mutex hands itself to a waiter of more than a millisecond. No fairness
  is given to requests, to exchanges, or to the daemon.
- Records, Desktop, Requests: safety only. That the statistics come to be saved is
  not claimed: the loop that would see to it skips its save when the command that
  lists the flows fails (`main.go:670`), which it does on every system without
  `/usr/sbin/lsof`.
- Controller: goroutines run on, and polling ends at its deadline (50 s, or 190 s
  where the user has to answer). That a request to the helper returns is an
  assumption: the client has no read deadline (`native_forti_unix.go:166`), so
  it returns because the helper answers or drops the connection. No fairness is
  given to the user, to the helper or to engines.

## 5. Proofs

The proof modules are checked by TLAPS for every set of transactions, plan
length and number of failures, for every set of profiles, domains, destinations,
devices and host entries, for every number of sessions, daemons, requests and
goroutines, and for every set of names, passwords, versions and handlers, and for
every file of profiles. They rest on the assumptions the modules name: transactions
are numbers, bounds are naturals, a profile's routes and domains are sequences, the
host's own entries are on other devices than the tunnels, no profile has the name
that stands for none, the handlers are finitely many, and the user's calls are not
the monitor's.

**The manager.** The properties that matter are not inductive: that the journal
covers the host survives a rollback only because the object in memory knows at
least what is on the host, which holds of `Activate` only because of where the
loop stands. `ManagerInv` is the conjunction that is inductive, by parts:
the shape of files and loop indices (`InBounds`, `FileShape`), the journal
covers the host and so does memory (`EffectsCovered`, `MemoryKnows`), the intent
is on disk before the backend is called (`IntentJournaled`), what both loops
have established so far (`ActivateProgress`, `RollbackProgress`), and what
recovery knows of the files it has not come to (`RecoveryTracks`). There is one
lemma for each action; a first lemma shows that an operation touches its own
transaction only, so each argument is about one. From `ManagerInv` follow
`TypeCorrect`, `WriteAhead`, `ReleaseIsComplete`, `ActivationIsDurable`; the
action properties `CleanStart` and `RollbackOrder`; and `LedgerRefinement`, in
which every step of the manager is a `Rewrite`, an `Acquire`, a `Release` or a
stutter of the ledger.

**The backends.** Every step of the composition is a step of the manager or
leaves the manager alone, so `ManagerInv` holds of it (`NetManagerInvariant`).
`NetInv` adds that every entry on a tunnel comes from a mutation that was made and
not undone, or was left by a removal that failed unheard (`HostIsExplained`); that
what lives and dies with a device is on one that is up (`LinksCarry`); that the plan
being walked is the one that was built (`PlanIsWalked`, `PlanIsBound`); and that what
a rollback has yet to undo during recovery is what the file says
(`RecoveryFollowsFile`). From it `NetAccounted`: every entry of the program is
claimed on disk or is such a leftover, whatever destinations the profiles share; and
`NetTakesClaimed`: recovery takes nothing away that no record claims, and on Linux
and Windows nothing of the host's own. Both hold on every platform, for every
`MaxSilent`, and without hypotheses.

`ActiveInstalled` is about profiles that do not meet (`SeparateNetworks`): of two
profiles neither device is shared, nor a route on Linux and macOS, nor a domain on
macOS and Windows. A route on Windows belongs to its interface, and so do the
servers of a link on Linux, so there they may be shared; elsewhere sharing them
is finding 1. `DestinationsAreFree` excludes a route of the host's own on macOS,
where `route add` replaces nothing. `InstalledInv` is the invariant: while
`Activate` runs, what it has behind it stands on the host (`InstalledSoFar`, over
the positions `Behind` it), a transaction begins when its interface is there
and an interface that has gone does not come back (`LinkCameFirst`), and what stands
on the host is the host's own or in somebody's plan (`HostIsPlanned`), so that neither
another profile's additions nor its removals hit it. Silent removals do not matter
here: the theorem holds for every `MaxSilent`.

**The sessions.** `RecordIsOwned` and `NetworkIsJournaled` are about the gap
between `Activate` and the entry of the transaction, and hold because a session
activates once and because record and row go together. `ServiceInv` says so: a
session that has not activated has neither record nor transaction
(`BlankBeforeActivate`), the transaction it has is the one on disk
(`TransactionIsOnDisk`), and a number not yet given out has no goroutine
(`UnusedIsBlank`). For `SingleEngine` it says that an engine nobody has told to
end is that of the listed session and that session has not ended
(`RunningIsListed`), so that `Start`, which looks at the listed session only,
looks at the right one. `ConnectedHasRoutes` needs that a session has to do with one
interface only, the one its monitor has read (`HasItsInterface`), and that the routes
it has set up stand from `Activate` on, also before it says that it is connected
(`RoutesStand`): an activation replaces the rows of its own interface only, and a
release takes only the rows of the record it has (section "The interface of a session
and its routes"). `LiveHasMonitor` needs that the management goroutine comes with the
monitor (`ReaderHasMonitor`), and is inductive because the one step that revives a
session after `finish` is the one that enters it in `late`. All this is proved for any
set of OpenVPN sessions among the others.

**The controller.** `ControllerInv` adds to the three invariants that an attempt
is marked as long as it runs and that the profile the monitor is about to try has
none, both for profiles that were not dismissed in between
(`AttemptIsMarked`, `ExaminedIsIdle`): the monitor reads the mark, asks the
helper and acts in three steps, and it is the second fact that carries the
reading over to the acting.

**The IPsec sessions.** `SingleDaemon` needs to know what `Start` has established
while it waits with the mutex: in the middle of a start no other daemon runs, and
a profile is loaded only into a daemon that is held (`HeldRunsAlone`).
`ConnectedIsServed`, `ChannelStays` and `SecretsHaveSession` need that a session
which negotiates or is connected is the listed one of its profile and has been
loaded (`LiveIsListed`), that what is listed belongs to its profile
(`ListedIsOwn`), that a profile that starts has no live session
(`StartingHasEnded`), that a password is sent only by one that still negotiates
(`SendingIsLive`), and that numbers not given out stand for nothing
(`UnusedIsNew`). `IpsecInv` is their conjunction; there is one lemma for each
action, `Crash` among them.

**The front ends.** `SecretsHaveProfile` speaks of names nobody is at work on, and
becomes inductive by saying what those at work will do: a name without a profile
has no password, or a handler is about to delete it, or its last write was not a
clean one (`CleanOrCleaned`); who is about to write one does so for a name on file or
one that went away behind its back (`WritesForProfile`). `LastWrittenIsRead` is not
inductive by itself. `StoreInv` adds what an access knows between its steps
(`AccessInv`): it belongs to a handler that has come to the stores; while it is clean
it has its name to itself and the keyring has no other password than the one it
writes; and what it has read of `credentials.json` is what the file holds, but for
the names in `behind`. And of two accesses between reading and writing one is the
window's (`OneAtATime`), which is what the tray's mutex is worth.
`FlagFollowsDialogs` needs that the set of handlers is finite.

**The files.** `ProfilesAreRegister` is a refinement: the goroutine with the lock
has the only draft, and what it is about to rename is one edit of what is on disk.
`NothingCountedTwice` bounds memory and file by the last sample: what was moved is
at least what was counted and what the current session has moved beyond the sample.
`HistoryKept` says that a goroutine that is alone with the file has in hand the last
entries of what is recorded (`WritesLast`), for every limit, with reads and writes
that fail. `SavedIsKept` says that once loaded, memory has at least what the file has,
and that before it is loaded it is not saved (`StatisticsInv`).

**The requests.** Here nothing happens over time: `AnswersHold` says that the
answer is the one to the profile asked for, and the rest is about what the
functions compute, for every file of profiles. All of them are folds over
sequences. The library's induction theorems take an operator as a parameter,
which none of the provers can instantiate; the proofs say the same about sets:
a set of sequences that contains the empty one and with each sequence those longer
by one element contains them all (`SeqInduction`, from the well-foundedness of the
naturals, `WFMin`). A fold is a recursive function on sets of places;
`FoldIsDefined` shows that it exists, `FoldIs` that what the library chooses is
that function, and `FoldlEmpty` and `FoldlAppend` that it has the two equations one
expects. Each fold of the model then has a lemma `...Recurs` with its equations, and
the rest is induction:

- `ServersRouted` and the half of `AcceptedSound` about routes:
  `WithServersExtends` says that the profile's routes stay in front, each server
  gets its route and no route is added that is there, so the request repeats a
  route only if the profile does, and its length is the number of its networks.
- `AcceptedSound` compares, for each type of profile, building and validation
  with soundness (`ConnectsIffSound`, from `RoutesSound`, `GatewaySound`,
  `IPsecSound` with `ProposalsSound`, and `OpenVPNSound`). For a text it needs that
  what was sanitized passes again: scanning a result again changes
  nothing (`ScanAgain`), and the settings appended are removed or kept the same way
  each time (`ScanSettings`, `SanitizesAgain`).
- `EngineTextTame`: the scan and OpenVPN agree line by line on the block they are
  in (`ScanAgrees`); in a text without the word `remote` in a block and without
  dashes (`Clean`) the override leaves the profile's gateway as the only one
  (`KeptNames`, `PrependNames`, `OverrideNames`).
- `FlowsFollow`: the list of all routes, its matches and the best of these are
  what their names say (`AllFlowsAre`, `MatchesAre`, `BestIs`); without a conflict
  the best match is the only longest one (`OneLongest`); and for an address that is
  no server's, the installed routes that cover it are the configured ones
  (`HitsAre`).

Their assumptions: `Bits` is positive, `MaxRoutes`, `MaxDomains`, `MaxServers` and
`MaxLines` are naturals, `Malformed` is neither an address nor a network, `Words`
has the words the code names, and `Files` are sequences of profiles.

**Only model-checked.** Liveness: `RecoveryTerminates`, `OperationsTerminate`,
`NegotiationEnds` (of both modules), `StopReleases`, `ReaderLeaves`, `KeepsTrying`
and `CallsEnd`, because fairness and ENABLED are beyond the prover. All safety
properties that the passing runs check are theorems, one of them under hypotheses
that are needed and named above (`ActiveIsInstalled`). No module has RECURSIVE
operators, with which the prover loses its arithmetic.

## 6. Findings

1. **Shared destinations** (`net_shared_route`). Two active profiles with one
   destination in common: on Linux `ip route replace` moves the route to the
   second tunnel and the first, still reported active, has lost it. The
   DNS servers of a profile are routed too, so a server two customers use
   suffices.
2. **Foreign resolver files** (`net_foreign_file`). On macOS recovery of a mutation
   that was journaled and never applied deletes `/etc/resolver/<domain>` whoever
   wrote it (`netbackend/mutation.go:67`): `Owned` looks at the kind, and `Undo`
   removes the file of that name. `README.md:102` of the repository says that
   recovery removes only resources whose ownership can be verified.
3. **Idle stop of the daemon** (`ipsec_stop_others`).
   `stopIPSecDaemonIfIdleLocked` (`nativehelper/ipsec.go:226`) counts connected
   sessions only. Stopping one IPsec profile, or the failure of one, kills the
   daemon in which another still negotiates or waits for its password.
4. **Reset and reconnects** (`controller_reset`). A reconnect attempt that has
   started and not yet asked the helper survives a reset, and its tunnel comes
   up afterwards.

### Known deviations without a run of their own

Helper (`internal/nativehelper`, `internal/netbackend`, `internal/nativeengine`):

- *Silent removals* (`command.go:45`). `Undo` drops the error of its command: the
  mutation counts as undone, the journal entry goes, the route stays.
  `HostIsAccounted` excepts what was left so by name (`left`).
- *Stop during set-up* (`service.go:480`). `Stop` between the last look at the
  session and the end of `Activate`: the profile says stopped and has routes and
  a transaction until its engine is reaped (`StoppedHasNoRecord` states that it
  has not). A stop between the entry of the transaction and the last step of the
  set-up leaves `connected` on a session whose engine was told to end, until it has.
- *Failed rollback* (`service.go:476`). An `Activate` that fails and whose own
  rollback fails leaves a record no session has; nothing takes it away before the
  next start of the helper (`RecordIsOwned` excepts it under the name `abandoned`).
- *Shared log* (`service.go:565`). Sessions of one profile share a log. A session
  restarted while the old engine still ends can read the old interface's name
  (`ConnectsOnOwnInterface`); and an old session whose engine ended before it was
  set up can read the new engine's, activate its routes on it, and with its own
  end take the new session's routes away (the exception of `ConnectedHasRoutes`).
- *Late prompt* (`openvpn.go:53`). A prompt read before the engine ended and
  handled after `finish` puts the dead session to `waiting-otp`; `Start` then
  answers that the profile is already running (`LiveIsWatched` excepts it under the
  name `late`). A prompt that comes again after the set-up has no deadline: the
  session says that it waits although it is connected (the exception of
  `NegotiationEnds`).
- *Blocking password* (`service.go:365`). `SendOTP` opens the FIFO while it holds
  the mutex: without a reader the whole helper waits with it. `NegotiationEnds` of
  `IpsecDaemon` excepts that state under the name `Hangs`.
- *Secrets by identity.* charon picks a shared secret by the local identity: two
  IPsec profiles with one local ID can be given each other's.
- *Names and directories.* One unreadable file makes `List` fail for all
  (`journal.go:118`); a removal is not followed by a sync of the directory
  (`journal.go:133`); a DNS rollback names an interface whose name the kernel may
  have given away (`dns_linux.go:22`).

Controller (`main.go`, `native_*.go`):

- *IPsec counts as connected early* (`native_ipsec_unix.go:70`). `Start` of an
  IPsec profile is not waited for: the routes are shown as ready and the history
  says connected while the exchange is going on. With reconnects on, the monitor
  (`main.go:1269`) starts it again, is told that it is already running, and
  shows it as failed.
- *Requests.* The numbers of an IPsec request that are too low are raised silently;
  the helper's pattern refuses capitals in proposals the controller accepts, and an
  empty authentication mode; `parseFlows` splits on spaces where `parseRoutes` does
  not, and attributes flows by all profiles, connected or not, without the /32
  routes of their DNS servers (its IPv6 networks are not modelled); a text just under
  1 MiB passes in the controller and fails in the helper, for the lines the sanitizer
  has added; a `remote` inside an inline block is replaced or left by
  `overrideOpenVPNRemote` as if it were a directive.
- *Files.* Two recorders of history at once lose entries, and cleared ones may
  come back; a history that cannot be read is taken for empty and written over
  (`main.go:1199`). The file of statistics is written in place, and a crash in the
  middle loses it; one that cannot be read is taken for empty; and the loop over the
  flows, when it comes first after a restart and finds none, writes an empty map over
  it (`main.go:666`). Where `lsof` is not at `/usr/sbin` that loop never saves.
  `HistoryComplete` goes on from what the file has after such a step;
  `StatisticsKept` excepts them under the name `lost`.
- *Dead or unused paths.* `gatewayState.Active` is never set, so the order of the
  candidates never changes; `setSystemRoutes` is never called to enable a route;
  the OpenVPN connect deadline of 50 s does not look at `TwoFactor`.
- *Delete and rename* (`main.go:1183`, `main.go:1410`). The action "delete" leaves
  the intent and the cached password; a profile renamed while its tunnel is up
  leaves the tunnel without a profile.

Tray and GTK window:

- An edit with an empty password field reads the old password first; when the
  keyring fails there, the edit writes the empty one (`app.go:317`).
- The GTK window's rename leaves the old name's password and gives the new name
  none (`gui_linux.py:1163`).
- `credentials.json` is read, changed and written by two processes without a common
  lock (`gui_linux.py:264`, `store_linux.go:41`): a save or deletion of one undoes
  what the other has changed meanwhile, so that a deleted password may come back and
  a new one be lost (`behind`); both use one temporary file, so that one may rename
  what the other has half written.
- A tray whose probe of the keyring failed at its start keeps to the file while the
  window uses the keyring (`store_linux.go:18`, `gui_linux.py:233`): what the window
  has put into the keyring then hides what the tray writes. `SecretsHaveProfile` and
  `LastWrittenIsRead` except these names (`unclean`) until a clean write.

## 7. Plan

Done: the components of section 1 that are marked as modelled, the core of those
marked partly, and the proofs of their safety properties. Next, in order:

1. **OpenVPN credentials**: which secrets are sent to which prompt and when they
   are cleared, with static and dynamic challenges.
2. **Repair**: a second process that recovers the journal beside a serving
   helper, as a second instance of the manager on the same files.
3. **Plans in normal form**: `BuildNetworkPlan` with sorting and the removal of
   duplicates, CIDR and mask conversion.
4. **Statistics by hour and day**, with their expiry, on top of the totals of
   `Records`.
5. **Composition** of controller and sessions through the request protocol, in
   place of the black box that `Controller` has for the helper.

## 8. Not modelled

- **Repair command**: recovers from a second process; planned, see above.
- **Supervisor and manifests** (`nativeengine/supervisor.go`, `manifest.go`): no
  caller outside their package and tests, so no execution of the program reaches
  them.
- **Router helper of macOS**: nothing turns its routes on any more, only its
  cleaning requests are reachable.
- **`renderSwanctlConfig`**: only a test calls it. **`gatewayCandidates`**: decides the
  order of attempts from a state nobody sets.
- **`store_other.go`**, the credential store in memory: on the platform it is built
  for the tray exits at once.
- **Status requests**, which only read; prompts and progress, which are shown and
  steer nothing in the modelled handlers; PAC proxies.
- **Command line and Swift app**, and the tray's handlers for disconnect, OTP, logs
  and reset: further clients of the same requests, that is, the
  nondeterministic user of `Controller` and `HelperService`.
- **Text**: formatting, parsing and the wording of output, except where a property of
  `Requests` or `OpenVPNConfig` is about it.
- **Single-shot commands** (`vpntoris-vpnc-script`, `vpntoris-browser-open`,
  `vpntoris-native-client`), paths, platform data, and the build and packaging
  scripts.
