# A TLA+ model of Upstream Healer

Upstream Healer watches devices on a home network. When one stops answering at
the address on record it sweeps the LAN for the device's MAC address, records
the address it finds, points the Nginx Proxy Manager (NPM) host that forwards to
the device at it and reloads nginx. This directory models that loop, the web
requests that interfere with it, the sweeps it rests on, and the pages, commands
and notifications around it. TLC checks the models, and TLAPS proves their safety
properties for every size.

## The system

One Python process: a FastAPI application and a background task share one
asyncio event loop and one SQLite file; the command line is a second process on
the same file. Coroutines interleave at every `await`; the calls to NPM (Docker
and MariaDB) are synchronous, so nothing else runs during one.

| Component | State it keeps | Operations | Interacts with |
|---|---|---|---|
| Monitor (`app/services/monitor.py`) | the rows of the cycle, the row in hand, `quiet_active` | `_loop`, `_check_all_hosts`, `_process_host`, `_start_recovery`, `start`, `stop` | database, scanner, NPM client, notifications |
| Database (`app/database.py`) | `hosts`, `host_state`, `events`, `subnets`, `settings`, `notification_channels`, `notification_rules`, `mdns_names` | schema, migration at start | everyone; a connection per request and per cycle |
| NPM client (`app/services/npm.py`) | Docker availability, cached credentials | `get_proxy_host`, `update_forward_host`, `reload_nginx`, lists | monitor, force-scan, forms |
| Network scanner (`app/services/scanner.py`) | none | `find_ip_by_mac`, `run_scan`, `check_host_reachable`, ARP, scapy, nmap and layer-3 sweeps, port scans, names, `list_subnets` | monitor, force-scan, diagnostics |
| Host handlers (`app/main.py`) | locals of one request | add, edit, delete, force-scan, validate | database, scanner, NPM client |
| Notifications (`notifications.py`, `main.py`) | channels and rules | `send_event`, toggles | monitor, handlers |
| Subnets and settings (`main.py`, `scanner.py`) | `subnets`, `suppressed_subnets` | add, toggle, delete, suppress, rescan | scope of a recovery |
| Diagnostic scans (`main.py`, `scanner.py`, `mdns.py`) | `scan_progress`, mDNS names | start, poll | scanner, database |
| Diagnostic log (`diag_log.py`) | one file per scan | append, cap, rotate | scanner |
| Command line (`cli.py`) | none | add, edit, disable, events, telegram | database, from another process |
| Seeder (`scripts/seed_dev.py`) | none | seed hosts, link proxies | database, NPM |

What is hard to get right here: a row read at the start of a cycle is used
minutes later, after other rows' recoveries; a recovery commits its status
before the sweep and its address before the proxy; the two writers of a host's
status have different ideas of the columns that go with it; a background scan
outlives the request that started it; what a sweep hears depends on where the
network lies, and tools fail one at a time; and each of the outside systems
(LAN, Docker, MariaDB, SQLite) can fail between any two steps.

What makes each component correct:

* Monitor: no host stranded in a status nobody handles; recovery only after the
  grace period; a host that stays down is searched for again and again; a device
  that stays up is followed to its address; events tell the truth.
* Host handlers: they leave the tables in a state the monitor can go on from, and
  two that overlap are told so.
* NPM client: what is reported as loaded is loaded.
* Database: no address recorded for the wrong device; an upgrade keeps every row,
  wherever it is cut off.
* Scanner: a MAC is reported only where the device was; no network leaks into a
  search; one network or tool failing hides nothing of the others.
* Notifications: one message per enabled channel, no channel silences another.
* Subnets: the sweep covers what is enabled; a pin means one network for ever.
* Diagnostic scans: every scan ends in a final status; the clock and the ports it
  shows never go back; a record's name wins over an announced one.

## Modules

Three families, each a composition of its parts:

* `Lan` -> `Npm` -> `Store` -> `Monitor` -> `Healer`: healing, and the requests
  in the middle of it.
* `Names`, `ScanLog` -> `DiagnosticScan` -> `Diagnostics`: scans and validations,
  which share the names and the directory of logs. `Sweep` is what happens inside
  a search, of a scan, a validation or a recovery.
* `Startup`, `HostAdmin`, `QuietTime`, `Subnets`, `Channels` -> `Service`.

The families meet in the tables, and each abstracts what it needs of the others:
`Monitor` sees a sweep as one answer or none, as `Sweep` shows it may get
(`RowsAreTrue`: where the device was; `StableIsFound`: not at random);
`DiagnosticScan` sees a sweep as any subset of the devices; `Healer` edits a
record in one step, which `HostAdmin` takes apart.

| Module | Models |
|---|---|
| `Lan` | External: devices that move, leave and stop serving. From the code: what `check_host_reachable` and `find_ip_by_mac` can answer. |
| `Npm` | `proxy_host.forward_host` (`forward`), what nginx loaded last (`loaded`), and the outcomes of the three NPM calls, failures included. |
| `Store` | The tables `hosts` and `host_state`, and the SQL statements several actions share. |
| `Monitor` | The background task. `pc` names the `await` it is suspended at; `batch` holds the unprocessed rows of the cycle, `row` and `newIp` are locals of `_process_host` and `_start_recovery`. |
| `Healer` | `Monitor` with the handlers of force-scan, the edit form and the delete button. `fpc`, `req`, `ipPortOk`, `macIp` are the locals of one force-scan request. |
| `Lifecycle` | Abstract: what the status column promises its readers. |
| `Names` | Pure: the maps of names from `hosts`, mDNS, its cache and reverse DNS, and the two orders in which `apply_hostnames` and `resolve_hostname` prefer them. |
| `ScanLog` | The log files: `_bytes` and the cap, opening, closing, rotation by age. |
| `DiagnosticScan` | `_do_scan` from sweep to completion. `task` holds its locals, `progress` the entry of `scan_progress`, `connected` says whose request still holds its connection. |
| `Diagnostics` | `DiagnosticScan` with `validate_host_record`. |
| `Sweep` | One search: `job` holds its mode, scope, tool, the networks still to do, and the rows so far. Networks, interfaces and routes are constants; the text a tool prints is the set of its rows. |
| `Startup` | `init_db` in every process that calls it, between the commits SQLite makes. |
| `HostAdmin` | Add, edit, disable and delete, statement by statement, against the `UNIQUE` constraint and the monitor's `INSERT OR IGNORE`. |
| `QuietTime` | `_quiet_state` and the columns that remember what was announced. |
| `Subnets` | Rows, suppressed list, pins, and a recovery that reads them one after the other. |
| `Channels` | `send_event`, channels and rules. |
| `Service` | The five parts above. |
| `MC...` | Small instances for TLC. |
| `MonitorProofs`, `HealerProofs`, `AddressProofs` | Proofs about the first family. |
| `DiagnosticsProofs`, `SweepProofs` | Proofs about scans and validations, and about searches. |
| `ServiceProofs`, `HostAdminProofs`, `SettingsProofs` | Proofs about the parts of `Service`: `Startup` and `QuietTime`; `HostAdmin`; `Subnets`, `Channels` and the type invariant of the whole. |

A behaviour of `Service` is of one of its parts (`part`), the others at rest: the
product of five state spaces would show nothing more, as each part keeps the
rows and columns its own decisions rest on. Where one program acts on what another
writes, one module has both and they interleave freely: the monitor and requests,
scans and validations, scans and edits, command line and application, and an
upgrade and the hosts added and removed beside it (`Startup`). Two things cross
the parts all the same, and are left to the limits below: the upgrade resets
`sqlite_sequence`, from which `HostAdmin` takes its ids, and a host exists before
any quiet time of it does, which `QuietTime` takes for granted.

Actions and code of the first family, in `monitor.py` unless said otherwise:

| Action | Code |
|---|---|
| `BeginCycle`, `EndCycle` | `_loop` 45-61, `_check_all_hosts` 82-91 |
| `TakeHost` | 93-153: state row, quiet window in mode "delete", no address |
| `CheckHost`, `MarkHealthy`, `MarkDown`, `LeaveDown` | 155-218 |
| `BeginRecovery`, `Scan`, `GiveUp` | 220-288 |
| `Probe`, `Adopt`, `Reject` | 303-350, 410-430 |
| `UpdateProxy`, `Reload` | 349-401 |
| `MonitorRestarts`, `ProcessRestarts` | `start`, `stop`, the `except` of `_loop`, `lifespan` in `main.py` |
| `ForceRequest` .. `ForceCommit` | `main.py` 577-682 |
| `EditHost`, `DeleteHost` | `main.py` 443-567, 570-574 |

In the other modules actions bear the names of the functions they model, or of
the step of it; `PROJECT.json` gives the lines of every definition.

An action is what happens between two awaits or two commits. Conventions that
keep the state small:

* A timestamp is only ever compared with the grace period, so `unreachable_since`
  is `Null`, `"fresh"` or `"old"`, and `GraceElapses` ages a stamp together with
  the copies of it in the monitor's rows.
* A missing `host_state` row is the status `"absent"`, which the join turns into
  `"unknown"`; a deleted or disabled record keeps its id with another `mode`.
* `report` is the outcome of the latest recovery of a host, as it is handed to
  `send_event` for its `updated` or `failed` event. Events themselves, with their
  texts, are left out. So is the commit of an event just before the status it
  announces. The await of the last events of a recovery (`monitor.py:358`-408) is
  one with the wait for the next host: the recovery touches nothing of its own
  after it, and what else may happen there (requests, a crash, an exception that
  ends the cycle) may happen just the same at `"next"`.
* What `run_arp_scan` filters at its end, on the rows of all networks
  (`scanner.py:452`), `Sweep` filters network by network: the filter looks at one
  row at a time, and nothing reads the rows in between.
* `port or 80` and `last_check_at`, `last_seen_at`, `updated_at` are left out:
  nothing branches on the timestamps.
* A line of a tool is a row `[ip, mac]`, of a log its length, of a table its key
  columns; a form is a member of a small set.
* Variables called history (`seen`, `held`, `lost`, `past`, `kept`, `alone`, `raced`,
  `crossed`, `announced`, `doubt`, `steady`) are read by properties only.

The synchronous stretch from `update_forward_host` to the end of `reload_nginx`
is two actions, because it can fail in between, but `MonitorBlocks` and
`ForceBlocks` keep every other coroutine out of it. The devices do not wait.

## Runs

| Run | Instance and bounds | What it checks |
|---|---|---|
| `monitor_twins` | 1 device, 2 records with a proxy each; missed sweeps and connects, restarts at every await; quiet hours; `MaxStimuli` 3 | `TypeOK`, `StampInv` |
| `monitor_live` | 2 devices on different ports; no failures; 3 stimuli; fair | `Heals`, `DownIsSearchedFor`, `ImplementsLifecycle` |
| `requests` | 2 devices; force-scan, edit, delete; 3 stimuli | `HealerTypeOK`, `RecoveringIsInHand`, `NginxServesDatabase`, `UpdatedMeansServing` |
| `force` | 2 devices on the same port; force-scan; all failures and restarts; 2 stimuli | `AddressesBelongToDevice` |
| `edits` | 2 devices; edit, delete; 3 stimuli; fair | `DownIsStamped`, `FollowsLifecycle`, `DownIsSearchedFor` |
| `scan` | a scan and a validation, 2 responders, `MaxTime`, `MaxEdits`; fair | `LogsBounded`, `CompleteIsWhole`, `CuratedNameIfConnected`, `ValidationNamesRecord`, `ElapsedIsHonest`, `PortsStayShown`, `ScanCompletes`, types |
| `sweep` | 6 networks (two local, tunnel, routed, tiny, huge), 3 interfaces, a device and a gateway, 5 scopes, `MaxMoves` 1; fair | `RowsAreTrue`, `NothingLeaks`, `StableIsFound`, `SearchEnds`, types |
| `service` | see below; fair | the 13 properties of `Service`'s parts |

`MaxStimuli` bounds the events from outside: moves, outages, requests, restarts.
What the healer does in answer is not bounded, and cycles go on for ever. Three
addresses let a device move while the other keeps its own, and let one move to
the address the other just left. Two hosts are the least for which a row waits
in the batch during a recovery, and for which siblings exist. Three events allow
a move, a second move during the recovery, and a request or an outage between
them.

Bounds of `service`, and why they are enough: two processes start (`Procs`), any
number of times, over one column that survives the migration and the two that do
not, and two `HostRows` come and go before, between and after their statements, of
which the copy may see any; two `Requests` beside the monitor make every race of two statements; a day of
three `Hours` has windows before, after and across midnight and empty ones, and one
death (`Deaths`) falls between an event and its column; two networks (`Cidrs`), one
of which may be unplugged (`Loose`), one open edit of the suppressed list (`Edits`)
and `MaxSubnets` 2 rows ever, which is what a reused id takes; three `Visits`
(add, delete, add) and one call of `send_event` (`Sends`).

The properties of healing, with what would break them:

* `RecoveringIsInHand`: a path of the recovery that does not set the status back.
* `StampInv`: `DownIsStamped` (a down host without a stamp is skipped for ever,
  `monitor.py:203`) with what it rests on: rows of the batch that wait behind a
  recovery never disagree with the database in status and stamp.
* `FollowsLifecycle`, `ImplementsLifecycle`: the monitor implements `Lifecycle`
  under the mapping `status <- StatusOf`, `since <- hstate.since`: recovery only
  of a host that was down longer than its grace period, one at a time, and every
  one comes to an end.
* `UpdatedMeansServing`: an `updated` event for an address nginx does not use.
* `NginxServesDatabase`: two callers whose updates and reloads interleave.
* `AddressesBelongToDevice`: an address recorded or proxied for a device that
  never held it (`seen` is the history of addresses of a device).
* `Heals`: the purpose of the program. It holds when no other device answers at
  an address and port the device has left, and no record gets its address from a
  sibling; see the known limits.
* `DownIsSearchedFor`: a host that stays down is swept for again and again.

Of scans and sweeps:

* `ElapsedIsHonest`, `PortsStayShown`, `CompleteIsWhole`: an entry replaced instead
  of updated, ports lost at the end or by a failure, an unfinished scan that looks
  finished.
* `CuratedNameIfConnected`: an announced name that wins over a record.
* `ValidationNamesRecord`: the same at the address entered in a validation, when
  what answers there has a MAC with a record. It promises nothing of an address
  where nothing answers with a MAC, nor of the one where the entered MAC answers.
* `LogsBounded`: overlapping jobs whose logs outgrow the cap or are not rotated.
* `ScanCompletes`, `SearchEnds`: a failure after which nobody finishes.
* `RowsAreTrue`: a gateway or tunnel peer that answers ARP for a whole network.
* `NothingLeaks`: responders of networks nobody asked for.
* `StableIsFound`: a tool, or another network, whose failure hides the device.

Of the service:

* `RowsKept`: an upgrade, cut off anywhere, that loses a host or brings one back;
  a host added by the other process after the copy was made, and overwritten.
* `StartFailsForAReason`: an upgrade that cannot be repeated. The one reason for which a start fails alone is the `hosts_new` of an
  earlier one that was cut off.
* `ErrorNeedsRace`, `FreshHostsStartUnknown`, `HostsAreWatched`: a request that ends
  in a 500 although nothing else happened, a new host that inherits the state of a
  deleted one, a host whose request died between its two rows.
* `QuietAsDeclared`: the window across midnight.
* `EventsTellQuietTime`: a start or an end of quiet time that is never announced, or
  undone without an announcement, whatever is edited or skipped between two cycles.
* `EffectiveScope`: networks that change while the scope of a recovery is put
  together: what was in scope throughout is swept, and what was deleted throughout
  is not.
* `PinnedNowhereElse`: a pin, by network or by row, that comes to mean another network;
  a recovery that leaves the pinned network before its row is gone.
* `EveryChannelTried`, `NotifiedOnce`, `EventsGetOut`: a failing channel, orphaned
  or doubled rules, a call that does not return.

Runs that TLC must find violated, each with what a document or comment says:

| Run | Shows |
|---|---|
| `restart` | A restart during a recovery leaves the status `recovering`, for which `_process_host` has no branch. README.md:11 |
| `names` | A scan reads the names over the connection of a request that is over, gets none, and shows announced names instead of curated ones. scanner.py:210 |
| `wedged` | A search that is given no networks drops what arp-scan heard elsewhere when one sweep fails. scanner.py:514 |
| `migration` | The migration drops the subnet columns the same start has added; until the next start hosts cannot be added or edited. database.py:117 |

Deadlock is checked where the system never rests (healing); scans, searches and
requests end, and their runs say `CHECK_DEADLOCK FALSE`. Each property of a
passing run has a mutant of the code that it catches; the mutants stand before
the definition they change.

## Known limits of the code

What the models show besides, stated in the hazards of `PROJECT.json`:

* A force-scan that fails on a healthy host writes `unreachable` and leaves the
  stamp `NULL` (`main.py:638`); the monitor then skips the host in every cycle
  (`monitor.py:203`). Hence no force-scans in the run `edits` and in
  `DownIsStampedWithEdits`.
* A record that is given its address by another record of the device is healthy
  there, and the proxy of its own is never updated (`monitor.py:337`).
* Another device that answers at the old address keeps a host healthy for ever
  (`monitor.py:155`).
* After a reload that failed, or a restart between the update of the proxy row and
  the reload, the next recovery to the same address finds the row right and reports
  `updated` without reloading (`monitor.py:357`). Hence no such faults in the runs
  and theorems of `UpdatedMeansServing`.
* nginx may refuse a reload, and the exit code is dropped (`npm.py:240`).
* `resolve_hostname` says it mirrors `apply_hostnames` ("live mDNS (by IP, then by
  MAC)", `scanner.py:1879`), and tries live mDNS by MAC, the cache, then mDNS by IP.
* `main.py:1155` says that pins to a deleted subnet become `NULL`; foreign keys
  are not enforced, and they stay. `ResolvePin` treats them as none.
* A record added with `--grace-minutes 0` waits the default ten minutes, as zero
  counts as missing (`monitor.py:98`).
* An exception in one host's check ends the cycle for those behind it, and one that
  comes back in every cycle starves them (`monitor.py:59`).
* `scan_progress` keeps every scan for the life of the process (`main.py:1503`), and
  the scapy fallback of `find_ip_by_mac` runs on the event loop (`scanner.py:817`).
* The failure of scapy on one network is reported to nobody (`scanner.py:760`).
* A change of the mode of quiet time while the window is active is never announced:
  the query has two columns named `quiet_mode` (`monitor.py:84`), the name gives the
  configured one, and that is compared with itself (`monitor.py:113`).
* When every local network has been deleted on the settings page and no row is
  enabled, the list is empty, `subnet_ids or None` makes it `None` (`monitor.py:273`),
  and the recovery sweeps all of them; `scanner.py:1424` says that they "are excluded
  from scans". Hence the second half of `Everywhere`.
* A validation shows the address at which the entered MAC answers under the name of
  the device at the entered address (`scanner.py:1965`).
* The migration resets `sqlite_sequence`, so that the id of a host deleted before
  may be given again (`database.py:192`). `HostAdmin` begins after it.
* Of two overlapping requests to suppress a network one is lost (`main.py:1175`).

## Fairness

`FairSpec` assumes weak fairness of the monitor's steps and of each host's grace
period. The first holds because every await of the task ends: connects have
timeouts, sweeps are subprocesses with limits, and the loop sleeps for a finite
time between cycles. The second is that clocks go on. `FairHealerSpec` adds weak
fairness of a force-scan's steps, which the event loop gives every task. No
fairness is assumed of devices, operators or failures; liveness properties are
conditional on a device staying up or down. Weak fairness of the monitor as a
whole is enough because it is one sequential task: a cycle takes every row of its
batch, in whatever order, before it ends.

`DiagSpec` assumes weak fairness of the steps of a scan's task, `SweepSpec` of the
search: every tool runs under a timeout. `ServiceSpec` assumes it of the monitor's
two steps in `HostAdmin` and of a call of `send_event`, whose providers have
timeouts. Requests need not go on, nor need a process that starts.

## Proofs

Every invariant and every action property of the passing runs is proved, for any
network, fleet, number of requests and bound on events, under the hypotheses named
here. The theorems:

| Theorem | States |
|---|---|
| `MonitorTypeCorrect`, `HealerTypeCorrect` | `[]TypeOK`, `[]HealerTypeOK` |
| `RecoveringIsInHandHolds`, `RecoveringIsInHandWithRequests` | `[]RecoveringIsInHand` if nothing interrupts the task (`"crash" \notin Faults`), without and with requests |
| `StampInvHolds` | `[]StampInv` for the monitor alone, failures and restarts included |
| `DownIsStampedWithEdits` | `[]DownIsStamped` with edits and deletions, without force-scans |
| `FollowsLifecycleHolds`, `FollowsLifecycleWithEdits` | `Lifecycle!SafetySpec` is implemented if nothing interrupts the task: by the monitor, and with edits and deletions as well |
| `NginxServesDatabaseHolds`, `UpdatedMeansServingHolds` | `[]NginxServesDatabase` and `UpdatedMeansServing` when NPM does what it is asked |
| `AddressesBelongToDeviceHolds` | `[]AddressesBelongToDevice` under every failure, if no record is edited and no two devices share a proxy |
| `SweepTypeHolds`, `NothingLeaksHolds` | `[]SweepTypeOK`, with no network before a tool that was not asked for, and `[]NothingLeaks`, on any machine |
| `RowsAreTrueHolds`, `StableIsFoundHolds` | `[]RowsAreTrue`, `[]StableIsFound` on a machine that is `Routed` |
| `DiagTypeHolds`, `LogsBoundedHolds`, `CompleteIsWholeHolds`, `CuratedNameHolds`, `ValidationNamesRecordHolds` | the invariants of scans and validations |
| `ElapsedIsHonestHolds`, `PortsStayShownHolds` | their two action properties |
| `RowsKeptHolds`, `StartFailsForAReasonHolds` | an upgrade, in any number of processes, among any hosts |
| `QuietAsDeclaredHolds`, `EventsTellQuietTimeHolds` | quiet time, in a day of any number of hours |
| `ErrorNeedsRaceHolds`, `FreshHostsStartUnknownHolds` | the forms, with any number of requests |
| `PinnedNowhereElseHolds`, `EffectiveScopeHolds` | the scope of a recovery, while networks come and go |
| `EveryChannelTriedHolds`, `NotifiedOnceHolds` | any number of calls of `send_event` |
| `ServiceTypeHolds` | `[]ServiceTypeOK` |

The hypotheses are what the code needs: the run `restart` refutes what the first
would say with interruptions, force-scans what `DownIsStampedWithEdits` says, and
an edited record may hold any address the operator types. A record whose MAC is
edited while its recovery sweeps for the old one does get the other device's
address, because `Adopt` writes by host id (`monitor.py:311`). `Routed` says that
a network for which `ip route get` names no interface lies on the segment of the
interface scapy takes by itself, or that nobody there answers for others. A
machine with a default route has no network without an interface, so that it is
`Routed`; `MCSweep` assumes it of its machine, which TLC evaluates. Without it
nothing stops scapy from sending to a tunnel: `subnet_is_l3_only` calls a network
without an interface `unknown` and lets the sweep go on.

Proofs also rest on the named assumptions of the modules, each of which TLC
evaluates for its instances: that `Null` is no member of the sets it stands beside,
that what is finite in a database or on a wire (records, devices, requests) is
finite, and what the schema demands of the rows there at the start.

The arguments:

* `TypeOK` and `RecoveringIsInHand` are inductive, the second relative to the first.
* `DownIsStamped` is not inductive: `MarkDown` and `GiveUp` decide by the row in
  hand. `StampInv` adds that the rows in hand and in the batch are current, that
  a host in recovery is stamped `"old"`, and that only unreachable hosts have a
  fresh stamp. It holds because the monitor is the only writer of status and
  stamp once force-scan is excluded, and a host is taken from the batch before
  its state is written.
* `FollowsLifecycle` needs both: `StampInv` for the row's word on status and
  stamp, `RecoveringIsInHand` for one recovery at a time.
* `NginxServesDatabase` needs that the two callers are never inside the blocking
  stretch together, which the guards of `HealerNext` maintain.
* `AddressesBelongToDevice` needs the provenance of every address in flight:
  `AddressInv` says it of the rows of the batch, of the row in hand, of the
  address found, and of the request. `seen` only grows, so that a late answer is
  still an address of the right device.
* `UpdatedMeansServing` adds `UpdateInHand`: inside the stretch the row of the
  proxy holds the address of this recovery. Where the row was right beforehand,
  `NginxServesDatabase` says that nginx serves it.
* `SweepInv` says of the job that what is left is of the plan of its tool
  (`Planned`), that what was collected is within the scope (`Confined`) and true
  (`TrueAt`), and that what was asked for stays. A step of a search builds its next
  job in stages: a network is done with, the tool is through, scapy takes over or
  the search ends. The parts are therefore predicates of a job, and one lemma takes
  each stage. `NothingLeaks` and `RowsAreTrue` follow.
* `StableIsFound` adds `StableInv`: as long as nothing has moved, the network of the
  target is still before the tool, or the target is in what was collected, or the
  tool has missed it.
* `DiagInv` says of each scan how far its entry is (`EntryOK`), that the names read
  and shown are of the record (`NamedOK`), that the rows still to scan and those
  scanned are all the rows (`CountOK`), and that a scan that is over without an
  error has nothing left (`WholeOK`); of each validation whence its names are
  (`CheckOK`). Two things the code relies on silently turn up in it: rows that get
  their ports must stay different from each other (`Keyed`), or the count would
  pass the number of rows; and an address whose ports are shown is in the map
  that is written over them at the end (`Mapped`), or ports would go with it.
  The action properties are of a relation between an entry and the next (`Grows`)
  which every step is in.
* `LogsBounded` needs that a log is of a job that has begun, and that no file is
  listed twice: rotation then takes away the oldest that is not open.
* The proofs about `Service` begin with one lemma: its steps are, for each part,
  steps of the part or stutters.
* `RowsKept` needs that the draft of the transaction that is open is the table
  (`DraftIsCurrent`): nobody else writes until it is committed or given up.
* `StartFailsForAReason` needs that a process that is alone in `init_db` still finds
  missing what it has read as missing (`AloneIsAlone`), and that `hosts_new`, once
  it has failed somebody who was alone, is never taken away (`SpareStays`).
* `QuietAsDeclared` rests on `QuietStateRoundTheClock`: the comparisons of
  `_quiet_state` are membership in an interval modulo the day.
* `ErrorNeedsRace` needs what a request knows between its lookup and its write
  (`LookupHolds`), as long as no commit fell in between, and that the state row of
  a host just inserted is free (`StateIsFree`). `FreshHostsStartUnknown` is that
  state rows have ids up to the last one given.
* `EffectiveScope` is that what was so all through the reads is so now, and that each
  table that was read agrees with it (`ReadAgree`). `PinnedNowhereElse` is the same
  where the row of a pin is gone (`GonePinsStayGone`), and else that an id is never
  given again and that its row keeps its network (`SearchedAsPinned`).
* `EventsTellQuietTime` is that an update follows every comparison, and that only the
  comparison announces.
* `NotifiedOnce` needs `OneRuleEach`: a channel has one rule for a type, and a
  request about to insert rules finds none, as long as no two overlapped. Tries are
  then counted by rows (`OneTryEach`). `EveryChannelTried` needs neither.

The inductive invariants hold of the instances of the runs as well, with TLC.
A proof found a flaw in the models: branches of `Sweep` that were
written as `CASE` with guards that overlap, of which TLC takes the first and a
prover any. They are `IF` now.

Only model-checked: liveness (`Heals`, `DownIsSearchedFor`, `ScanCompletes`,
`SearchEnds`, `HostsAreWatched`, `EventsGetOut`, the fairness part of
`ImplementsLifecycle`), which is out of the prover's reach. Nothing is proved of
what the runs that expect a violation refute.

Worth proving next: what a force-scan leaves true of the stamps, that is
`DownIsStamped` for the hosts that no force-scan has touched; and the answers
`Monitor` takes from a sweep (`FindIpByMac`) as an abstraction of `Sweep`.

## Not modelled

* Texts of messages, pages and templates, delivery over the network, ARP and mDNS
  packets, XML of nmap, service detection: presentation and network I/O.
* `models.py` (three declarations), `config.py` (environment variables).
* `scripts/seed_dev.py`, `ship.sh`, `batcave_logs.sh`: development and deployment.
* Docker availability and credentials cached by the NPM client: `Npm` lets every
  call fail at any time, which includes a client that has given up.
* The daily clean-up of events and the two numbers of the settings form, which
  nothing that is modelled reads.
* A stored quiet time that is no time (`monitor.py:437`): the time inputs of the
  page send none, though the server does not check. It would end every cycle at
  its host, as an exception in one host's check does in general.
