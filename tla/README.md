# respi in TLA+

respi is the collection of programs that keep the Raspberry Pis of one home
working: a network recovery controller and two service watchdogs (shell, started
by systemd timers), a Homebridge plugin for a Roborock vacuum cleaner with a
patched miio library (JavaScript), and a UDP relay on the home's router (C). This
directory specifies the parts of it that are hard to test, model-checks them with
TLC and proves their safety properties with TLAPS for all values of the constants.

## Inventory

| Component | State it keeps | Operations | What makes it hard |
|---|---|---|---|
| Network recovery controller, `recovery-watchdog/pi-network-recovery-watchdog` | marker files in `/var/lib` (outlive a boot) and one in `/run` | main run (confirm, reset, wait, reboot, retry), guard run | two processes over the same files, kills, reboots, power losses, half-written files, slow probes |
| Homebridge watchdog, `homebridge-roborock/scripts/homebridge-network-watchdog.sh` | restart marker, deferral marker | restart an inactive service | rate limit across boots, recovery in progress |
| OpenVPN watchdog, `vpngateway/openvpn-uk-route-watchdog` | two epoch files | restart on inactive service, wrong route, dead tunnel | epochs without a boot id, clock that falls back, kills |
| miio RPC, `plugin-files/homebridge-xiaomi-roborock-vacuum/miio/lib/device_info.js` | handshake in progress, promise map, last id | `call`, `handshake`, `onMessage` | UDP, timeouts, retries, shared handshake, id rollover |
| Roborock accessory, `index.js` | device, connecting promise, timers, cached state, room selection | connect, ensureDevice, poll, speeds, cleaning, rooms, pause | awaits between test and use, one promise for all callers |
| Vacuum driver and model tables, `miio/lib/devices/vacuum.js`, `models/` | none of their own | commands of the robot, tables | partial failure of two-step commands |
| homebridge-miio platform, `homebridge-miio/.../index.js` | accessories by device id, homebridge's registrations, a polling loop | restore, discover, investigate, register, poll, switch | investigations and polls whose answers overlap, accessories of an older version |
| UDP relay, `relay/tools/asus_udp_relay_nolibc.c` | one client address | forward in both directions | the address is that of whoever sent last |
| Relay watchdog, `roborock-relay-watchdog.sh` | the built binary; on the router the binary, a firewall rule, the process | build, deploy, check, start | every command goes over ssh and may fail, the router forgets everything in a reboot, the rebuild is remembered by one run only |

They interact as follows. The controller's `/run/.../recovery-active` (RUNTIME_ACTIVE)
makes both service watchdogs stand aside; nothing flows back. The accessory
calls the robot through `device_info.js`, over the relay, and the relay watchdog keeps
that relay running from the Pi. `PROJECT.json` lists
each component with its status; the hazards listed there, each at its line, are
what the properties are for.

What makes each component correct:

- controller: a reset needs a confirmed outage; one reboot per incident; the
  boot after it only retries; a marker of an earlier boot is never taken for one
  of this boot; an outage is never left alone; the other watchdogs are released;
- service watchdogs: restarts are spaced and confirmed, and never stop for good;
- RPC: a call that resolves was executed; at most `retries` executions; every
  call is settled; a few lost datagrams do not fail it;
- platform: a device is registered exactly once; the polls show what is so;
- relay: answers get to the socket that asked last; a relay that was lost comes back,
  and it is the latest build;
- accessory: a lost connection comes back and no request waits for ever; fan and
  water are "Custom" together; what HomeKit shows selects what is shown.

## Modules

| Module | Models | Correspondence |
|---|---|---|
| `RecoveryWatchdog` | the controller | `disk` is STATE_DIR, `runtime` RUNTIME_ACTIVE, `proc` the two oneshot processes with the command each is at. One action per stretch of the script between two commands that take time or can be cut off |
| `RecoveryWatchdogProofs` | | theorems about it |
| `HomebridgeWatchdog` | the Homebridge watchdog | `pc` is the test the script is at; service and recovery change between tests |
| `OpenVpnWatchdog` | the OpenVPN watchdog | `failed`, `last` are the ages of the two epoch files |
| `RemoteCall` | abstract: at-least-once call | what `call` promises |
| `MiioCall` | `device_info.js` | one action per event (timer, datagram) and per continuation; `R == INSTANCE RemoteCall` |
| `RoborockConnect` | connection part of `index.js` | one action per stretch between two awaits |
| `SpeedModes` | `speedmodes.js`, `models.js`, the look-ups of `setSpeed`, `changedSpeed` and their water twins | a table is a sequence of names and levels; no state |
| `SpeedSync` | `setSpeed`, `setWaterSpeed` of a robot of `SpeedModes` | one action per stretch between two awaits |
| `RoomCleaning` | `setCleaning`, rooms, zones, pause, `getState`, commands of `vacuum.js` | `op` is the request and the command it awaits; `robot` is the robot itself, `seen` what the accessory last learnt |
| `MiioPlatform` | `homebridge-miio/.../index.js` | `known` is `this.accessories`, `bridge` what homebridge has registered, `round` the list a polling round works on; one action per event and per settled promise |
| `UdpRelay` | the loop of the relay, and the traffic through it | `client` is `client_addr`, empty before `have_client`; `flight` says where the exchange of each socket is |
| `RelayWatchdog` | the watchdog, with `UdpRelay` | `pc` is the ssh or scp command the script is at; `remote`, `rule` and `relay` are the router |
| `HomebridgeProofs`, `OpenVpnWatchdogProofs`, `MiioCallProofs`, `RoomCleaningProofs`, `SpeedSyncProofs`, `MiioPlatformProofs`, `RelayWatchdogProofs` | | theorems about them; those of `SpeedModes` are in `SpeedSyncProofs`, those of the Homebridge watchdog and of the accessory's connection, two unrelated programs, in `HomebridgeProofs` |

Conventions. Shell scripts compute in no time: only commands that wait (pings,
sleeps, traces, `systemctl`) take ticks, and `Tick` lets a tick pass when every
process waits. Wall-clock arithmetic is kept as ages and remaining times, which
saturate at the constant they are compared with. JavaScript runs one
continuation at a time, so an action runs from one await to the next. Definitions
named `Wrong...` are mistakes in the definition after them; no specification
uses them, and `PROJECT.json` ("mutants") says which property each of them breaks.
The histories of the controller (`quiet`, `used`, `forgotten`), of the watchdogs
(`since...`, `seenActive`, `torn`, `undeployed`) and of the speeds (`trouble`) are
written but never read by an action.

### RecoveryWatchdog

A marker is reduced to what a reader of its second line learns: `absent`, `torn`
(the file is there, the line is not), `this` boot or an `earlier` one. The age of
FIRST_FAILURE and LAST_POST_RETRY and the deadline of RECOVERY_ACTIVE are sets with at
most one element, empty when the line does not parse. `write_marker` is split into
its truncation and its contents for the two markers where the difference matters
(RECOVERY_ACTIVE, REBOOT_REQUESTED) when "torn" is among the `Faults`; for the others
an empty file is read like a missing one. All other file operations between two
commands are one step. The traces take time (`TraceTime`), and so does the sync before a reboot: a trace runs
pings, journalctl and a sync. That of a wait that has failed (line 232) runs before the markers
of the recovery are touched, so the guard may meet its deadline there; that of line 316 comes
between the test of REBOOT_REQUESTED and the reading of LAST_POST_RETRY. Only the traces of lines 229 and 333
are left out: no marker of a recovery is there any more or yet, and the process ends right after
them. The guard arm of the script's
`case` has no exit, so a guard that has asked for a reboot runs the main body.
Wherever a probe runs during a reset of the interfaces it may find them down.
Each process is killed when its TimeoutStartSec is over. A reboot is queued and
takes effect later; a crash takes effect anywhere, and may set the wall clock back.

### MiioCall

The timers of the handshake race and of the attempt are set together and fire
together. An attempt that lost its race stays behind with its promise. A datagram
takes a time of `Delay`; one that is lost, or takes a time of `Late`, counts as a
fault, of which there are `MaxLost`. `packet.js` is not in the repository: that a
handshake is stale 120 seconds after the last message is taken from the library
and marked external.

An entry of the map leaves it in `Forget`, when its reply comes; that of an attempt whose
reply is lost stays for ever. `PromisesBounded` says that only these stay: an entry that
no datagram under way can remove is paid for by a lost one. `TimeoutNeedsFaults` says that
a call which gives up has met as many faults as it has retries but one. The one that
is spared is real: a call that leaves a handshake resets it for everybody, so that one
lost datagram can cost another call an attempt too. `FirstIds` are the ids from which
the first call starts, one of them just below the rollover.

### OpenVpnWatchdog

A power loss may empty the two epoch files. The script then computes with the epoch 0,
which makes both ages larger than every limit; the history `torn` remembers it.

### SpeedSync

A call waits for `ensureDevice` first and for the robot then, and either may fail. The
robots of the run have every pair of tables in `models.js`; the water box is configured.
`models/watermodes.js` is not in the repository: its tables are external, and are those
whose names `setSpeed` and `setWaterSpeed` rely on.

### MiioPlatform

Investigations are counted for each device, because the browser announces a device again
that it has lost in between. A call to a switch is executed and answered in two steps,
so that answers come late and out of order. What the world does (events, requests of
HomeKit, hands on the switch, lost answers) is bounded by `Budget`; polls are not.

### RelayWatchdog

One action is one command. A command that does not get through ends the run, because
`ensure_remote_state` then returns 255 and `deploy_remote_binary` fails. Each part of the
check on the router is a command of its own, since the connection may break in between.
Versions stand for binaries and the source. An upload fails as long as the relay runs,
because the router refuses to write into a running program. `ShellListed` is TRUE for a
router whose `ps` lists whole command lines: the shell that ssh starts for the check has the
name of the relay in its own.

### RoomCleaning

The robot is the only part that knows what it does; the accessory learns of it from
getState and from the refresh that follows a command by a second. A command goes
through two steps: the robot executes it (or refuses it, or obeys without an answer in
time), and the refresh settles it, with the clearing of the selection in
`changedCleaning` and after an Off. `activateCharging` is a chain of such commands. What
the robot does with a command is not in this repository and marked external; it moves
on by itself too, as its button and its app let it. Its states are those of `vacuum.js`, of which
"waiting" stands for all that end a cleaning without sending the robot home. `propertyUpdated` says nothing of
the cleaning in the states of `Silent` (paused, error, charging-error, charger-offline), so that what HomeKit
shows stays as it was.

The histories `apart`, `late` and `undone` name what the properties must allow. `apart`: the job began
with other rooms than those selected, or the selection changed while the robot was in error or in
another state than the accessory believed. `late`: an Off has cleared the selection of a job that began
after its app_charge (line 957 runs a second after the answer). `SelectionIsJob` then allows an empty
selection and no other, and a resume of such a job is one without its rooms. `undone`: the robot was
given a job after the app_charge of an Off that is not answered yet.

## Runs

| Run | Checks | Bounds |
|---|---|---|
| `RecoveryFaults` | `TypeOK`, `LaterBootSuppresses`, `GuardServesThisBoot`, `RebootIsRecorded`, `ConfirmedOutage` | one crash, clock falls back, torn markers, failing reboots, both units may be killed in every phase, traces as long as the guard may run (1.7 million states) |
| `RecoveryLiveness` | `DeadlineCoversWait`, `ServicesReleased`, `OutageMetByReboot`, `OutageKeepsBeingRetried` | one crash after which the clock is behind; a reset either takes no time or hangs until main is killed; a grace that just covers the probes of one wait and the trace of its failure; no trace lasts until the guard is killed (391,000 states) |
| `HomebridgeWatchdog` | `WatchdogTypeOK`, `RestartsSpaced`, `EventuallyRestarted` | two boots, a restart shorter and longer than the period |
| `OpenVpnWatchdog` | `TypeOK`, `ConfirmedFailure`, `TunnelRestartsSpaced`, `DeadTunnelRestarted` | two boots, clock falls back, files emptied, restarts that last as long as TimeoutStartSec (137,000 states) |
| `MiioCall` | `TypeOK`, `TimeoutNeedsFaults`, `PromisesBounded`, `AtLeastOnce`, `CallsSettle` | two calls, three attempts each, two lost or late datagrams (enough for a timeout), failing sends, ids that roll over (425,000 states) |
| `RoborockConnect` | `TypeOK`, `NotAbandoned`, `RecoversUnlessSelf`, `RequestsAnswered` | two requests, two lost sockets, at every stage, answers about rooms that can be read or not |
| `SpeedSync` | `TypeOK`, `SettledTogether`, `ShownSelectsItself`, `Settles` | robots with every pair of tables, three requests, calls that overlap and fail (60,000 states) |
| `RoomCleaning` | `TypeOK`, `SelectionIsJob`, `OffEndsCleaning`, `ShownInTheEnd` | one room, two commands of the home or of the timer that overlap, two moves of the robot by itself (757,000 states) |
| `MiioPlatform` | `TypeOK`, `RegisteredOnce`, `SeenInTheEnd` | two switches and a lamp, two calls in flight, two changes by the world (369,000 states) |
| `RelayWatchdog` | `TypeOK`, `NoStaleRelay`, `AnsweredInTheEnd` | two sockets, four faults or new sources at any command (95,000 states) |

Why the bounds are enough. The controller compares each age with one constant, so
windows of two or three ticks have every order of "before", "at" and "after"; probes
and resets take one of several times, so the two processes drift against each other
although their timers elapse as soon as they can. One crash is enough to carry each marker into a later boot, and the reboots
that the controller itself requests are not bounded at all. In `MiioCall` two calls
are enough for one of them to reset the handshake that the other waits for;
`IdLimit` and `Stride` are small so that ids roll over and meet old promises within
a run. In `RoomCleaning` one room is enough for a selection that is empty, that of the
job or another one, and two commands for an Off that meets a start, a resume or
another Off. In `MiioPlatform` two changes are enough for two investigations of one device,
and for a poll that overlaps a hand on the switch. Four faults in `RelayWatchdog` are enough for
a new source whose deployment fails and a reboot or crash on top. Two requests, the poll and the retry timer give four callers of `connect`.
Bounds are named: `MaxCrashes`, `MaxBoots`, `MaxLost`, `MaxDestroy`, `MaxRequests`,
`MaxRunning`, `MaxCalls`, `Budget`, `MaxFaults`. `SpeedSync`, `MiioPlatform` and the relay
runs do not check for deadlock: HomeKit may make no more requests, a platform without
accessories has nothing to do.

### Where code and documents disagree

| Run | What it shows |
|---|---|
| `RelayNeverRestarted` | SOLUTION.md:84 promises that a crashed relay is started again. The check at roborock-relay-watchdog.sh:95 runs in one shell whose command line has the name of the relay in it; a `ps` that lists command lines finds that shell, so the relay counts as running and is not even started after a reboot. `AnsweredInTheEnd` holds in `RelayWatchdog`, where `ps` does not list it |
| `RoborockSelfWait` | index.js:743 promises that a lost connection is recovered. A socket lost inside `initializeDevice` makes it await itself. `RecoversUnlessSelf` shows that of a robot that can be reached, and whose rooms can be read, this is the only way to lose it |

More that no run shows:

- NETWORK-RECOVERY.md:11-12 promises one reboot per incident. The boot after it arms
  RECOVERY_ACTIVE for each retry; when the probes are slow the wait outlasts the deadline,
  and the guard reboots again. TLC finds `OneRebootPerIncident` violated with Confirm 1, Wait
  2, Grace 2, Retry 2, MainLimit 12, GuardLimit 6, ProbeTime {1}, ResetTime, TraceTime and
  SetBack {0}, Period {1}, no crash and no faults; `DeadlineCoversWait` is the condition that prevents it.
- NETWORK-RECOVERY.md:14-16 promises that the guard reboots. Its trace runs between its
  markers and the reboot, inside a TimeoutStartSec of 30 s; killed there it never tries
  again in this boot. TLC finds `OutageMetByReboot` violated when TraceTime has a time as
  long as GuardLimit; it holds in `RecoveryLiveness`, where only main may hang and the guard's trace is shorter.
- A systemctl reboot that fails is not tried again in this boot.
- index.js:1223 and 737: seven modes have stops of the slider at 33, 50, 66 and 83 percent and
  top levels at 32, 48, 64 and 80, so that no stop selects the mode at 32;
  `ShownSelectsItself` asks for a mode at each stop only where the steps are whole.
- homebridge-miio/.../index.js:42 clears the entry of an outdated accessory under its address,
  where no entry is: it stays in the map, is not new when it is found again, and is never
  registered again, although the comment at line 148 promises to "make sure it's in the bridge".
  The model does as the code does; `RegisteredOnce` asks of such an accessory only that it is not
  registered twice, so it holds for the code and for a repaired one.
- index.js:743 again: `getRoomList` and `getRoomMap` (1046-1104) throw on an error reply and on an
  answer of another shape than they expect, for instance an inactive midnight timer without segments. As
  long as the robot answers like that every retry fails, and neither the listeners nor the poll
  are started, although the robot can be reached (`legible`, `Well` in `RoborockConnect`; `NotAbandoned` holds all the same).
- A broken upload of the relay leaves a part of the file, which the check takes for the relay
  (`AnsweredInTheEnd` leaves it out); a rebuilt relay is not deployed again when that failed
  once, for instance because the old one still runs (`undeployed` in `NoStaleRelay`).
- The guard reads the deadline after its probe, and a marker that is gone by then, or
  not filled yet, counts as expired (lines 260-262): it may reboot for a recovery that
  has just ended.
- An empty REBOOT_REQUESTED is neither this boot's nor an earlier one's, and stops
  every later run at line 325.
- The two-minute limit of vpngateway/README.md:18-19 does not count the restarts for
  an inactive service or a wrong route.
- The bands in the comments of speedmodes.js:227-252 are not those that seven modes
  get from line 303 (49% selects Max, not Turbo).
- index.js:1264 and 1272 want both speeds "Custom" or none. Two overlapping calls can
  toggle them for ever, which is why `Settles` asks for calls that do not overlap;
  `SettledTogether` shows that they agree whenever the calls come to rest.
- The room timer is not stopped by an Off or by the end of a cleaning, which both clear the
  selection: it then starts a full cleaning (`RoomTimeout`). No document says what it should do, so
  no property is about it.
- An Off whose refresh comes after a new start clears the selection of the new job (`late` in
  `SelectionIsJob`), and a robot that cannot charge keeps the cleaning shown that was shown before
  (`Silent` in `ShownInTheEnd`).
- An Off that comes before the refresh after a start finds a robot that does not clean,
  and is ignored. A full or zone cleaning that began elsewhere while rooms were selected is
  resumed as a cleaning of those rooms (`apart` in `SelectionIsJob`).

## Fairness

- Watchdogs: weak fairness of the timers' starts, of each process's next command,
  of the kill at TimeoutStartSec and of `Tick`: systemd starts an elapsed timer's
  unit, the kernel runs processes, time passes. `RecoveryWatchdog` adds a queued
  reboot that takes effect. None of the network, the service, the maintenance
  window or the crashes is fair: a property that needs a lasting outage assumes
  it in its premise.
- `MiioCall`: weak fairness of continuations, of timers, of `Deliver` and of `Tick`; a
  loss is itself a step of the network, so nothing forces a datagram to arrive.
- `RoborockConnect`: weak fairness of the initialisation, of the interval, of the
  retry timer and of answers: `CallsSettle` of `MiioCall` shows that every call to the
  robot is settled.
- `SpeedSync`: every call to the robot is settled, for the same reason.
- `MiioPlatform`: weak fairness of the polling loop, a chain of timers, and of the settling of
  each call; a call to a switch that is online fails only at the expense of `Budget`.
- `RelayWatchdog`: weak fairness of the timer, of the script's commands, of requests of the
  accessory (its poll) and of datagrams that are not lost. Faults are not fair, and the
  router is assumed to be reachable in the premise only.
- `RoomCleaning`: weak fairness of `Poll`, an interval that no failure stops, and strong
  fairness of `Polled`: of the polls made again and again some are answered. Nothing
  else needs to happen, not even the end of a command.

## Proofs

`RecoveryWatchdogProofs` proves for all values of the constants, under
`TimesAssumption` alone (the times are natural numbers, the sets of durations are
sets of natural numbers; any set of faults, any number of crashes):

- `TypeCorrect`: `Spec => []TypeOK`;
- `Suppression`: `Spec => []LaterBootSuppresses`;
- `GuardBoot`: `Spec => []GuardServesThisBoot`;
- `Recorded`: `Spec => []RebootIsRecorded`;
- `Confirmation`: `Spec => ConfirmedOutage`, an action property;
- `GuardWaits`: `Spec => []DeadlineCoversWait`, if in addition a probe takes no more than P,
  a reset no more than R (or so long that main is killed in it), a trace no more than T, and the
  grace is longer than R + P * (Wait + 1) + 1 + T.

They all rest on `Invariance`, the inductive invariant
`IInv == TypeOK /\ LaterBootSuppresses /\ GuardServesThisBoot /\ WindowIsQuiet`.
`LaterBootSuppresses` is inductive beside the types: a marker becomes an earlier
boot's only in a restart, which ends all processes, and a recovery that may reboot
begins only when there is no REBOOT_REQUESTED. `GuardServesThisBoot` likewise: the guard
leaves an earlier boot's RECOVERY_ACTIVE at its first test. `ConfirmedOutage` needs the
strengthening `WindowIsQuiet`: the age of a FIRST_FAILURE of this boot never exceeds the
time since the last verdict that would have removed it; without it nothing ties
the number in the file to what has happened. `OnlyConfirmed` shows that of all the
actions only `Confirmed` leads into a recovery that may reboot. Each step lemma has
one step per action; the `...Leaves` lemmas say where an action leaves the process
that takes it. `Recorded` has an invariant of its own, `RequestRecorded`: from the write of
REBOOT_REQUESTED to the reboot the marker is of this boot or torn, as only
`clear_incident` takes it away, and `forgotten` remembers that. `GuardWaits` rests on
`Covered(P, R, T)`: at each command of a recovery the time main has spent since it wrote the
deadline is at most a reset, the probes of the polls made, their sleeps and, at the end, the trace of
line 232. The condition is tight: in `RecoveryLiveness` (P 1, R 0, T 1, Wait 1) it asks for a grace
above 4, and with a grace of 4 TLC finds `DeadlineCoversWait` violated. It
is not always met by the values of the script. With its sleep of 5 seconds as the
tick, the wait is 24 and the grace 9: it is met when probes take a small part of a tick (the model counts them as
none) and a reset and a trace together less than 8 ticks, that is when the trace and the reset before the
wait, its 25 probes and the trace after it together stay below about 40 seconds. It
is not met when each of the 25 probes takes seconds, as pings without an answer do;
"Where code and documents disagree" says what comes of that.

The other modules follow the same plan: an inductive invariant `IInv`, one step per
action of the specification, and the theorems drawn from it. All but two need no more than
the assumption their module makes on the constants; the two, of `MiioCallProofs`, say what more
they need.

| Module | Assumption | `IInv` | Theorems |
|---|---|---|---|
| `HomebridgeProofs`, watchdog | `GraceAssumption` | `WatchdogTypeOK`, `Prompt`, `Remembered` | `WatchdogTypeCorrect`, `HomebridgeSpaced` |
| `HomebridgeProofs`, connection | `ConnectAssumption` | `TypeOK`, `NotAbandoned` | `ConnectTypeCorrect`, `NeverAbandoned` |
| `MiioCallProofs` | `CallAssumption` | `CallOK`, `LeftOK`, `NetOK`, `MapOK`, `NumsOK` (types), `Issued`, `OneLetter`, `ExecutedDone`, `ResultsExecuted`, `PromisesBounded` | `TypeCorrect`, `MapBounded` |
| `MiioCallProofs` | also `EnoughIds` | also `IdsApart` | `CallsImplement`, `TenCallsImplement` |
| `MiioCallProofs` | also `InTime(D)` | also `FaultsCost(D)` | `FaultsNeeded`, `FourFaults` |
| `OpenVpnWatchdogProofs` | `TimesAssumption` | `TypeOK`, `FailedIsYoung`, `RestartIsRemembered`, `Confirmed` | `OpenVpnTypeCorrect`, `FailureConfirmed`, `RestartsLimited` |
| `RoomCleaningProofs` | `RoomsAssumption` | `TypeOK` with `Robots` and `Pending`, `SelectionKept`, `Docked` | `CleaningTypeCorrect`, `SelectionFollowsJob`, `OffIsDone` |
| `SpeedSyncProofs` | `SyncAssumption` | `TypeOK`, `Fitting(modes)`, `Repaired`; `Telling(modes)` | `ShownIsSelected`, `SyncTypeCorrect`, `CustomTogether`, `ShownStays` |
| `MiioPlatformProofs` | `PlatformAssumption` | `TypeOK`, `RegisteredOnce`, `Restored` | `PlatformTypeCorrect`, `OneRegistration` |
| `RelayWatchdogProofs` | `WatchdogAssumption` | `TypeOK`, `Deployed`, `Counted` | `RelayTypeCorrect`, `NoOldRelay` |

Why each strengthening is needed:

- `Remembered`: a restart of Homebridge that would come too early is remembered by a
  marker of this boot that is no older than it, and the script has not got past the
  test of it. A restart writes the marker before it begins, so a kill in between
  loses nothing; only a run that sees the service active removes it.
- `FailedIsYoung`, `RestartIsRemembered`: a clock that falls back only makes the files
  younger, so a file is never older than what it records, unless a power loss
  emptied it (`torn`). `Confirmed` carries both across the write of LAST_RESTART.
- `NotAbandoned` is inductive beside `TypeOK`: each place that gives up an
  initialisation arms the retry or leaves the poll running.
- `SelectionKept` extends `SelectionIsJob` to a robot in error, which leaves that state
  with the job it had. `Docked` says that an Off past app_charge finds the robot on
  its way or in its dock unless it was given another job; `Pending` keeps the commands of an Off in
  their order.
- `Repaired`: fan and water may differ in being Custom only while a call is connecting
  or has sent the remembered mode of its kind. Its proof uses `Fitting`, that every robot
  with water modes has "Balanced" and "Medium", proved for each table of `MODELS`.
- `ShownIsSelected` is about `SpeedModes` alone: for every table of 2 to 101 modes the level shown for
  a mode, the rounded top of its share of the slider, selects that mode again.
- `Telling`: the levels of a table are different and its stops fall on every mode when the
  steps are whole, proved for each table of `MODELS`; `ShownStays` follows with it beside `IInv`.
- `Issued`, `OneLetter`, `ExecutedDone`: an attempt has sent its request at most once, and no more than
  one datagram, the request or the reply, is under way for it. So each execution ends an
  attempt's request, and a call is executed no more often than it has attempts (`Done`
  are those whose request is not under way any more; `Unsent` those still to come).
  An entry becomes an orphan only with its one datagram, and that is lost.
- `IdsApart`: all entries, in the map and on the way, have different ids. It is inductive
  because the ids since the first one are at most `Stride` apart, one for each attempt
  that has sent its request (`Straight`, and `Wrapped` after the rollover). Without
  `EnoughIds` it is false: a late reply then settles another call. The ids of the code
  (10000, steps of 100, five retries) suffice for ten calls from any last id.
- `FaultsCost(D)`: each attempt that is over, or will not end in time, is paid for by a fault.
  `InTime(D)` says that a datagram which is neither lost nor late takes at most D, and that
  the timer is longer than 4 * D, a round trip of the handshake and one of the request; with the
  two seconds of the code, D is below half a second. `Paid` counts the attempts of each
  call against `lost`, with one attempt more after the first fault (`Extra`): the reply to a
  handshake goes to the handshake that another call has begun in between. `Joined` says that
  without a fault all wait for the same handshake, and `Unpaid` that a handshake whose datagram
  is lost, which a call may join later without a fault of its own, comes on top of
  the faults that have paid for the attempts of that call.
- `Restored`: before the launch nothing is investigated, and the accessories restored
  are the ones registered. After it, `RegisteredOnce` is inductive because the answer
  of an investigation looks at the map, not at what was so when it was asked.
- `Deployed`: a whole binary on the router is the latest build, unless a deployment
  failed (`undeployed`) or the script is between the build and the upload. `Counted`
  bounds the versions of the source by the faults.

The refinement of `RemoteCall` by `MiioCall` is proved step by step: `Init` implies `R!Init`, and under
`IInv` and `IdsApart` every action is a step of `RemoteCall` or leaves the outcomes and the executions
alone. The run `MiioCall` checks the same with fewer ids than `EnoughIds` asks for: they are
used again within a run, and for two calls it still holds.

Only model-checked: all liveness properties (fairness and ENABLED are outside the prover). Every other property that a passing run checks
is stated by a theorem. What the runs show beyond the theorems is that the hypotheses hold in
states that matter: the times of `RecoveryLiveness` meet the condition of `GuardWaits`, those of
`MiioCall` meet `InTime(1)`.

## Not modelled

The wall clock never jumps forward within a boot. DEFER_MARKER of the OpenVPN watchdog and
STATE_FILE of the relay watchdog, which only quieten logs, its lock (systemd runs a oneshot
unit once at a time) and a compiler that fails; `enrich` of DeviceInfo; the names and services
of the platform's accessories. Of the accessory: dust collection, the order of the
selected rooms, the reports of errors, `identify` and the services that only read. Duplicated datagrams: the
network of one home does not make any, and a second copy of a reply finds no promise.
Diagnostic programs, installation scripts, radio switches and superseded watchdogs:
straight-line code or pure I/O.

## Plan

1. A composition of the controller with the two service watchdogs over
   RUNTIME_ACTIVE: no service restart for ever suppressed, given `ServicesReleased`.
2. An abstract incident (healthy, confirming, recovering, rebooted, retrying) that
   `RecoveryWatchdog` implements while its deadline covers the wait; the order of
   contradicting commands over `MiioCall`.
3. Proofs: that refinement, and more about the operators of `SpeedModes` and `UdpRelay`.
