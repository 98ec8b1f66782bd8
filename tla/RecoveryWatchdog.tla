--------------------------- MODULE RecoveryWatchdog ---------------------------
(***************************************************************************)
(* The network recovery controller of one Raspberry Pi,                     *)
(* recovery-watchdog/pi-network-recovery-watchdog.  Two systemd timers      *)
(* start the same script, "main" without an argument and "guard" with the   *)
(* argument guard; each is a oneshot unit, so there is at most one process  *)
(* of each, but the two overlap freely.  They share nothing but marker      *)
(* files: those of /var/lib outlive a reboot, the one of /run does not.     *)
(*                                                                          *)
(* Wall-clock arithmetic is modelled by ages and remaining times: the code  *)
(* only ever compares now - epoch with a constant, so an age saturates at   *)
(* that constant.  A marker remembers whether its boot id is the current    *)
(* one.  One tick of Tick is one unit of the time constants.                *)
(***************************************************************************)
EXTENDS Integers

CONSTANTS
  Confirm,     \* FAIL_CONFIRM_SECONDS
  Wait,        \* RECOVERY_WAIT_SECONDS; RECOVERY_POLL_SECONDS is one tick
  Grace,       \* RECOVERY_GUARD_GRACE_SECONDS
  Retry,       \* POST_REBOOT_RETRY_SECONDS
  MainLimit,   \* TimeoutStartSec of the main unit
  GuardLimit,  \* TimeoutStartSec of the guard unit
  Period,      \* ticks between two starts of a timer's unit (30 s and its slack)
  ProbeTime,   \* how long one network_status may take (its pings time out)
  ResetTime,   \* how long the trace and the reset of start_recovery may take
  TraceTime,   \* how long any other trace, or the sync before a reboot, may take
  SetBack,     \* how far the wall clock may fall back over a crash (no RTC)
  MaxCrashes,  \* bound on the power losses and hardware-watchdog resets
  Faults       \* which of "torn" and "rebootFails" may happen

ASSUME TimesAssumption ==
  /\ Confirm \in Nat /\ Wait \in Nat /\ Grace \in Nat /\ Retry \in Nat
  /\ MainLimit \in Nat \ {0} /\ GuardLimit \in Nat \ {0}
  /\ Period \subseteq Nat /\ ProbeTime \subseteq Nat /\ ResetTime \subseteq Nat
  /\ TraceTime \subseteq Nat /\ SetBack \subseteq Nat
  /\ MaxCrashes \in Nat
  /\ Faults \subseteq {"torn", "rebootFails"}

VARIABLES
  up,          \* a configured link passes every check of iface_reason
  maintenance, \* the wall clock is inside the router maintenance window
  disk,        \* the markers of STATE_DIR
  runtime,     \* RUNTIME_ACTIVE exists
  proc,        \* the two processes, see Idle
  due,         \* ticks until the timer of the unit elapses again
  rebooting,   \* systemctl reboot was accepted and has not taken effect
  crashes,     \* how often the machine lost power
  quiet,       \* history: ticks since boot or the last run that saw no outage
  used,        \* history: rebooted by the controller and never up since
  forgotten    \* history: an incident was cleared since the last request

world   == <<up, maintenance>>
machine == <<rebooting, crashes>>
history == <<quiet, used, forgotten>>
vars    == <<world, disk, runtime, proc, due, machine, history>>

Proc == {"main", "guard"}

\* What a reader of a marker's second line learns: no file, a file without that
\* line, the id of this boot, the id of an earlier one.
Mark == {"absent", "torn", "this", "earlier"}

Recovering == {"reason", "arm", "announce", "reset", "poll", "lost", "sign", "ask"}
Guarding   == {"gprobe", "gclear", "gcheck", "gsign", "grequest", "gfill", "gtrace"}
Label      == {"idle", "probe", "clear", "decide", "retry"} \cup Recovering \cup Guarding

\* A process: the command it is at, the ticks until that command returns, the
\* ticks since the process was started, elapsed of wait_for_recovery and
\* allow_reboot of recover.
Idle == [at |-> "idle", wait |-> 0, ran |-> 0, elapsed |-> 0, allow |-> FALSE]

Limit(p) == IF p = "main" THEN MainLimit ELSE GuardLimit

-----------------------------------------------------------------------------
(* The marker files.  deadline is line 3 of RECOVERY_ACTIVE, as the time     *)
(* left, {} when it does not parse; stamp is LAST_POST_RETRY, as its age,    *)
(* {} when it does not parse; firstAge likewise, line 1 of FIRST_FAILURE.    *)

NoMarkers ==
  [first |-> "absent", firstAge |-> {}, active |-> "absent", deadline |-> {},
   requested |-> "absent", post |-> FALSE, stamp |-> {}, guard |-> "absent"]

\* Definitions named Wrong... are plausible mistakes in the one that follows:
\* nothing uses them but the mutation runs, which show that a property notices.

\* Line 3 of a new RECOVERY_ACTIVE (the mistake: no grace).
WrongDeadline == {Wait}
Deadline == {Wait + Grace}

\* RECOVERY_ACTIVE was written before the last boot (the mistakes: the boot id
\* is never compared; the comparison is left out and every marker is stale).
WrongStaleActive(d) == FALSE
WrongAnyActiveIsStale(d) == d.active # "absent"
StaleActive(d) == d.active = "earlier"

\* REBOOT_REQUESTED does not exist (the mistake: one of another boot is ignored).
WrongNoRequest(d) == d.requested # "this"
NoRequest(d) == d.requested = "absent"

ClearActive(d) == [d EXCEPT !.active = "absent", !.deadline = {}]

ClearIncident(d) == NoMarkers

\* The markers after the maintenance branch of the main body (the mistake: the
\* whole incident is cleared).
WrongDeferred(d) == NoMarkers
Deferred(d) == [ClearActive(d) EXCEPT !.first = "absent", !.firstAge = {}]

\* write_marker truncates the file before the commands that fill it run.
Truncated(m) == IF "torn" \in Faults THEN "torn" ELSE m

\* What a marker's boot id means after a restart.
Carried(m) == IF m = "this" THEN "earlier" ELSE m

Older(age, cap) == IF age < cap THEN age + 1 ELSE age
WrongSooner(left) == left - 1
Sooner(left)    == IF left > 0 THEN left - 1 ELSE 0

-----------------------------------------------------------------------------
Init ==
  /\ up \in BOOLEAN
  /\ maintenance \in BOOLEAN
  /\ disk = NoMarkers
  /\ runtime = FALSE
  /\ proc = [p \in Proc |-> Idle]
  /\ due \in [Proc -> Period]
  /\ rebooting = FALSE
  /\ crashes = 0
  /\ quiet = 0
  /\ used = FALSE
  /\ forgotten = FALSE

\* Process p is at label l and the command it ran has returned.
At(p, l) == proc[p].at = l /\ proc[p].wait = 0

\* Process p goes on at label l with a command that takes t ticks.
Goto(p, l, t) == proc' = [proc EXCEPT ![p].at = l, ![p].wait = t]

Exit(p) == proc' = [proc EXCEPT ![p] = Idle]

\* While the interfaces are being reset a probe may find them down.
Healthy == up /\ \A p \in Proc : proc[p].at # "reset"
Sample  == {Healthy, up}

-----------------------------------------------------------------------------
(* The main body, lines 288-340.  The guard arm of the case falls through    *)
(* into it, so both processes run it.                                        *)

\* Markers of an earlier boot's recovery are dropped before the first probe.
DropStaleActive(d) == IF StaleActive(d) THEN ClearActive(d) ELSE d

EnterBody(p) ==
  /\ disk' = DropStaleActive(disk)
  /\ runtime' = (runtime /\ ~StaleActive(disk))
  /\ \E t \in ProbeTime : Goto(p, "probe", t)

StartMain ==
  /\ proc["main"].at = "idle" /\ due["main"] = 0 /\ ~rebooting
  /\ EnterBody("main")
  /\ \E t \in Period : due' = [due EXCEPT !["main"] = t]
  /\ UNCHANGED <<world, machine, history>>

\* network_status answers with what it measured; the caller acts on it later.
Probe(p) ==
  /\ At(p, "probe")
  /\ \E ok \in Sample : Goto(p, IF ok THEN "clear" ELSE "decide", 0)
  /\ UNCHANGED <<world, disk, runtime, due, machine, history>>

\* clear_incident, at the end of a run or of a recovery that succeeded (the
\* mistake: RUNTIME_ACTIVE is left out of its rm).
WrongClear(p) ==
  /\ At(p, "clear")
  /\ disk' = ClearIncident(disk)
  /\ Exit(p)
  /\ quiet' = 0
  /\ forgotten' = TRUE
  /\ UNCHANGED <<world, runtime, due, machine, used>>

Clear(p) ==
  /\ At(p, "clear")
  /\ disk' = ClearIncident(disk)
  /\ runtime' = FALSE
  /\ Exit(p)
  /\ quiet' = 0
  /\ forgotten' = TRUE
  /\ UNCHANGED <<world, due, machine, used>>

DeferToMaintenance(p) ==
  /\ At(p, "decide") /\ maintenance
  /\ disk' = Deferred(disk)
  /\ runtime' = FALSE
  /\ Exit(p)
  /\ quiet' = 0
  /\ UNCHANGED <<world, due, machine, used, forgotten>>

\* recover samples network_status once more, only for the text of its reason.
BeginRecover(p, mayReboot) ==
  \E t \in ProbeTime :
    proc' = [proc EXCEPT ![p].at = "reason", ![p].wait = t, ![p].allow = mayReboot]

\* REBOOT_REQUESTED exists: no reboot is requested by this run.  The first run to find
\* the reboot used writes a trace.
AfterReboot(p) ==
  /\ At(p, "decide") /\ ~maintenance /\ ~NoRequest(disk)
  /\ IF disk.requested = "earlier"
     THEN /\ disk' = [disk EXCEPT !.post = TRUE]
          /\ \E t \in IF disk.post THEN {0} ELSE TraceTime : Goto(p, "retry", t)
     ELSE UNCHANGED disk /\ Exit(p)
  /\ UNCHANGED <<world, runtime, due, machine, history>>

\* The last retry is long enough ago, or its time does not parse (the mistake:
\* without a valid time there is no retry).
WrongRetryDue(d) == \E age \in d.stamp : age >= Retry
RetryDue(d) == \A age \in d.stamp : age >= Retry

RetryReset(p) ==
  /\ At(p, "retry")
  /\ IF RetryDue(disk) THEN BeginRecover(p, FALSE) ELSE Exit(p)
  /\ UNCHANGED <<world, disk, runtime, due, machine, history>>

\* FIRST_FAILURE is missing, torn or of another boot: the window starts now (the
\* mistake: the boot id is not compared).
WrongUnconfirmed(d) == d.first = "absent"
Unconfirmed(d) == d.first # "this"

StartConfirmation(p) ==
  /\ At(p, "decide") /\ ~maintenance /\ NoRequest(disk)
  /\ Unconfirmed(disk)
  /\ disk' = [disk EXCEPT !.first = "this", !.firstAge = {0}]
  /\ Exit(p)
  /\ UNCHANGED <<world, runtime, due, machine, history>>

Confirmed(p) ==
  /\ At(p, "decide") /\ ~maintenance /\ NoRequest(disk)
  /\ ~Unconfirmed(disk)
  /\ IF \E age \in disk.firstAge : age >= Confirm
     THEN BeginRecover(p, TRUE)
     ELSE Exit(p)
  /\ UNCHANGED <<world, disk, runtime, due, machine, history>>

-----------------------------------------------------------------------------
(* start_recovery, wait_for_recovery and recover.                            *)

\* write_marker "$RECOVERY_ACTIVE": the truncation, then the contents.
Arm(p) ==
  /\ At(p, "reason")
  /\ disk' = [disk EXCEPT !.active = Truncated("this"),
                          !.deadline = IF "torn" \in Faults THEN {} ELSE Deadline]
  /\ Goto(p, IF "torn" \in Faults THEN "arm" ELSE "announce", 0)
  /\ UNCHANGED <<world, runtime, due, machine, history>>

FillActive(p) ==
  /\ At(p, "arm")
  /\ disk' = [disk EXCEPT !.active = "this", !.deadline = Deadline]
  /\ Goto(p, "announce", 0)
  /\ UNCHANGED <<world, runtime, due, machine, history>>

\* RUNTIME_ACTIVE is written, then the trace and the interface reset run.
Announce(p) ==
  /\ At(p, "announce")
  /\ runtime' = TRUE
  /\ \E t \in ResetTime : Goto(p, "reset", t)
  /\ UNCHANGED <<world, disk, due, machine, history>>

BeginWait(p) ==
  /\ At(p, "reset")
  /\ \E t \in ProbeTime :
       proc' = [proc EXCEPT ![p].at = "poll", ![p].wait = t, ![p].elapsed = 0]
  /\ UNCHANGED <<world, disk, runtime, due, machine, history>>

\* elapsed counts the sleeps of the loop and not the time its probes take.  After the
\* last sleep the failure is traced, with the markers of the recovery still there.
PollAgain(p, slept) ==
  IF slept <= Wait
  THEN \E t \in ProbeTime :
         proc' = [proc EXCEPT ![p].wait = t + 1, ![p].elapsed = slept]
  ELSE \E t \in TraceTime : Goto(p, "lost", t + 1)

Poll(p) ==
  /\ At(p, "poll")
  /\ \E ok \in Sample :
       IF ok THEN Goto(p, "clear", 0) ELSE PollAgain(p, proc[p].elapsed + 1)
  /\ UNCHANGED <<world, disk, runtime, due, machine, history>>

\* write_marker "$REBOOT_REQUESTED" begins; a sync comes before the reboot.
Request(d) == [d EXCEPT !.requested = Truncated("this")]

GiveUp(p) ==
  /\ At(p, "lost")
  /\ IF proc[p].allow
     THEN /\ disk' = Request(disk)
          /\ forgotten' = FALSE
          /\ IF "torn" \in Faults
             THEN Goto(p, "sign", 0)
             ELSE \E t \in TraceTime : Goto(p, "ask", t)
          /\ UNCHANGED runtime
     ELSE /\ disk' = [ClearActive(disk) EXCEPT !.stamp = {0}]
          /\ runtime' = FALSE
          /\ Exit(p)
          /\ UNCHANGED forgotten
  /\ UNCHANGED <<world, due, machine, quiet, used>>

FillRequest(p) ==
  /\ At(p, "sign")
  /\ disk' = [disk EXCEPT !.requested = "this"]
  /\ \E t \in TraceTime : Goto(p, "ask", t)
  /\ UNCHANGED <<world, runtime, due, machine, history>>

\* systemctl reboot only queues the reboot; its failure is logged and ignored.
SubmitReboot ==
  \/ rebooting' = TRUE
  \/ "rebootFails" \in Faults /\ UNCHANGED rebooting

Ask(p) ==
  /\ At(p, "ask")
  /\ SubmitReboot
  /\ Exit(p)
  /\ UNCHANGED <<world, disk, runtime, due, crashes, history>>

-----------------------------------------------------------------------------
(* run_guard, lines 246-271.                                                 *)

StartGuard ==
  /\ proc["guard"].at = "idle" /\ due["guard"] = 0 /\ ~rebooting
  /\ CASE disk.active = "absent"  -> Exit("guard")
       [] StaleActive(disk)       -> Goto("guard", "gclear", 0)
       [] OTHER -> \E t \in ProbeTime : Goto("guard", "gprobe", t)
  /\ \E t \in Period : due' = [due EXCEPT !["guard"] = t]
  /\ UNCHANGED <<world, disk, runtime, machine, history>>

GuardProbe ==
  /\ At("guard", "gprobe")
  /\ \E ok \in Sample : Goto("guard", IF ok THEN "gclear" ELSE "gcheck", 0)
  /\ UNCHANGED <<world, disk, runtime, due, machine, history>>

GuardClear ==
  /\ At("guard", "gclear")
  /\ disk' = ClearActive(disk)
  /\ runtime' = FALSE
  /\ Exit("guard")
  /\ UNCHANGED <<world, due, machine, history>>

\* Line 3 of the marker is read again: one that does not parse counts as "now".
DeadlineExpired(d) == \A left \in d.deadline : left = 0

GuardCheck ==
  /\ At("guard", "gcheck")
  /\ IF DeadlineExpired(disk) /\ disk.guard # "this"
     THEN \E t \in ProbeTime : Goto("guard", "gsign", t)
     ELSE Exit("guard")
  /\ UNCHANGED <<world, disk, runtime, due, machine, history>>

GuardSign ==
  /\ At("guard", "gsign")
  /\ disk' = [disk EXCEPT !.guard = "this"]
  /\ Goto("guard", "grequest", 0)
  /\ UNCHANGED <<world, runtime, due, machine, history>>

GuardRequest ==
  /\ At("guard", "grequest")
  /\ disk' = Request(disk)
  /\ forgotten' = FALSE
  /\ IF "torn" \in Faults
     THEN Goto("guard", "gfill", 0)
     ELSE \E t \in TraceTime : Goto("guard", "gtrace", t)
  /\ UNCHANGED <<world, runtime, due, machine, quiet, used>>

GuardFill ==
  /\ At("guard", "gfill")
  /\ disk' = [disk EXCEPT !.requested = "this"]
  /\ \E t \in TraceTime : Goto("guard", "gtrace", t)
  /\ UNCHANGED <<world, runtime, due, machine, history>>

\* The guard arm of the case has no exit: the guard goes on into the main body.
GuardAsk ==
  /\ At("guard", "gtrace")
  /\ SubmitReboot
  /\ EnterBody("guard")
  /\ UNCHANGED <<world, due, crashes, history>>

-----------------------------------------------------------------------------
(* systemd, the machine and the network.                                     *)

\* TimeoutStartSec: the process is killed wherever it is.
Kill(p) ==
  /\ proc[p].at # "idle" /\ proc[p].ran >= Limit(p)
  /\ Exit(p)
  /\ UNCHANGED <<world, disk, runtime, due, machine, history>>

Aged(r) ==
  IF r.at = "idle" THEN r ELSE [r EXCEPT !.wait = Sooner(@), !.ran = @ + 1]

\* A process computes in no time: only its commands and its sleeps take ticks,
\* and a timer that has elapsed starts its unit unless the machine shuts down.
Tick ==
  /\ \A p \in Proc :
       IF proc[p].at = "idle"
       THEN rebooting \/ due[p] > 0
       ELSE proc[p].wait > 0 /\ proc[p].ran < Limit(p)
  /\ proc' = [p \in Proc |-> Aged(proc[p])]
  /\ due' = [p \in Proc |-> Sooner(due[p])]
  /\ disk' = [disk EXCEPT !.firstAge = {Older(age, Confirm) : age \in @},
                          !.deadline = {Sooner(left) : left \in @},
                          !.stamp = {Older(age, Retry) : age \in @}]
  /\ quiet' = Older(quiet, Confirm)
  /\ UNCHANGED <<world, runtime, machine, used, forgotten>>

\* What a restart does to the markers when the wall clock falls back by b.
Restarted(d, b) ==
  [d EXCEPT !.first = Carried(@), !.active = Carried(@), !.requested = Carried(@),
            !.guard = Carried(@), !.stamp = {age - b : age \in @}]

Restart ==
  /\ runtime' = FALSE
  /\ proc' = [p \in Proc |-> Idle]
  /\ due' \in [Proc -> Period]
  /\ rebooting' = FALSE
  /\ quiet' = 0
  /\ UNCHANGED <<world, forgotten>>

Reboot ==
  /\ rebooting
  /\ disk' = Restarted(disk, 0)
  /\ Restart
  /\ used' = ~up
  /\ UNCHANGED crashes

\* Power loss, or the hardware watchdog resets a machine that hangs.
Crash ==
  /\ crashes < MaxCrashes
  /\ crashes' = crashes + 1
  /\ \E b \in SetBack : disk' = Restarted(disk, b)
  /\ Restart
  /\ UNCHANGED used

Heal ==
  /\ ~up
  /\ up' = TRUE
  /\ used' = FALSE
  /\ UNCHANGED <<maintenance, disk, runtime, proc, due, machine, quiet, forgotten>>

Fail ==
  /\ up
  /\ up' = FALSE
  /\ UNCHANGED <<maintenance, disk, runtime, proc, due, machine, history>>

MaintenanceWindow ==
  /\ maintenance' = ~maintenance
  /\ UNCHANGED <<up, disk, runtime, proc, due, machine, history>>

-----------------------------------------------------------------------------
Body(p) ==
  \/ Probe(p) \/ Clear(p) \/ DeferToMaintenance(p)
  \/ AfterReboot(p) \/ RetryReset(p) \/ StartConfirmation(p) \/ Confirmed(p)
  \/ Arm(p) \/ FillActive(p) \/ Announce(p) \/ BeginWait(p) \/ Poll(p)
  \/ GiveUp(p) \/ FillRequest(p) \/ Ask(p)

Guard ==
  \/ GuardProbe \/ GuardClear \/ GuardCheck
  \/ GuardSign \/ GuardRequest \/ GuardFill \/ GuardAsk

Next ==
  \/ StartMain \/ StartGuard \/ Guard
  \/ \E p \in Proc : Body(p) \/ Kill(p)
  \/ Tick \/ Reboot \/ Crash \/ Heal \/ Fail \/ MaintenanceWindow

Spec == Init /\ [][Next]_vars

\* The timers fire, processes run, time passes and a queued reboot happens.
Fairness ==
  /\ WF_vars(StartMain) /\ WF_vars(StartGuard) /\ WF_vars(Guard)
  /\ \A p \in Proc : WF_vars(Body(p)) /\ WF_vars(Kill(p))
  /\ WF_vars(Tick) /\ WF_vars(Reboot)

FairSpec == Spec /\ Fairness

-----------------------------------------------------------------------------
(* Properties.                                                               *)

Files == [first : Mark \ {"torn"}, firstAge : SUBSET Nat, active : Mark,
          deadline : SUBSET Nat, requested : Mark, post : BOOLEAN,
          stamp : SUBSET Int, guard : Mark \ {"torn"}]

Processes == [at : Label, wait : Nat, ran : Nat, elapsed : Nat, allow : BOOLEAN]

\* The markers, the processes and the machine stay in their domains.
TypeOK ==
  /\ up \in BOOLEAN /\ maintenance \in BOOLEAN /\ runtime \in BOOLEAN
  /\ disk \in Files
  /\ proc \in [Proc -> Processes]
  /\ due \in [Proc -> Nat]
  /\ rebooting \in BOOLEAN /\ crashes \in 0..MaxCrashes
  /\ quiet \in Nat /\ used \in BOOLEAN /\ forgotten \in BOOLEAN

\* A later boot suppresses reboots: no process is inside a recovery that may
\* end in a reboot (recover with allow_reboot=yes) while the REBOOT_REQUESTED of
\* an earlier boot is on disk, whatever is killed, torn or lost in between.
LaterBootSuppresses ==
  \A p \in Proc : proc[p].at \in Recovering /\ proc[p].allow
                  => disk.requested # "earlier"

\* The guard never works for a recovery that an earlier boot left behind: from
\* its first probe to its reboot request RECOVERY_ACTIVE is of no earlier boot.
GuardServesThisBoot ==
  proc["guard"].at \in Guarding \ {"gclear"} => disk.active # "earlier"

\* A recovery that may end in a reboot starts only after an outage confirmed for
\* FAIL_CONFIRM_SECONDS: no run since, in this boot, saw a healthy network and
\* cleared the incident, and none deferred it to the maintenance window.
ConfirmedOutage ==
  [][\A p \in Proc : proc[p].at = "decide" /\ proc'[p].at = "reason" /\ proc'[p].allow
                     => quiet >= Confirm]_vars

\* When a reboot is pending the next boot will find it recorded, and so will not
\* request another one, unless a run has cleared the incident in between.
RebootIsRecorded ==
  rebooting /\ ~forgotten => disk.requested \in {"this", "torn"}

\* The guard leaves a recovery alone that does not hang: until main has seen the network
\* up, or has given up and traced its failure, the deadline in its marker is ahead,
\* provided that the grace covers what the probes of the wait and that trace take on
\* top of the sleeps.
DeadlineCoversWait ==
  proc["main"].at \in {"poll", "lost"} => 0 \notin disk.deadline

\* NETWORK-RECOVERY.md: a later boot suppresses repeated automatic reboots for
\* the same incident: none is requested after one, before a link has been up.
OneRebootPerIncident == ~(rebooting /\ used)

\* RUNTIME_ACTIVE makes the service watchdogs stand aside: it does not stay for
\* ever once the network is up for good.
ServicesReleased == <>[]up => <>[]~runtime

\* A network that stays down outside maintenance is in the end met by a reboot
\* that the boot after it knows of, even if main hangs in every recovery.
OutageMetByReboot ==
  <>[](~up /\ ~maintenance) => <>(disk.requested = "earlier")

\* ... and the controller never falls silent: as long as the outage lasts there
\* is another reset of the interfaces, or another reboot.
OutageKeepsBeingRetried ==
  <>[](~up /\ ~maintenance)
    => []<>(rebooting \/ \E p \in Proc : proc[p].at = "reset")
=============================================================================
