-------------------------- MODULE HomebridgeWatchdog --------------------------
(***************************************************************************)
(* homebridge-roborock/scripts/homebridge-network-watchdog.sh, started every *)
(* minute by its timer.  It restarts an inactive Homebridge, but stands aside *)
(* while RUNTIME_ACTIVE of the network recovery controller exists, and waits  *)
(* RESTART_GRACE_SECONDS after a restart before the next one.  The service    *)
(* and the controller change while the script is between two of its tests.    *)
(* Times are ages and remaining times, as in RecoveryWatchdog.  The names are *)
(* prefixed where HomebridgeProofs has those of RoborockConnect beside them.  *)
(***************************************************************************)
EXTENDS Integers

CONSTANTS
  RestartGrace, \* RESTART_GRACE_SECONDS, in ticks
  Period,       \* ticks between two starts of the timer's unit
  RestartTime,  \* how long systemctl restart may take, TimeoutStartSec at most
  MaxBoots      \* bound on the restarts of the machine

ASSUME GraceAssumption ==
  /\ RestartGrace \in Nat /\ MaxBoots \in Nat
  /\ Period \in Nat \ {0}
  /\ RestartTime \subseteq Nat

VARIABLES
  active,      \* systemctl is-active homebridge.service
  recovering,  \* NETWORK_RECOVERY exists
  deferred,    \* DEFER_MARKER exists
  marker,      \* RESTART_MARKER: absent, or written by this or an earlier boot
  age,         \* the age of line 1 of RESTART_MARKER
  pc,          \* the test or command the script is at
  wait,        \* ticks until that command returns
  due,         \* ticks until the timer elapses again
  boots,       \* how often the machine was restarted
  since,       \* history: ticks since the watchdog last restarted the service
  seenActive   \* history: a run of this boot has seen the service active since

files   == <<deferred, marker, age>>
time    == <<wait, due>>
history == <<since, seenActive>>
watchdogVars == <<active, recovering, files, pc, time, boots, history>>

Label == {"idle", "inactive", "clear", "mark", "restart", "restarting"}

\* Ages saturate at the only constant they are compared with (the mistake: they
\* do not).
WrongOlder(a) == a + 1
Older(a)     == IF a < RestartGrace THEN a + 1 ELSE a
Sooner(left) == IF left > 0 THEN left - 1 ELSE 0

WatchdogInit ==
  /\ active \in BOOLEAN /\ recovering \in BOOLEAN
  /\ deferred = FALSE /\ marker = "absent" /\ age = 0
  /\ pc = "idle" /\ wait = 0 /\ due = Period /\ boots = 0
  /\ since = RestartGrace /\ seenActive = FALSE

\* A run that finds the service active forgets the last restart.
Start ==
  /\ pc = "idle" /\ due = 0
  /\ due' = Period
  /\ IF active
     THEN marker' = "absent" /\ seenActive' = TRUE /\ UNCHANGED pc
     ELSE pc' = "inactive" /\ UNCHANGED <<marker, seenActive>>
  /\ UNCHANGED <<active, recovering, deferred, age, wait, boots, since>>

\* A recovery in progress owns the network; otherwise the script goes on.
Defer ==
  /\ pc = "inactive"
  /\ deferred' = recovering
  /\ pc' = IF recovering THEN "idle" ELSE "clear"
  /\ UNCHANGED <<active, recovering, marker, age, time, boots, history>>

\* The last restart is of this boot and too recent (the mistakes: the boot ids
\* are compared the wrong way round; only the boot ids are compared).
WrongBoot == marker = "earlier" /\ age < RestartGrace
WrongAge == marker = "this"
InGrace == marker = "this" /\ age < RestartGrace

RateLimit ==
  /\ pc = "clear"
  /\ pc' = IF InGrace THEN "idle" ELSE "mark"
  /\ UNCHANGED <<active, recovering, files, time, boots, history>>

\* The restart is recorded before it is requested.
MarkRestart ==
  /\ pc = "mark"
  /\ marker' = "this" /\ age' = 0
  /\ pc' = "restart"
  /\ UNCHANGED <<active, recovering, deferred, time, boots, history>>

Restart ==
  /\ pc = "restart"
  /\ wait' \in RestartTime
  /\ since' = 0 /\ seenActive' = FALSE
  /\ pc' = "restarting"
  /\ UNCHANGED <<active, recovering, files, due, boots>>

\* systemctl restart has started the service, or returned an error that the
\* script only logs, or the unit is killed when TimeoutStartSec is over.
Restarted ==
  /\ pc = "restarting" /\ wait = 0
  /\ active' \in BOOLEAN
  /\ pc' = "idle"
  /\ UNCHANGED <<recovering, files, time, boots, history>>

Run == Defer \/ RateLimit \/ MarkRestart \/ Restart \/ Restarted

\* The script itself takes no time; a timer that has elapsed starts an idle unit.
Tick ==
  /\ IF pc = "idle" THEN due > 0 ELSE wait > 0
  /\ age' = Older(age) /\ since' = Older(since)
  /\ wait' = Sooner(wait) /\ due' = Sooner(due)
  /\ UNCHANGED <<active, recovering, deferred, marker, pc, boots, seenActive>>

ServiceChanges ==
  /\ active' = ~active
  /\ UNCHANGED <<recovering, files, pc, time, boots, history>>

RecoveryChanges ==
  /\ recovering' = ~recovering
  /\ UNCHANGED <<active, files, pc, time, boots, history>>

\* The markers of /var/lib outlive a boot, that of /run does not.
Boot ==
  /\ boots < MaxBoots
  /\ boots' = boots + 1
  /\ marker' = IF marker = "this" THEN "earlier" ELSE marker
  /\ active' \in BOOLEAN /\ recovering' = FALSE
  /\ pc' = "idle" /\ wait' = 0 /\ due' = Period
  /\ since' = RestartGrace /\ seenActive' = FALSE
  /\ UNCHANGED <<deferred, age>>

WatchdogNext == Start \/ Run \/ Tick \/ ServiceChanges \/ RecoveryChanges \/ Boot

WatchdogSpec == WatchdogInit /\ [][WatchdogNext]_watchdogVars

\* The timer starts the script, a started script goes on, time passes.
WatchdogFairSpec ==
  /\ WatchdogSpec
  /\ WF_watchdogVars(Start) /\ WF_watchdogVars(Run) /\ WF_watchdogVars(Tick)

-----------------------------------------------------------------------------
\* The markers, the script and its timer stay in their domains.
WatchdogTypeOK ==
  /\ active \in BOOLEAN /\ recovering \in BOOLEAN /\ deferred \in BOOLEAN
  /\ marker \in {"absent", "this", "earlier"} /\ age \in 0..RestartGrace
  /\ pc \in Label /\ wait \in Nat /\ due \in 0..Period
  /\ boots \in 0..MaxBoots /\ since \in 0..RestartGrace /\ seenActive \in BOOLEAN

\* Restarts are spaced: the watchdog restarts Homebridge again only when the grace
\* period is over, or after a run of this boot has seen it active in between.
RestartsSpaced ==
  [][pc = "restart" /\ pc' = "restarting" => since >= RestartGrace \/ seenActive]_watchdogVars

\* Homebridge that stays down is restarted again and again once no network
\* recovery is going on: neither marker silences the watchdog for ever, whatever
\* a crash of the machine left in them.
EventuallyRestarted ==
  <>[](~active /\ ~recovering) => []<>(pc = "restart")
=============================================================================
