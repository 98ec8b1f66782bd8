---------------------------- MODULE OpenVpnWatchdog ----------------------------
(***************************************************************************)
(* vpngateway/openvpn-uk-route-watchdog, started every 30 seconds by its     *)
(* timer.  It leaves the network to the recovery controller, restarts an     *)
(* inactive or misrouted OpenVPN at once, and restarts one whose tunnel does *)
(* not answer after a confirmation window and under a rate limit.            *)
(*                                                                           *)
(* FAILED and LAST_RESTART hold nothing but an epoch: they outlive a boot and *)
(* are read with whatever the wall clock says then.  They are modelled by    *)
(* their ages, {} for a missing file; a machine without a clock of its own   *)
(* may start with its wall clock behind, which makes an age negative, and a    *)
(* power loss may leave a file empty, which the arithmetic reads as epoch 0.  *)
(***************************************************************************)
EXTENDS Integers

CONSTANTS
  Confirm,      \* 20 seconds, in ticks
  RateLimit,    \* 120 seconds
  Period,       \* ticks between two starts of the timer's unit
  ProbeTime,    \* how long the tunnel's ping may take
  RestartTime,  \* how long systemctl restart may take
  Limit,        \* TimeoutStartSec of the unit
  SetBack,      \* how far the wall clock may fall back over a boot
  MaxBoots      \* bound on the restarts of the machine

ASSUME TimesAssumption ==
  /\ Confirm \in Nat /\ RateLimit \in Nat
  /\ Period \in Nat \ {0} /\ Limit \in Nat \ {0}
  /\ ProbeTime \subseteq Nat /\ RestartTime \subseteq Nat /\ SetBack \subseteq Nat
  /\ MaxBoots \in Nat

VARIABLES
  recovering,  \* NETWORK_RECOVERY exists
  link,        \* what primary_ready finds
  service,     \* systemctl is-active
  route,       \* what route_ready finds
  tunnel,      \* what tunnel_ready finds
  failed,      \* FAILED
  last,        \* LAST_RESTART
  pc,          \* the test or command the script is at
  wait,        \* ticks until that command returns
  ran,         \* ticks since the script was started
  due,         \* ticks until the timer elapses again
  boots,       \* how often the machine was restarted
  sinceUp,     \* history: ticks since a run saw the tunnel up
  sinceConfirmed, \* history: ticks since the last restart for a dead tunnel
  torn         \* history: the files that a power loss has left empty

network == <<recovering, link, service, route, tunnel>>
files   == <<failed, last>>
process == <<pc, wait, ran, due>>
history == <<sinceUp, sinceConfirmed, torn>>
vars    == <<network, files, process, boots, history>>

Label == {"idle", "link", "service", "route", "tunnel", "record",
          "confirmed", "forget", "restarting"}

\* Ages saturate at the constant they are compared with (the mistake: they do not).
WrongCapped(a, cap) == a + 1
Capped(a, cap) == IF a < cap THEN a + 1 ELSE a
Sooner(left)   == IF left > 0 THEN left - 1 ELSE 0

Init ==
  /\ recovering \in BOOLEAN /\ link \in BOOLEAN /\ service \in BOOLEAN
  /\ route \in BOOLEAN /\ tunnel \in BOOLEAN
  /\ failed = {} /\ last = {}
  /\ pc = "idle" /\ wait = 0 /\ ran = 0 /\ due = Period
  /\ boots = 0
  /\ sinceUp = 0 /\ sinceConfirmed = RateLimit /\ torn = {}

At(l) == pc = l /\ wait = 0

Goto(l, t) == pc' = l /\ wait' = t /\ UNCHANGED <<ran, due>>

Exit == pc' = "idle" /\ wait' = 0 /\ ran' = 0 /\ UNCHANGED due

-----------------------------------------------------------------------------
\* Both deferrals end the run; DEFER_MARKER only keeps the log quiet.
Start ==
  /\ pc = "idle" /\ due = 0
  /\ due' = Period
  /\ pc' = IF recovering THEN "idle" ELSE "link"
  /\ UNCHANGED <<network, files, wait, ran, boots, history>>

CheckLink ==
  /\ At("link")
  /\ IF link THEN Goto("service", 0) ELSE Exit
  /\ UNCHANGED <<network, files, boots, history>>

\* A restart that FAILED and LAST_RESTART know nothing of.
RestartAtOnce == \E t \in RestartTime : Goto("restarting", t)

CheckService ==
  /\ At("service")
  /\ IF service THEN Goto("route", 0) ELSE RestartAtOnce
  /\ UNCHANGED <<network, files, boots, history>>

CheckRoute ==
  /\ At("route")
  /\ IF route THEN \E t \in ProbeTime : Goto("tunnel", t) ELSE RestartAtOnce
  /\ UNCHANGED <<network, files, boots, history>>

\* A tunnel that answers ends the incident (the mistake: FAILED stays).
WrongTunnelUp ==
  /\ At("tunnel") /\ tunnel
  /\ sinceUp' = 0
  /\ Exit
  /\ UNCHANGED <<network, files, boots, sinceConfirmed, torn>>

TunnelUp ==
  /\ At("tunnel") /\ tunnel
  /\ failed' = {} /\ torn' = torn \ {"failed"}
  /\ sinceUp' = 0
  /\ Exit
  /\ UNCHANGED <<network, last, boots, sinceConfirmed>>

TunnelDown ==
  /\ At("tunnel") /\ ~tunnel
  /\ Goto("record", 0)
  /\ UNCHANGED <<network, files, boots, history>>

\* The tests on the two files; a missing one reads as the epoch 0 (the mistakes:
\* the restarts are not limited; a first failure is recorded at every probe).
WrongLimited == FALSE
Limited == \E a \in last : a < RateLimit

WrongTooEarly == \A a \in failed : a <= Confirm
TooEarly == \E a \in failed : a < Confirm

Record ==
  /\ At("record")
  /\ IF failed = {}
     THEN failed' = {0} /\ Exit /\ UNCHANGED last
     ELSE IF TooEarly \/ Limited
     THEN Exit /\ UNCHANGED files
     ELSE last' = {0} /\ Goto("confirmed", 0) /\ UNCHANGED failed
  /\ UNCHANGED <<network, boots, history>>

RestartTunnel ==
  /\ At("confirmed")
  /\ \E t \in RestartTime : Goto("forget", t)
  /\ sinceConfirmed' = 0 /\ torn' = torn \ {"last"}
  /\ UNCHANGED <<network, files, boots, sinceUp>>

\* systemctl restart has started the service, or the script ignores its error.
\* Only after a confirmed failure is FAILED removed.
Restarted ==
  /\ At("restarting") \/ At("forget")
  /\ service' \in BOOLEAN
  /\ IF pc = "forget"
     THEN failed' = {} /\ torn' = torn \ {"failed"}
     ELSE UNCHANGED <<failed, torn>>
  /\ Exit
  /\ UNCHANGED <<recovering, link, route, tunnel, last, boots, sinceUp, sinceConfirmed>>

Run ==
  \/ CheckLink \/ CheckService \/ CheckRoute \/ TunnelUp \/ TunnelDown
  \/ Record \/ RestartTunnel \/ Restarted

\* TimeoutStartSec: whatever the script has written stays as it is.
Kill ==
  /\ pc # "idle" /\ ran >= Limit
  /\ Exit
  /\ UNCHANGED <<network, files, boots, history>>

Tick ==
  /\ IF pc = "idle" THEN due > 0 ELSE wait > 0 /\ ran < Limit
  /\ due' = Sooner(due) /\ wait' = Sooner(wait)
  /\ ran' = IF pc = "idle" THEN 0 ELSE ran + 1
  /\ failed' = {Capped(a, Confirm) : a \in failed}
  /\ last' = {Capped(a, RateLimit) : a \in last}
  /\ sinceUp' = Capped(sinceUp, Confirm)
  /\ sinceConfirmed' = Capped(sinceConfirmed, RateLimit)
  /\ UNCHANGED <<network, pc, boots, torn>>

\* The controller, the link, OpenVPN and its peer change at any time.
NetworkChanges ==
  /\ \/ recovering' = ~recovering /\ UNCHANGED <<link, service, route, tunnel>>
     \/ link' = ~link /\ UNCHANGED <<recovering, service, route, tunnel>>
     \/ service' = ~service /\ UNCHANGED <<recovering, link, route, tunnel>>
     \/ route' = ~route /\ UNCHANGED <<recovering, link, service, tunnel>>
     \/ tunnel' = ~tunnel /\ UNCHANGED <<recovering, link, service, route>>
  /\ UNCHANGED <<files, process, boots, history>>

\* A reboot or a power loss, which may empty the files.
Boot ==
  /\ boots < MaxBoots
  /\ boots' = boots + 1
  /\ \E b \in SetBack,
        empty \in SUBSET ({"failed" : a \in failed} \cup {"last" : a \in last}) :
       /\ failed' = {IF "failed" \in empty THEN Confirm ELSE a - b : a \in failed}
       /\ last' = {IF "last" \in empty THEN RateLimit ELSE a - b : a \in last}
       /\ torn' = torn \cup empty
  /\ pc' = "idle" /\ wait' = 0 /\ ran' = 0 /\ due' = Period
  /\ UNCHANGED <<network, sinceUp, sinceConfirmed>>

Next == Start \/ Run \/ Kill \/ Tick \/ NetworkChanges \/ Boot

Spec == Init /\ [][Next]_vars

\* The timer starts the script, a started script goes on, time passes.
FairSpec ==
  Spec /\ WF_vars(Start) /\ WF_vars(Run) /\ WF_vars(Kill) /\ WF_vars(Tick)

-----------------------------------------------------------------------------
\* The files, the script and its timer stay in their domains.
TypeOK ==
  /\ network \in BOOLEAN \X BOOLEAN \X BOOLEAN \X BOOLEAN \X BOOLEAN
  /\ \A a \in failed : a \in Int /\ a <= Confirm
  /\ \A a \in last : a \in Int /\ a <= RateLimit
  /\ pc \in Label /\ wait \in Nat /\ ran \in 0..Limit /\ due \in 0..Period
  /\ boots \in 0..MaxBoots
  /\ sinceUp \in 0..Confirm
  /\ sinceConfirmed \in 0..RateLimit
  /\ torn \subseteq {"failed", "last"}

\* A tunnel is restarted only when no run saw it up for the confirmation window,
\* whatever FAILED an earlier boot, a kill or a deferral left behind, unless a power
\* loss emptied FAILED, and then only until the tunnel is up or restarted.
ConfirmedFailure ==
  [][At("confirmed") /\ pc' = "forget"
       => sinceUp >= Confirm \/ "failed" \in torn]_vars

\* README.md, the two-minute rate limit (lines 102-108): restarts for a dead tunnel are at least
\* that far apart, across boots and kills; an emptied LAST_RESTART lifts the limit once.
TunnelRestartsSpaced ==
  [][At("confirmed") /\ pc' = "forget"
       => sinceConfirmed >= RateLimit \/ "last" \in torn]_vars

\* A tunnel that stays down while its link, service and route are fine is
\* restarted again and again: no file silences the watchdog for ever, not even
\* one with an epoch in the future.
DeadTunnelRestarted ==
  <>[](~recovering /\ link /\ service /\ route /\ ~tunnel)
    => []<>(pc = "confirmed")
=============================================================================
