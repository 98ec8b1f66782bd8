------------------------------- MODULE MiioPlatform -------------------------------
(***************************************************************************)
(* The platform of homebridge-miio (index.js): accessories restored from     *)
(* homebridge's cache, accessories added when the discovery finds a device,   *)
(* and the loop that polls one accessory after the other for ever, while the  *)
(* switches are also set by HomeKit and by hand.  A device is investigated     *)
(* and a switch is polled by asynchronous calls, whose answers come late, out  *)
(* of order or not at all.                                                     *)
(***************************************************************************)
EXTENDS Naturals, FiniteSets

CONSTANTS
  Plugs,    \* the switches
  Others,   \* devices of any other type
  MaxCalls, \* bound on the calls to switches in flight
  Budget    \* bound on all that the world does: events, changes, requests, lost answers

ASSUME PlatformAssumption ==
  /\ Plugs \cap Others = {} /\ IsFiniteSet(Plugs \cup Others)
  /\ MaxCalls \in Nat \ {0} /\ Budget \in Nat

VARIABLES
  launched,      \* didFinishLaunching has run
  known,         \* the devices with an entry in this.accessories
  outdated,      \* those restored with the context of another version
  bridge,        \* how many times homebridge has the device registered
  investigating, \* how many miio.device() promises of the device are pending
  round,         \* accessories left in the snapshot that pollDevices works on
  calls,         \* calls to switches in flight
  power, online, \* what the switches are
  shown,         \* context.powerOn and Characteristic.On
  reachable,     \* what updateReachability was told last
  spent          \* how much of the budget is used

vars == <<launched, known, outdated, bridge, investigating, round, calls,
          power, online, shown, reachable, spent>>

Devices == Plugs \cup Others

\* A call occupies a slot; "value" is what a set orders, or what a poll that is
\* executed will answer.
Call == [slot : 1..MaxCalls, plug : Plugs, kind : {"poll", "set"},
         executed : BOOLEAN, value : BOOLEAN]

FreeSlots == {s \in 1..MaxCalls : \A c \in calls : c.slot # s}

NewCall(p, kind, v) ==
  \E s \in FreeSlots : calls' = calls \cup
    {[slot |-> s, plug |-> p, kind |-> kind, executed |-> FALSE, value |-> v]}

\* Homebridge restores some switches from its cache (configureAccessory), those of
\* another version among them.
Init ==
  /\ launched = FALSE
  /\ known \in SUBSET Plugs
  /\ outdated \in SUBSET known
  /\ bridge = [d \in Devices |-> IF d \in known THEN 1 ELSE 0]
  /\ investigating = [d \in Devices |-> 0]
  /\ round = {} /\ calls = {}
  /\ power \in [Plugs -> BOOLEAN] /\ online = [p \in Plugs |-> TRUE]
  /\ shown = [p \in Plugs |-> FALSE]
  /\ reachable = [p \in Plugs |-> FALSE]
  /\ spent = 0

devicesUnchanged == UNCHANGED <<power, online>>
registryUnchanged == UNCHANGED <<launched, known, outdated, bridge, investigating>>

Spend == spent < Budget /\ spent' = spent + 1

\* Outdated accessories leave the bridge.  They stay in this.accessories: the
\* handler clears the entry of their address, and the entries go by id.
Launch ==
  /\ ~launched /\ launched' = TRUE
  /\ bridge' = [d \in Devices |-> IF d \in outdated THEN 0 ELSE bridge[d]]
  /\ round' = known
  /\ UNCHANGED <<known, outdated, investigating, calls, shown, reachable, spent>>
  /\ devicesUnchanged

\* The event "available": addAccessory asks a device whose token is known for its
\* type, and a known accessory is reachable at once.
Available(d) ==
  /\ launched /\ Spend
  /\ \E hidden \in BOOLEAN : investigating' =
       IF hidden THEN investigating ELSE [investigating EXCEPT ![d] = @ + 1]
  /\ reachable' = [p \in Plugs |-> (p = d /\ d \in known) \/ reachable[p]]
  /\ UNCHANGED <<launched, known, outdated, bridge, round, calls, shown>>
  /\ devicesUnchanged

\* The event "unavailable".
Unavailable(d) ==
  /\ launched /\ d \in known /\ Spend
  /\ reachable' = [reachable EXCEPT ![d] = FALSE]
  /\ UNCHANGED <<round, calls, shown>> /\ registryUnchanged /\ devicesUnchanged

\* isNew: the map is looked at after the device has answered (the mistake: every
\* answer registers).
WrongIsNew(d) == TRUE

IsNew(d) == d \notin known

\* A device that becomes an accessory (the mistake: its type is not looked at).
WrongSupported(d) == TRUE

Supported(d) == d \in Plugs

\* The device has answered.  A switch becomes an accessory unless it is one; the
\* accessory gets the new contact data and device object, and the present version.
\* Anything else is destroyed again.
Investigated(d) ==
  /\ investigating[d] > 0
  /\ investigating' = [investigating EXCEPT ![d] = @ - 1]
  /\ IF Supported(d)
     THEN /\ known' = known \cup {d}
          /\ bridge' = IF IsNew(d) THEN [bridge EXCEPT ![d] = @ + 1] ELSE bridge
          /\ reachable' = [p \in Plugs |-> p = d \/ reachable[p]]
     ELSE UNCHANGED <<known, bridge, reachable>>
  /\ UNCHANGED <<launched, outdated, round, calls, shown, spent>>
  /\ devicesUnchanged

\* The device did not answer: nothing investigates it again until the discovery
\* has lost and found it.
NotInvestigated(d) ==
  /\ investigating[d] > 0
  /\ investigating' = [investigating EXCEPT ![d] = @ - 1]
  /\ UNCHANGED <<launched, known, outdated, bridge, round, calls, shown, reachable, spent>>
  /\ devicesUnchanged

\* One step of the loop: the next accessory of the snapshot is polled.
PollNext ==
  /\ launched
  /\ \E p \in round : round' = round \ {p} /\ NewCall(p, "poll", FALSE)
  /\ UNCHANGED <<shown, reachable, spent>> /\ registryUnchanged /\ devicesUnchanged

\* The next round works on the accessories that are in the map by now.
NextRound ==
  /\ launched /\ round = {} /\ round' = known
  /\ UNCHANGED <<calls, shown, reachable, spent>> /\ registryUnchanged /\ devicesUnchanged

\* HomeKit reads a switch: it is answered from the cache and a poll is sent.  It sets
\* a switch: the order goes to the device, and the cache waits for the answer.
HomeKit(p) ==
  /\ bridge[p] > 0 /\ Spend
  /\ \/ NewCall(p, "poll", FALSE)
     \/ \E v \in BOOLEAN : NewCall(p, "set", v)
  /\ UNCHANGED <<round, shown, reachable>> /\ registryUnchanged /\ devicesUnchanged

\* The switch gets the call.
Executed(c) ==
  [slot |-> c.slot, plug |-> c.plug, kind |-> c.kind, executed |-> TRUE,
   value |-> IF c.kind = "set" THEN c.value ELSE power[c.plug]]

Execute(c) ==
  /\ ~c.executed /\ online[c.plug]
  /\ calls' = (calls \ {c}) \cup {Executed(c)}
  /\ power' = IF c.kind = "set" THEN [power EXCEPT ![c.plug] = c.value] ELSE power
  /\ UNCHANGED <<round, shown, reachable, online, spent>> /\ registryUnchanged

\* Its answer arrives.
Answer(c) ==
  /\ c.executed /\ online[c.plug]
  /\ calls' = calls \ {c}
  /\ shown' = [shown EXCEPT ![c.plug] = c.value]
  /\ reachable' = IF c.kind = "poll" THEN [reachable EXCEPT ![c.plug] = TRUE] ELSE reachable
  /\ UNCHANGED <<round, spent>> /\ registryUnchanged /\ devicesUnchanged

\* What a rejected call does to the accessory (the mistake: nothing).
WrongRejected(c) == reachable

Rejected(c) == IF c.kind = "poll" THEN [reachable EXCEPT ![c.plug] = FALSE] ELSE reachable

\* No answer in time, whether the switch got the call or not.
Fail(c) ==
  /\ IF online[c.plug] THEN Spend ELSE UNCHANGED spent
  /\ calls' = calls \ {c}
  /\ reachable' = Rejected(c)
  /\ UNCHANGED <<round, shown>> /\ registryUnchanged /\ devicesUnchanged

Settle(s) == \E c \in calls : c.slot = s /\ (Execute(c) \/ Answer(c) \/ Fail(c))

\* A switch is operated by hand, or its network is lost or back.
Outside(p) ==
  /\ Spend
  /\ \/ power' = [power EXCEPT ![p] = ~@] /\ UNCHANGED online
     \/ online' = [online EXCEPT ![p] = ~@] /\ UNCHANGED power
  /\ UNCHANGED <<round, calls, shown, reachable>> /\ registryUnchanged

Next ==
  \/ Launch \/ PollNext \/ NextRound
  \/ \E d \in Devices : Available(d) \/ Unavailable(d) \/ Investigated(d) \/ NotInvestigated(d)
  \/ \E p \in Plugs : HomeKit(p) \/ Outside(p)
  \/ \E s \in 1..MaxCalls : Settle(s)

Spec == Init /\ [][Next]_vars

\* Timers fire, every call settles, and one that fails over and over needs faults.
FairSpec ==
  /\ Spec /\ WF_vars(Launch) /\ WF_vars(PollNext) /\ WF_vars(NextRound)
  /\ \A s \in 1..MaxCalls : WF_vars(Settle(s))

-----------------------------------------------------------------------------
\* Every variable stays in its domain, and no two calls share a slot.
TypeOK ==
  /\ launched \in BOOLEAN
  /\ known \subseteq Plugs /\ outdated \subseteq known /\ round \subseteq known
  /\ bridge \in [Devices -> Nat] /\ investigating \in [Devices -> Nat]
  /\ calls \subseteq Call /\ \A c, e \in calls : c.slot = e.slot => c = e
  /\ power \in [Plugs -> BOOLEAN] /\ online \in [Plugs -> BOOLEAN]
  /\ shown \in [Plugs -> BOOLEAN] /\ reachable \in [Plugs -> BOOLEAN]
  /\ spent \in 0..Budget

\* However many events and late answers a device causes, a switch that is found becomes
\* an accessory that is registered exactly once, and nothing else is registered.  An
\* accessory restored with the context of another version is at most registered once:
\* whether it comes back is left open here, because the code and its comment disagree
\* ("make sure it's in the bridge", index.js:148, and the entry that line 42 leaves).
RegisteredOnce ==
  launched => \A d \in Devices :
    IF d \in outdated THEN bridge[d] <= 1
                      ELSE bridge[d] = IF d \in known THEN 1 ELSE 0

\* The comment above the polling loop, "in case other things change them": when the
\* world comes to rest every accessory shows whether its switch is reachable and,
\* if it is, whether it is on, whatever stale answers came in between.
SeenInTheEnd ==
  \A p \in Plugs : <>[](p \in known =>
    /\ reachable[p] = online[p]
    /\ online[p] => shown[p] = power[p])
=============================================================================
