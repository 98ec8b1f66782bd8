---------------------------- MODULE RelayWatchdogProofs ----------------------------
(***************************************************************************)
(* For every number of faults and sockets: the relay that runs is the binary   *)
(* in its place, and between two runs of the watchdog it is the latest build,  *)
(* unless the deployment of that build failed.                                *)
(***************************************************************************)
EXTENDS RelayWatchdog, TLAPS

\* A whole binary on the router is the latest build, except between a build and the
\* end of its upload: with it a relay that is started is never an old one.
Deployed ==
  /\ relay # 0 => relay = remote
  /\ remote > 0 /\ ~undeployed /\ pc # "upload" => remote = built

\* Each new version of the source counts as a fault.
Counted == source <= faults + 1

IInv == TypeOK /\ Deployed /\ Counted

\* What is typed on the router, what the script keeps, and the traffic.
RouterOK == /\ relay \in Nat /\ (relay = 0 => client = {}) /\ rule \in BOOLEAN
            /\ client \subseteq Sockets
            /\ remote \in {Partial} \cup 0..built /\ relay <= built
ScriptOK == /\ source \in 1..(MaxFaults + 1) /\ built \in 0..source
            /\ pc \in Label /\ undeployed \in BOOLEAN
WorldOK  == /\ socket \in Sockets /\ flight \in [Sockets -> Phase]
            /\ reachable \in BOOLEAN /\ faults \in 0..MaxFaults

\* The bound is a number.
LEMMA Bound == MaxFaults \in Nat
  BY WatchdogAssumption, Zenon DEF WatchdogAssumption

\* TypeOK is the three of them together.
LEMMA Parts == TypeOK <=> RouterOK /\ ScriptOK /\ WorldOK
  BY DEF TypeOK, RelayTypeOK, RouterOK, ScriptOK, WorldOK

\* What a step has to establish.
LEMMA Together ==
  ASSUME RouterOK', ScriptOK', WorldOK', Deployed', Counted'
  PROVE  IInv'
  BY DEF IInv, TypeOK, RelayTypeOK, RouterOK, ScriptOK, WorldOK

\* The invariant holds at the start: nothing is built, nothing runs.
LEMMA InitIInv == Init => IInv
<1> SUFFICES ASSUME Init PROVE IInv  OBVIOUS
<1> USE DEF Init, RelayInit
<1>1. RouterOK
  <2>1. relay \in Nat /\ relay <= built /\ remote \in {Partial} \cup 0..built  OBVIOUS
  <2>2. client = {} /\ rule \in BOOLEAN  OBVIOUS
  <2>3. QED  BY <2>1, <2>2 DEF RouterOK
<1>2. ScriptOK
  <2>1. source \in 1..(MaxFaults + 1) /\ built \in 0..source /\ pc \in Label
    BY Bound DEF Label
  <2>2. undeployed \in BOOLEAN  OBVIOUS
  <2>3. QED  BY <2>1, <2>2 DEF ScriptOK
<1>3. WorldOK
  <2>1. flight \in [Sockets -> Phase] /\ faults \in 0..MaxFaults  BY Bound DEF Phase
  <2>2. QED  BY <2>1 DEF WorldOK
<1>4. Deployed /\ Counted  BY DEF Deployed, Counted
<1>5. QED  BY <1>1, <1>2, <1>3, <1>4, Parts DEF IInv

\* A command of the script: it leaves the world alone.
LEMMA ScriptKeeps ==
  ASSUME IInv, Start \/ Script
  PROVE  IInv'
<1> USE DEF routerUnchanged, restUnchanged, traffic, DeployFailed, Becomes
<1>0. RouterOK /\ ScriptOK /\ WorldOK /\ Deployed /\ Counted  BY Parts DEF IInv
<1>1. WorldOK' /\ Counted'
  <2>1. UNCHANGED <<socket, flight, source, reachable, faults>>
    BY DEF Start, Script, Build, Deploy, Upload, Chmod, Check, OpenRule, StartRelay
  <2>2. QED  BY <1>0, <2>1 DEF WorldOK, Counted
<1>2. CASE Start
  BY <1>0, <1>1, <1>2, Together DEF Start, RouterOK, ScriptOK, Label, Deployed
<1>3. CASE Build
  <2>1. CASE built = source
    BY <1>0, <1>1, <1>3, <2>1, Together DEF Build, RouterOK, ScriptOK, Label, Deployed
  <2>2. CASE built # source
    <3>1. ScriptOK'
      <4>1. source' \in 1..(MaxFaults + 1) /\ built' \in 0..source' /\ pc' \in Label
        <5>1. source' = source /\ built' = source /\ pc' = "upload"
          BY <1>3, <2>2 DEF Build
        <5>2. source \in 1..(MaxFaults + 1)  BY <1>0 DEF ScriptOK
        <5>3. QED  BY <5>1, <5>2, Bound DEF Label
      <4>2. undeployed' \in BOOLEAN  BY <1>3, <2>2 DEF Build
      <4>3. QED  BY <4>1, <4>2 DEF ScriptOK
    <3>2. RouterOK'  BY <1>0, <1>3, <2>2 DEF Build, RouterOK, ScriptOK
    <3>3. Deployed'  BY <1>0, <1>3, <2>2 DEF Build, Deployed
    <3>4. QED  BY <1>1, <3>1, <3>2, <3>3, Together
  <2>3. QED  BY <2>1, <2>2
<1>4. ASSUME NEW here \in Label, NEW next \in Label \ {"upload"}, Upload(here, next)
      PROVE  IInv'
  <2>1. ScriptOK'  BY <1>0, <1>4 DEF Upload, ScriptOK, Label
  <2>2. RouterOK'  BY <1>0, <1>4 DEF Upload, RouterOK, ScriptOK
  <2>3. Deployed'  BY <1>0, <1>4 DEF Upload, Deployed
  <2>4. QED  BY <1>1, <2>1, <2>2, <2>3, Together
<1>5. ASSUME NEW here \in Label \ {"upload"}, NEW next \in Label, Chmod(here, next)
      PROVE  IInv'
  <2>1. ScriptOK'  BY <1>0, <1>5 DEF Chmod, ScriptOK, Label
  <2>2. RouterOK'  BY <1>0, <1>5 DEF Chmod, RouterOK
  <2>3. Deployed'  BY <1>0, <1>5 DEF Chmod, Deployed
  <2>4. QED  BY <1>1, <2>1, <2>2, <2>3, Together
<1>6. CASE Deploy
  BY <1>4, <1>5, <1>6 DEF Deploy, Label
<1>7. CASE Check
  BY <1>0, <1>1, <1>7, Together DEF Check, RouterOK, ScriptOK, Label, Deployed
<1>8. CASE OpenRule
  BY <1>0, <1>1, <1>8, Together DEF OpenRule, RouterOK, ScriptOK, Label, Deployed
<1>9. CASE StartRelay
  <2>1. ScriptOK'  BY <1>0, <1>9 DEF StartRelay, ScriptOK, Label
  <2>2. RouterOK'  BY <1>0, <1>9 DEF StartRelay, RouterOK, ScriptOK, Partial
  <2>3. Deployed'  BY <1>0, <1>9 DEF StartRelay, Deployed
  <2>4. QED  BY <1>1, <2>1, <2>2, <2>3, Together
<1>10. QED  BY <1>2, <1>3, <1>6, <1>7, <1>8, <1>9 DEF Script

\* A fault is counted and leaves the count within its bound.
LEMMA FaultCounted ==
  ASSUME WorldOK, Fault
  PROVE  faults' = faults + 1 /\ faults' \in 0..MaxFaults /\ faults < MaxFaults
  BY Bound DEF WorldOK, Fault

\* The traffic changes no more than the relay's client, and gives a client only to a
\* relay that runs.
LEMMA TrafficKeeps ==
  ASSUME IInv, Traffic
  PROVE  IInv'
<1>0. RouterOK /\ ScriptOK /\ WorldOK /\ Deployed /\ Counted  BY Parts DEF IInv
<1>1. UNCHANGED <<relay, rule, remote, source, built, pc, undeployed, reachable>>
  BY DEF Traffic, script, Ask, Forward, FromClient, Robot, FromRobot, Lose, Reconnect
<1>2. client' \subseteq Sockets /\ (relay = 0 => client' = {})
  BY <1>0 DEF Traffic, Ask, Forward, FromClient, Robot, FromRobot, Lose, Reconnect, RouterOK
<1>3. socket' \in Sockets /\ flight' \in [Sockets -> Phase]
  BY <1>0 DEF Traffic, Ask, Forward, FromClient, Robot, FromRobot, Lose, Reconnect, WorldOK, Phase
<1>4. faults' \in 0..MaxFaults /\ faults <= faults'
  <2>1. CASE faults' = faults  BY <1>0, <2>1 DEF WorldOK
  <2>2. CASE Fault  BY <1>0, <2>2, FaultCounted DEF WorldOK
  <2>3. QED  BY <2>1, <2>2 DEF Traffic
<1>5. RouterOK' /\ ScriptOK'  BY <1>0, <1>1, <1>2 DEF RouterOK, ScriptOK
<1>6. WorldOK'  BY <1>0, <1>1, <1>3, <1>4 DEF WorldOK
<1>7. Deployed'  BY <1>0, <1>1 DEF Deployed
<1>8. Counted'
  <2>1. source' = source /\ source \in Nat  BY <1>0, <1>1, Bound DEF ScriptOK
  <2>2. faults \in Nat /\ faults' \in Nat /\ faults <= faults'
    BY <1>0, <1>4, Bound DEF WorldOK
  <2>3. source <= faults + 1  BY <1>0 DEF Counted
  <2>4. \A m, i, j \in Nat : m <= i + 1 /\ i <= j => m <= j + 1  OBVIOUS
  <2>5. source <= faults' + 1  BY <2>1, <2>2, <2>3, <2>4
  <2>6. QED  BY <2>1, <2>5 DEF Counted
<1>9. QED  BY <1>5, <1>6, <1>7, <1>8, Together

\* A fault: the router or the relay loses what it has, a broken upload leaves a part of
\* the binary, and a killed deployment is remembered as one that failed.
LEMMA FaultKeeps ==
  ASSUME IInv, \/ RouterReboots \/ RelayCrashes \/ ConnectionChanges \/ UploadBreaks
               \/ RuleFails \/ Kill \/ NewSource
  PROVE  IInv'
<1> USE DEF routerUnchanged, traffic, script, DeployFailed, Becomes
<1>0. RouterOK /\ ScriptOK /\ WorldOK /\ Deployed /\ Counted  BY Parts DEF IInv
<1>1. faults' = faults + 1 /\ faults' \in 0..MaxFaults /\ faults < MaxFaults
  BY <1>0, FaultCounted DEF RouterReboots, RelayCrashes, ConnectionChanges, UploadBreaks,
     RuleFails, Kill, NewSource
<1>2. WorldOK'
  <2>1. UNCHANGED <<socket, flight>>
    BY DEF RouterReboots, RelayCrashes, ConnectionChanges, UploadBreaks, RuleFails, Kill, NewSource
  <2>2. reachable' \in BOOLEAN
    BY <1>0 DEF RouterReboots, RelayCrashes, ConnectionChanges, UploadBreaks, RuleFails, Kill,
       NewSource, WorldOK
  <2>3. QED  BY <1>0, <1>1, <2>1, <2>2 DEF WorldOK
<1>3. /\ source' \in 1..(MaxFaults + 1) /\ source <= source'
      /\ Counted'
  <2>1. CASE source' = source  BY <1>0, <1>1, <2>1 DEF ScriptOK, WorldOK, Counted
  <2>2. CASE source' = source + 1
    BY <1>0, <1>1, <2>2, Bound DEF ScriptOK, WorldOK, Counted
  <2>3. QED
    BY <2>1, <2>2 DEF RouterReboots, RelayCrashes, ConnectionChanges, UploadBreaks, RuleFails,
       Kill, NewSource
<1>4. built' = built
  BY DEF RouterReboots, RelayCrashes, ConnectionChanges, UploadBreaks, RuleFails, Kill, NewSource
<1>5. ScriptOK'
  <2>1. built' \in 0..source'  BY <1>0, <1>3, <1>4 DEF ScriptOK
  <2>2. pc' \in Label
    BY <1>0 DEF RouterReboots, RelayCrashes, ConnectionChanges, UploadBreaks, RuleFails, Kill,
       NewSource, ScriptOK, Label
  <2>3. undeployed' \in BOOLEAN
    BY <1>0 DEF RouterReboots, RelayCrashes, ConnectionChanges, UploadBreaks, RuleFails, Kill,
       NewSource, ScriptOK
  <2>4. QED  BY <1>3, <2>1, <2>2, <2>3 DEF ScriptOK
<1>6. RouterOK' /\ Deployed'
  <2>1. CASE RouterReboots
    <3>1. relay' = 0 /\ remote' = 0 /\ client' = {}  BY <2>1 DEF RouterReboots
    <3>2. rule' \in BOOLEAN  BY <2>1, Zenon DEF RouterReboots
    <3>3. 0 \in 0..built /\ 0 <= built  BY <1>0 DEF ScriptOK
    <3>4. RouterOK'  BY <1>4, <3>1, <3>2, <3>3 DEF RouterOK
    <3>5. Deployed'  BY <3>1 DEF Deployed
    <3>6. QED  BY <3>4, <3>5
  <2>2. CASE RelayCrashes
    BY <1>0, <1>4, <2>2 DEF RelayCrashes, RouterOK, ScriptOK, Deployed
  <2>3. CASE ConnectionChanges
    BY <1>0, <1>4, <2>3 DEF ConnectionChanges, RouterOK, Deployed
  <2>4. CASE UploadBreaks
    BY <1>0, <1>4, <2>4 DEF UploadBreaks, RouterOK, Deployed, Partial
  <2>5. CASE RuleFails
    BY <1>0, <1>4, <2>5 DEF RuleFails, RouterOK, Deployed
  <2>6. CASE Kill
    BY <1>0, <1>4, <2>6 DEF Kill, RouterOK, Deployed
  <2>7. CASE NewSource
    BY <1>0, <1>4, <2>7 DEF NewSource, RouterOK, Deployed
  <2>8. QED  BY <2>1, <2>2, <2>3, <2>4, <2>5, <2>6, <2>7
<1>7. QED  BY <1>2, <1>3, <1>5, <1>6, Together

\* A step that changes nothing.
LEMMA StutterKeeps == IInv /\ UNCHANGED vars => IInv'
  BY DEF vars, traffic, IInv, TypeOK, RelayTypeOK, Deployed, Counted

\* The inductive invariant holds in every reachable state.
THEOREM RelayInvariance == Spec => []IInv
<1>1. IInv /\ [Next]_vars => IInv'
  BY ScriptKeeps, TrafficKeeps, FaultKeeps, StutterKeeps DEF Next
<1>2. QED  BY <1>1, InitIInv, PTL DEF Spec

\* Script, router and traffic stay in their domains: only what was built is on the
\* router, and only a running relay has a client.
THEOREM RelayTypeCorrect == Spec => []TypeOK
  BY RelayInvariance, PTL DEF IInv

\* roborock-relay-watchdog.sh never leaves an old relay running between two runs unless a
\* deployment failed, for every number of reboots, crashes, broken uploads, kills and new
\* versions, and whatever ps lists.
THEOREM NoOldRelay == Spec => []NoStaleRelay
<1>1. IInv => NoStaleRelay  BY DEF IInv, TypeOK, RelayTypeOK, Deployed, NoStaleRelay
<1>2. QED  BY <1>1, RelayInvariance, PTL
=============================================================================
