---------------------------- MODULE MiioPlatformProofs ----------------------------
(***************************************************************************)
(* For every set of switches and other devices, and whatever calls and events *)
(* overlap: the variables of MiioPlatform stay in their domains, and no        *)
(* accessory is registered twice.                                             *)
(***************************************************************************)
EXTENDS MiioPlatform, TLAPS

\* Until homebridge has launched it only has the restored accessories registered, and
\* nothing is investigated: no answer can register one behind the back of Launch.
Restored ==
  ~launched => \A d \in Devices :
    bridge[d] = (IF d \in known THEN 1 ELSE 0) /\ investigating[d] = 0

IInv == TypeOK /\ RegisteredOnce /\ Restored

\* Nothing is known or asked at the start.
LEMMA InitIInv == Init => IInv
<1> SUFFICES ASSUME Init PROVE IInv  OBVIOUS
<1> USE DEF Init, Devices
<1>1. TypeOK
  <2>1. /\ launched \in BOOLEAN /\ known \subseteq Plugs /\ outdated \subseteq known
        /\ round \subseteq known /\ calls = {}
    OBVIOUS
  <2>2. bridge \in [Devices -> Nat] /\ investigating \in [Devices -> Nat]  OBVIOUS
  <2>3. /\ power \in [Plugs -> BOOLEAN] /\ online \in [Plugs -> BOOLEAN]
        /\ shown \in [Plugs -> BOOLEAN] /\ reachable \in [Plugs -> BOOLEAN]
    OBVIOUS
  <2>4. spent \in 0..Budget  BY PlatformAssumption DEF PlatformAssumption
  <2>5. QED  BY <2>1, <2>2, <2>3, <2>4 DEF TypeOK
<1>2. RegisteredOnce  BY DEF RegisteredOnce
<1>3. Restored  BY DEF Restored
<1>4. QED  BY <1>1, <1>2, <1>3 DEF IInv

\* The part of the state that decides what is registered.
registry == <<launched, known, outdated, bridge, investigating>>

\* What leaves the registry alone keeps what is said of it.
LEMMA RegistryKept ==
  ASSUME IInv, UNCHANGED registry
  PROVE  /\ RegisteredOnce' /\ Restored'
         /\ launched' \in BOOLEAN /\ known' \subseteq Plugs /\ outdated' \subseteq known'
         /\ bridge' \in [Devices -> Nat] /\ investigating' \in [Devices -> Nat]
  BY DEF IInv, TypeOK, RegisteredOnce, Restored, registry, Devices

\* A new call takes a free slot, so that the slots of the calls stay distinct.
LEMMA NewCallKept ==
  ASSUME TypeOK, NEW p \in Plugs, NEW kind \in {"poll", "set"}, NEW v \in BOOLEAN,
         NewCall(p, kind, v)
  PROVE  calls' \subseteq Call /\ \A c, e \in calls' : c.slot = e.slot => c = e
<1>1. PICK s \in FreeSlots : calls' = calls \cup
        {[slot |-> s, plug |-> p, kind |-> kind, executed |-> FALSE, value |-> v]}
  BY DEF NewCall
<1> DEFINE new == [slot |-> s, plug |-> p, kind |-> kind, executed |-> FALSE, value |-> v]
<1>2. new \in Call /\ new.slot = s  BY DEF FreeSlots, Call
<1>3. \A c \in calls : c.slot # s  BY DEF FreeSlots
<1> HIDE DEF new
<1>4. calls' = calls \cup {new}  BY <1>1 DEF new
<1>5. QED  BY <1>2, <1>3, <1>4 DEF TypeOK

\* A call that is executed stays in its slot, one that is settled leaves it.
LEMMA ExecutedKept ==
  ASSUME TypeOK, NEW c \in calls
  PROVE  LET rest == (calls \ {c}) \cup {Executed(c)}
         IN rest \subseteq Call /\ \A d, e \in rest : d.slot = e.slot => d = e
<1>1. c \in Call /\ calls \subseteq Call /\ power \in [Plugs -> BOOLEAN]  BY DEF TypeOK
<1>2. Executed(c) \in Call /\ Executed(c).slot = c.slot  BY <1>1 DEF Call, Executed
<1>3. QED  BY <1>1, <1>2 DEF TypeOK

\* The part of TypeOK that does not speak of the registry.
Operating ==
  /\ round \subseteq known
  /\ calls \subseteq Call /\ \A c, e \in calls : c.slot = e.slot => c = e
  /\ power \in [Plugs -> BOOLEAN] /\ online \in [Plugs -> BOOLEAN]
  /\ shown \in [Plugs -> BOOLEAN] /\ reachable \in [Plugs -> BOOLEAN]
  /\ spent \in 0..Budget

\* A step that leaves the registry alone only has to keep the rest.
LEMMA OperatingSuffices ==
  ASSUME IInv, UNCHANGED registry, Operating'
  PROVE  IInv'
  BY RegistryKept DEF Operating, IInv, TypeOK

\* The budget is spent one by one.
LEMMA Spent ==
  ASSUME spent \in 0..Budget, Spend
  PROVE  spent' \in 0..Budget
  BY PlatformAssumption DEF Spend, PlatformAssumption

\* Launching only takes the outdated accessories off the bridge.
LEMMA LaunchKeeps ==
  ASSUME IInv, Launch
  PROVE  IInv'
<1> USE DEF Launch, devicesUnchanged
<1>1. TypeOK'
  <2>1. bridge' \in [Devices -> Nat]  BY DEF IInv, TypeOK
  <2>2. QED  BY <2>1 DEF IInv, TypeOK
<1>2. ASSUME NEW d \in Devices
      PROVE  IF d \in outdated' THEN bridge'[d] <= 1
                                ELSE bridge'[d] = IF d \in known' THEN 1 ELSE 0
  <2>1. d \in outdated => bridge'[d] = 0  OBVIOUS
  <2>2. d \notin outdated => bridge'[d] = IF d \in known THEN 1 ELSE 0
    BY DEF IInv, Restored
  <2>3. QED  BY <2>1, <2>2
<1>3. RegisteredOnce'  BY <1>2 DEF RegisteredOnce, Devices
<1>4. Restored'  BY DEF Restored
<1>5. QED  BY <1>1, <1>3, <1>4 DEF IInv

\* An answer adds the device to the map and to the bridge together, because IsNew looks
\* at the map after the await.
LEMMA InvestigatedKeeps ==
  ASSUME IInv, NEW d \in Devices, Investigated(d)
  PROVE  IInv'
<1> USE DEF Investigated, devicesUnchanged
<1>1. launched
  BY DEF IInv, TypeOK, Restored
<1>2. investigating' \in [Devices -> Nat]
  BY DEF IInv, TypeOK
<1>3. CASE d \in Plugs
  <2>1. known' = known \cup {d} /\ outdated' = outdated /\ outdated \subseteq known
    BY <1>3 DEF Supported, IInv, TypeOK
  <2>2. bridge' = IF d \notin known THEN [bridge EXCEPT ![d] = @ + 1] ELSE bridge
    BY <1>3 DEF Supported, IsNew
  <2>3. bridge \in [Devices -> Nat] /\ \A e \in Devices :
          IF e \in outdated THEN bridge[e] <= 1
                            ELSE bridge[e] = IF e \in known THEN 1 ELSE 0
    BY <1>1 DEF IInv, TypeOK, RegisteredOnce
  <2>4. bridge' \in [Devices -> Nat]  BY <2>2, <2>3
  <2>5. ASSUME NEW e \in Devices
        PROVE  IF e \in outdated' THEN bridge'[e] <= 1
                                  ELSE bridge'[e] = IF e \in known' THEN 1 ELSE 0
    <3>1. CASE d \in known
      <4>1. known' = known /\ bridge' = bridge  BY <2>1, <2>2, <3>1
      <4>2. QED  BY <2>1, <2>3, <4>1
    <3>2. CASE d \notin known /\ e = d
      <4>1. bridge[d] = 0 /\ d \in known' /\ d \notin outdated'  BY <2>1, <2>3, <3>2
      <4>2. bridge'[d] = bridge[d] + 1  BY <2>2, <2>3, <3>2
      <4>3. QED  BY <3>2, <4>1, <4>2
    <3>3. CASE d \notin known /\ e # d
      <4>1. bridge'[e] = bridge[e]  BY <2>2, <2>3, <3>3
      <4>2. e \in known' <=> e \in known  BY <2>1, <3>3
      <4>3. QED  BY <2>1, <2>3, <4>1, <4>2
    <3>4. QED  BY <3>1, <3>2, <3>3
  <2>6. reachable' \in [Plugs -> BOOLEAN]  BY <1>3 DEF Supported, IInv, TypeOK
  <2>7. TypeOK'
    BY <1>2, <1>3, <2>1, <2>4, <2>6 DEF IInv, TypeOK
  <2>8. RegisteredOnce'  BY <2>5 DEF RegisteredOnce, Devices
  <2>9. QED  BY <1>1, <2>7, <2>8 DEF IInv, Restored
<1>4. CASE d \notin Plugs
  <2>1. UNCHANGED <<known, bridge, reachable>>  BY <1>4 DEF Supported
  <2>2. TypeOK'  BY <1>2, <2>1 DEF IInv, TypeOK
  <2>3. RegisteredOnce'  BY <2>1 DEF IInv, RegisteredOnce, Devices
  <2>4. QED  BY <1>1, <2>2, <2>3 DEF IInv, Restored
<1>5. QED  BY <1>3, <1>4

\* Every other step leaves the registry alone; Available only counts one more
\* investigation.
LEMMA NextKeeps ==
  ASSUME IInv, [Next]_vars
  PROVE  IInv'
<1> USE DEF devicesUnchanged, registryUnchanged, registry
<1>1. CASE Launch  BY <1>1, LaunchKeeps
<1>2. CASE PollNext
  <2>1. PICK p \in round : round' = round \ {p} /\ NewCall(p, "poll", FALSE)
    BY <1>2 DEF PollNext
  <2>2. p \in Plugs  BY DEF IInv, TypeOK
  <2>3. calls' \subseteq Call /\ \A c, e \in calls' : c.slot = e.slot => c = e
    BY <2>1, <2>2, NewCallKept DEF IInv
  <2>4. Operating'  BY <1>2, <2>1, <2>3 DEF PollNext, Operating, IInv, TypeOK
  <2>5. QED  BY <1>2, <2>4, OperatingSuffices DEF PollNext
<1>3. CASE NextRound
  <2>1. Operating'  BY <1>3 DEF NextRound, Operating, IInv, TypeOK
  <2>2. QED  BY <1>3, <2>1, OperatingSuffices DEF NextRound
<1>4. ASSUME NEW d \in Devices, Available(d)  PROVE IInv'
  <2>1. investigating' \in [Devices -> Nat]  BY <1>4 DEF Available, IInv, TypeOK
  <2>2. reachable' \in [Plugs -> BOOLEAN]  BY <1>4 DEF Available
  <2>3. spent' \in 0..Budget  BY <1>4, Spent DEF Available, IInv, TypeOK
  <2>4. TypeOK'  BY <1>4, <2>1, <2>2, <2>3 DEF Available, IInv, TypeOK
  <2>5. RegisteredOnce'  BY <1>4 DEF Available, IInv, RegisteredOnce, Devices
  <2>6. QED  BY <1>4, <2>4, <2>5 DEF Available, IInv, Restored
<1>5. ASSUME NEW d \in Devices, Unavailable(d)  PROVE IInv'
  <2>1. reachable' \in [Plugs -> BOOLEAN]  BY <1>5 DEF Unavailable, IInv, TypeOK
  <2>2. spent' \in 0..Budget  BY <1>5, Spent DEF Unavailable, IInv, TypeOK
  <2>3. Operating'  BY <1>5, <2>1, <2>2 DEF Unavailable, Operating, IInv, TypeOK
  <2>4. QED  BY <1>5, <2>3, OperatingSuffices DEF Unavailable
<1>6. ASSUME NEW d \in Devices, Investigated(d)  PROVE IInv'
  BY <1>6, InvestigatedKeeps
<1>7. ASSUME NEW d \in Devices, NotInvestigated(d)  PROVE IInv'
  <2>1. investigating' \in [Devices -> Nat]  BY <1>7 DEF NotInvestigated, IInv, TypeOK
  <2>2. TypeOK'  BY <1>7, <2>1 DEF NotInvestigated, IInv, TypeOK
  <2>3. RegisteredOnce'  BY <1>7 DEF NotInvestigated, IInv, RegisteredOnce, Devices
  <2>4. launched  BY <1>7 DEF NotInvestigated, IInv, TypeOK, Restored
  <2>5. QED  BY <1>7, <2>2, <2>3, <2>4 DEF NotInvestigated, IInv, Restored
<1>8. ASSUME NEW p \in Plugs, HomeKit(p)  PROVE IInv'
  <2>1. PICK kind \in {"poll", "set"}, v \in BOOLEAN : NewCall(p, kind, v)
    BY <1>8 DEF HomeKit
  <2>2. calls' \subseteq Call /\ \A c, e \in calls' : c.slot = e.slot => c = e
    BY <2>1, NewCallKept DEF IInv
  <2>3. spent' \in 0..Budget  BY <1>8, Spent DEF HomeKit, IInv, TypeOK
  <2>4. Operating'  BY <1>8, <2>2, <2>3 DEF HomeKit, Operating, IInv, TypeOK
  <2>5. QED  BY <1>8, <2>4, OperatingSuffices DEF HomeKit
<1>9. ASSUME NEW p \in Plugs, Outside(p)  PROVE IInv'
  <2>1. power' \in [Plugs -> BOOLEAN] /\ online' \in [Plugs -> BOOLEAN]
    BY <1>9 DEF Outside, IInv, TypeOK
  <2>2. spent' \in 0..Budget  BY <1>9, Spent DEF Outside, IInv, TypeOK
  <2>3. Operating'  BY <1>9, <2>1, <2>2 DEF Outside, Operating, IInv, TypeOK
  <2>4. QED  BY <1>9, <2>3, OperatingSuffices DEF Outside
<1>10. ASSUME NEW c \in calls, Execute(c)  PROVE IInv'
  <2>1. c.plug \in Plugs /\ c.value \in BOOLEAN  BY DEF IInv, TypeOK, Call
  <2>2. power' \in [Plugs -> BOOLEAN]  BY <1>10, <2>1 DEF Execute, IInv, TypeOK
  <2>3. calls' \subseteq Call /\ \A d, e \in calls' : d.slot = e.slot => d = e
    BY <1>10, ExecutedKept DEF Execute, IInv
  <2>4. Operating'  BY <1>10, <2>2, <2>3 DEF Execute, Operating, IInv, TypeOK
  <2>5. QED  BY <1>10, <2>4, OperatingSuffices DEF Execute
<1>11. ASSUME NEW c \in calls, Answer(c)  PROVE IInv'
  <2>1. c.plug \in Plugs /\ c.value \in BOOLEAN  BY DEF IInv, TypeOK, Call
  <2>2. shown' \in [Plugs -> BOOLEAN] /\ reachable' \in [Plugs -> BOOLEAN]
    BY <1>11, <2>1 DEF Answer, IInv, TypeOK
  <2>3. Operating'  BY <1>11, <2>2 DEF Answer, Operating, IInv, TypeOK
  <2>4. QED  BY <1>11, <2>3, OperatingSuffices DEF Answer
<1>12. ASSUME NEW c \in calls, Fail(c)  PROVE IInv'
  <2>1. reachable' \in [Plugs -> BOOLEAN]  BY <1>12 DEF Fail, Rejected, IInv, TypeOK
  <2>2. spent' \in 0..Budget  BY <1>12, Spent DEF Fail, IInv, TypeOK
  <2>3. Operating'  BY <1>12, <2>1, <2>2 DEF Fail, Operating, IInv, TypeOK
  <2>4. QED  BY <1>12, <2>3, OperatingSuffices DEF Fail
<1>13. CASE UNCHANGED vars
  <2>1. Operating'  BY <1>13 DEF vars, Operating, IInv, TypeOK
  <2>2. QED  BY <1>13, <2>1, OperatingSuffices DEF vars
<1>14. QED
  BY <1>1, <1>2, <1>3, <1>4, <1>5, <1>6, <1>7, <1>8, <1>9, <1>10, <1>11, <1>12, <1>13
  DEF Next, Settle

\* The inductive invariant holds in every reachable state.
THEOREM PlatformInvariance == Spec => []IInv
  BY InitIInv, NextKeeps, PTL DEF Spec

\* The platform never leaves its domains: what is polled is in the map, and no two
\* calls share a slot.
THEOREM PlatformTypeCorrect == Spec => []TypeOK
  BY PlatformInvariance, PTL DEF IInv

\* addAccessory registers a switch exactly once, for every number of devices, of
\* investigations under way and of answers in any order; a restored accessory of
\* another version is at most registered once.
THEOREM OneRegistration == Spec => []RegisteredOnce
  BY PlatformInvariance, PTL DEF IInv
=============================================================================
