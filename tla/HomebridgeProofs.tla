----------------------------- MODULE HomebridgeProofs -----------------------------
(***************************************************************************)
(* What keeps Homebridge and its robot available.  For every grace period,   *)
(* timer period and duration of a restart, and any number of boots:          *)
(* homebridge-network-watchdog.sh spaces its restarts of the service.  For   *)
(* any number of requests of HomeKit and of lost sockets: connectingPromise  *)
(* is set exactly as long as somebody awaits it, and a vacuum cleaner is     *)
(* never given up.                                                           *)
(***************************************************************************)
EXTENDS HomebridgeWatchdog, RoborockConnect, TLAPS

-----------------------------------------------------------------------------
(* homebridge-network-watchdog.sh.                                           *)

\* Only systemctl restart takes time, and the marker is fresh when it is called.
Prompt ==
  /\ pc # "restarting" => wait = 0
  /\ pc = "restart" => marker = "this" /\ age = 0

\* A restart that would come too early is remembered by a marker that is no older, and
\* the script has not got past the test of it.
Remembered ==
  \/ since >= RestartGrace
  \/ seenActive
  \/ marker = "this" /\ age <= since /\ pc \notin {"mark", "restart"}

WatchdogIInv == WatchdogTypeOK /\ Prompt /\ Remembered

\* What the script reads and writes, and what it and its timer count.
StatesOK  == /\ active \in BOOLEAN /\ recovering \in BOOLEAN /\ deferred \in BOOLEAN
             /\ seenActive \in BOOLEAN
             /\ marker \in {"absent", "this", "earlier"} /\ pc \in Label
NumbersOK == /\ age \in 0..RestartGrace /\ since \in 0..RestartGrace
             /\ wait \in Nat /\ due \in 0..Period /\ boots \in 0..MaxBoots

\* WatchdogTypeOK is both of them.
LEMMA WatchdogParts == WatchdogTypeOK <=> StatesOK /\ NumbersOK
  BY DEF WatchdogTypeOK, StatesOK, NumbersOK

\* What a step has to establish.
LEMMA WatchdogTogether ==
  ASSUME StatesOK', NumbersOK', Prompt', Remembered'
  PROVE  WatchdogIInv'
  BY DEF WatchdogIInv, WatchdogTypeOK, StatesOK, NumbersOK

\* The machine starts without a marker, and long after any restart.
LEMMA WatchdogInitIInv == WatchdogInit => WatchdogIInv
<1> SUFFICES ASSUME WatchdogInit PROVE WatchdogIInv  OBVIOUS
<1>1. StatesOK  BY DEF WatchdogInit, StatesOK, Label
<1>2. NumbersOK  BY GraceAssumption DEF WatchdogInit, NumbersOK, GraceAssumption
<1>3. Prompt /\ Remembered
  <2>1. wait = 0 /\ pc = "idle" /\ since = RestartGrace /\ RestartGrace \in Nat
    BY GraceAssumption DEF WatchdogInit, GraceAssumption
  <2>2. QED  BY <2>1 DEF Prompt, Remembered
<1>4. QED  BY <1>1, <1>2, <1>3, WatchdogParts DEF WatchdogIInv

\* The steps that set neither the marker nor the history keep what is remembered, the
\* test of the marker included.
LEMMA RunKeeps ==
  ASSUME WatchdogIInv, Run
  PROVE  WatchdogIInv'
<1> USE DEF files, time, history
<1>0. StatesOK /\ NumbersOK /\ Prompt /\ Remembered  BY WatchdogParts DEF WatchdogIInv
<1>1. NumbersOK'
  <2>1. (age' = age \/ age' = 0) /\ (since' = since \/ since' = 0) /\ wait' \in Nat
        /\ UNCHANGED <<due, boots>>
    BY <1>0, GraceAssumption DEF Run, Defer, RateLimit, MarkRestart, Restart, Restarted,
       NumbersOK, GraceAssumption
  <2>2. QED  BY <1>0, <2>1, GraceAssumption DEF NumbersOK, GraceAssumption
<1>2. StatesOK'
  BY <1>0 DEF Run, Defer, RateLimit, MarkRestart, Restart, Restarted, StatesOK, Label
<1>3. Prompt'
  BY <1>0 DEF Run, Defer, RateLimit, MarkRestart, Restart, Restarted, Prompt
<1>4. Remembered'
  <2>1. CASE Defer  BY <1>0, <2>1 DEF Defer, Remembered
  <2>2. CASE RateLimit
    <3>1. UNCHANGED <<since, seenActive, marker, age>>  BY <2>2 DEF RateLimit
    <3>2. CASE InGrace
      <4>1. pc' = "idle"  BY <2>2, <3>2 DEF RateLimit
      <4>2. QED  BY <1>0, <3>1, <4>1 DEF Remembered
    <3>3. CASE ~InGrace
      <4>1. since >= RestartGrace \/ seenActive
        BY <1>0, <3>3, GraceAssumption DEF Remembered, InGrace, NumbersOK, GraceAssumption
      <4>2. QED  BY <3>1, <4>1 DEF Remembered
    <3>4. QED  BY <3>2, <3>3
  <2>3. CASE MarkRestart
    <3>1. since >= RestartGrace \/ seenActive  BY <1>0, <2>3 DEF MarkRestart, Remembered
    <3>2. UNCHANGED <<since, seenActive>>  BY <2>3 DEF MarkRestart
    <3>3. QED  BY <3>1, <3>2 DEF Remembered
  <2>4. CASE Restart
    <3>1. marker' = "this" /\ age' = 0 /\ since' = 0 /\ pc' = "restarting"
      BY <1>0, <2>4 DEF Restart, Prompt
    <3>2. QED  BY <3>1 DEF Remembered
  <2>5. CASE Restarted  BY <1>0, <2>5 DEF Restarted, Remembered
  <2>6. QED  BY <2>1, <2>2, <2>3, <2>4, <2>5 DEF Run
<1>5. QED  BY <1>1, <1>2, <1>3, <1>4, WatchdogTogether

\* The ages grow together and stop at the grace period, so that the marker does not
\* become older than the restart.
LEMMA TickKeeps ==
  ASSUME WatchdogIInv, Tick
  PROVE  WatchdogIInv'
<1>0. StatesOK /\ NumbersOK /\ Prompt /\ Remembered  BY WatchdogParts DEF WatchdogIInv
<1>1. /\ age' \in 0..RestartGrace /\ since' \in 0..RestartGrace
      /\ age <= since => age' <= since'
      /\ since >= RestartGrace => since' >= RestartGrace
  BY <1>0, GraceAssumption DEF Tick, Older, NumbersOK, GraceAssumption
<1>2. wait' \in Nat /\ due' \in 0..Period /\ (wait = 0 => wait' = 0)
  BY <1>0, GraceAssumption DEF Tick, Sooner, NumbersOK, GraceAssumption
<1>3. UNCHANGED <<active, recovering, deferred, marker, pc, boots, seenActive>>  BY DEF Tick
<1>4. NumbersOK'  BY <1>0, <1>1, <1>2, <1>3 DEF NumbersOK
<1>5. StatesOK'  BY <1>0, <1>3 DEF StatesOK
<1>6. Prompt'
  <2>1. pc # "restart"  BY <1>0 DEF Prompt, Tick, NumbersOK
  <2>2. QED  BY <1>0, <1>2, <1>3, <2>1 DEF Prompt
<1>7. Remembered'  BY <1>0, <1>1, <1>3 DEF Remembered
<1>8. QED  BY <1>4, <1>5, <1>6, <1>7, WatchdogTogether

\* The start of the script, what the service and the controller do, and a boot, which
\* makes the marker one of an earlier boot and ends the script.
LEMMA WatchdogWorldKeeps ==
  ASSUME WatchdogIInv,
         Start \/ ServiceChanges \/ RecoveryChanges \/ Boot \/ UNCHANGED watchdogVars
  PROVE  WatchdogIInv'
<1> USE DEF files, time, history
<1>0. StatesOK /\ NumbersOK /\ Prompt /\ Remembered  BY WatchdogParts DEF WatchdogIInv
<1>1. StatesOK'
  BY <1>0 DEF Start, ServiceChanges, RecoveryChanges, Boot, watchdogVars, StatesOK, Label
<1>2. NumbersOK'
  <2>1. CASE Boot  BY <1>0, <2>1, GraceAssumption DEF Boot, NumbersOK, GraceAssumption
  <2>2. CASE ~Boot
    <3>1. UNCHANGED <<age, since, wait, boots>> /\ due' \in {due, Period}
      BY <2>2 DEF Start, ServiceChanges, RecoveryChanges, watchdogVars
    <3>2. QED  BY <1>0, <3>1, GraceAssumption DEF NumbersOK, GraceAssumption
  <2>3. QED  BY <2>1, <2>2
<1>3. Prompt'
  BY <1>0 DEF Start, ServiceChanges, RecoveryChanges, Boot, watchdogVars, Prompt
<1>4. Remembered'
  <2>1. CASE Start  BY <1>0, <2>1 DEF Start, Remembered
  <2>2. CASE Boot
    <3>1. since' = RestartGrace  BY <2>2 DEF Boot
    <3>2. QED  BY <3>1, GraceAssumption DEF Remembered, GraceAssumption
  <2>3. CASE ServiceChanges \/ RecoveryChanges \/ UNCHANGED watchdogVars
    BY <1>0, <2>3 DEF ServiceChanges, RecoveryChanges, watchdogVars, Remembered
  <2>4. QED  BY <2>1, <2>2, <2>3
<1>5. QED  BY <1>1, <1>2, <1>3, <1>4, WatchdogTogether

\* The inductive invariant holds in every reachable state.
THEOREM WatchdogInvariance == WatchdogSpec => []WatchdogIInv
<1>1. WatchdogIInv /\ [WatchdogNext]_watchdogVars => WatchdogIInv'
  BY RunKeeps, TickKeeps, WatchdogWorldKeeps DEF WatchdogNext
<1>2. QED  BY <1>1, WatchdogInitIInv, PTL DEF WatchdogSpec

\* The markers, the script and its timer stay in their domains.
THEOREM WatchdogTypeCorrect == WatchdogSpec => []WatchdogTypeOK
  BY WatchdogInvariance, PTL DEF WatchdogIInv

\* homebridge-network-watchdog.sh restarts Homebridge again only after
\* RESTART_GRACE_SECONDS or when a run has seen it active since, for every grace period
\* and whatever boots, recoveries and slow restarts come in between.
THEOREM HomebridgeSpaced == WatchdogSpec => RestartsSpaced
<1>1. WatchdogIInv /\ pc = "restart" => since >= RestartGrace \/ seenActive
  BY DEF WatchdogIInv, Remembered
<1>2. WatchdogIInv =>
        [pc = "restart" /\ pc' = "restarting" => since >= RestartGrace \/ seenActive]_watchdogVars
  BY <1>1
<1>3. QED  BY <1>2, WatchdogInvariance, PTL DEF RestartsSpaced

-----------------------------------------------------------------------------
(* The connection of the accessory.                                          *)

ConnectIInv == TypeOK /\ NotAbandoned

\* Who is where, and connectingPromise with those who await it.
PartsOK   == /\ vacuum \in BOOLEAN /\ reachable \in BOOLEAN /\ legible \in BOOLEAN
             /\ retry \in BOOLEAN /\ polling \in BOOLEAN
DeviceOK  == /\ device \in {"none", "open", "destroyed"} /\ lostSockets \in 0..MaxDestroy
             /\ busy \subseteq Caller
PromiseOK == /\ connecting \in {"none", "pending", "self"} /\ stage \in Stage \cup {"idle"}
             /\ waiting \subseteq Caller
             /\ connecting = "none" <=> stage = "idle"
             /\ connecting = "none" <=> waiting = {}

\* TypeOK is the three of them together.
LEMMA ConnectParts == TypeOK <=> PartsOK /\ DeviceOK /\ PromiseOK
  BY DEF TypeOK, PartsOK, DeviceOK, PromiseOK

\* What a step has to establish.
LEMMA ConnectTogether ==
  ASSUME PartsOK', DeviceOK', PromiseOK', NotAbandoned'
  PROVE  ConnectIInv'
  BY DEF ConnectIInv, TypeOK, PartsOK, DeviceOK, PromiseOK

\* The constructor connects.
LEMMA ConnectInitIInv == Init => ConnectIInv
<1> SUFFICES ASSUME Init PROVE ConnectIInv  OBVIOUS
<1>1. MaxDestroy \in Nat  BY ConnectAssumption DEF ConnectAssumption
<1>2. PartsOK  BY DEF Init, PartsOK
<1>3. DeviceOK  BY <1>1 DEF Init, DeviceOK
<1>4. PromiseOK  BY DEF Init, PromiseOK, Stage, Caller
<1>5. NotAbandoned  BY DEF Init, NotAbandoned
<1>6. QED  BY <1>2, <1>3, <1>4, <1>5, ConnectParts DEF ConnectIInv

\* Whoever calls connect joins the initialisation in progress or begins one.
LEMMA ConnectKeeps ==
  ASSUME PromiseOK, NEW c \in Caller, Connect(c)
  PROVE  PromiseOK' /\ connecting' # "none"
  BY DEF Connect, PromiseOK, Stage

\* Requests, polls and the retry ensure the device; the retry disarms itself only by
\* connecting.
LEMMA CallerKeeps ==
  ASSUME ConnectIInv, (\E c \in Callers : Request(c)) \/ Poll \/ RetryFires
  PROVE  ConnectIInv'
<1>0. PartsOK /\ DeviceOK /\ PromiseOK /\ NotAbandoned  BY ConnectParts DEF ConnectIInv
<1>1. PICK c \in Caller :
        /\ \/ busy' = busy \cup {c} /\ UNCHANGED <<waiting, connecting, stage>>
           \/ Connect(c) /\ UNCHANGED busy
        /\ retry' = retry \/ (retry' = FALSE /\ Connect(c))
  BY DEF Request, Poll, RetryFires, EnsureDevice, Caller
<1>2. UNCHANGED <<vacuum, reachable, legible, device, polling, lostSockets>>
  BY DEF Request, Poll, RetryFires
<1>3. PartsOK'  BY <1>0, <1>1, <1>2, Zenon DEF PartsOK
<1>4. DeviceOK'  BY <1>0, <1>1, <1>2 DEF DeviceOK
<1>5. PromiseOK'
  <2>1. CASE UNCHANGED <<waiting, connecting, stage>>  BY <1>0, <2>1 DEF PromiseOK
  <2>2. CASE Connect(c)  BY <1>0, <2>2, ConnectKeeps
  <2>3. QED  BY <1>1, <2>1, <2>2
<1>6. NotAbandoned'
  <2>1. CASE Connect(c)  BY <1>0, <2>1, ConnectKeeps DEF NotAbandoned
  <2>2. CASE ~Connect(c)
    <3>1. UNCHANGED <<vacuum, connecting, retry, polling>>  BY <1>1, <1>2, <2>2
    <3>2. QED  BY <1>0, <3>1 DEF NotAbandoned
  <2>3. QED  BY <2>1, <2>2
<1>7. QED  BY <1>3, <1>4, <1>5, <1>6, ConnectTogether

\* An initialisation that is over resets connectingPromise with all who await it.
LEMMA FinishKeeps ==
  ASSUME ConnectIInv, NEW ok \in BOOLEAN, Finish(ok)
  PROVE  /\ PromiseOK' /\ busy' \subseteq Caller
         /\ retry' = ~ok
<1>0. DeviceOK /\ PromiseOK  BY ConnectParts DEF ConnectIInv
<1>1. connecting' = "none" /\ stage' = "idle" /\ waiting' = {}  BY DEF Finish
<1>2. PromiseOK'  BY <1>1 DEF PromiseOK, Stage
<1>3. busy' \subseteq Caller  BY <1>0 DEF Finish, DeviceOK, PromiseOK
<1>4. retry' = ~ok  BY Zenon DEF Finish, Retry
<1>5. QED  BY <1>2, <1>3, <1>4

\* An initialisation goes on with its promise pending; it ends with the retry armed, the
\* poll set, or without a vacuum cleaner.
LEMMA InitialiseKeeps ==
  ASSUME ConnectIInv, Initialise
  PROVE  ConnectIInv'
<1>0. PartsOK /\ DeviceOK /\ PromiseOK /\ NotAbandoned  BY ConnectParts DEF ConnectIInv
<1>1. UNCHANGED <<vacuum, reachable, legible, lostSockets>>
  BY DEF Initialise, Discover, AwaitSelf, Rooms, Details, FirstState
<1>2. ASSUME NEW ok \in BOOLEAN, Finish(ok), device' = device, polling' \in BOOLEAN,
             ok => ~vacuum \/ polling'
      PROVE  ConnectIInv'
  <2>1. PromiseOK' /\ busy' \subseteq Caller /\ retry' = ~ok  BY <1>2, FinishKeeps
  <2>2. PartsOK'  BY <1>0, <1>1, <1>2, <2>1, Zenon DEF PartsOK
  <2>3. DeviceOK'  BY <1>0, <1>1, <1>2, <2>1 DEF DeviceOK
  <2>4. NotAbandoned'  BY <1>1, <1>2, <2>1, Zenon DEF NotAbandoned
  <2>5. QED  BY <2>1, <2>2, <2>3, <2>4, ConnectTogether
<1>3. ASSUME UNCHANGED <<waiting, busy, retry, polling>>, connecting # "none",
             connecting' \in {"pending", "self"} \cup {connecting},
             stage' \in Stage, device' \in {device, "open"}
      PROVE  ConnectIInv'
  <2>1. connecting' # "none"  BY <1>3
  <2>2. PromiseOK'  BY <1>0, <1>3, <2>1 DEF PromiseOK, Stage
  <2>3. PartsOK'  BY <1>0, <1>1, <1>3, Zenon DEF PartsOK
  <2>4. DeviceOK'  BY <1>0, <1>1, <1>3 DEF DeviceOK
  <2>5. NotAbandoned'  BY <2>1 DEF NotAbandoned
  <2>6. QED  BY <2>2, <2>3, <2>4, <2>5, ConnectTogether
<1>4. stage # "idle" => connecting # "none"  BY <1>0 DEF PromiseOK
<1>5. CASE Discover
  <2>1. polling' = polling /\ polling \in BOOLEAN  BY <1>0, <1>5, Zenon DEF Discover, PartsOK
  <2>2. CASE Finish(FALSE) /\ UNCHANGED device  BY <1>2, <2>1, <2>2
  <2>3. CASE ~vacuum /\ Finish(TRUE) /\ UNCHANGED device  BY <1>2, <2>1, <2>3
  <2>4. CASE device' = "open" /\ Proceed(IF AutoRoom THEN "rooms" ELSE "serial")
    BY <1>3, <1>4, <1>5, <2>1, <2>4 DEF Discover, Proceed, Stage
  <2>5. QED  BY <1>5, <2>2, <2>3, <2>4 DEF Discover
<1>6. CASE AwaitSelf
  BY <1>3, <1>4, <1>6 DEF AwaitSelf, Stage
<1>7. CASE Rooms
  <2>1. polling' = polling /\ polling \in BOOLEAN /\ device' = device
    BY <1>0, <1>7, Zenon DEF Rooms, PartsOK
  <2>2. CASE Finish(FALSE)  BY <1>2, <2>1, <2>2
  <2>3. CASE Proceed("serial")
    BY <1>3, <1>4, <1>7, <2>1, <2>3 DEF Rooms, Proceed, Stage
  <2>4. QED  BY <1>7, <2>2, <2>3 DEF Rooms
<1>8. CASE Details
  BY <1>3, <1>4, <1>8 DEF Details, Proceed, Stage
<1>9. CASE FirstState
  <2>1. polling' = TRUE /\ Finish(TRUE) /\ device' = device  BY <1>9 DEF FirstState
  <2>2. QED  BY <1>2, <2>1
<1>10. QED  BY <1>5, <1>6, <1>7, <1>8, <1>9 DEF Initialise

\* Answers, lost sockets, the reach of the robot and its rooms leave the promise and
\* the timers alone.
LEMMA ConnectWorldKeeps ==
  ASSUME ConnectIInv, \/ \E c \in Caller : Answer(c)
               \/ SocketLost \/ ReachabilityChanges \/ RoomsChange \/ UNCHANGED vars
  PROVE  ConnectIInv'
<1>0. PartsOK /\ DeviceOK /\ PromiseOK /\ NotAbandoned  BY ConnectParts DEF ConnectIInv
<1>1. UNCHANGED <<vacuum, connecting, stage, waiting, retry, polling>>
  BY DEF Answer, SocketLost, ReachabilityChanges, RoomsChange, vars
<1>2. reachable' \in BOOLEAN /\ legible' \in BOOLEAN
  BY <1>0, Zenon DEF Answer, SocketLost, ReachabilityChanges, RoomsChange, vars, PartsOK
<1>3. DeviceOK'
  <2>1. MaxDestroy \in Nat  BY ConnectAssumption DEF ConnectAssumption
  <2>2. QED  BY <1>0, <2>1 DEF Answer, SocketLost, ReachabilityChanges, RoomsChange, vars, DeviceOK
<1>4. PartsOK'  BY <1>0, <1>1, <1>2, Zenon DEF PartsOK
<1>5. PromiseOK'  BY <1>0, <1>1 DEF PromiseOK
<1>6. NotAbandoned'  BY <1>0, <1>1 DEF NotAbandoned
<1>7. QED  BY <1>3, <1>4, <1>5, <1>6, ConnectTogether

\* The inductive invariant holds in every reachable state.
THEOREM ConnectInvariance == Spec => []ConnectIInv
<1>1. ConnectIInv /\ [Next]_vars => ConnectIInv'
  BY CallerKeeps, InitialiseKeeps, ConnectWorldKeeps DEF Next
<1>2. QED  BY <1>1, ConnectInitIInv, PTL DEF Spec

\* connectingPromise is set exactly while somebody awaits it and an initialisation
\* runs, for any number of requests, polls and lost sockets.
THEOREM ConnectTypeCorrect == Spec => []TypeOK
  BY ConnectInvariance, PTL DEF ConnectIInv

\* A vacuum cleaner always has an initialisation, an armed retry or a poll that looks
\* after its connection.
THEOREM NeverAbandoned == Spec => []NotAbandoned
  BY ConnectInvariance, PTL DEF ConnectIInv
=============================================================================
