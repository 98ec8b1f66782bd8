---------------------------- MODULE RoborockConnect ----------------------------
(***************************************************************************)
(* The connection of the Roborock accessory (index.js of                     *)
(* homebridge-xiaomi-roborock-vacuum) to its robot: connect, initializeDevice, *)
(* ensureDevice and the timer and interval that keep it alive.  Requests of   *)
(* HomeKit, the retry timer and the polling interval all meet in one          *)
(* connectingPromise, between the awaits of an initialisation.                *)
(*                                                                           *)
(* JavaScript runs one continuation at a time, so an action is what the code  *)
(* does from one await to the next; those who await a promise that settles go *)
(* on one after the other before anything else happens, in one action here.   *)
(***************************************************************************)
EXTENDS Naturals, FiniteSets

CONSTANTS
  Callers,     \* requests of HomeKit under way at one time
  AutoRoom,    \* config.autoroom is set
  MaxDestroy,  \* bound on the sockets that are lost
  DestroyedAt  \* the stages of an initialisation at which one may be lost

Stage == {"miio", "rooms", "serial", "firmware", "state"}

ASSUME ConnectAssumption ==
  /\ IsFiniteSet(Callers) /\ AutoRoom \in BOOLEAN /\ MaxDestroy \in Nat
  /\ DestroyedAt \subseteq Stage

VARIABLES
  vacuum,      \* the device at config.ip matches type:vaccuum
  reachable,   \* the robot answers
  legible,     \* its answer about rooms is one that getRoomList and getRoomMap can read
  device,      \* this.device: "none", or whether its socket is "open" or "destroyed"
  connecting,  \* connectingPromise: "none", "pending", or "self": an initialisation
               \* that awaits it from within
  stage,       \* where initializeDevice is; "idle" if none runs
  waiting,     \* who awaits connectingPromise in connect
  busy,        \* who goes on to use the device
  retry,       \* connectRetry is armed
  polling,     \* getStateInterval polls
  lostSockets  \* how many sockets were lost

vars == <<vacuum, reachable, legible, device, connecting, stage, waiting, busy, retry,
          polling, lostSockets>>

\* Who calls connect: a request, the poll of getState, the constructor and the
\* retry timer.
Caller == Callers \cup {"poll", "timer"}

Idle(c) == c \notin waiting \cup busy

\* The constructor calls connect.
Init ==
  /\ vacuum \in BOOLEAN /\ reachable \in BOOLEAN /\ legible \in BOOLEAN
  /\ device = "none"
  /\ connecting = "pending" /\ stage = "miio"
  /\ waiting = {"timer"} /\ busy = {}
  /\ retry = FALSE /\ polling = FALSE
  /\ lostSockets = 0

-----------------------------------------------------------------------------
\* connect: join the initialisation in progress or begin one.
Connect(c) ==
  /\ waiting' = waiting \cup {c}
  /\ IF connecting = "none"
     THEN connecting' = "pending" /\ stage' = "miio"
     ELSE UNCHANGED <<connecting, stage>>

\* ensureDevice: a missing device and a destroyed socket lead to connect (the
\* mistake: the socket is not looked at).
WrongEnsureDevice(c) ==
  IF device # "none"
  THEN busy' = busy \cup {c} /\ UNCHANGED <<waiting, connecting, stage>>
  ELSE Connect(c) /\ UNCHANGED busy

EnsureDevice(c) ==
  IF device = "open"
  THEN busy' = busy \cup {c} /\ UNCHANGED <<waiting, connecting, stage>>
  ELSE Connect(c) /\ UNCHANGED busy

\* A request of HomeKit.  callbackify turns it away as long as there is no device,
\* all but the Find Me switch, which calls identify directly.
Request(c) ==
  /\ c \in Callers /\ Idle(c)
  /\ EnsureDevice(c)
  /\ UNCHANGED <<vacuum, reachable, legible, device, retry, polling, lostSockets>>

\* The request has its answer or its error from the robot.
Answer(c) ==
  /\ c \in busy
  /\ busy' = busy \ {c}
  /\ UNCHANGED <<vacuum, reachable, legible, device, connecting, stage, waiting, retry,
                 polling, lostSockets>>

\* Every GET_STATE_INTERVAL_MS.  A getState that finds another one at work does the
\* same as that one.
Poll ==
  /\ polling /\ Idle("poll")
  /\ EnsureDevice("poll")
  /\ UNCHANGED <<vacuum, reachable, legible, device, retry, polling, lostSockets>>

RetryFires ==
  /\ retry /\ Idle("timer")
  /\ retry' = FALSE
  /\ Connect("timer")
  /\ UNCHANGED <<vacuum, reachable, legible, device, busy, polling, lostSockets>>

-----------------------------------------------------------------------------
\* The initialisation is over.  Those who awaited it reset connectingPromise and
\* go on: with the device, or with the error.  After an error the catch of connect
\* arms the retry, after a success connect disarms it (the mistake: the retry is
\* not armed).
WrongRetry(ok) == FALSE
Retry(ok) == ~ok

\* After a failure connectingPromise has to be reset too (the mistake: it is not).
WrongFinish(ok) ==
  /\ connecting' = (IF ok THEN "none" ELSE connecting) /\ stage' = "idle"
  /\ waiting' = {}
  /\ busy' = IF ok THEN busy \cup (waiting \ {"timer"}) ELSE busy
  /\ retry' = Retry(ok)

Finish(ok) ==
  /\ connecting' = "none" /\ stage' = "idle"
  /\ waiting' = {}
  /\ busy' = IF ok THEN busy \cup (waiting \ {"timer"}) ELSE busy
  /\ retry' = Retry(ok)

Proceed(to) ==
  stage' = to /\ UNCHANGED <<connecting, waiting, busy, retry>>

\* miio.device answers.  The device is there for everybody from here on, long
\* before its initialisation is over.
Discover ==
  /\ stage = "miio"
  /\ \/ ~reachable /\ Finish(FALSE) /\ UNCHANGED device
     \/ reachable /\ ~vacuum /\ Finish(TRUE) /\ UNCHANGED device
     \/ /\ reachable /\ vacuum
        /\ device' = "open"
        /\ Proceed(IF AutoRoom THEN "rooms" ELSE "serial")
  /\ UNCHANGED <<vacuum, reachable, legible, polling, lostSockets>>

\* The methods that initializeDevice awaits begin with ensureDevice themselves:
\* without a socket they call connect, that is, they await the initialisation
\* they are part of.
AwaitSelf ==
  /\ stage \in Stage \ {"miio"} /\ device = "destroyed" /\ connecting = "pending"
  /\ connecting' = "self"
  /\ UNCHANGED <<vacuum, reachable, legible, device, stage, waiting, busy, retry,
                 polling, lostSockets>>

\* The list of rooms is needed: no answer, an error instead of one, or an answer that
\* does not look as expected (a timer without segments) fails the initialisation, and
\* so does every retry as long as the robot answers like that.  The serial number and
\* the firmware are not needed.
Rooms ==
  /\ stage = "rooms" /\ device = "open"
  /\ IF reachable /\ legible THEN Proceed("serial") ELSE Finish(FALSE)
  /\ UNCHANGED <<vacuum, reachable, legible, device, polling, lostSockets>>

Details ==
  /\ stage \in {"serial", "firmware"} /\ device = "open"
  /\ Proceed(IF stage = "serial" THEN "firmware" ELSE "state")
  /\ UNCHANGED <<vacuum, reachable, legible, device, polling, lostSockets>>

\* getState swallows its errors; then the interval is set.
FirstState ==
  /\ stage = "state" /\ device = "open"
  /\ polling' = TRUE
  /\ Finish(TRUE)
  /\ UNCHANGED <<vacuum, reachable, legible, device, lostSockets>>

-----------------------------------------------------------------------------
\* miio destroys the socket under a device.
SocketLost ==
  /\ device = "open" /\ lostSockets < MaxDestroy
  /\ stage \in DestroyedAt \cup {"idle"}
  /\ device' = "destroyed"
  /\ lostSockets' = lostSockets + 1
  /\ UNCHANGED <<vacuum, reachable, legible, connecting, stage, waiting, busy,
                 retry, polling>>

ReachabilityChanges ==
  /\ reachable' = ~reachable
  /\ UNCHANGED <<vacuum, legible, device, connecting, stage, waiting, busy, retry,
                 polling, lostSockets>>

\* The robot begins or ceases to answer about its rooms as expected: it is busy or
\* refuses, or its timers and its map are edited in its app.
RoomsChange ==
  /\ legible' = ~legible
  /\ UNCHANGED <<vacuum, reachable, device, connecting, stage, waiting, busy, retry,
                 polling, lostSockets>>

Initialise == Discover \/ AwaitSelf \/ Rooms \/ Details \/ FirstState

Next ==
  \/ \E c \in Callers : Request(c)
  \/ \E c \in Caller : Answer(c)
  \/ Poll \/ RetryFires \/ Initialise \/ SocketLost
  \/ ReachabilityChanges \/ RoomsChange

Spec == Init /\ [][Next]_vars

\* Timers and intervals fire, calls to the robot are settled.
FairSpec ==
  /\ Spec
  /\ WF_vars(Initialise) /\ WF_vars(Poll) /\ WF_vars(RetryFires)
  /\ \A c \in Caller : WF_vars(Answer(c))

-----------------------------------------------------------------------------
\* Every part is in its domain, and connectingPromise is set as long as somebody
\* awaits it or an initialisation runs, and no longer.
TypeOK ==
  /\ vacuum \in BOOLEAN /\ reachable \in BOOLEAN /\ legible \in BOOLEAN
  /\ device \in {"none", "open", "destroyed"}
  /\ connecting \in {"none", "pending", "self"}
  /\ stage \in Stage \cup {"idle"}
  /\ waiting \subseteq Caller /\ busy \subseteq Caller
  /\ retry \in BOOLEAN /\ polling \in BOOLEAN /\ lostSockets \in 0..MaxDestroy
  /\ connecting = "none" <=> stage = "idle"
  /\ connecting = "none" <=> waiting = {}

\* A vacuum cleaner is never given up: whatever fails and when, an initialisation
\* runs, or a retry is armed, or the poll looks after the connection.
NotAbandoned == vacuum => connecting # "none" \/ retry \/ polling

\* The robot can be reached for good, and its rooms be read if they are asked for.
Well == reachable /\ (AutoRoom => legible)

\* index.js: the poll "recovers connection if lost".  A robot that stays well is
\* connected and polled in the end.
ConnectionRecovers ==
  vacuum /\ <>[]Well => <>[](device = "open" /\ polling)

\* What is left of it: of a robot that stays well only an initialisation that awaits
\* itself stops the recovery, whatever else fails, at whichever stage, and whoever
\* else awaits it.  A robot that can be reached but whose rooms never can be read
\* (index.js:689) is the other one that need never be polled.
RecoversUnlessSelf ==
  vacuum /\ <>[]Well /\ [](connecting # "self")
    => <>[](device = "open" /\ polling)

\* index.js: "we'll keep retrying but not holding the other actions".  With the same
\* exception no request waits for ever for a connection.
RequestsAnswered ==
  \A c \in Callers : c \in waiting ~> c \notin waiting \/ connecting = "self"
=============================================================================
