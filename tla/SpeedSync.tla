-------------------------------- MODULE SpeedSync --------------------------------
(***************************************************************************)
(* setSpeed and setWaterSpeed of index.js keep the fan and the water speed    *)
(* of a robot with a water box together: when one becomes "Custom" the other  *)
(* follows, when one stops being "Custom" the other falls back to a fixed     *)
(* mode.  Each makes sure of its connection, remembers its name in            *)
(* cachedState, awaits the robot and looks at the other's name after that, so *)
(* that two of them interleave.                                              *)
(***************************************************************************)
EXTENDS SpeedModes, FiniteSets

CONSTANTS
  Robots,      \* the models that the run looks at
  Sent,        \* the percentages that HomeKit sends
  MaxRunning,  \* how many calls may run at one time
  MaxRequests, \* bound on the requests of HomeKit
  Failing      \* TRUE if a call may lose its connection or be refused

ASSUME SyncAssumption ==
  /\ Robots \subseteq DOMAIN MODELS /\ Sent \subseteq Percent
  /\ MaxRequests \in Nat /\ MaxRunning \in Nat
  /\ Failing \in BOOLEAN

VARIABLES
  modes,    \* the tables of this robot
  fan,      \* cachedState FanSpeedName, "none" while it is not set
  water,    \* cachedState WaterSpeedName
  running,  \* the calls of setSpeed and setWaterSpeed under way
  requests, \* how many requests HomeKit has made
  trouble   \* history: two calls were "overlapping", a call was "refused"

vars == <<modes, fan, water, running, requests, trouble>>

\* A call awaits ensureDevice ("connecting") and then the robot ("sent").
Call == [slot : 1..MaxRunning, kind : {"fan", "water"},
         mode : Names(modes.speed) \cup Names(modes.waterspeed), at : {"connecting", "sent"}]

TableOf(kind) == IF kind = "fan" THEN modes.speed ELSE modes.waterspeed
Other(kind) == IF kind = "fan" THEN "water" ELSE "fan"
Remembered(kind) == IF kind = "fan" THEN fan ELSE water

Init ==
  /\ \E m \in Robots, recent \in BOOLEAN : modes = FindSpeedModes(m, recent)
  /\ fan = "none" /\ water = "none"
  /\ running = {} /\ requests = 0 /\ trouble = {}

Connecting(s, kind, mode) == [slot |-> s, kind |-> kind, mode |-> mode, at |-> "connecting"]

\* HomeKit sets one of the two speeds; a robot without a water table ignores the other.
Request ==
  /\ requests < MaxRequests
  /\ requests' = requests + 1
  /\ \E s \in 1..MaxRunning, kind \in {"fan", "water"}, v \in Sent :
       /\ \A c \in running : c.slot # s
       /\ TableOf(kind) # <<>>
       /\ running' = running \cup {Connecting(s, kind, NameAt(TableOf(kind), v))}
  /\ trouble' = IF running = {} THEN trouble ELSE trouble \cup {"overlapping"}
  /\ UNCHANGED <<modes, fan, water>>

\* ensureDevice has returned: the name is remembered, and the robot is called.
Connected(c) ==
  /\ c.at = "connecting"
  /\ running' = (running \ {c}) \cup {[c EXCEPT !.at = "sent"]}
  /\ fan' = IF c.kind = "fan" THEN c.mode ELSE fan
  /\ water' = IF c.kind = "water" THEN c.mode ELSE water
  /\ UNCHANGED <<modes, requests, trouble>>

\* The mode a call sets the other speed to when the robot has answered, {} if it leaves
\* that alone.  "Off" sent the robot home instead.  The mistakes: nothing falls back
\* from "Custom"; the other's name is not looked at.
WrongNoFallback(c) ==
  IF c.mode = "Custom" /\ Remembered(Other(c.kind)) # "Custom" THEN {"Custom"} ELSE {}

WrongUnchecked(c) == IF c.mode = "Custom" THEN {"Custom"} ELSE {}

FollowUp(c) ==
  LET fixed == IF c.kind = "fan" THEN "Medium" ELSE "Balanced"
      other == Remembered(Other(c.kind))
  IN IF c.kind = "fan" /\ c.mode = "Off" THEN {}
     ELSE IF c.mode = "Custom" /\ other # "Custom" THEN {"Custom"}
     ELSE IF c.mode # "Custom" /\ other = "Custom" THEN {fixed}
     ELSE {}

\* A name that the other table lacks "does not exist", and the call returns (the
\* mistake: it goes on).
WrongNamed(kind, name) == TRUE
Named(kind, name) == name \in Names(TableOf(kind))

Answered(c) ==
  /\ c.at = "sent"
  /\ running' = (running \ {c}) \cup
       {Connecting(c.slot, Other(c.kind), m) : m \in {n \in FollowUp(c) : Named(Other(c.kind), n)}}
  /\ UNCHANGED <<modes, fan, water, requests, trouble>>

\* The call rejects, at either of its awaits, and nothing follows.
Failed(c) ==
  /\ Failing
  /\ running' = running \ {c}
  /\ trouble' = trouble \cup {"refused"}
  /\ UNCHANGED <<modes, fan, water, requests>>

Finish(s) == \E c \in running : c.slot = s /\ (Connected(c) \/ Answered(c) \/ Failed(c))

Next == Request \/ \E s \in 1..MaxRunning : Finish(s)

Spec == Init /\ [][Next]_vars

\* Every await of a call is settled in the end.
FairSpec == Spec /\ \A s \in 1..MaxRunning : WF_vars(Finish(s))

-----------------------------------------------------------------------------
Quiet == running = {}

\* The two names are names of the robot's modes, and so are those of the calls.
TypeOK ==
  /\ fan \in Names(modes.speed) \cup {"none"}
  /\ water \in Names(modes.waterspeed) \cup {"none"}
  /\ running \subseteq Call /\ \A c \in running : Named(c.kind, c.mode)
  /\ requests \in 0..MaxRequests /\ trouble \subseteq {"overlapping", "refused"}

\* Comments in setSpeed: when all calls are over, fan and water are "Custom"
\* together or not at all, in whatever order the calls began and ended, as long as
\* none was refused and both speeds have that mode ("Off" is no speed and leaves the
\* water alone).
SettledTogether ==
  Quiet /\ fan # "Off" /\ "refused" \notin trouble /\ Named("fan", "Custom") /\ Named("water", "Custom")
    => (fan = "Custom" <=> water = "Custom")

\* What HomeKit shows for a level that the robot reports selects that level when it
\* is sent back, for both speeds: a poll followed by a scene that restores the speed
\* changes nothing.  Where the steps of the slider are whole percentages, every stop
\* of the slider selects a mode of its own.
ShownSelectsItself ==
  \A kind \in {"fan", "water"} :
    LET table == TableOf(kind)  n == Len(table) IN
    /\ \A i \in 1..n : \A v \in Shown(table, table[i][2]) : Select(n, v) = i
    /\ n > 1 /\ 100 % (n - 1) = 0 =>
         Cardinality({Select(n, v) : v \in Stops(n)}) = n

\* Once HomeKit makes no more requests the calls come to an end, unless two of them
\* overlapped: one alone never sets off an endless chain of follow-ups.
Settles == []("overlapping" \notin trouble) => <>[]Quiet
=============================================================================
