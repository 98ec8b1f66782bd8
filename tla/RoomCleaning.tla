------------------------------ MODULE RoomCleaning ------------------------------
(***************************************************************************)
(* Rooms, cleaning and pausing in the Roborock accessory: setCleaning,       *)
(* setCleaningRoom, setCleaningZone, setPauseState and getState of index.js  *)
(* over the two-step commands of miio/lib/devices/vacuum.js.  The accessory  *)
(* decides by the state of the last refresh, which a command brings up to    *)
(* date a second after the robot has answered, and getState every 30 s; the  *)
(* robot moves on its own meanwhile.  The connection is open, rooms and      *)
(* roomTimeout are configured, and requests of the home overlap.             *)
(***************************************************************************)
EXTENDS Integers, FiniteSets

CONSTANTS
  Rooms,       \* the rooms of the home
  Slots,       \* bound on the requests of the home that overlap
  MaxRequests, \* bound on the commands of the home and of the timer
  MaxMoves     \* bound on what the robot begins by itself or by its app

ASSUME RoomsAssumption ==
  /\ IsFiniteSet(Rooms) /\ IsFiniteSet(Slots) /\ Slots \subseteq Nat
  /\ MaxRequests \in Nat /\ MaxMoves \in Nat

VARIABLES
  robot,      \* what the robot does: its state, and the rooms of its job
  seen,       \* device.property("state"), of the last refresh
  shown,      \* state.cleaning, which cachedState and HomeKit follow
  selected,   \* roomIdsToClean
  timer,      \* _roomTimeout is set
  op,         \* the requests that are running, see Unused
  polled,     \* the state that an answer to getState carries, {} for none
  requests,   \* how many commands were requested
  moves,      \* how often the robot has moved on by itself
  apart,      \* history: the selection is no longer that of the running job
  late,       \* history: an Off of before the running job has emptied the selection
  undone      \* history: the slots whose robot began a job after app_charge

memory  == <<shown, selected, timer>>
history == <<apart, late, undone>>
count   == <<requests, moves>>
vars    == <<robot, seen, memory, op, polled, count, history>>

\* cleaningStatuses, as far as the accessory starts them, the states that say nothing
\* of a cleaning, and those that end one.  "waiting" stands for every other state that
\* the driver names and treats the same way.
Cleaning == {"cleaning", "room-cleaning", "zone-cleaning"}
Homing   == {"returning", "charging", "charging-error", "charger-offline"}
Silent   == {"paused", "error", "charging-error", "charger-offline"}
State    == Cleaning \cup Homing \cup Silent \cup {"waiting"}

\* A robot with a job, or with none: it is in the state of that name unless it has
\* been paused or stopped by an error.
Robot(state, job, rooms) == [state |-> state, job |-> job, rooms |-> rooms]

\* A running request: the command it awaits, the rooms that names, whether that was
\* granted, and whether it goes on to charge: after an Off, or that of a zone.
Kind    == {"on", "off", "zone", "zoneOff", "resume", "pause"}
Command == {"segment", "start", "zoned", "resumeSegment", "pause", "stop", "charge"}
Unused  == [off |-> "none", await |-> "none", rooms |-> {}, at |-> "idle", granted |-> FALSE]

\* The first slot that is free.
Free(o) == op[o] = Unused /\ \A x \in Slots : op[x] = Unused => o <= x

Init ==
  /\ robot = Robot("charging", "none", {})
  /\ seen = "charging" /\ shown = FALSE
  /\ selected = {} /\ timer = FALSE
  /\ op = [o \in Slots |-> Unused]
  /\ polled = {} /\ requests = 0 /\ moves = 0
  /\ apart = FALSE /\ late = FALSE /\ undone = {}

-----------------------------------------------------------------------------
(* The requests.                                                             *)

isCleaning == seen \in Cleaning
isPaused   == seen = "paused"

\* Request o goes on with command c, naming rooms.
Sending(o, off, c, rooms) ==
  [op EXCEPT ![o] = [Unused EXCEPT !.off = off, !.await = c, !.at = "sent",
                                   !.rooms = IF c \in {"segment", "resumeSegment"}
                                             THEN rooms ELSE {}]]

\* What the request of a kind begins with: the command for the state last seen,
\* none if the request is not for that state.
First(k) ==
  CASE k = "on" /\ ~isCleaning ->
         {IF selected # {} THEN "segment" ELSE "start"}
    [] k = "off" /\ (isCleaning \/ isPaused) -> {"pause"}
    [] k = "zone" /\ ~isCleaning -> {"zoned"}
    [] k = "zoneOff" -> {"pause"}
    [] k = "resume" /\ isPaused ->
         {IF selected # {} THEN "resumeSegment" ELSE "start"}
    [] k = "pause" /\ isCleaning -> {"pause"}
    [] OTHER -> {}

Request(o, k) ==
  /\ Free(o) /\ requests < MaxRequests
  /\ requests' = requests + 1
  /\ \/ First(k) = {} /\ UNCHANGED op
     \/ \E c \in First(k) :
          op' = Sending(o, IF k \in {"off", "zoneOff"} THEN k ELSE "none", c, selected)
  /\ UNCHANGED <<robot, seen, memory, polled, moves, history>>

\* checkRoomTimeout.
TimeoutSet(rooms) == rooms # {}

\* setCleaningRoom acts on a robot that neither cleans nor pauses (the mistake: a
\* pause is forgotten).
WrongSelectable == ~isCleaning
Selectable == ~isCleaning /\ ~isPaused

\* A job whose selection changes is no longer the one selected if the robot is in
\* another state than the accessory believes, or has stopped with an error.
Expected(r)   == IF r.job = "room-cleaning" THEN r.rooms ELSE {}
Parting(view) == robot.job # "none" /\ (view # robot.state \/ view = "error")

SetCleaningRoom(rooms) ==
  /\ Selectable
  /\ \E r \in Rooms : rooms \in {selected \cup {r}, selected \ {r}}
  /\ selected' = rooms
  /\ timer' = TimeoutSet(rooms)
  /\ apart' = (apart \/ (rooms # selected /\ Parting(seen)))
  /\ UNCHANGED <<robot, seen, shown, op, polled, count, late, undone>>

\* The timer calls setCleaning(true), whatever is selected by then: an Off or the end
\* of a cleaning has not stopped it.
RoomTimeout(o) ==
  /\ timer /\ Free(o) /\ requests < MaxRequests
  /\ requests' = requests + 1
  /\ timer' = FALSE
  /\ \/ First("on") = {} /\ UNCHANGED op
     \/ \E c \in First("on") : op' = Sending(o, "none", c, selected)
  /\ UNCHANGED <<robot, seen, shown, selected, polled, moves, history>>

-----------------------------------------------------------------------------
(* How a request goes on.  Its continuations run in the step that resumes it. *)

Charging(o) == op[o].off # "none"

\* activateCharging: pause, or stop if that fails, and then charge (the mistakes: a
\* stop is taken for the end; every pause goes on like this).
WrongPause(o, ok) ==
  CASE op[o].await = "pause"       -> {IF ok THEN "charge" ELSE "stop"}
    [] op[o].await = "stop" /\ ok -> {"charge"}
    [] OTHER                       -> {}

WrongThen(o, ok) ==
  IF Charging(o) /\ op[o].await = "pause"
  THEN {IF ok THEN "charge" ELSE "stop"}
  ELSE {}

Then(o, ok) ==
  CASE Charging(o) /\ op[o].await = "pause"     -> {IF ok THEN "charge" ELSE "stop"}
    [] Charging(o) /\ op[o].await = "stop" /\ ok -> {"charge"}
    [] OTHER                                    -> {}

\* The command of slot o is settled: the next one, or the request is answered.
Settled(o, ok) ==
  \/ Then(o, ok) = {} /\ op' = [op EXCEPT ![o] = Unused]
  \/ \E c \in Then(o, ok) : op' = Sending(o, op[o].off, c, {})

\* setCleaning(false) clears the selection once the robot was told to charge.
Docking(o) == Charging(o) /\ op[o].await = "charge" /\ op[o].granted
Off(o) == {x \in {o} : Docking(x) /\ op[x].off = "off"}

\* propertyUpdated: state.cleaning in a state (the mistake: no default, a state that
\* is not listed says nothing).
WrongShownIn(state) == state \in Cleaning \/ shown
ShownIn(state) ==
  CASE state \in Cleaning -> TRUE
    [] state \in Silent   -> shown
    [] OTHER              -> FALSE

\* What the accessory remembers when it has learnt a state, and the Off of the
\* slots of offs is through: changedCleaning clears the selection when the cleaning
\* it showed is over.
Remember(state, offs) ==
  LET showing == IF state = seen THEN shown ELSE ShownIn(state)
      over    == shown /\ ~showing
      clears  == over \/ offs # {}
  IN /\ seen' = state
     /\ shown' = showing
     /\ selected' = IF clears THEN {} ELSE selected
     /\ apart' = (apart \/ (selected # {} /\ over /\ Parting(state)))
     /\ late' = (late \/ (selected # {} /\ offs \cap undone # {}))
     /\ UNCHANGED timer

-----------------------------------------------------------------------------
(* The robot, as far as the accessory counts on it: what a command does to   *)
(* it, and what it does by itself or is told by its button or its app.       *)

Obeyed(c, rooms) ==
  CASE c = "segment" -> Robot("room-cleaning", "room-cleaning", rooms)
    [] c = "zoned"   -> Robot("zone-cleaning", "zone-cleaning", {})
    [] c = "start" /\ robot.state # "paused"   -> Robot("cleaning", "cleaning", {})
    [] c = "start" /\ robot.state = "paused"   -> [robot EXCEPT !.state = robot.job]
    [] c = "resumeSegment" /\ robot.state = "paused" ->
                        Robot("room-cleaning", "room-cleaning", rooms)
    [] c = "pause" /\ robot.state \in Cleaning -> [robot EXCEPT !.state = "paused"]
    [] c = "stop" /\ robot.job # "none"        -> Robot("waiting", "none", {})
    [] c = "charge" /\ robot.state # "charging" -> Robot("returning", "none", {})
    [] OTHER         -> robot

\* What becomes of the histories when the robot becomes new: a job that begins is one
\* of the rooms selected or not, and undoes the Offs that have sent the robot away.
Begins(new) == new.job # "none" /\ (new.job # robot.job \/ new.rooms # robot.rooms)

Becomes(new) ==
  /\ robot' = new
  /\ undone' = IF new.job = "none" THEN undone ELSE undone \cup {o \in Slots : Docking(o)}
  /\ apart' = IF Begins(new) THEN selected # Expected(new) ELSE apart /\ new.job # "none"
  /\ late' = (late /\ new.job # "none" /\ ~Begins(new))
  /\ UNCHANGED <<seen, memory, polled>>

\* The robot obeys and grants it, or answers that it does not.
Execute(o) ==
  /\ op[o].at = "sent"
  /\ \E granted \in BOOLEAN :
       /\ op' = [op EXCEPT ![o].at = "answered", ![o].rooms = {},
                           ![o].granted = (granted /\ Charging(o))]
       /\ Becomes(IF granted THEN Obeyed(op[o].await, op[o].rooms) ELSE robot)
  /\ UNCHANGED count

\* The call gets no answer in time, although the robot may have obeyed.
CallFails(o) ==
  /\ op[o].at = "sent"
  /\ Settled(o, FALSE)
  /\ \E new \in {robot, Obeyed(op[o].await, op[o].rooms)} : Becomes(new)
  /\ UNCHANGED count

Moves ==
  CASE robot.state \in Cleaning -> {Robot("returning", "none", {}),
                                    [robot EXCEPT !.state = "paused"],
                                    [robot EXCEPT !.state = "error"]}
    [] robot.state \in {"paused", "error"} -> {Robot("returning", "none", {}),
                                               [robot EXCEPT !.state = robot.job]}
    [] robot.state \in Homing -> {Robot(state, "none", {}) : state \in Homing}
                                 \cup {Robot("cleaning", "cleaning", {})}
    [] OTHER -> {Robot("cleaning", "cleaning", {})}

MovesOn ==
  /\ moves < MaxMoves
  /\ moves' = moves + 1
  /\ \E new \in Moves : Becomes(new)
  /\ UNCHANGED <<op, requests>>

-----------------------------------------------------------------------------
(* Refreshes.  The answer to getState may be late; a refresh after a command *)
(* is either prompt or, when late, such an answer and a failed refresh.      *)

\* A second after its answer a command asks for the state, and goes on then.
Refresh(o) ==
  /\ op[o].at = "answered"
  /\ Settled(o, op[o].granted)
  /\ \E state \in {robot.state, seen} : Remember(state, Off(o))
  /\ undone' = undone \ {o}
  /\ UNCHANGED <<robot, polled, count>>

\* getState, every 30 s and never stopped by a failure.
Poll ==
  /\ polled = {}
  /\ polled' = {robot.state}
  /\ UNCHANGED <<robot, seen, memory, op, count, history>>

Polled ==
  /\ \E state \in polled : Remember(state, {})
  /\ polled' = {}
  /\ UNCHANGED <<robot, op, count, undone>>

PollFails ==
  /\ polled # {}
  /\ polled' = {}
  /\ UNCHANGED <<robot, seen, memory, op, count, history>>

-----------------------------------------------------------------------------
Goes(o) == Execute(o) \/ CallFails(o) \/ Refresh(o)

Next ==
  \/ \E o \in Slots : (\E k \in Kind : Request(o, k)) \/ RoomTimeout(o) \/ Goes(o)
  \/ \E rooms \in SUBSET Rooms : SetCleaningRoom(rooms)
  \/ MovesOn \/ Poll \/ Polled \/ PollFails

Spec == Init /\ [][Next]_vars

\* The interval fires, and of the polls that are made again and again some are
\* answered; nothing else needs to happen.
Fairness == WF_vars(Poll) /\ SF_vars(Polled)

FairSpec == Spec /\ Fairness

-----------------------------------------------------------------------------
Requests == [off : {"none", "off", "zoneOff"}, await : Command \cup {"none"},
             rooms : SUBSET Rooms,
             at : {"idle", "sent", "answered"},
             granted : BOOLEAN]

\* The robot, the accessory's memory and the requests stay in their domains, and
\* only an Off sends the robot away.
TypeOK ==
  /\ robot \in [state : State, job : Cleaning \cup {"none"}, rooms : SUBSET Rooms]
  /\ seen \in State /\ shown \in BOOLEAN
  /\ selected \subseteq Rooms /\ timer \in BOOLEAN
  /\ op \in [Slots -> Requests]
  /\ \A o \in Slots : op[o].await \in {"stop", "charge"} => Charging(o)
  /\ polled \subseteq State /\ requests \in 0..MaxRequests /\ moves \in 0..MaxMoves
  /\ apart \in BOOLEAN /\ late \in BOOLEAN /\ undone \subseteq Slots

\* The rooms selected are those the robot is at, through pauses and requests that
\* overlap, so that a resume names them and none after a full cleaning: unless they
\* were others when the job began, or changed while the robot was in error or in
\* another state than the accessory believed.  An Off that a new job has overtaken
\* clears the selection of that job (index.js:957): then none is selected, and even so
\* never the rooms of another job.
SelectionIsJob ==
  robot.state \in Cleaning \cup {"paused"} /\ ~apart
    => selected = Expected(robot) \/ (late /\ selected = {})

\* An Off that is answered and told the robot to charge has ended the cleaning,
\* whichever of its commands failed, unless the robot was given another job after
\* app_charge.
OffEndsCleaning ==
  [][\A o \in Slots :
       Charging(o) /\ op[o].granted /\ op'[o] = Unused /\ o \notin undone
       => robot.state \in Homing]_vars

\* HomeKit is not wrong for ever: again and again it shows a cleaning exactly if
\* there is one, or the robot is in a state of which propertyUpdated says nothing
\* (paused, in error or without its charger), whatever late answers said.
ShownInTheEnd ==
  []<>(robot.state \in Silent \/ shown = (robot.state \in Cleaning))
=============================================================================
