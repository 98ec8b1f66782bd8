--------------------------- MODULE RoomCleaningProofs ---------------------------
(***************************************************************************)
(* For any rooms, any number of requests that overlap and anything the robot  *)
(* does by itself: the selection is the job of the robot, or empty after an    *)
(* Off that a new job has overtaken, and an Off that is answered has ended     *)
(* the cleaning.                                                              *)
(***************************************************************************)
EXTENDS RoomCleaning, TLAPS

\* The robot has a job exactly if it works on it, or has stopped with it.
AtWork == Cleaning \cup {"paused", "error"}
Robots == {r \in [state : State, job : Cleaning \cup {"none"}, rooms : SUBSET Rooms] :
             r.job # "none" <=> r.state \in AtWork}

\* A request goes on to charge by pause, stop and charge alone, and is granted only once
\* the robot has answered.
Ordered(r) ==
  /\ r.off # "none" => r.await \in {"pause", "stop", "charge"}
  /\ r.await \in {"stop", "charge"} => r.off # "none"
  /\ r.at = "sent" => ~r.granted
Pending == {r \in Requests : Ordered(r)}

\* The selection is the job, also while the robot is in error.
SelectionKept ==
  robot.job # "none" /\ ~apart => selected = Expected(robot) \/ (late /\ selected = {})

\* A robot that was told to charge is on its way until it is given a job.
Docked ==
  \A o \in Slots : Docking(o) /\ o \notin undone => robot.state \in Homing

MemoryOK == /\ seen \in State /\ shown \in BOOLEAN /\ selected \in SUBSET Rooms
            /\ timer \in BOOLEAN /\ polled \in SUBSET State
            /\ late \in BOOLEAN /\ apart \in BOOLEAN
CountOK  == requests \in 0..MaxRequests /\ moves \in 0..MaxMoves

IInv ==
  /\ robot \in Robots /\ op \in [Slots -> Pending] /\ undone \in SUBSET Slots
  /\ MemoryOK /\ CountOK
  /\ SelectionKept /\ Docked

\* The invariant implies the properties of the runs.
LEMMA Implied == IInv => TypeOK /\ SelectionIsJob
<1> SUFFICES ASSUME IInv PROVE TypeOK /\ SelectionIsJob  OBVIOUS
<1>1. robot \in [state : State, job : Cleaning \cup {"none"}, rooms : SUBSET Rooms]
      /\ (robot.job # "none" <=> robot.state \in AtWork)
  BY DEF IInv, Robots
<1>2. op \in [Slots -> Requests] /\ \A o \in Slots : Ordered(op[o])
  BY DEF IInv, Pending
<1>3. TypeOK
  BY <1>1, <1>2 DEF IInv, MemoryOK, CountOK, TypeOK, Ordered, Charging
<1>4. SelectionIsJob
  BY <1>1 DEF IInv, SelectionKept, SelectionIsJob, AtWork
<1>5. QED  BY <1>3, <1>4

\* A slot that nobody uses is in order.
LEMMA UnusedPending == Unused \in Pending /\ Unused.off = "none" /\ ~Unused.granted
  BY DEF Unused, Pending, Requests, Ordered

\* The bounds are numbers.
LEMMA Bounds == MaxRequests \in Nat /\ MaxMoves \in Nat
  BY RoomsAssumption DEF RoomsAssumption

\* The home begins with a robot that charges, no rooms selected and no request.
LEMMA InitIInv == Init => IInv
<1> SUFFICES ASSUME Init PROVE IInv  OBVIOUS
<1>1. robot \in Robots
  BY DEF Init, Robot, Robots, State, Homing, Cleaning, AtWork
<1>2. op \in [Slots -> Pending] /\ undone \in SUBSET Slots /\ \A o \in Slots : ~Docking(o)
  BY UnusedPending DEF Init, Docking, Charging
<1>3. MemoryOK  BY DEF Init, MemoryOK, State, Homing
<1>4. CountOK  BY Bounds DEF Init, CountOK
<1>5. SelectionKept  BY DEF Init, SelectionKept, Robot
<1>6. Docked  BY <1>2 DEF Docked
<1>7. QED  BY <1>1, <1>2, <1>3, <1>4, <1>5, <1>6 DEF IInv

-----------------------------------------------------------------------------
\* A slot that goes on with a command is in order and not granted yet.
LEMMA SendingPending ==
  ASSUME op \in [Slots -> Pending], NEW o \in Slots, NEW off \in {"none", "off", "zoneOff"},
         NEW c \in Command, NEW rooms \in SUBSET Rooms,
         off # "none" => c \in {"pause", "stop", "charge"},
         c \in {"stop", "charge"} => off # "none"
  PROVE  /\ Sending(o, off, c, rooms) \in [Slots -> Pending]
         /\ ~Sending(o, off, c, rooms)[o].granted
         /\ Sending(o, off, c, rooms)[o].at = "sent"
         /\ \A x \in Slots \ {o} : Sending(o, off, c, rooms)[x] = op[x]
<1> DEFINE new == [Unused EXCEPT !.off = off, !.await = c, !.at = "sent",
                                 !.rooms = IF c \in {"segment", "resumeSegment"}
                                           THEN rooms ELSE {}]
<1>1. new \in Requests /\ new.off = off /\ new.await = c /\ new.at = "sent" /\ ~new.granted
  BY DEF Unused, Requests
<1>2. new \in Pending  BY <1>1 DEF Pending, Ordered
<1>3. Sending(o, off, c, rooms) = [op EXCEPT ![o] = new]  BY DEF Sending
<1> HIDE DEF new
<1>4. QED  BY <1>1, <1>2, <1>3

\* What a request begins with.
LEMMA FirstCommand ==
  ASSUME NEW k \in Kind
  PROVE  /\ First(k) \subseteq Command \ {"stop", "charge"}
         /\ k \in {"off", "zoneOff"} => First(k) \subseteq {"pause"}
  BY DEF First, Command, Kind

\* A request of the home uses a free slot and nothing else.
LEMMA RequestSlot ==
  ASSUME IInv, NEW o \in Slots, (\E k \in Kind : Request(o, k)) \/ RoomTimeout(o)
  PROVE  /\ op[o] = Unused /\ op' \in [Slots -> Pending]
         /\ (op'[o] = Unused \/ op'[o].at = "sent") /\ ~op'[o].granted
         /\ \A x \in Slots \ {o} : op'[x] = op[x]
<1>0. op \in [Slots -> Pending] /\ selected \in SUBSET Rooms  BY DEF IInv, MemoryOK
<1>1. op[o] = Unused  BY DEF Request, RoomTimeout, Free
<1>2. CASE op' = op  BY <1>0, <1>1, <1>2, UnusedPending
<1>3. ASSUME NEW off \in {"none", "off", "zoneOff"}, NEW c \in Command \ {"stop", "charge"},
             off # "none" => c = "pause", op' = Sending(o, off, c, selected)
      PROVE  /\ op' \in [Slots -> Pending] /\ op'[o].at = "sent" /\ ~op'[o].granted
             /\ \A x \in Slots \ {o} : op'[x] = op[x]
  BY <1>0, <1>3, SendingPending
<1>4. CASE RoomTimeout(o)
  <2>1. "on" \in Kind  BY DEF Kind
  <2>2. op' = op \/ \E c \in First("on") : op' = Sending(o, "none", c, selected)
    BY <1>4 DEF RoomTimeout
  <2>3. QED  BY <1>1, <1>2, <1>3, <2>1, <2>2, FirstCommand
<1>5. ASSUME NEW k \in Kind, Request(o, k)
      PROVE  op' = op \/ \E off \in {"none", "off", "zoneOff"}, c \in Command \ {"stop", "charge"} :
                           (off # "none" => c = "pause") /\ op' = Sending(o, off, c, selected)
  BY <1>5, FirstCommand DEF Request, Kind
<1>6. QED  BY <1>1, <1>2, <1>3, <1>4, <1>5

\* A command of a request that goes on to charge is not the last one unless it is charge
\* itself, or one that was not granted.
LEMMA ThenCommand ==
  ASSUME NEW o \in Slots, NEW ok \in BOOLEAN
  PROVE  /\ Then(o, ok) \subseteq {"stop", "charge"}
         /\ Then(o, ok) # {} => Charging(o)
         /\ Charging(o) /\ op[o].await \in {"pause", "stop"} /\ ok => Then(o, ok) # {}
  BY DEF Then

\* A settled command leaves its slot free or with the next command.
LEMMA SettledSlot ==
  ASSUME op \in [Slots -> Pending], NEW o \in Slots, NEW ok \in BOOLEAN, Settled(o, ok)
  PROVE  /\ op' \in [Slots -> Pending] /\ ~op'[o].granted
         /\ Then(o, ok) # {} => op'[o].at = "sent"
         /\ \A x \in Slots \ {o} : op'[x] = op[x]
<1>1. CASE Then(o, ok) = {} /\ op' = [op EXCEPT ![o] = Unused]
  BY <1>1, UnusedPending
<1>2. ASSUME NEW c \in Then(o, ok), op' = Sending(o, op[o].off, c, {})
      PROVE  /\ op' \in [Slots -> Pending] /\ ~op'[o].granted /\ op'[o].at = "sent"
             /\ \A x \in Slots \ {o} : op'[x] = op[x]
  <2>1. c \in {"stop", "charge"} /\ op[o].off # "none"  BY ThenCommand DEF Charging
  <2>2. op[o].off \in {"none", "off", "zoneOff"}  BY DEF Pending, Requests
  <2>3. c \in Command  BY <2>1 DEF Command
  <2>4. QED  BY <1>2, <2>1, <2>2, <2>3, SendingPending
<1>3. QED  BY <1>1, <1>2 DEF Settled

\* A slot that is not granted does not send the robot home, the others do as before.
LEMMA DockedKept ==
  ASSUME IInv, NEW o \in Slots, ~op'[o].granted, \A x \in Slots \ {o} : op'[x] = op[x],
         UNCHANGED robot, undone \ {o} \subseteq undone'
  PROVE  Docked'
<1>1. ASSUME NEW x \in Slots, Docking(x)', x \notin undone'
      PROVE  robot.state \in Homing
  <2>1. x # o  BY <1>1 DEF Docking
  <2>2. Docking(x)  BY <1>1, <2>1 DEF Docking, Charging
  <2>3. QED  BY <1>1, <2>1, <2>2 DEF IInv, Docked
<1>2. QED  BY <1>1 DEF Docked

-----------------------------------------------------------------------------
\* What a command makes of the robot is a state it can be in.
LEMMA ObeyedRobot ==
  ASSUME robot \in Robots, NEW c \in Command, NEW rooms \in SUBSET Rooms
  PROVE  /\ Obeyed(c, rooms) \in Robots
         /\ c = "charge" => Obeyed(c, rooms).state \in Homing
         /\ robot.state \in Homing /\ Obeyed(c, rooms).job = "none"
              => Obeyed(c, rooms).state \in Homing
<1>1. /\ robot \in [state : State, job : Cleaning \cup {"none"}, rooms : SUBSET Rooms]
      /\ robot.job # "none" <=> robot.state \in AtWork
  BY DEF Robots
<1>2. \A s \in State, j \in Cleaning \cup {"none"}, r \in SUBSET Rooms :
        (j # "none" <=> s \in AtWork) => Robot(s, j, r) \in Robots
  BY DEF Robot, Robots
<1>3. \A s \in AtWork : robot.state \in AtWork => [robot EXCEPT !.state = s] \in Robots
  BY <1>1 DEF Robots, AtWork, State, Silent
<1>4. /\ Robot("room-cleaning", "room-cleaning", rooms) \in Robots
      /\ Robot("zone-cleaning", "zone-cleaning", {}) \in Robots
      /\ Robot("cleaning", "cleaning", {}) \in Robots
      /\ Robot("waiting", "none", {}) \in Robots
      /\ Robot("returning", "none", {}) \in Robots
  BY <1>2 DEF State, Homing, Cleaning, AtWork
<1>5. robot.state = "paused" => [robot EXCEPT !.state = robot.job] \in Robots
  BY <1>1, <1>3 DEF AtWork
<1>6. robot.state \in Cleaning => [robot EXCEPT !.state = "paused"] \in Robots
  BY <1>3 DEF AtWork
<1>7. Obeyed(c, rooms) \in Robots  BY <1>4, <1>5, <1>6 DEF Obeyed, Command
<1>8. c = "charge" => Obeyed(c, rooms).state \in Homing
  BY DEF Obeyed, Robot, Homing
<1>9. ASSUME robot.state \in Homing, Obeyed(c, rooms).job = "none"
      PROVE  Obeyed(c, rooms).state \in Homing
  <2>1. robot.job = "none"  BY <1>1, <1>9 DEF Homing, AtWork, Cleaning
  <2>2. QED  BY <1>9, <2>1 DEF Obeyed, Robot, Homing, Cleaning
<1>10. QED  BY <1>7, <1>8, <1>9

\* So is what it does by itself.
LEMMA MovesRobot ==
  ASSUME robot \in Robots
  PROVE  /\ Moves \subseteq Robots
         /\ \A new \in Moves :
              robot.state \in Homing /\ new.job = "none" => new.state \in Homing
<1>1. /\ robot \in [state : State, job : Cleaning \cup {"none"}, rooms : SUBSET Rooms]
      /\ robot.job # "none" <=> robot.state \in AtWork
  BY DEF Robots
<1>2. \A s \in AtWork : robot.state \in AtWork => [robot EXCEPT !.state = s] \in Robots
  BY <1>1 DEF Robots, AtWork, State, Silent
<1>3. /\ \A state \in Homing : Robot(state, "none", {}) \in Robots
      /\ "returning" \in Homing
      /\ Robot("cleaning", "cleaning", {}) \in Robots
  BY DEF Robot, Robots, State, Homing, Cleaning, AtWork
<1>4. ASSUME robot.state \in AtWork  PROVE Moves \subseteq Robots
  <2>1. /\ [robot EXCEPT !.state = "paused"] \in Robots
        /\ [robot EXCEPT !.state = "error"] \in Robots
        /\ [robot EXCEPT !.state = robot.job] \in Robots
    BY <1>1, <1>2, <1>4 DEF AtWork
  <2>2. QED  BY <1>3, <1>4, <2>1 DEF Moves, AtWork, Cleaning
<1>5. ASSUME robot.state \notin AtWork  PROVE Moves \subseteq Robots
  BY <1>3, <1>5 DEF Moves, AtWork, Cleaning
<1>6. ASSUME NEW new \in Moves, robot.state \in Homing, new.job = "none"
      PROVE  new.state \in Homing
  BY <1>6 DEF Moves, Robot, Homing, Cleaning
<1>7. QED  BY <1>4, <1>5, <1>6

\* A robot that becomes new has the selection as its job, or the histories say that it
\* has not; it stays on its way home as long as it has no job.
LEMMA BecomesKeeps ==
  ASSUME IInv, NEW new \in Robots, Becomes(new)
  PROVE  /\ robot' \in Robots /\ SelectionKept' /\ MemoryOK'
         /\ undone' \in SUBSET Slots /\ undone \subseteq undone'
         /\ \A o \in Slots : Docking(o) /\ o \notin undone' => new.job = "none"
<1>1. /\ robot' = new /\ UNCHANGED <<seen, shown, selected, timer, polled>>
      /\ undone' = IF new.job = "none" THEN undone ELSE undone \cup {o \in Slots : Docking(o)}
      /\ late' = (late /\ new.job # "none" /\ ~Begins(new))
  BY DEF Becomes, memory
<1>2. late' \in BOOLEAN  BY <1>1, Zenon
<1>3. /\ undone' \in SUBSET Slots /\ undone \subseteq undone'
      /\ \A o \in Slots : Docking(o) /\ o \notin undone' => new.job = "none"
  BY <1>1 DEF IInv
<1>4. CASE Begins(new)
  <2>1. apart' = (selected # Expected(new))  BY <1>4 DEF Becomes
  <2>2. apart' \in BOOLEAN  BY <2>1, Zenon
  <2>3. ~apart' => selected = Expected(new)  BY <2>1, Zenon
  <2>4. SelectionKept'  BY <1>1, <2>3 DEF SelectionKept, Expected
  <2>5. QED  BY <1>1, <1>2, <1>3, <2>2, <2>4 DEF IInv, MemoryOK
<1>5. CASE ~Begins(new)
  <2>1. apart' = (apart /\ new.job # "none")  BY <1>5 DEF Becomes
  <2>2. apart' \in BOOLEAN  BY <2>1, Zenon
  <2>3. new.job # "none" /\ ~apart' => ~apart  BY <2>1, Zenon
  <2>4. new.job # "none" /\ late => late'  BY <1>1, <1>5, Zenon
  <2>5. new.job # "none" => new.job = robot.job /\ new.rooms = robot.rooms
    BY <1>5 DEF Begins
  <2>6. SelectionKept'
    BY <1>1, <2>3, <2>4, <2>5 DEF SelectionKept, Expected, IInv
  <2>7. QED  BY <1>1, <1>2, <1>3, <2>2, <2>6 DEF IInv, MemoryOK
<1>6. QED  BY <1>4, <1>5

\* The robot obeys, refuses or moves on.
LEMMA RobotKeeps ==
  ASSUME IInv, (\E o \in Slots : Execute(o) \/ CallFails(o)) \/ MovesOn
  PROVE  IInv'
<1>0. robot \in Robots /\ op \in [Slots -> Pending]  BY DEF IInv
<1>1. ASSUME NEW o \in Slots, Execute(o)
      PROVE  IInv'
  <2>1. PICK granted \in BOOLEAN :
          /\ op' = [op EXCEPT ![o].at = "answered", ![o].rooms = {},
                              ![o].granted = (granted /\ Charging(o))]
          /\ Becomes(IF granted THEN Obeyed(op[o].await, op[o].rooms) ELSE robot)
    BY <1>1 DEF Execute
  <2> DEFINE new == IF granted THEN Obeyed(op[o].await, op[o].rooms) ELSE robot
             sent == [op[o] EXCEPT !.at = "answered", !.rooms = {},
                                   !.granted = (granted /\ Charging(o))]
  <2>2. op[o].await \in Command \cup {"none"} /\ op[o].rooms \in SUBSET Rooms
    BY <1>0 DEF Pending, Requests
  <2>3. new \in Robots
    <3>1. CASE op[o].await \in Command  BY <1>0, <2>2, <3>1, ObeyedRobot
    <3>2. CASE op[o].await = "none"  BY <1>0, <3>2 DEF Obeyed
    <3>3. QED  BY <2>2, <3>1, <3>2
  <2>4. Becomes(new)  BY <2>1
  <2> HIDE DEF new
  <2>5. /\ robot' \in Robots /\ SelectionKept' /\ MemoryOK'
        /\ undone' \in SUBSET Slots /\ undone \subseteq undone'
        /\ \A x \in Slots : Docking(x) /\ x \notin undone' => new.job = "none"
        /\ robot' = new
    BY <2>3, <2>4, BecomesKeeps DEF Becomes
  <2>6. (granted /\ Charging(o)) \in BOOLEAN  BY Zenon DEF Charging
  <2>7. sent \in Pending /\ sent.off = op[o].off /\ sent.await = op[o].await
        /\ (sent.granted => granted /\ Charging(o))
    <3>1. op[o] \in Requests /\ Ordered(op[o])  BY <1>0 DEF Pending
    <3>2. sent.granted = (granted /\ Charging(o)) /\ sent.at = "answered"
          /\ sent.off = op[o].off /\ sent.await = op[o].await
      BY <3>1 DEF Requests
    <3>3. sent \in Requests  BY <2>6, <3>1 DEF Requests
    <3>4. sent \in Pending  BY <3>1, <3>2, <3>3 DEF Pending, Ordered
    <3>5. QED  BY <3>2, <3>4, Zenon
  <2>8. op' = [op EXCEPT ![o] = sent]  BY <1>0, <2>1
  <2> HIDE DEF sent
  <2>9. op' \in [Slots -> Pending]  BY <1>0, <2>7, <2>8
  <2>10. Docked'
    <3>1. ASSUME NEW x \in Slots, Docking(x)', x \notin undone'
          PROVE  robot'.state \in Homing
      <4>1. CASE x = o
        <5>1. granted /\ op[o].await = "charge"
          BY <1>0, <2>7, <2>8, <3>1, <4>1 DEF Docking
        <5>2. QED  BY <1>0, <2>2, <2>5, <5>1, ObeyedRobot DEF new, Command
      <4>2. CASE x # o
        <5>1. Docking(x)  BY <1>0, <2>8, <3>1, <4>2 DEF Docking, Charging
        <5>2. robot.state \in Homing /\ new.job = "none"
          BY <2>5, <3>1, <5>1 DEF IInv, Docked
        <5>3. new.state \in Homing
          BY <1>0, <2>2, <5>2, ObeyedRobot DEF new, Obeyed
        <5>4. QED  BY <2>5, <5>3
      <4>3. QED  BY <4>1, <4>2
    <3>2. QED  BY <3>1 DEF Docked
  <2>11. CountOK'  BY <1>1 DEF Execute, count, IInv, CountOK
  <2>12. QED  BY <2>5, <2>9, <2>10, <2>11 DEF IInv
<1>2. ASSUME NEW o \in Slots, CallFails(o)
      PROVE  IInv'
  <2>1. PICK new \in {robot, Obeyed(op[o].await, op[o].rooms)} : Becomes(new)
    BY <1>2 DEF CallFails
  <2>2. op[o].await \in Command \cup {"none"} /\ op[o].rooms \in SUBSET Rooms
    BY <1>0 DEF Pending, Requests
  <2>3. new \in Robots
    <3>1. CASE op[o].await \in Command  BY <1>0, <2>1, <2>2, <3>1, ObeyedRobot
    <3>2. CASE op[o].await = "none"  BY <1>0, <2>1, <3>2 DEF Obeyed
    <3>3. QED  BY <2>2, <3>1, <3>2
  <2>4. /\ robot' \in Robots /\ SelectionKept' /\ MemoryOK'
        /\ undone' \in SUBSET Slots /\ undone \subseteq undone'
        /\ \A x \in Slots : Docking(x) /\ x \notin undone' => new.job = "none"
        /\ robot' = new
    BY <2>1, <2>3, BecomesKeeps DEF Becomes
  <2>5. /\ op' \in [Slots -> Pending] /\ ~op'[o].granted
        /\ \A x \in Slots \ {o} : op'[x] = op[x]
    BY <1>0, <1>2, SettledSlot DEF CallFails
  <2>6. Docked'
    <3>1. ASSUME NEW x \in Slots, Docking(x)', x \notin undone'
          PROVE  robot'.state \in Homing
      <4>1. x # o  BY <2>5, <3>1 DEF Docking
      <4>2. Docking(x)  BY <2>5, <3>1, <4>1 DEF Docking, Charging
      <4>3. robot.state \in Homing /\ new.job = "none"
        BY <2>4, <3>1, <4>2 DEF IInv, Docked
      <4>4. new.state \in Homing
        BY <1>0, <2>1, <2>2, <4>3, ObeyedRobot DEF Obeyed
      <4>5. QED  BY <2>4, <4>4
    <3>2. QED  BY <3>1 DEF Docked
  <2>7. CountOK'  BY <1>2 DEF CallFails, count, IInv, CountOK
  <2>8. QED  BY <2>4, <2>5, <2>6, <2>7 DEF IInv
<1>3. CASE MovesOn
  <2>1. PICK new \in Moves : Becomes(new)  BY <1>3 DEF MovesOn
  <2>2. new \in Robots  BY <1>0, <2>1, MovesRobot
  <2>3. /\ robot' \in Robots /\ SelectionKept' /\ MemoryOK'
        /\ undone' \in SUBSET Slots /\ undone \subseteq undone'
        /\ \A x \in Slots : Docking(x) /\ x \notin undone' => new.job = "none"
        /\ robot' = new
    BY <2>1, <2>2, BecomesKeeps DEF Becomes
  <2>4. op' = op  BY <1>3 DEF MovesOn
  <2>5. Docked'
    <3>1. ASSUME NEW x \in Slots, Docking(x)', x \notin undone'
          PROVE  robot'.state \in Homing
      <4>1. Docking(x)  BY <2>4, <3>1 DEF Docking, Charging
      <4>2. robot.state \in Homing /\ new.job = "none"
        BY <2>3, <3>1, <4>1 DEF IInv, Docked
      <4>3. QED  BY <1>0, <2>1, <2>3, <4>2, MovesRobot
    <3>2. QED  BY <3>1 DEF Docked
  <2>6. CountOK'  BY <1>3, Bounds DEF MovesOn, IInv, CountOK
  <2>7. QED  BY <1>0, <2>3, <2>4, <2>5, <2>6 DEF IInv
<1>4. QED  BY <1>1, <1>2, <1>3

-----------------------------------------------------------------------------
\* What is remembered of a state that was learnt: a selection that is cleared is no
\* longer the job of the robot only if the robot is not where it was believed to be, or
\* has a job that its Off did not know of.
LEMMA RememberKeeps ==
  ASSUME IInv, NEW state \in State, NEW offs \in SUBSET Slots, Remember(state, offs),
         \A o \in offs : Docking(o), UNCHANGED robot, polled' \in SUBSET State
  PROVE  SelectionKept' /\ MemoryOK'
<1> DEFINE showing == IF state = seen THEN shown ELSE ShownIn(state)
           over    == shown /\ ~showing
           clears  == over \/ offs # {}
<1>0. /\ robot \in Robots /\ MemoryOK /\ SelectionKept /\ Docked
  BY DEF IInv
<1>1. /\ seen' = state /\ shown' = showing /\ timer' = timer
      /\ selected' = IF clears THEN {} ELSE selected
      /\ apart' = (apart \/ (selected # {} /\ over /\ Parting(state)))
      /\ late' = (late \/ (selected # {} /\ offs \cap undone # {}))
  BY DEF Remember
<1>2. showing \in BOOLEAN  BY <1>0 DEF MemoryOK, ShownIn
<1> HIDE DEF showing
<1>3. late' \in BOOLEAN /\ apart' \in BOOLEAN  BY <1>1, Zenon
<1>4. MemoryOK'
  <2>1. selected' \in SUBSET Rooms  BY <1>0, <1>1 DEF MemoryOK
  <2>2. shown' \in BOOLEAN  BY <1>1, <1>2
  <2>3. QED  BY <1>0, <1>1, <1>3, <2>1, <2>2 DEF MemoryOK
<1>5. SelectionKept'
  <2> SUFFICES ASSUME robot.job # "none", ~apart'
               PROVE  selected' = Expected(robot) \/ (late' /\ selected' = {})
    BY DEF SelectionKept, Expected
  <2>1. ~apart /\ (late => late') /\ (selected = {} \/ ~(over /\ Parting(state)))
    BY <1>1, Zenon
  <2>2. selected = Expected(robot) \/ (late /\ selected = {})
    BY <1>0, <2>1 DEF SelectionKept
  <2>3. CASE selected = {}
    <3>1. selected' = {}  BY <1>1, <2>3, Zenon
    <3>2. QED  BY <2>1, <2>2, <2>3, <3>1
  <2>4. CASE selected # {}
    <3>1. robot.state \in AtWork  BY <1>0 DEF Robots
    <3>2. ~over
      <4>1. SUFFICES ASSUME over PROVE FALSE  OBVIOUS
      <4>2. ~Parting(state) /\ shown /\ ~showing  BY <2>1, <2>4, <4>1, Zenon
      <4>3. state = robot.state /\ state # "error"  BY <4>2 DEF Parting
      <4>4. state \in Cleaning \cup {"paused"}  BY <3>1, <4>3 DEF AtWork
      <4>5. ShownIn(state) = TRUE \/ ShownIn(state) = shown
        BY <4>4 DEF ShownIn, Silent, Cleaning
      <4>6. QED  BY <4>2, <4>5, Zenon DEF showing
    <3>3. CASE offs = {}
      <4>1. selected' = selected  BY <1>1, <3>2, <3>3, Zenon
      <4>2. QED  BY <2>2, <2>4, <4>1
    <3>4. CASE offs # {}
      <4>1. PICK o \in offs : Docking(o)  BY <3>4
      <4>2. o \in undone
        <5>1. robot.state \notin Homing  BY <3>1 DEF Homing, AtWork, Cleaning
        <5>2. QED  BY <1>0, <4>1, <5>1 DEF Docked
      <4>3. offs \cap undone # {}  BY <4>2
      <4>4. late' /\ selected' = {}  BY <1>1, <2>4, <3>4, <4>3, Zenon
      <4>5. QED  BY <4>4
    <3>5. QED  BY <3>3, <3>4
  <2>5. QED  BY <2>3, <2>4
<1>6. QED  BY <1>4, <1>5

\* A command is refreshed, or a poll answered: only an Off that is docking clears more
\* than the state says.
LEMMA RefreshKeeps ==
  ASSUME IInv, (\E o \in Slots : Refresh(o)) \/ Polled
  PROVE  IInv'
<1>0. /\ robot \in Robots /\ op \in [Slots -> Pending] /\ undone \in SUBSET Slots
      /\ MemoryOK /\ CountOK /\ Docked
  BY DEF IInv
<1>1. ASSUME NEW o \in Slots, Refresh(o)
      PROVE  IInv'
  <2>1. PICK state \in {robot.state, seen} : Remember(state, Off(o))  BY <1>1 DEF Refresh
  <2>2. state \in State  BY <1>0 DEF Robots, MemoryOK
  <2>3. Off(o) \in SUBSET Slots /\ \A x \in Off(o) : Docking(x)  BY DEF Off
  <2>4. UNCHANGED <<robot, polled, count>> /\ undone' = undone \ {o}  BY <1>1 DEF Refresh
  <2>5. SelectionKept' /\ MemoryOK'
    BY <1>0, <2>1, <2>2, <2>3, <2>4, RememberKeeps DEF MemoryOK
  <2>6. op[o].granted \in BOOLEAN  BY <1>0 DEF Pending, Requests
  <2>7. /\ op' \in [Slots -> Pending] /\ ~op'[o].granted
        /\ \A x \in Slots \ {o} : op'[x] = op[x]
    BY <1>0, <1>1, <2>6, SettledSlot DEF Refresh
  <2>8. Docked'  BY <2>4, <2>7, DockedKept
  <2>9. CountOK'  BY <1>0, <2>4 DEF count, CountOK
  <2>10. QED  BY <1>0, <2>4, <2>5, <2>7, <2>8, <2>9 DEF IInv
<1>2. CASE Polled
  <2>1. PICK state \in polled : Remember(state, {})  BY <1>2 DEF Polled
  <2>2. state \in State  BY <1>0 DEF MemoryOK
  <2>3. UNCHANGED <<robot, op, count, undone>> /\ polled' = {}  BY <1>2 DEF Polled
  <2>4. SelectionKept' /\ MemoryOK'
    BY <2>1, <2>2, <2>3, RememberKeeps
  <2>5. Docked'  BY <1>0, <2>3 DEF Docked, Docking, Charging
  <2>6. CountOK'  BY <1>0, <2>3 DEF count, CountOK
  <2>7. QED  BY <1>0, <2>3, <2>4, <2>5, <2>6 DEF IInv
<1>3. QED  BY <1>1, <1>2

-----------------------------------------------------------------------------
\* A request of the home or of the timer changes a free slot and no selection.
LEMMA RequestKeeps ==
  ASSUME IInv, NEW o \in Slots, (\E k \in Kind : Request(o, k)) \/ RoomTimeout(o)
  PROVE  IInv'
<1>0. /\ robot \in Robots /\ op \in [Slots -> Pending] /\ undone \in SUBSET Slots
      /\ MemoryOK /\ CountOK /\ SelectionKept /\ Docked
  BY DEF IInv
<1>1. /\ op' \in [Slots -> Pending] /\ ~op'[o].granted
      /\ \A x \in Slots \ {o} : op'[x] = op[x]
  BY RequestSlot
<1>2. UNCHANGED <<robot, seen, shown, selected, polled, moves, apart, late, undone>>
  BY DEF Request, RoomTimeout, memory, history
<1>3. requests < MaxRequests /\ requests' = requests + 1
  BY DEF Request, RoomTimeout
<1>4. timer' = FALSE \/ timer' = timer
  <2>1. CASE RoomTimeout(o)  BY <2>1 DEF RoomTimeout
  <2>2. ASSUME NEW k \in Kind, Request(o, k)  PROVE timer' = timer
    BY <2>2 DEF Request, memory
  <2>3. QED  BY <2>1, <2>2
<1>5. timer' \in BOOLEAN  BY <1>0, <1>4, Zenon DEF MemoryOK
<1>6. MemoryOK'  BY <1>0, <1>2, <1>5 DEF MemoryOK
<1>7. SelectionKept'  BY <1>0, <1>2 DEF SelectionKept, Expected
<1>8. Docked'  BY <1>1, <1>2, DockedKept
<1>9. CountOK'  BY <1>0, <1>2, <1>3, Bounds DEF CountOK
<1>10. QED  BY <1>0, <1>1, <1>2, <1>5, <1>6, <1>7, <1>8, <1>9 DEF IInv

\* Rooms are only selected for a robot that is seen without a job; if it has one all the
\* same, apart says so.
LEMMA SelectKeeps ==
  ASSUME IInv, NEW chosen \in SUBSET Rooms, SetCleaningRoom(chosen)
  PROVE  IInv'
<1>0. /\ robot \in Robots /\ op \in [Slots -> Pending] /\ undone \in SUBSET Slots
      /\ MemoryOK /\ CountOK /\ SelectionKept /\ Docked
  BY DEF IInv
<1>1. /\ Selectable /\ selected' = chosen /\ timer' = (chosen # {})
      /\ apart' = (apart \/ (chosen # selected /\ Parting(seen)))
      /\ UNCHANGED <<robot, seen, shown, op, polled, count, late, undone>>
  BY DEF SetCleaningRoom, TimeoutSet
<1>2. timer' \in BOOLEAN /\ apart' \in BOOLEAN  BY <1>1, Zenon
<1>3. MemoryOK'  BY <1>0, <1>1, <1>2 DEF MemoryOK
<1>4. SelectionKept'
  <2> SUFFICES ASSUME robot.job # "none", ~apart'
               PROVE  selected' = Expected(robot) \/ (late /\ selected' = {})
    BY <1>1 DEF SelectionKept, Expected
  <2>1. ~apart /\ (chosen = selected \/ ~Parting(seen))  BY <1>1, Zenon
  <2>2. Parting(seen)
    <3>1. robot.state \in AtWork  BY <1>0 DEF Robots
    <3>2. seen \notin Cleaning /\ seen # "paused"
      BY <1>1 DEF Selectable, isCleaning, isPaused
    <3>3. QED  BY <3>1, <3>2 DEF Parting, AtWork
  <2>3. QED  BY <1>0, <1>1, <2>1, <2>2 DEF SelectionKept
<1>5. Docked'  BY <1>0, <1>1 DEF Docked, Docking, Charging
<1>6. CountOK'  BY <1>0, <1>1 DEF count, CountOK
<1>7. QED  BY <1>0, <1>1, <1>3, <1>4, <1>5, <1>6 DEF IInv

\* A poll is asked, or fails, or nothing happens.
LEMMA PollKeeps ==
  ASSUME IInv, Poll \/ PollFails \/ UNCHANGED vars
  PROVE  IInv'
<1>0. /\ robot \in Robots /\ op \in [Slots -> Pending] /\ undone \in SUBSET Slots
      /\ MemoryOK /\ CountOK /\ SelectionKept /\ Docked
  BY DEF IInv
<1>1. UNCHANGED <<robot, seen, shown, selected, timer, op, requests, moves, apart, late, undone>>
  BY DEF Poll, PollFails, vars, memory, count, history
<1>2. polled' \in SUBSET State
  BY <1>0 DEF Poll, PollFails, vars, MemoryOK, Robots
<1>3. MemoryOK' /\ CountOK'  BY <1>0, <1>1, <1>2 DEF MemoryOK, CountOK
<1>4. SelectionKept'
  BY <1>0, <1>1 DEF SelectionKept, Expected
<1>5. Docked'  BY <1>0, <1>1 DEF Docked, Docking, Charging
<1>6. QED  BY <1>0, <1>1, <1>3, <1>4, <1>5 DEF IInv

\* A granted request leaves its slot only as a charge.
LEMMA OffStep ==
  ASSUME IInv, Next, NEW o \in Slots,
         Charging(o), op[o].granted, op'[o] = Unused, o \notin undone
  PROVE  robot.state \in Homing
<1>0. op \in [Slots -> Pending] /\ op[o] # Unused /\ op[o] \in Requests /\ Ordered(op[o])
      /\ Unused.at # "sent"
  BY UnusedPending DEF IInv, Pending, Unused
<1>1. op[o].at # "sent" /\ op[o].await \in {"pause", "stop", "charge"}
  BY <1>0 DEF Ordered, Charging
<1>2. CASE op[o].await = "charge"
  BY <1>2 DEF IInv, Docked, Docking
<1>3. ASSUME op[o].await \in {"pause", "stop"}  PROVE FALSE
  <2>1. ASSUME NEW x \in Slots, (\E k \in Kind : Request(x, k)) \/ RoomTimeout(x)
        PROVE  FALSE
    <3>1. op[x] = Unused /\ \A y \in Slots \ {x} : op'[y] = op[y]
      BY <2>1, RequestSlot
    <3>2. QED  BY <1>0, <3>1
  <2>2. ASSUME NEW x \in Slots, Execute(x)  PROVE FALSE
    <3>1. x # o  BY <1>1, <2>2 DEF Execute
    <3>2. op'[o] = op[o]  BY <1>0, <2>2, <3>1 DEF Execute
    <3>3. QED  BY <1>0, <3>2
  <2>3. ASSUME NEW x \in Slots, CallFails(x)  PROVE FALSE
    <3>1. x # o  BY <1>1, <2>3 DEF CallFails
    <3>2. op'[o] = op[o]  BY <1>0, <2>3, <3>1, SettledSlot DEF CallFails
    <3>3. QED  BY <1>0, <3>2
  <2>4. ASSUME NEW x \in Slots, Refresh(x)  PROVE FALSE
    <3>1. op[x].granted \in BOOLEAN  BY <1>0 DEF Pending, Requests
    <3>2. /\ Then(x, op[x].granted) # {} => op'[x].at = "sent"
          /\ \A y \in Slots \ {x} : op'[y] = op[y]
      BY <1>0, <2>4, <3>1, SettledSlot DEF Refresh
    <3>3. x = o  BY <1>0, <3>2
    <3>4. Then(o, op[o].granted) # {}  BY <1>3, <3>1, <3>3, ThenCommand
    <3>5. QED  BY <1>0, <3>2, <3>3, <3>4
  <2>5. op' # op  BY <1>0
  <2>6. QED
    BY <2>1, <2>2, <2>3, <2>4, <2>5 DEF Next, Goes, SetCleaningRoom, MovesOn, Poll, Polled, PollFails
<1>4. QED  BY <1>1, <1>2, <1>3

\* The inductive invariant holds in every reachable state.
THEOREM CleaningInvariance == Spec => []IInv
<1>1. IInv /\ [Next]_vars => IInv'
  BY RequestKeeps, SelectKeeps, RobotKeeps, RefreshKeeps, PollKeeps DEF Next, Goes
<1>2. QED  BY <1>1, InitIInv, PTL DEF Spec

\* The robot, the accessory's memory and the requests stay in their domains, for any
\* number of requests that overlap.
THEOREM CleaningTypeCorrect == Spec => []TypeOK
  BY CleaningInvariance, Implied, PTL

\* roomIdsToClean are the rooms the robot is at, through pauses, late answers and
\* requests that overlap, unless apart says why not; an Off whose answer comes after
\* a new job has begun (late) empties them, and does no more than that.
THEOREM SelectionFollowsJob == Spec => []SelectionIsJob
  BY CleaningInvariance, Implied, PTL

\* An Off that is answered has ended the cleaning, whichever of pause, stop and charge
\* failed before, for any number of requests in between.
THEOREM OffIsDone == Spec => OffEndsCleaning
<1>1. IInv /\ [Next]_vars =>
        [\A o \in Slots :
           Charging(o) /\ op[o].granted /\ op'[o] = Unused /\ o \notin undone
           => robot.state \in Homing]_vars
  BY OffStep
<1>2. QED  BY <1>1, CleaningInvariance, PTL DEF Spec, OffEndsCleaning
=============================================================================
