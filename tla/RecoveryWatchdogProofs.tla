------------------------ MODULE RecoveryWatchdogProofs ------------------------
(***************************************************************************)
(* What RecoveryWatchdog.tla keeps for all values of its constants.         *)
(***************************************************************************)
EXTENDS RecoveryWatchdog, TLAPS

\* The age of FIRST_FAILURE never exceeds the time without a healthy verdict:
\* this is what makes the confirmation window mean something.
WindowIsQuiet ==
  disk.first = "this" => \A age \in disk.firstAge : age <= quiet

\* The inductive invariant.
IInv == TypeOK /\ LaterBootSuppresses /\ GuardServesThisBoot /\ WindowIsQuiet

\* The fields of a process that goes on, and those of one that ends, have their types.
LEMMA GotoType ==
  ASSUME proc \in [Proc -> Processes], NEW p \in Proc, NEW l \in Label, NEW t \in Nat,
         Goto(p, l, t)
  PROVE  proc' \in [Proc -> Processes]
  BY DEF Goto, Processes

\* A process that ends is idle again, which is a state of a process.
LEMMA ExitType ==
  ASSUME proc \in [Proc -> Processes], NEW p \in Proc, Exit(p)
  PROVE  proc' \in [Proc -> Processes]
  BY DEF Exit, Processes, Idle, Label

\* rm of RECOVERY_ACTIVE keeps the markers well formed.
LEMMA ClearActiveType ==
  ASSUME NEW d \in Files
  PROVE  ClearActive(d) \in Files
  BY DEF ClearActive, Files, Mark

\* Entering the main body keeps markers and processes in their domains.
LEMMA EnterBodyType ==
  ASSUME TypeOK, NEW p \in Proc, EnterBody(p)
  PROVE  disk' \in Files /\ runtime' \in BOOLEAN /\ proc' \in [Proc -> Processes]
  BY GotoType, ClearActiveType, TimesAssumption
  DEF EnterBody, DropStaleActive, StaleActive, TypeOK, Label

\* Ages and remaining times stay natural numbers.
LEMMA TickNat ==
  /\ \A n \in Nat : Sooner(n) \in Nat
  /\ \A n \in Nat, c \in Nat : Older(n, c) \in Nat
  /\ \A n \in Int, c \in Nat : Older(n, c) \in Int
  BY DEF Sooner, Older

\* recover starts, and its loop goes on, with a well-formed process.
LEMMA BeginRecoverType ==
  ASSUME proc \in [Proc -> Processes], NEW p \in Proc, NEW b \in BOOLEAN,
         BeginRecover(p, b)
  PROVE  proc' \in [Proc -> Processes]
<1>1. PICK t \in ProbeTime :
        proc' = [proc EXCEPT ![p].at = "reason", ![p].wait = t, ![p].allow = b]
  BY DEF BeginRecover
<1>2. t \in Nat /\ "reason" \in Label
  BY TimesAssumption DEF Label, Recovering
<1> QED
  BY <1>1, <1>2 DEF Processes

\* One more round of wait_for_recovery keeps the processes in their domain.
LEMMA PollAgainType ==
  ASSUME proc \in [Proc -> Processes], NEW p \in Proc, NEW n \in Nat, PollAgain(p, n)
  PROVE  proc' \in [Proc -> Processes]
<1>1. CASE n <= Wait
  <2>1. PICK t \in ProbeTime :
          proc' = [proc EXCEPT ![p].wait = t + 1, ![p].elapsed = n]
    BY <1>1 DEF PollAgain
  <2>2. t + 1 \in Nat
    BY TimesAssumption
  <2> QED
    BY <2>1, <2>2 DEF Processes
<1>2. CASE ~(n <= Wait)
  <2>1. PICK t \in TraceTime : Goto(p, "lost", t + 1)
    BY <1>2 DEF PollAgain
  <2>2. t + 1 \in Nat /\ "lost" \in Label
    BY TimesAssumption DEF Label, Recovering
  <2> QED
    BY <2>1, <2>2, GotoType
<1> QED
  BY <1>1, <1>2

\* A tick keeps a process in its domain.
LEMMA AgedType ==
  ASSUME NEW r \in Processes
  PROVE  Aged(r) \in Processes
<1>1. r.wait \in Nat /\ r.ran \in Nat
  BY DEF Processes
<1>2. Sooner(r.wait) \in Nat /\ r.ran + 1 \in Nat
  BY <1>1 DEF Sooner
<1>3. ASSUME NEW w \in Nat, NEW n \in Nat
      PROVE  [r EXCEPT !.wait = w, !.ran = n] \in Processes
  BY DEF Processes
<1>4. [r EXCEPT !.wait = Sooner(@), !.ran = @ + 1] \in Processes
  BY <1>2, <1>3
<1> QED
  BY <1>4 DEF Aged

\* A restart and a tick keep the markers well formed.
LEMMA RestartedType ==
  ASSUME NEW d \in Files, NEW b \in Nat
  PROVE  Restarted(d, b) \in Files
<1>1. {age - b : age \in d.stamp} \in SUBSET Int
  BY DEF Files
<1>2. \A m \in Mark : Carried(m) \in Mark /\ (m # "torn" => Carried(m) # "torn")
  BY DEF Carried, Mark
<1> QED
  BY <1>1, <1>2 DEF Restarted, Files

\* A restart leaves the volatile state in its domain.
LEMMA RestartType ==
  ASSUME TypeOK, Restart
  PROVE  /\ runtime' \in BOOLEAN /\ proc' \in [Proc -> Processes]
         /\ due' \in [Proc -> Nat] /\ rebooting' \in BOOLEAN /\ quiet' \in Nat
         /\ up' \in BOOLEAN /\ maintenance' \in BOOLEAN /\ forgotten' \in BOOLEAN
<1>1. Idle \in Processes
  BY DEF Idle, Processes, Label
<1> QED
  BY <1>1, TimesAssumption DEF Restart, TypeOK, world

\* Every step keeps every variable in its domain.
LEMMA TypeStep == TypeOK /\ [Next]_vars => TypeOK'
<1> SUFFICES ASSUME TypeOK, [Next]_vars
             PROVE  TypeOK'
  OBVIOUS
<1> USE DEF TypeOK, vars, world, machine, history
<1>1. ASSUME NEW p \in Proc, Probe(p) PROVE TypeOK'
  BY <1>1, GotoType DEF Probe, At, Label
<1>2. ASSUME NEW p \in Proc, Clear(p) PROVE TypeOK'
  BY <1>2, ExitType DEF Clear, ClearIncident, NoMarkers, Files, Mark
<1>3. ASSUME NEW p \in Proc, DeferToMaintenance(p) PROVE TypeOK'
  BY <1>3, ExitType, ClearActiveType DEF DeferToMaintenance, Deferred, Files, Mark
<1>4. ASSUME NEW p \in Proc, AfterReboot(p) PROVE TypeOK'
  <2>1. disk' \in Files
    BY <1>4 DEF AfterReboot, Files
  <2>2. proc' \in [Proc -> Processes]
    BY <1>4, GotoType, ExitType, TimesAssumption DEF AfterReboot, Label
  <2> QED
    BY <1>4, <2>1, <2>2 DEF AfterReboot
<1>4a. ASSUME NEW p \in Proc, RetryReset(p) PROVE TypeOK'
  <2>1. proc' \in [Proc -> Processes]
    BY <1>4a, BeginRecoverType, ExitType DEF RetryReset
  <2> QED
    BY <1>4a, <2>1 DEF RetryReset
<1>5. ASSUME NEW p \in Proc, StartConfirmation(p) PROVE TypeOK'
  <2>1. disk' \in Files
    <3>1. {0} \in SUBSET Nat
      OBVIOUS
    <3> QED
      BY <1>5, <3>1 DEF StartConfirmation, Files, Mark
  <2>2. proc' \in [Proc -> Processes]
    BY <1>5, ExitType DEF StartConfirmation
  <2> QED
    BY <1>5, <2>1, <2>2 DEF StartConfirmation
<1>6. ASSUME NEW p \in Proc, Confirmed(p) PROVE TypeOK'
  <2>1. disk' \in Files
    BY <1>6 DEF Confirmed
  <2>2. proc' \in [Proc -> Processes]
    BY <1>6, BeginRecoverType, ExitType DEF Confirmed
  <2> QED
    BY <1>6, <2>1, <2>2 DEF Confirmed
<1>7. ASSUME NEW p \in Proc, Arm(p) PROVE TypeOK'
  <2>1. disk' \in Files
    <3>1. {} \in SUBSET Nat /\ Deadline \in SUBSET Nat
      BY TimesAssumption DEF Deadline
    <3> QED
      BY <1>7, <3>1 DEF Arm, Truncated, Files, Mark
  <2>2. proc' \in [Proc -> Processes]
    BY <1>7, GotoType DEF Arm, Label, Recovering
  <2> QED
    BY <1>7, <2>1, <2>2 DEF Arm
<1>8. ASSUME NEW p \in Proc, FillActive(p) PROVE TypeOK'
  <2>1. disk' \in Files
    <3>1. {} \in SUBSET Nat /\ Deadline \in SUBSET Nat
      BY TimesAssumption DEF Deadline
    <3> QED
      BY <1>8, <3>1 DEF FillActive, Files, Mark
  <2>2. proc' \in [Proc -> Processes]
    BY <1>8, GotoType DEF FillActive, Label, Recovering
  <2> QED
    BY <1>8, <2>1, <2>2 DEF FillActive
<1>9. ASSUME NEW p \in Proc, Announce(p) PROVE TypeOK'
  BY <1>9, GotoType, TimesAssumption DEF Announce, Label, Recovering
<1>10. ASSUME NEW p \in Proc, BeginWait(p) PROVE TypeOK'
  <2>1. disk' \in Files
    BY <1>10 DEF BeginWait
  <2>2. proc' \in [Proc -> Processes]
    <3>1. PICK t \in ProbeTime :
            proc' = [proc EXCEPT ![p].at = "poll", ![p].wait = t, ![p].elapsed = 0]
      BY <1>10 DEF BeginWait
    <3>2. t \in Nat /\ "poll" \in Label
      BY TimesAssumption DEF Label, Recovering
    <3> QED
      BY <3>1, <3>2 DEF Processes
  <2> QED
    BY <1>10, <2>1, <2>2 DEF BeginWait
<1>11. ASSUME NEW p \in Proc, Poll(p) PROVE TypeOK'
  <2>1. disk' \in Files
    BY <1>11 DEF Poll
  <2>2. proc' \in [Proc -> Processes]
    <3>1. proc[p].elapsed + 1 \in Nat
      BY DEF Processes
    <3> QED
      BY <1>11, <3>1, GotoType, PollAgainType DEF Poll, Label
  <2> QED
    BY <1>11, <2>1, <2>2 DEF Poll
<1>12. ASSUME NEW p \in Proc, GiveUp(p) PROVE TypeOK'
  <2>1. disk' \in Files
    BY <1>12, ClearActiveType DEF GiveUp, Request, Truncated, Files, Mark
  <2>2. proc' \in [Proc -> Processes]
    BY <1>12, GotoType, ExitType, TimesAssumption DEF GiveUp, Label, Recovering
  <2> QED
    BY <1>12, <2>1, <2>2 DEF GiveUp
<1>13. ASSUME NEW p \in Proc, FillRequest(p) PROVE TypeOK'
  BY <1>13, GotoType, TimesAssumption DEF FillRequest, Files, Mark, Label, Recovering
<1>14. ASSUME NEW p \in Proc, Ask(p) PROVE TypeOK'
  BY <1>14, ExitType DEF Ask, SubmitReboot
<1>15. ASSUME NEW p \in Proc, Kill(p) PROVE TypeOK'
  BY <1>15, ExitType DEF Kill
<1>16. CASE StartMain
  BY <1>16, EnterBodyType, TimesAssumption DEF StartMain, Proc
<1>17. CASE StartGuard
  BY <1>17, GotoType, ExitType, TimesAssumption DEF StartGuard, StaleActive, Proc,
     Label, Guarding
<1>18. CASE GuardProbe
  BY <1>18, GotoType DEF GuardProbe, Proc, Label, Guarding
<1>19. CASE GuardClear
  BY <1>19, ExitType, ClearActiveType DEF GuardClear, Proc
<1>20. CASE GuardCheck
  BY <1>20, GotoType, ExitType, TimesAssumption DEF GuardCheck, Proc, Label, Guarding
<1>21. CASE GuardSign
  BY <1>21, GotoType DEF GuardSign, Files, Mark, Proc, Label, Guarding
<1>22. CASE GuardRequest
  <2>1. disk' \in Files
    BY <1>22 DEF GuardRequest, Request, Truncated, Files, Mark
  <2>2. proc' \in [Proc -> Processes]
    BY <1>22, GotoType, TimesAssumption DEF GuardRequest, Proc, Label, Guarding
  <2> QED
    BY <1>22, <2>1, <2>2 DEF GuardRequest
<1>23. CASE GuardFill
  BY <1>23, GotoType, TimesAssumption DEF GuardFill, Files, Mark, Proc, Label, Guarding
<1>24. CASE GuardAsk
  BY <1>24, EnterBodyType DEF GuardAsk, SubmitReboot, Proc
<1>25. CASE Tick
  <2>1. disk' \in Files
    <3>1. {Older(age, Confirm) : age \in disk.firstAge} \in SUBSET Nat
      BY TickNat, TimesAssumption DEF Files
    <3>2. {Sooner(left) : left \in disk.deadline} \in SUBSET Nat
      BY TickNat DEF Files
    <3>3. {Older(age, Retry) : age \in disk.stamp} \in SUBSET Int
      BY TickNat, TimesAssumption DEF Files
    <3> QED
      BY <1>25, <3>1, <3>2, <3>3 DEF Tick, Files
  <2>2. proc' \in [Proc -> Processes]
    <3>1. proc' = [p \in Proc |-> Aged(proc[p])]
      BY <1>25 DEF Tick
    <3> QED
      BY <3>1, AgedType
  <2> QED
    BY <1>25, <2>1, <2>2, TickNat, TimesAssumption DEF Tick
<1>26. CASE Reboot
  <2>1. disk' \in Files
    BY <1>26, RestartedType DEF Reboot
  <2>2. proc' \in [Proc -> Processes]
    BY <1>26, RestartType DEF Reboot
  <2> QED
    BY <1>26, <2>1, <2>2, RestartType DEF Reboot
<1>27. CASE Crash
  <2>1. disk' \in Files
    BY <1>27, RestartedType, TimesAssumption DEF Crash
  <2>2. proc' \in [Proc -> Processes]
    BY <1>27, RestartType DEF Crash
  <2> QED
    BY <1>27, <2>1, <2>2, RestartType, TimesAssumption DEF Crash
<1>28. CASE Heal
  BY <1>28 DEF Heal
<1>29. CASE Fail
  BY <1>29 DEF Fail
<1>30. CASE MaintenanceWindow
  BY <1>30 DEF MaintenanceWindow
<1>31. CASE UNCHANGED vars
  BY <1>31
<1> QED
  BY <1>1, <1>2, <1>3, <1>4, <1>4a, <1>5, <1>6, <1>7, <1>8, <1>9, <1>10, <1>11, <1>12,
     <1>13, <1>14, <1>15, <1>16, <1>17, <1>18, <1>19, <1>20, <1>21, <1>22, <1>23, <1>24,
     <1>25, <1>26, <1>27, <1>28, <1>29, <1>30, <1>31 DEF Next, Body, Guard

-----------------------------------------------------------------------------
\* A new machine has no markers, and nothing runs.
LEMMA Init_IInv == Init => IInv
<1> SUFFICES ASSUME Init
             PROVE  IInv
  OBVIOUS
<1>1. TypeOK
  <2>1. NoMarkers \in Files
    BY DEF NoMarkers, Files, Mark
  <2>2. Idle \in Processes
    BY DEF Idle, Processes, Label
  <2>3. due \in [Proc -> Nat] /\ crashes \in 0..MaxCrashes /\ quiet \in Nat
    <3>1. \A c \in Nat : 0 \in 0..c
      OBVIOUS
    <3> QED
      BY <3>1, TimesAssumption DEF Init
  <2> QED
    BY <2>1, <2>2, <2>3 DEF Init, TypeOK
<1>2. LaterBootSuppresses /\ GuardServesThisBoot /\ WindowIsQuiet
  BY DEF Init, NoMarkers, Idle, LaterBootSuppresses, GuardServesThisBoot,
         WindowIsQuiet, Recovering, Guarding
<1> QED
  BY <1>1, <1>2 DEF IInv

\* Where a step leaves the process that takes it, and the other one.
LEMMA BeginRecoverLeaves ==
  ASSUME proc \in [Proc -> Processes], NEW p \in Proc, NEW b \in BOOLEAN,
         BeginRecover(p, b)
  PROVE  /\ proc'[p].at = "reason" /\ proc'[p].allow = b
         /\ \A q \in Proc : q # p => proc'[q] = proc[q]
  BY DEF BeginRecover, Processes

\* One more round of the wait stays at the poll or leaves it for the end.
LEMMA PollAgainLeaves ==
  ASSUME proc \in [Proc -> Processes], NEW p \in Proc, NEW n \in Nat, PollAgain(p, n)
  PROVE  /\ proc'[p].at \in {proc[p].at, "lost"} /\ proc'[p].allow = proc[p].allow
         /\ \A q \in Proc : q # p => proc'[q] = proc[q]
  BY DEF PollAgain, Goto, Processes

\* A process that goes on is at the new label and keeps its allow_reboot.
LEMMA GotoLeaves ==
  ASSUME proc \in [Proc -> Processes], NEW p \in Proc, NEW l, NEW t, Goto(p, l, t)
  PROVE  /\ proc'[p].at = l /\ proc'[p].allow = proc[p].allow
         /\ \A q \in Proc : q # p => proc'[q] = proc[q]
  BY DEF Goto, Processes

\* A process that ends is idle and may not reboot.
LEMMA ExitLeaves ==
  ASSUME proc \in [Proc -> Processes], NEW p \in Proc, Exit(p)
  PROVE  /\ proc'[p].at = "idle" /\ proc'[p].allow = FALSE
         /\ \A q \in Proc : q # p => proc'[q] = proc[q]
  BY DEF Exit, Idle, Processes

\* A run that finds the reboot used goes on to the retry or ends.
LEMMA AfterRebootLeaves ==
  ASSUME TypeOK, NEW p \in Proc, AfterReboot(p)
  PROVE  /\ proc'[p].at \in {"retry", "idle"}
         /\ proc'[p].ran \in {0, proc[p].ran}
         /\ \A q \in Proc : q # p => proc'[q] = proc[q]
<1>1. proc \in [Proc -> Processes]
  BY DEF TypeOK
<1>2. CASE Exit(p)
  <2>1. proc'[p].ran = 0
    BY <1>1, <1>2 DEF Exit, Idle
  <2> QED
    BY <1>1, <1>2, <2>1, ExitLeaves
<1>3. ASSUME NEW t, Goto(p, "retry", t)
      PROVE  /\ proc'[p].at = "retry" /\ proc'[p].ran = proc[p].ran
             /\ \A q \in Proc : q # p => proc'[q] = proc[q]
  BY <1>1, <1>3 DEF Goto, Processes
<1>4. Exit(p) \/ \E t : Goto(p, "retry", t)
  BY DEF AfterReboot
<1> QED
  BY <1>2, <1>3, <1>4

\* A poll ends in a recovery, in another poll, or in giving up.
LEMMA PollLeaves ==
  ASSUME TypeOK, NEW p \in Proc, Poll(p)
  PROVE  /\ proc[p].at = "poll" /\ proc'[p].at \in {"clear", "poll", "lost"}
         /\ proc'[p].allow = proc[p].allow
         /\ \A q \in Proc : q # p => proc'[q] = proc[q]
<1>1. PICK ok \in Sample :
        IF ok THEN Goto(p, "clear", 0) ELSE PollAgain(p, proc[p].elapsed + 1)
  BY DEF Poll
<1>2. proc \in [Proc -> Processes] /\ proc[p].elapsed + 1 \in Nat
  BY DEF TypeOK, Processes
<1>3. CASE ok
  BY <1>1, <1>2, <1>3, GotoLeaves DEF Poll, At
<1>4. CASE ~ok
  BY <1>1, <1>2, <1>4, PollAgainLeaves DEF Poll, At
<1> QED
  BY <1>3, <1>4

\* Time does not move a process.
LEMMA AgedKeeps ==
  ASSUME NEW r \in Processes
  PROVE  Aged(r).at = r.at /\ Aged(r).allow = r.allow
  BY DEF Aged, Processes

\* Only a restart makes a marker an earlier boot's, and it ends every process.
LEMMA SuppressStep == TypeOK /\ LaterBootSuppresses /\ [Next]_vars => LaterBootSuppresses'
<1> SUFFICES ASSUME TypeOK, LaterBootSuppresses, [Next]_vars
             PROVE  LaterBootSuppresses'
  OBVIOUS
<1> USE DEF TypeOK, Processes, Files, Mark, LaterBootSuppresses, Recovering,
            vars, world, machine, history
<1>1. ASSUME NEW p \in Proc, Probe(p) PROVE LaterBootSuppresses'
  BY <1>1 DEF Probe, At, Goto
<1>2. ASSUME NEW p \in Proc, Clear(p) PROVE LaterBootSuppresses'
  BY <1>2 DEF Clear, ClearIncident, NoMarkers, Exit, Idle
<1>3. ASSUME NEW p \in Proc, DeferToMaintenance(p) PROVE LaterBootSuppresses'
  BY <1>3 DEF DeferToMaintenance, Deferred, ClearActive, Exit, Idle
<1>4. ASSUME NEW p \in Proc, AfterReboot(p) PROVE LaterBootSuppresses'
  <2>1. disk'.requested = disk.requested
    BY <1>4 DEF AfterReboot
  <2>2. /\ proc'[p].at \in {"retry", "idle"}
        /\ \A q \in Proc : q # p => proc'[q] = proc[q]
    BY <1>4, AfterRebootLeaves
  <2> QED
    BY <2>1, <2>2
<1>4a. ASSUME NEW p \in Proc, RetryReset(p) PROVE LaterBootSuppresses'
  <2>1. ~proc'[p].allow /\ \A q \in Proc : q # p => proc'[q] = proc[q]
    BY <1>4a, BeginRecoverLeaves, ExitLeaves DEF RetryReset
  <2>2. disk' = disk
    BY <1>4a DEF RetryReset
  <2> QED
    BY <2>1, <2>2
<1>5. ASSUME NEW p \in Proc, StartConfirmation(p) PROVE LaterBootSuppresses'
  BY <1>5 DEF StartConfirmation, NoRequest, Exit, Idle
<1>6. ASSUME NEW p \in Proc, Confirmed(p) PROVE LaterBootSuppresses'
  BY <1>6 DEF Confirmed, NoRequest, BeginRecover, Exit, Idle
<1>7. ASSUME NEW p \in Proc, Arm(p) PROVE LaterBootSuppresses'
  BY <1>7 DEF Arm, Truncated, At, Goto
<1>8. ASSUME NEW p \in Proc, FillActive(p) PROVE LaterBootSuppresses'
  BY <1>8 DEF FillActive, At, Goto
<1>9. ASSUME NEW p \in Proc, Announce(p) PROVE LaterBootSuppresses'
  BY <1>9 DEF Announce, At, Goto
<1>10. ASSUME NEW p \in Proc, BeginWait(p) PROVE LaterBootSuppresses'
  BY <1>10 DEF BeginWait, At
<1>11. ASSUME NEW p \in Proc, Poll(p) PROVE LaterBootSuppresses'
  BY <1>11, PollLeaves DEF Poll
<1>12. ASSUME NEW p \in Proc, GiveUp(p) PROVE LaterBootSuppresses'
  <2>1. CASE proc[p].allow
    <3>1. disk'.requested # "earlier"
      BY <1>12, <2>1 DEF GiveUp, Request, Truncated
    <3> QED
      BY <3>1
  <2>2. CASE ~proc[p].allow
    <3>1. disk'.requested = disk.requested
      BY <1>12, <2>2 DEF GiveUp, ClearActive
    <3> QED
      BY <1>12, <2>2, <3>1, ExitLeaves DEF GiveUp
  <2> QED
    BY <2>1, <2>2
<1>13. ASSUME NEW p \in Proc, FillRequest(p) PROVE LaterBootSuppresses'
  BY <1>13 DEF FillRequest, At, Goto
<1>14. ASSUME NEW p \in Proc, Ask(p) PROVE LaterBootSuppresses'
  BY <1>14 DEF Ask, Exit, Idle
<1>15. ASSUME NEW p \in Proc, Kill(p) PROVE LaterBootSuppresses'
  BY <1>15 DEF Kill, Exit, Idle
<1>16. CASE StartMain
  BY <1>16 DEF StartMain, EnterBody, DropStaleActive, StaleActive, ClearActive, Goto
<1>17. CASE StartGuard
  BY <1>17 DEF StartGuard, StaleActive, Goto, Exit, Idle
<1>18. CASE GuardProbe
  BY <1>18 DEF GuardProbe, At, Goto
<1>19. CASE GuardClear
  BY <1>19 DEF GuardClear, ClearActive, Exit, Idle
<1>20. CASE GuardCheck
  BY <1>20 DEF GuardCheck, At, Goto, Exit, Idle
<1>21. CASE GuardSign
  BY <1>21 DEF GuardSign, At, Goto
<1>22. CASE GuardRequest
  BY <1>22 DEF GuardRequest, Request, Truncated, At, Goto
<1>23. CASE GuardFill
  BY <1>23 DEF GuardFill, At, Goto
<1>24. CASE GuardAsk
  BY <1>24 DEF GuardAsk, EnterBody, DropStaleActive, StaleActive, ClearActive, At, Goto
<1>25. CASE Tick
  <2>1. \A q \in Proc : proc'[q].at = proc[q].at /\ proc'[q].allow = proc[q].allow
    BY <1>25, AgedKeeps DEF Tick
  <2>2. disk'.requested = disk.requested
    BY <1>25 DEF Tick
  <2> QED
    BY <2>1, <2>2
<1>26. CASE Reboot
  BY <1>26 DEF Reboot, Restart, Restarted, Idle
<1>27. CASE Crash
  BY <1>27 DEF Crash, Restart, Restarted, Idle
<1>28. CASE Heal
  BY <1>28 DEF Heal
<1>29. CASE Fail
  BY <1>29 DEF Fail
<1>30. CASE MaintenanceWindow
  BY <1>30 DEF MaintenanceWindow
<1>31. CASE UNCHANGED vars
  BY <1>31
<1> QED
  BY <1>1, <1>2, <1>3, <1>4, <1>4a, <1>5, <1>6, <1>7, <1>8, <1>9, <1>10, <1>11, <1>12,
     <1>13, <1>14, <1>15, <1>16, <1>17, <1>18, <1>19, <1>20, <1>21, <1>22, <1>23, <1>24,
     <1>25, <1>26, <1>27, <1>28, <1>29, <1>30, <1>31
  DEF Next, Body, Guard

\* The guard drops an earlier boot's marker before its first probe.
LEMMA GuardStep == TypeOK /\ GuardServesThisBoot /\ [Next]_vars => GuardServesThisBoot'
<1> SUFFICES ASSUME TypeOK, GuardServesThisBoot, [Next]_vars
             PROVE  GuardServesThisBoot'
  OBVIOUS
<1> USE DEF TypeOK, Processes, Files, Mark, GuardServesThisBoot, Guarding, Proc,
            vars, world, machine, history
<1>1. ASSUME NEW p \in Proc, Probe(p) PROVE GuardServesThisBoot'
  BY <1>1 DEF Probe, At, Goto
<1>2. ASSUME NEW p \in Proc, Clear(p) PROVE GuardServesThisBoot'
  BY <1>2 DEF Clear, ClearIncident, NoMarkers, Exit, Idle
<1>3. ASSUME NEW p \in Proc, DeferToMaintenance(p) PROVE GuardServesThisBoot'
  BY <1>3 DEF DeferToMaintenance, Deferred, ClearActive, Exit, Idle
<1>4. ASSUME NEW p \in Proc, AfterReboot(p) PROVE GuardServesThisBoot'
  <2>1. disk'.active = disk.active
    BY <1>4 DEF AfterReboot
  <2>2. /\ proc'[p].at \in {"retry", "idle"}
        /\ \A q \in Proc : q # p => proc'[q] = proc[q]
    BY <1>4, AfterRebootLeaves
  <2> QED
    BY <2>1, <2>2
<1>4a. ASSUME NEW p \in Proc, RetryReset(p) PROVE GuardServesThisBoot'
  <2>1. /\ proc'[p].at \in {"reason", "idle"}
        /\ \A q \in Proc : q # p => proc'[q] = proc[q]
    BY <1>4a, BeginRecoverLeaves, ExitLeaves DEF RetryReset
  <2>2. disk' = disk
    BY <1>4a DEF RetryReset
  <2> QED
    BY <2>1, <2>2
<1>5. ASSUME NEW p \in Proc, StartConfirmation(p) PROVE GuardServesThisBoot'
  BY <1>5 DEF StartConfirmation, NoRequest, Exit, Idle
<1>6. ASSUME NEW p \in Proc, Confirmed(p) PROVE GuardServesThisBoot'
  <2>1. /\ proc'[p].at \in {"reason", "idle"}
        /\ \A q \in Proc : q # p => proc'[q] = proc[q]
    BY <1>6, BeginRecoverLeaves, ExitLeaves DEF Confirmed
  <2> QED
    BY <1>6, <2>1 DEF Confirmed
<1>7. ASSUME NEW p \in Proc, Arm(p) PROVE GuardServesThisBoot'
  BY <1>7 DEF Arm, Truncated, At, Goto
<1>8. ASSUME NEW p \in Proc, FillActive(p) PROVE GuardServesThisBoot'
  BY <1>8 DEF FillActive, At, Goto
<1>9. ASSUME NEW p \in Proc, Announce(p) PROVE GuardServesThisBoot'
  BY <1>9 DEF Announce, At, Goto
<1>10. ASSUME NEW p \in Proc, BeginWait(p) PROVE GuardServesThisBoot'
  BY <1>10 DEF BeginWait, At
<1>11. ASSUME NEW p \in Proc, Poll(p) PROVE GuardServesThisBoot'
  BY <1>11, PollLeaves DEF Poll
<1>12. ASSUME NEW p \in Proc, GiveUp(p) PROVE GuardServesThisBoot'
  <2>1. disk'.active \in {disk.active, "absent"}
    BY <1>12 DEF GiveUp, Request, Truncated, ClearActive
  <2>2. /\ proc'[p].at \in {"sign", "ask", "idle"}
        /\ \A q \in Proc : q # p => proc'[q] = proc[q]
    <3>1. CASE proc[p].allow
      <4>1. PICK l \in {"sign", "ask"}, t \in Nat : Goto(p, l, t)
        BY <1>12, <3>1, TimesAssumption DEF GiveUp
      <4> QED
        BY <4>1, GotoLeaves
    <3>2. CASE ~proc[p].allow
      BY <1>12, <3>2, ExitLeaves DEF GiveUp
    <3> QED
      BY <3>1, <3>2
  <2> QED
    BY <2>1, <2>2
<1>13. ASSUME NEW p \in Proc, FillRequest(p) PROVE GuardServesThisBoot'
  BY <1>13 DEF FillRequest, At, Goto
<1>14. ASSUME NEW p \in Proc, Ask(p) PROVE GuardServesThisBoot'
  BY <1>14 DEF Ask, Exit, Idle
<1>15. ASSUME NEW p \in Proc, Kill(p) PROVE GuardServesThisBoot'
  BY <1>15 DEF Kill, Exit, Idle
<1>16. CASE StartMain
  BY <1>16 DEF StartMain, EnterBody, DropStaleActive, StaleActive, ClearActive, Goto
<1>17. CASE StartGuard
  BY <1>17 DEF StartGuard, StaleActive, Goto, Exit, Idle
<1>18. CASE GuardProbe
  BY <1>18 DEF GuardProbe, At, Goto
<1>19. CASE GuardClear
  BY <1>19 DEF GuardClear, ClearActive, Exit, Idle
<1>20. CASE GuardCheck
  BY <1>20 DEF GuardCheck, At, Goto, Exit, Idle
<1>21. CASE GuardSign
  BY <1>21 DEF GuardSign, At, Goto
<1>22. CASE GuardRequest
  BY <1>22 DEF GuardRequest, Request, Truncated, At, Goto
<1>23. CASE GuardFill
  BY <1>23 DEF GuardFill, At, Goto
<1>24. CASE GuardAsk
  BY <1>24 DEF GuardAsk, EnterBody, DropStaleActive, StaleActive, ClearActive, At, Goto
<1>25. CASE Tick
  BY <1>25 DEF Tick, Aged
<1>26. CASE Reboot
  BY <1>26 DEF Reboot, Restart, Restarted, Idle
<1>27. CASE Crash
  BY <1>27 DEF Crash, Restart, Restarted, Idle
<1>28. CASE Heal
  BY <1>28 DEF Heal
<1>29. CASE Fail
  BY <1>29 DEF Fail
<1>30. CASE MaintenanceWindow
  BY <1>30 DEF MaintenanceWindow
<1>31. CASE UNCHANGED vars
  BY <1>31
<1> QED
  BY <1>1, <1>2, <1>3, <1>4, <1>4a, <1>5, <1>6, <1>7, <1>8, <1>9, <1>10, <1>11, <1>12,
     <1>13, <1>14, <1>15, <1>16, <1>17, <1>18, <1>19, <1>20, <1>21, <1>22, <1>23, <1>24,
     <1>25, <1>26, <1>27, <1>28, <1>29, <1>30, <1>31
  DEF Next, Body, Guard

\* Whatever ends the quiet also removes FIRST_FAILURE.
LEMMA WindowStep == TypeOK /\ WindowIsQuiet /\ [Next]_vars => WindowIsQuiet'
<1> SUFFICES ASSUME TypeOK, WindowIsQuiet, [Next]_vars
             PROVE  WindowIsQuiet'
  OBVIOUS
<1> USE DEF TypeOK, Processes, Files, Mark, WindowIsQuiet, vars, world, machine, history
<1>1. ASSUME NEW p \in Proc, Probe(p) PROVE WindowIsQuiet'
  BY <1>1 DEF Probe, At, Goto
<1>2. ASSUME NEW p \in Proc, Clear(p) PROVE WindowIsQuiet'
  BY <1>2 DEF Clear, ClearIncident, NoMarkers, Exit, Idle
<1>3. ASSUME NEW p \in Proc, DeferToMaintenance(p) PROVE WindowIsQuiet'
  BY <1>3 DEF DeferToMaintenance, Deferred, ClearActive, Exit, Idle
<1>4. ASSUME NEW p \in Proc, AfterReboot(p) PROVE WindowIsQuiet'
  BY <1>4 DEF AfterReboot
<1>4a. ASSUME NEW p \in Proc, RetryReset(p) PROVE WindowIsQuiet'
  BY <1>4a DEF RetryReset
<1>5. ASSUME NEW p \in Proc, StartConfirmation(p) PROVE WindowIsQuiet'
  BY <1>5 DEF StartConfirmation, NoRequest, Exit, Idle
<1>6. ASSUME NEW p \in Proc, Confirmed(p) PROVE WindowIsQuiet'
  BY <1>6 DEF Confirmed, NoRequest, BeginRecover, Exit, Idle
<1>7. ASSUME NEW p \in Proc, Arm(p) PROVE WindowIsQuiet'
  BY <1>7 DEF Arm, Truncated, At, Goto
<1>8. ASSUME NEW p \in Proc, FillActive(p) PROVE WindowIsQuiet'
  BY <1>8 DEF FillActive, At, Goto
<1>9. ASSUME NEW p \in Proc, Announce(p) PROVE WindowIsQuiet'
  BY <1>9 DEF Announce, At, Goto
<1>10. ASSUME NEW p \in Proc, BeginWait(p) PROVE WindowIsQuiet'
  BY <1>10 DEF BeginWait, At
<1>11. ASSUME NEW p \in Proc, Poll(p) PROVE WindowIsQuiet'
  BY <1>11 DEF Poll, PollAgain, At, Goto
<1>12. ASSUME NEW p \in Proc, GiveUp(p) PROVE WindowIsQuiet'
  BY <1>12 DEF GiveUp, Request, Truncated, ClearActive, At, Goto, Exit, Idle
<1>13. ASSUME NEW p \in Proc, FillRequest(p) PROVE WindowIsQuiet'
  BY <1>13 DEF FillRequest, At, Goto
<1>14. ASSUME NEW p \in Proc, Ask(p) PROVE WindowIsQuiet'
  BY <1>14 DEF Ask, Exit, Idle
<1>15. ASSUME NEW p \in Proc, Kill(p) PROVE WindowIsQuiet'
  BY <1>15 DEF Kill, Exit, Idle
<1>16. CASE StartMain
  BY <1>16 DEF StartMain, EnterBody, DropStaleActive, StaleActive, ClearActive, Goto
<1>17. CASE StartGuard
  BY <1>17 DEF StartGuard, StaleActive, Goto, Exit, Idle
<1>18. CASE GuardProbe
  BY <1>18 DEF GuardProbe, At, Goto
<1>19. CASE GuardClear
  BY <1>19 DEF GuardClear, ClearActive, Exit, Idle
<1>20. CASE GuardCheck
  BY <1>20 DEF GuardCheck, At, Goto, Exit, Idle
<1>21. CASE GuardSign
  BY <1>21 DEF GuardSign, At, Goto
<1>22. CASE GuardRequest
  BY <1>22 DEF GuardRequest, Request, Truncated, At, Goto
<1>23. CASE GuardFill
  BY <1>23 DEF GuardFill, At, Goto
<1>24. CASE GuardAsk
  BY <1>24 DEF GuardAsk, EnterBody, DropStaleActive, StaleActive, ClearActive, At, Goto
<1>25. CASE Tick
  <2>1. disk'.first = disk.first /\ quiet' = Older(quiet, Confirm)
        /\ disk'.firstAge = {Older(age, Confirm) : age \in disk.firstAge}
    BY <1>25 DEF Tick
  <2>2. \A age \in Nat : age <= quiet => Older(age, Confirm) <= Older(quiet, Confirm)
    BY TimesAssumption DEF Older
  <2> QED
    BY <2>1, <2>2
<1>26. CASE Reboot
  BY <1>26 DEF Reboot, Restart, Restarted, Carried
<1>27. CASE Crash
  BY <1>27 DEF Crash, Restart, Restarted, Carried
<1>28. CASE Heal
  BY <1>28 DEF Heal
<1>29. CASE Fail
  BY <1>29 DEF Fail
<1>30. CASE MaintenanceWindow
  BY <1>30 DEF MaintenanceWindow
<1>31. CASE UNCHANGED vars
  BY <1>31
<1> QED
  BY <1>1, <1>2, <1>3, <1>4, <1>4a, <1>5, <1>6, <1>7, <1>8, <1>9, <1>10, <1>11, <1>12,
     <1>13, <1>14, <1>15, <1>16, <1>17, <1>18, <1>19, <1>20, <1>21, <1>22, <1>23, <1>24,
     <1>25, <1>26, <1>27, <1>28, <1>29, <1>30, <1>31
  DEF Next, Body, Guard

\* The only way from the decision into a recovery that may reboot.
LEMMA OnlyConfirmed ==
  ASSUME TypeOK, Next, NEW p \in Proc,
         proc[p].at = "decide", proc'[p].at = "reason", proc'[p].allow
  PROVE  Confirmed(p)
<1> USE DEF TypeOK, Processes, vars
<1>1. ASSUME NEW q \in Proc, Probe(q) PROVE Confirmed(p)
  BY <1>1 DEF Probe, At, Goto
<1>2. ASSUME NEW q \in Proc, Clear(q) PROVE Confirmed(p)
  BY <1>2 DEF Clear, Exit, Idle, At
<1>3. ASSUME NEW q \in Proc, DeferToMaintenance(q) PROVE Confirmed(p)
  BY <1>3 DEF DeferToMaintenance, Exit, Idle, At
<1>4. ASSUME NEW q \in Proc, AfterReboot(q) PROVE Confirmed(p)
  <2>1. proc'[q].at \in {"retry", "idle"}
    BY <1>4, AfterRebootLeaves
  <2>2. \A o \in Proc : o # q => proc'[o] = proc[o]
    BY <1>4, AfterRebootLeaves
  <2> QED
    BY <2>1, <2>2
<1>4a. ASSUME NEW q \in Proc, RetryReset(q) PROVE Confirmed(p)
  BY <1>4a, BeginRecoverLeaves, ExitLeaves DEF RetryReset, At
<1>5. ASSUME NEW q \in Proc, StartConfirmation(q) PROVE Confirmed(p)
  BY <1>5 DEF StartConfirmation, Exit, Idle, At
<1>6. ASSUME NEW q \in Proc, Confirmed(q) PROVE Confirmed(p)
  BY <1>6, BeginRecoverLeaves, ExitLeaves DEF Confirmed, At
<1>7. ASSUME NEW q \in Proc, Arm(q) PROVE Confirmed(p)
  BY <1>7 DEF Arm, At, Goto
<1>8. ASSUME NEW q \in Proc, FillActive(q) PROVE Confirmed(p)
  BY <1>8 DEF FillActive, At, Goto
<1>9. ASSUME NEW q \in Proc, Announce(q) PROVE Confirmed(p)
  BY <1>9 DEF Announce, At, Goto
<1>10. ASSUME NEW q \in Proc, BeginWait(q) PROVE Confirmed(p)
  BY <1>10 DEF BeginWait, At
<1>11. ASSUME NEW q \in Proc, Poll(q) PROVE Confirmed(p)
  BY <1>11, PollLeaves
<1>12. ASSUME NEW q \in Proc, GiveUp(q) PROVE Confirmed(p)
  BY <1>12, GotoLeaves, ExitLeaves DEF GiveUp, At
<1>13. ASSUME NEW q \in Proc, FillRequest(q) PROVE Confirmed(p)
  BY <1>13 DEF FillRequest, At, Goto
<1>14. ASSUME NEW q \in Proc, Ask(q) PROVE Confirmed(p)
  BY <1>14 DEF Ask, Exit, Idle, At
<1>15. ASSUME NEW q \in Proc, Kill(q) PROVE Confirmed(p)
  BY <1>15 DEF Kill, Exit, Idle, At
<1>16. CASE StartMain
  BY <1>16 DEF StartMain, EnterBody, Goto, Proc
<1>17. CASE StartGuard
  BY <1>17 DEF StartGuard, StaleActive, Goto, Exit, Idle, Proc, At
<1>18. CASE GuardProbe
  BY <1>18 DEF GuardProbe, At, Goto, Proc
<1>19. CASE GuardClear
  BY <1>19 DEF GuardClear, Exit, Idle, Proc, At
<1>20. CASE GuardCheck
  BY <1>20 DEF GuardCheck, At, Goto, Exit, Idle, Proc
<1>21. CASE GuardSign
  BY <1>21 DEF GuardSign, At, Goto, Proc
<1>22. CASE GuardRequest
  BY <1>22 DEF GuardRequest, At, Goto, Proc
<1>23. CASE GuardFill
  BY <1>23 DEF GuardFill, At, Goto, Proc
<1>24. CASE GuardAsk
  BY <1>24 DEF GuardAsk, EnterBody, At, Goto, Proc
<1>25. CASE Tick
  BY <1>25, AgedKeeps DEF Tick
<1>26. CASE Reboot
  BY <1>26 DEF Reboot, Restart, Idle
<1>27. CASE Crash
  BY <1>27 DEF Crash, Restart, Idle
<1>28. CASE Heal
  BY <1>28 DEF Heal
<1>29. CASE Fail
  BY <1>29 DEF Fail
<1>30. CASE MaintenanceWindow
  BY <1>30 DEF MaintenanceWindow
<1> QED
  BY <1>1, <1>2, <1>3, <1>4, <1>4a, <1>5, <1>6, <1>7, <1>8, <1>9, <1>10, <1>11, <1>12,
     <1>13, <1>14, <1>15, <1>16, <1>17, <1>18, <1>19, <1>20, <1>21, <1>22, <1>23, <1>24,
     <1>25, <1>26, <1>27, <1>28, <1>29, <1>30
  DEF Next, Body, Guard

-----------------------------------------------------------------------------
\* The inductive invariant holds: types, the suppression of a second reboot, the
\* guard's boot check and the confirmation window (lines 246-340 of the script).
THEOREM Invariance == Spec => []IInv
<1>1. Init => IInv
  BY Init_IInv
<1>2. IInv /\ [Next]_vars => IInv'
  BY TypeStep, SuppressStep, GuardStep, WindowStep DEF IInv
<1> QED
  BY <1>1, <1>2, PTL DEF Spec

\* Every variable of the controller stays in its domain.
THEOREM TypeCorrect == Spec => []TypeOK
<1>1. IInv => TypeOK
  BY DEF IInv
<1> QED
  BY <1>1, Invariance, PTL

\* recover with allow_reboot=yes never runs over the REBOOT_REQUESTED of an
\* earlier boot: lines 311-326 of the script, under every interleaving, kill,
\* crash and torn write, and for every setting of its time constants.
THEOREM Suppression == Spec => []LaterBootSuppresses
<1>1. IInv => LaterBootSuppresses
  BY DEF IInv
<1> QED
  BY <1>1, Invariance, PTL

\* The boot check of run_guard (249-254) holds up until the guard's request.
THEOREM GuardBoot == Spec => []GuardServesThisBoot
<1>1. IInv => GuardServesThisBoot
  BY DEF IInv
<1> QED
  BY <1>1, Invariance, PTL

\* A recovery that may reboot is only begun FAIL_CONFIRM_SECONDS or more after the
\* last healthy verdict, maintenance deferral or boot (lines 328-339).
THEOREM Confirmation == Spec => ConfirmedOutage
<1> DEFINE Step == \A p \in Proc :
      proc[p].at = "decide" /\ proc'[p].at = "reason" /\ proc'[p].allow => quiet >= Confirm
<1>1. IInv /\ [Next]_vars => [Step]_vars
  <2> SUFFICES ASSUME IInv, Next, NEW p \in Proc, proc[p].at = "decide",
                      proc'[p].at = "reason", proc'[p].allow
               PROVE  quiet >= Confirm
    OBVIOUS
  <2>1. Confirmed(p)
    BY OnlyConfirmed DEF IInv
  <2>2. disk.first = "this" /\ \E age \in disk.firstAge : age >= Confirm
    <3>1. proc \in [Proc -> Processes]
      BY DEF IInv, TypeOK
    <3> QED
      BY <2>1, <3>1, ExitLeaves DEF Confirmed, Unconfirmed
  <2>3. quiet \in Nat /\ disk.firstAge \subseteq Nat
    BY DEF IInv, TypeOK, Files
  <2> QED
    BY <2>2, <2>3, TimesAssumption DEF IInv, WindowIsQuiet
<1> QED
  BY <1>1, Invariance, PTL DEF Spec, ConfirmedOutage
-----------------------------------------------------------------------------
\* From the write of REBOOT_REQUESTED to the reboot the marker is of this boot, unless a
\* run has cleared the incident.
Requesting == {"sign", "ask", "gfill", "gtrace"}

RequestRecorded ==
  ~forgotten /\ (rebooting \/ \E p \in Proc : proc[p].at \in Requesting)
    => disk.requested \in {"this", "torn"}

\* Only clear_incident takes the marker away, and only a request leads to a reboot.
LEMMA RecordStep == TypeOK /\ RequestRecorded /\ [Next]_vars => RequestRecorded'
<1> SUFFICES ASSUME TypeOK, RequestRecorded, [Next]_vars
             PROVE  RequestRecorded'
  OBVIOUS
<1> USE DEF TypeOK, Processes, Files, Mark, RequestRecorded, Requesting,
            vars, world, machine, history
<1>1. ASSUME NEW p \in Proc, Probe(p) PROVE RequestRecorded'
  BY <1>1 DEF Probe, At, Goto
<1>2. ASSUME NEW p \in Proc, Clear(p) PROVE RequestRecorded'
  BY <1>2 DEF Clear, ClearIncident, NoMarkers, Exit, Idle
<1>3. ASSUME NEW p \in Proc, DeferToMaintenance(p) PROVE RequestRecorded'
  BY <1>3 DEF DeferToMaintenance, Deferred, ClearActive, Exit, Idle
<1>4. ASSUME NEW p \in Proc, AfterReboot(p) PROVE RequestRecorded'
  <2>1. disk'.requested = disk.requested /\ UNCHANGED <<forgotten, rebooting>>
    BY <1>4 DEF AfterReboot
  <2>2. proc'[p].at \in {"retry", "idle"} /\ \A q \in Proc : q # p => proc'[q] = proc[q]
    BY <1>4, AfterRebootLeaves
  <2> QED
    BY <2>1, <2>2
<1>4a. ASSUME NEW p \in Proc, RetryReset(p) PROVE RequestRecorded'
  <2>1. UNCHANGED <<disk, forgotten, rebooting>>
    BY <1>4a DEF RetryReset
  <2>2. proc'[p].at \in {"reason", "idle"} /\ \A q \in Proc : q # p => proc'[q] = proc[q]
    BY <1>4a, BeginRecoverLeaves, ExitLeaves DEF RetryReset
  <2> QED
    BY <2>1, <2>2
<1>5. ASSUME NEW p \in Proc, StartConfirmation(p) PROVE RequestRecorded'
  BY <1>5 DEF StartConfirmation, NoRequest, Exit, Idle
<1>6. ASSUME NEW p \in Proc, Confirmed(p) PROVE RequestRecorded'
  <2>1. UNCHANGED <<disk, forgotten, rebooting>>
    BY <1>6 DEF Confirmed
  <2>2. proc'[p].at \in {"reason", "idle"} /\ \A q \in Proc : q # p => proc'[q] = proc[q]
    BY <1>6, BeginRecoverLeaves, ExitLeaves DEF Confirmed
  <2> QED
    BY <2>1, <2>2
<1>7. ASSUME NEW p \in Proc, Arm(p) PROVE RequestRecorded'
  BY <1>7 DEF Arm, Truncated, At, Goto
<1>8. ASSUME NEW p \in Proc, FillActive(p) PROVE RequestRecorded'
  BY <1>8 DEF FillActive, At, Goto
<1>9. ASSUME NEW p \in Proc, Announce(p) PROVE RequestRecorded'
  BY <1>9 DEF Announce, At, Goto
<1>10. ASSUME NEW p \in Proc, BeginWait(p) PROVE RequestRecorded'
  BY <1>10 DEF BeginWait, At
<1>11. ASSUME NEW p \in Proc, Poll(p) PROVE RequestRecorded'
  BY <1>11, PollLeaves DEF Poll
<1>12. ASSUME NEW p \in Proc, GiveUp(p) PROVE RequestRecorded'
  <2>1. CASE proc[p].allow
    BY <1>12, <2>1 DEF GiveUp, Request, Truncated
  <2>2. CASE ~proc[p].allow
    <3>1. disk'.requested = disk.requested /\ UNCHANGED <<forgotten, rebooting>>
      BY <1>12, <2>2 DEF GiveUp, ClearActive
    <3>2. proc'[p].at = "idle" /\ \A q \in Proc : q # p => proc'[q] = proc[q]
      BY <1>12, <2>2, ExitLeaves DEF GiveUp
    <3> QED
      BY <3>1, <3>2
  <2> QED
    BY <2>1, <2>2
<1>13. ASSUME NEW p \in Proc, FillRequest(p) PROVE RequestRecorded'
  BY <1>13 DEF FillRequest, At, Goto
<1>14. ASSUME NEW p \in Proc, Ask(p) PROVE RequestRecorded'
  <2>1. proc[p].at = "ask" /\ UNCHANGED <<disk, forgotten>>
    BY <1>14 DEF Ask, At
  <2>2. proc'[p].at = "idle" /\ \A q \in Proc : q # p => proc'[q] = proc[q]
    BY <1>14, ExitLeaves DEF Ask
  <2> QED
    BY <2>1, <2>2
<1>15. ASSUME NEW p \in Proc, Kill(p) PROVE RequestRecorded'
  BY <1>15 DEF Kill, Exit, Idle
<1>16. CASE StartMain
  BY <1>16 DEF StartMain, EnterBody, DropStaleActive, StaleActive, ClearActive, Goto
<1>17. CASE StartGuard
  BY <1>17 DEF StartGuard, StaleActive, Goto, Exit, Idle
<1>18. CASE GuardProbe
  BY <1>18 DEF GuardProbe, At, Goto
<1>19. CASE GuardClear
  BY <1>19 DEF GuardClear, ClearActive, Exit, Idle
<1>20. CASE GuardCheck
  BY <1>20 DEF GuardCheck, At, Goto, Exit, Idle
<1>21. CASE GuardSign
  BY <1>21 DEF GuardSign, At, Goto
<1>22. CASE GuardRequest
  BY <1>22 DEF GuardRequest, Request, Truncated, At, Goto
<1>23. CASE GuardFill
  BY <1>23 DEF GuardFill, At, Goto
<1>24. CASE GuardAsk
  <2>1. proc["guard"].at = "gtrace" /\ "guard" \in Proc /\ UNCHANGED forgotten
    BY <1>24 DEF GuardAsk, At, Proc
  <2>2. disk'.requested = disk.requested
    BY <1>24 DEF GuardAsk, EnterBody, DropStaleActive, ClearActive
  <2> QED
    BY <2>1, <2>2
<1>25. CASE Tick
  <2>1. \A q \in Proc : proc'[q].at = proc[q].at
    BY <1>25, AgedKeeps DEF Tick
  <2>2. disk'.requested = disk.requested /\ UNCHANGED <<forgotten, rebooting>>
    BY <1>25 DEF Tick
  <2> QED
    BY <2>1, <2>2
<1>26. CASE Reboot
  BY <1>26 DEF Reboot, Restart, Restarted, Idle
<1>27. CASE Crash
  BY <1>27 DEF Crash, Restart, Restarted, Idle
<1>28. CASE Heal
  BY <1>28 DEF Heal
<1>29. CASE Fail
  BY <1>29 DEF Fail
<1>30. CASE MaintenanceWindow
  BY <1>30 DEF MaintenanceWindow
<1>31. CASE UNCHANGED vars
  BY <1>31
<1> QED
  BY <1>1, <1>2, <1>3, <1>4, <1>4a, <1>5, <1>6, <1>7, <1>8, <1>9, <1>10, <1>11, <1>12,
     <1>13, <1>14, <1>15, <1>16, <1>17, <1>18, <1>19, <1>20, <1>21, <1>22, <1>23, <1>24,
     <1>25, <1>26, <1>27, <1>28, <1>29, <1>30, <1>31
  DEF Next, Body, Guard

\* A queued reboot finds its REBOOT_REQUESTED on disk unless a run has cleared the
\* incident since (lines 226-238 and 260-270), whatever is killed or torn.
THEOREM Recorded == Spec => []RebootIsRecorded
<1>1. Init => RequestRecorded
  BY DEF Init, Idle, RequestRecorded, Requesting
<1>2. IInv /\ RequestRecorded /\ [Next]_vars => RequestRecorded'
  BY RecordStep DEF IInv
<1>3. RequestRecorded => RebootIsRecorded
  BY DEF RequestRecorded, RebootIsRecorded
<1> QED
  BY <1>1, <1>2, <1>3, Invariance, PTL DEF Spec

-----------------------------------------------------------------------------
\* How much of the time the deadline allows main may have used: spent covers what its
\* command still takes, and what is left of every deadline covers the rest.
Ahead(r, spent) ==
  /\ r.wait <= spent
  /\ \A left \in disk.deadline : left + spent >= Wait + Grace + r.wait

\* The time that the poll takes with n sleeps, a probe taking P.
Polled(n, P) == P + n * (P + 1)

\* From the write of the deadline on main has used no more than a reset of R, the polls so
\* far, the sleep of the last one and a trace of T, unless it is killed in the reset.
Covered(P, R, T) ==
  LET r == proc["main"]
  IN /\ r.ran <= MainLimit
     /\ r.at = "announce" => Ahead(r, 0)
     /\ r.at = "reset" => r.ran + r.wait > MainLimit \/ Ahead(r, R)
     /\ r.at = "poll" => r.elapsed <= Wait /\ Ahead(r, R + Polled(r.elapsed, P))
     /\ r.at = "lost" => Ahead(r, R + Polled(Wait, P) + 1 + T)

Timed == {"announce", "reset", "poll", "lost"}

LEMMA PolledNat ==
  /\ \A P, n \in Nat : Polled(n, P) \in Nat /\ Polled(n + 1, P) = Polled(n, P) + P + 1
  /\ \A P \in Nat : Polled(0, P) = P
  /\ \A P, n, k \in Nat : n <= k => Polled(n, P) <= Polled(k, P)
<1>1. \A P, n \in Nat : n * (P + 1) \in Nat /\ (n + 1) * (P + 1) = n * (P + 1) + P + 1
  OBVIOUS
<1>2. \A P, n, k \in Nat : n <= k => n * (P + 1) <= k * (P + 1)
  OBVIOUS
<1>3. \A P \in Nat : 0 * (P + 1) = 0
  OBVIOUS
<1> QED
  BY <1>1, <1>2, <1>3 DEF Polled

\* A process that goes on has run as long as it had, and one that ends has not run.
LEMMA RanLeaves ==
  ASSUME proc \in [Proc -> Processes], NEW p \in Proc
  PROVE  /\ Exit(p) => proc'[p].ran = 0
         /\ \A l \in Label, t \in Nat : Goto(p, l, t) => proc'[p].ran = proc[p].ran
         /\ \A b \in BOOLEAN : BeginRecover(p, b) => proc'[p].ran = proc[p].ran
         /\ \A n \in Nat : PollAgain(p, n) => proc'[p].ran = proc[p].ran
<1>1. Exit(p) => proc'[p].ran = 0
  BY DEF Exit, Idle
<1>2. ASSUME NEW l, NEW t, Goto(p, l, t)
      PROVE  proc'[p].ran = proc[p].ran
  BY <1>2 DEF Goto, Processes
<1>3. ASSUME NEW b \in BOOLEAN, BeginRecover(p, b)
      PROVE  proc'[p].ran = proc[p].ran
  BY <1>3 DEF BeginRecover, Processes
<1>4. ASSUME NEW n \in Nat, PollAgain(p, n)
      PROVE  proc'[p].ran = proc[p].ran
  BY <1>2, <1>4 DEF PollAgain, Processes
<1> QED
  BY <1>1, <1>2, <1>3, <1>4

\* A command of the body that process p runs: it writes the whole deadline, or none, and
\* only five of them lead to a state that is timed.
LEMMA BodyLeaves ==
  ASSUME TypeOK, NEW p \in Proc, Body(p)
  PROVE  /\ disk'.deadline \subseteq disk.deadline \cup {Wait + Grace}
         /\ \A q \in Proc : q # p => proc'[q] = proc[q]
         /\ proc'[p].ran \in {0, proc[p].ran}
         /\ \/ proc'[p].at \notin Timed
            \/ Arm(p) \/ FillActive(p) \/ Announce(p) \/ BeginWait(p) \/ Poll(p)
<1> proc \in [Proc -> Processes] /\ disk \in Files
  BY DEF TypeOK
<1> USE DEF Processes, Files, Timed
<1>1. CASE Probe(p)
  BY <1>1 DEF Probe, Goto
<1>2. CASE Clear(p)
  BY <1>2 DEF Clear, ClearIncident, NoMarkers, Exit, Idle
<1>3. CASE DeferToMaintenance(p)
  BY <1>3 DEF DeferToMaintenance, Deferred, ClearActive, Exit, Idle
<1>4. CASE AfterReboot(p)
  <2>1. disk'.deadline = disk.deadline
    BY <1>4 DEF AfterReboot
  <2> QED
    BY <1>4, <2>1, AfterRebootLeaves
<1>4a. CASE RetryReset(p)
  <2>1. disk' = disk /\ (BeginRecover(p, FALSE) \/ Exit(p))
    BY <1>4a DEF RetryReset
  <2> QED
    BY <2>1, RanLeaves, BeginRecoverLeaves, ExitLeaves
<1>5. CASE StartConfirmation(p)
  BY <1>5 DEF StartConfirmation, Exit, Idle
<1>6. CASE Confirmed(p)
  <2>1. disk' = disk /\ (BeginRecover(p, TRUE) \/ Exit(p))
    BY <1>6 DEF Confirmed
  <2> QED
    BY <2>1, RanLeaves, BeginRecoverLeaves, ExitLeaves
<1>7. CASE Arm(p)
  BY <1>7 DEF Arm, Deadline, Goto
<1>8. CASE FillActive(p)
  BY <1>8 DEF FillActive, Deadline, Goto
<1>9. CASE Announce(p)
  BY <1>9 DEF Announce, Goto
<1>10. CASE BeginWait(p)
  BY <1>10 DEF BeginWait
<1>11. CASE Poll(p)
  <2>1. disk' = disk /\ proc[p].elapsed + 1 \in Nat
        /\ (Goto(p, "clear", 0) \/ PollAgain(p, proc[p].elapsed + 1))
    BY <1>11 DEF Poll
  <2>2. "clear" \in Label /\ 0 \in Nat
    BY DEF Label
  <2>3. proc'[p].ran = proc[p].ran
    BY <2>1, <2>2, RanLeaves
  <2> QED
    BY <1>11, <2>1, <2>3, PollLeaves
<1>12. CASE GiveUp(p)
  <2>1. disk'.deadline \subseteq disk.deadline
    BY <1>12 DEF GiveUp, Request, ClearActive
  <2>2. Exit(p) \/ \E t \in Nat : Goto(p, "sign", t) \/ Goto(p, "ask", t)
    BY <1>12, TimesAssumption DEF GiveUp
  <2>3. "sign" \in Label /\ "ask" \in Label
    BY DEF Label, Recovering
  <2>4. /\ proc'[p].at \in {"sign", "ask", "idle"}
        /\ \A q \in Proc : q # p => proc'[q] = proc[q]
    BY <2>2, GotoLeaves, ExitLeaves
  <2>5. proc'[p].ran \in {0, proc[p].ran}
    BY <2>2, <2>3, RanLeaves
  <2> QED
    BY <2>1, <2>4, <2>5
<1>13. CASE FillRequest(p)
  BY <1>13 DEF FillRequest, Goto
<1>14. CASE Ask(p)
  BY <1>14 DEF Ask, Exit, Idle
<1> QED
  BY <1>1, <1>2, <1>3, <1>4, <1>4a, <1>5, <1>6, <1>7, <1>8, <1>9, <1>10, <1>11, <1>12,
     <1>13, <1>14 DEF Body

\* The guard, the timers and the world leave main where it is, or end it.
LEMMA OthersLeave ==
  ASSUME TypeOK,
         \/ StartMain \/ StartGuard \/ Guard \/ \E p \in Proc : Kill(p)
         \/ Reboot \/ Crash \/ Heal \/ Fail \/ MaintenanceWindow \/ UNCHANGED vars
  PROVE  /\ disk'.deadline \subseteq disk.deadline \cup {Wait + Grace}
         /\ \/ proc'["main"] = proc["main"]
            \/ proc'["main"].at \notin Timed /\ proc'["main"].ran \in {0, proc["main"].ran}
<1> proc \in [Proc -> Processes] /\ disk \in Files
  BY DEF TypeOK
<1> USE DEF Processes, Files, Timed, Proc
<1>1. CASE StartMain
  <2>1. disk'.deadline \subseteq disk.deadline
    BY <1>1 DEF StartMain, EnterBody, DropStaleActive, ClearActive
  <2>2. PICK t \in Nat : Goto("main", "probe", t)
    BY <1>1, TimesAssumption DEF StartMain, EnterBody
  <2>3. "probe" \in Label
    BY DEF Label
  <2> QED
    BY <2>1, <2>2, <2>3, RanLeaves, GotoLeaves
<1>2. CASE StartGuard
  BY <1>2 DEF StartGuard, Goto, Exit
<1>3. CASE Guard
  <2>1. disk'.deadline \subseteq disk.deadline
    BY <1>3 DEF Guard, GuardProbe, GuardClear, GuardCheck, GuardSign, GuardRequest, GuardFill,
       GuardAsk, EnterBody, DropStaleActive, ClearActive, Request
  <2>2. proc'["main"] = proc["main"]
    BY <1>3 DEF Guard, GuardProbe, GuardClear, GuardCheck, GuardSign, GuardRequest, GuardFill,
       GuardAsk, EnterBody, Goto, Exit
  <2> QED
    BY <2>1, <2>2
<1>4. CASE \E p \in Proc : Kill(p)
  BY <1>4 DEF Kill, Exit, Idle
<1>5. CASE Reboot \/ Crash
  <2>1. disk'.deadline = disk.deadline
    BY <1>5 DEF Reboot, Crash, Restarted
  <2>2. proc'["main"] = Idle
    BY <1>5 DEF Reboot, Crash, Restart
  <2> QED
    BY <2>1, <2>2 DEF Idle
<1>6. CASE Heal \/ Fail \/ MaintenanceWindow \/ UNCHANGED vars
  BY <1>6 DEF Heal, Fail, MaintenanceWindow, vars
<1> QED
  BY <1>1, <1>2, <1>3, <1>4, <1>5, <1>6

\* The deadline is written whole, so that main does not lose time by what others do.
LEMMA MainKeeps ==
  ASSUME TypeOK, NEW P \in Nat, NEW R \in Nat, NEW T \in Nat, Covered(P, R, T),
         disk'.deadline \subseteq disk.deadline \cup {Wait + Grace},
         proc'["main"] = proc["main"]
  PROVE  Covered(P, R, T)'
<1>1. ASSUME NEW spent \in Nat, Ahead(proc["main"], spent)
      PROVE  Ahead(proc["main"], spent)'
  <2>1. proc["main"].wait \in Nat /\ Wait \in Nat /\ Grace \in Nat
    BY TimesAssumption DEF TypeOK, Processes, Proc
  <2> QED
    BY <1>1, <2>1 DEF Ahead
<1>2. proc["main"].elapsed \in Nat /\ Wait \in Nat
  BY TimesAssumption DEF TypeOK, Processes, Proc
<1>3. 0 \in Nat /\ R + Polled(proc["main"].elapsed, P) \in Nat
      /\ R + Polled(Wait, P) + 1 + T \in Nat
  <2>1. Polled(proc["main"].elapsed, P) \in Nat /\ Polled(Wait, P) \in Nat
    BY <1>2, PolledNat
  <2> QED
    BY <2>1
<1> QED
  BY <1>1, <1>3 DEF Covered

\* Where main is not timed there is nothing to cover.
LEMMA MainElsewhere ==
  ASSUME TypeOK, NEW P \in Nat, NEW R \in Nat, NEW T \in Nat, Covered(P, R, T),
         proc'["main"].at \notin Timed, proc'["main"].ran \in {0, proc["main"].ran}
  PROVE  Covered(P, R, T)'
  BY TimesAssumption DEF Covered, Timed

\* A process that goes on is at its new command and has run as long as it had.
LEMMA GotoFields ==
  ASSUME proc \in [Proc -> Processes], NEW p \in Proc, NEW l, NEW t, Goto(p, l, t)
  PROVE  /\ proc'[p].at = l /\ proc'[p].wait = t
         /\ proc'[p].ran = proc[p].ran /\ proc'[p].elapsed = proc[p].elapsed
<1>1. proc'[p] = [proc[p] EXCEPT !.at = l, !.wait = t]
  BY DEF Goto
<1>2. proc[p] \in Processes
  OBVIOUS
<1> QED
  BY <1>1, <1>2 DEF Processes

\* The five commands that lead main to a timed state.
LEMMA MainTimed ==
  ASSUME TypeOK, NEW P \in Nat, NEW R \in Nat, NEW T \in Nat, Covered(P, R, T),
         \A t \in ProbeTime : t <= P, \A t \in ResetTime : t <= R \/ t > MainLimit,
         \A t \in TraceTime : t <= T,
         proc'["main"].ran \in {0, proc["main"].ran},
         \/ Arm("main") \/ FillActive("main") \/ Announce("main")
         \/ BeginWait("main") \/ Poll("main")
  PROVE  Covered(P, R, T)'
<1> DEFINE r == proc["main"]
<1> Wait \in Nat /\ Grace \in Nat /\ MainLimit \in Nat
  BY TimesAssumption
<1> "main" \in Proc /\ proc \in [Proc -> Processes] /\ disk.deadline \subseteq Nat
  BY DEF TypeOK, Proc, Files
<1> r.wait \in Nat /\ r.ran \in Nat /\ r.elapsed \in Nat
  BY DEF Processes
<1>1. proc'["main"].ran <= MainLimit
  BY DEF Covered
<1>2. CASE Arm("main") \/ FillActive("main")
  <2>1. \/ proc'["main"].at = "arm"
        \/ /\ proc'["main"].at = "announce" /\ proc'["main"].wait = 0
           /\ disk'.deadline = {Wait + Grace}
    <3>1. \/ Goto("main", "arm", 0)
          \/ Goto("main", "announce", 0) /\ disk'.deadline = {Wait + Grace}
      BY <1>2 DEF Arm, FillActive, Deadline, Files, TypeOK
    <3> QED
      BY <3>1, GotoFields
  <2>2. CASE proc'["main"].at = "arm"
    BY <1>1, <2>2 DEF Covered
  <2>3. CASE /\ proc'["main"].at = "announce" /\ proc'["main"].wait = 0
             /\ disk'.deadline = {Wait + Grace}
    <3>1. Ahead(proc["main"], 0)'
      BY <2>3 DEF Ahead
    <3> QED
      BY <1>1, <2>3, <3>1 DEF Covered
  <2> QED
    BY <2>1, <2>2, <2>3
<1>3. CASE Announce("main")
  <2>1. PICK t \in ResetTime : Goto("main", "reset", t)
    BY <1>3 DEF Announce
  <2>2. t \in Nat /\ (t <= R \/ t > MainLimit)
    BY TimesAssumption
  <2>3. /\ proc'["main"].at = "reset" /\ proc'["main"].wait = t /\ proc'["main"].ran = r.ran
        /\ disk' = disk
    BY <1>3, <2>1, GotoFields DEF Announce
  <2>4. Ahead(r, 0)
    BY <1>3 DEF Announce, At, Covered
  <2>5. t <= R => Ahead(proc["main"], R)'
    BY <2>2, <2>3, <2>4 DEF Ahead
  <2>6. t > MainLimit => proc'["main"].ran + proc'["main"].wait > MainLimit
    BY <2>2, <2>3
  <2> QED
    BY <1>1, <2>2, <2>3, <2>5, <2>6 DEF Covered
<1>4. CASE BeginWait("main")
  <2>1. PICK t \in ProbeTime :
          proc' = [proc EXCEPT !["main"].at = "poll", !["main"].wait = t,
                               !["main"].elapsed = 0]
    BY <1>4 DEF BeginWait
  <2>2. t \in Nat /\ t <= P
    BY TimesAssumption
  <2>3. /\ proc'["main"].at = "poll" /\ proc'["main"].wait = t
        /\ proc'["main"].elapsed = 0 /\ disk' = disk
    <3>1. proc'["main"] = [r EXCEPT !.at = "poll", !.wait = t, !.elapsed = 0]
      BY <2>1
    <3>2. r \in Processes /\ disk' = disk
      BY <1>4 DEF BeginWait
    <3> HIDE DEF r
    <3> QED
      BY <3>1, <3>2 DEF Processes
  <2>4. Ahead(r, R) /\ r.wait = 0
    <3>1. r.at = "reset" /\ r.wait = 0
      BY <1>4 DEF BeginWait, At
    <3>2. r.ran <= MainLimit /\ (r.ran + r.wait > MainLimit \/ Ahead(r, R))
      BY <3>1 DEF Covered
    <3> QED
      BY <3>1, <3>2
  <2>5. Ahead(proc["main"], R + P)'
    BY <2>2, <2>3, <2>4 DEF Ahead
  <2>6. proc'["main"].elapsed <= Wait /\ Polled(0, P) = P
    BY <2>3, PolledNat
  <2> QED
    BY <1>1, <2>3, <2>5, <2>6 DEF Covered
<1>5. CASE Poll("main")
  <2> DEFINE n == r.elapsed
             spent == R + Polled(n, P)
  <2>1. r.at = "poll" /\ r.wait = 0 /\ disk' = disk
    BY <1>5 DEF Poll, At
  <2>2. n <= Wait /\ Ahead(r, spent)
    BY <2>1 DEF Covered
  <2>3. /\ Polled(n, P) \in Nat /\ Polled(n + 1, P) = Polled(n, P) + P + 1
        /\ Polled(Wait, P) \in Nat /\ Polled(n, P) <= Polled(Wait, P)
    BY <2>2, PolledNat
  <2>4. CASE Goto("main", "clear", 0)
    <3>1. proc'["main"].at = "clear"
      BY <2>4, GotoLeaves
    <3> QED
      BY <1>1, <3>1 DEF Covered
  <2>5. CASE n + 1 <= Wait /\ PollAgain("main", n + 1)
    <3>1. PICK t \in ProbeTime :
            proc' = [proc EXCEPT !["main"].wait = t + 1, !["main"].elapsed = n + 1]
      BY <2>5 DEF PollAgain
    <3>2. t \in Nat /\ t <= P
      BY TimesAssumption
    <3>3. /\ proc'["main"].at = "poll" /\ proc'["main"].wait = t + 1
          /\ proc'["main"].elapsed = n + 1
      <4>1. proc'["main"] = [r EXCEPT !.wait = t + 1, !.elapsed = n + 1]
        BY <3>1
      <4>2. r \in Processes
        OBVIOUS
      <4> HIDE DEF r, n
      <4> QED
        BY <2>1, <4>1, <4>2 DEF Processes
    <3>4. Ahead(proc["main"], R + Polled(proc["main"].elapsed, P))'
      <4>1. \A left \in disk.deadline : left + spent >= Wait + Grace
        BY <2>1, <2>2 DEF Ahead
      <4>2. spent \in Nat /\ R + Polled(n + 1, P) = spent + P + 1
        BY <2>3
      <4> HIDE DEF spent
      <4>3. t + 1 <= R + Polled(n + 1, P)
        BY <3>2, <4>2
      <4>4. \A left \in disk.deadline :
              left + (R + Polled(n + 1, P)) >= Wait + Grace + (t + 1)
        BY <3>2, <4>1, <4>2
      <4> QED
        BY <2>1, <3>3, <4>3, <4>4 DEF Ahead
    <3>5. proc'["main"].elapsed <= Wait
      BY <2>5, <3>3
    <3> QED
      BY <1>1, <3>3, <3>4, <3>5 DEF Covered
  <2>6. CASE ~(n + 1 <= Wait) /\ PollAgain("main", n + 1)
    <3>1. PICK t \in TraceTime : Goto("main", "lost", t + 1)
      BY <2>6 DEF PollAgain
    <3>2. t \in Nat /\ t <= T /\ proc'["main"].at = "lost" /\ proc'["main"].wait = t + 1
      BY <3>1, GotoFields, TimesAssumption
    <3>3. Ahead(proc["main"], R + Polled(Wait, P) + 1 + T)'
      BY <2>1, <2>2, <2>3, <3>2 DEF Ahead
    <3> QED
      BY <1>1, <3>2, <3>3 DEF Covered
  <2> QED
    BY <1>5, <2>4, <2>5, <2>6 DEF Poll
<1> QED
  BY <1>2, <1>3, <1>4, <1>5

\* A tick takes from the deadline no more than from what the command of main takes.
LEMMA MainTicks ==
  ASSUME TypeOK, NEW P \in Nat, NEW R \in Nat, NEW T \in Nat, Covered(P, R, T), Tick
  PROVE  Covered(P, R, T)'
<1> DEFINE r == proc["main"]
<1> Wait \in Nat /\ Grace \in Nat /\ MainLimit \in Nat
  BY TimesAssumption
<1> "main" \in Proc /\ proc \in [Proc -> Processes] /\ disk.deadline \subseteq Nat
  BY DEF TypeOK, Proc, Files
<1> r \in Processes /\ r.wait \in Nat /\ r.ran \in Nat /\ r.elapsed \in Nat
  BY DEF Processes
<1>1. proc'["main"] = Aged(r) /\ disk'.deadline = {Sooner(left) : left \in disk.deadline}
  BY DEF Tick
<1>2. CASE r.at = "idle"
  BY <1>1, <1>2 DEF Aged, Covered
<1>3. CASE r.at # "idle"
  <2>1. r.wait > 0 /\ r.ran < MainLimit
    BY <1>3 DEF Tick, Limit
  <2>2. /\ proc'["main"].wait = r.wait - 1 /\ proc'["main"].ran = r.ran + 1
        /\ proc'["main"].at = r.at /\ proc'["main"].elapsed = r.elapsed
    BY <1>1, <1>3, <2>1 DEF Aged, Sooner, Processes
  <2>3. \A left \in Nat : Sooner(left) \in Nat /\ Sooner(left) >= left - 1
    BY DEF Sooner
  <2>4. ASSUME NEW spent \in Nat, Ahead(r, spent)
        PROVE  Ahead(proc["main"], spent)'
    <3>1. proc'["main"].wait <= spent
      BY <2>1, <2>2, <2>4 DEF Ahead
    <3>2. ASSUME NEW left \in disk'.deadline
          PROVE  left + spent >= Wait + Grace + proc'["main"].wait
      <4>1. PICK k \in disk.deadline : left = Sooner(k)
        BY <1>1, <3>2
      <4>2. k + spent >= Wait + Grace + r.wait /\ k \in Nat
        BY <2>4 DEF Ahead
      <4> QED
        BY <2>2, <2>3, <4>1, <4>2
    <3> QED
      BY <3>1, <3>2 DEF Ahead
  <2>5. R + Polled(r.elapsed, P) \in Nat /\ R + Polled(Wait, P) + 1 + T \in Nat
    <3>1. Polled(r.elapsed, P) \in Nat /\ Polled(Wait, P) \in Nat
      BY PolledNat
    <3> QED
      BY <3>1
  <2>6. proc'["main"].ran <= MainLimit
        /\ proc'["main"].ran + proc'["main"].wait = r.ran + r.wait
    BY <2>1, <2>2
  <2> QED
    BY <2>2, <2>4, <2>5, <2>6 DEF Covered
<1> QED
  BY <1>2, <1>3

LEMMA CoveredStep ==
  ASSUME TypeOK, NEW P \in Nat, NEW R \in Nat, NEW T \in Nat, Covered(P, R, T), [Next]_vars,
         \A t \in ProbeTime : t <= P, \A t \in ResetTime : t <= R \/ t > MainLimit,
         \A t \in TraceTime : t <= T
  PROVE  Covered(P, R, T)'
<1>1. CASE Body("main")
  <2>1. "main" \in Proc
    BY DEF Proc
  <2> QED
    BY <1>1, <2>1, BodyLeaves, MainElsewhere, MainTimed
<1>2. CASE Body("guard")
  <2>1. "main" \in Proc /\ "guard" \in Proc
    BY DEF Proc
  <2> QED
    BY <1>2, <2>1, BodyLeaves, MainKeeps
<1>3. CASE Tick
  BY <1>3, MainTicks
<1>4. CASE \/ StartMain \/ StartGuard \/ Guard \/ \E p \in Proc : Kill(p)
           \/ Reboot \/ Crash \/ Heal \/ Fail \/ MaintenanceWindow \/ UNCHANGED vars
  BY <1>4, OthersLeave, MainKeeps, MainElsewhere
<1> QED
  BY <1>1, <1>2, <1>3, <1>4 DEF Next, Proc

\* DeadlineCoversWait for every setting of the times: if a probe takes no more than P, a
\* reset no more than R unless main is killed in it and a trace no more than T, and the
\* grace is longer than a reset, all the probes of a wait, the sleep of one poll and a
\* trace, then the guard finds no deadline that has passed before main has given up and
\* traced its failure (start_recovery 193, recover 226-232, run_guard).
THEOREM GuardWaits ==
  ASSUME NEW P \in Nat, NEW R \in Nat, NEW T \in Nat,
         \A t \in ProbeTime : t <= P, \A t \in ResetTime : t <= R \/ t > MainLimit,
         \A t \in TraceTime : t <= T,
         Grace > R + P * (Wait + 1) + 1 + T
  PROVE  Spec => []DeadlineCoversWait
<1>1. Init => Covered(P, R, T)
  BY TimesAssumption DEF Init, Idle, Covered, Proc
<1>2. IInv /\ Covered(P, R, T) /\ [Next]_vars => Covered(P, R, T)'
  BY CoveredStep DEF IInv
<1>3. IInv /\ Covered(P, R, T) => DeadlineCoversWait
  <2> SUFFICES ASSUME IInv, Covered(P, R, T), proc["main"].at \in {"poll", "lost"},
                      0 \in disk.deadline
               PROVE  FALSE
    BY DEF DeadlineCoversWait
  <2> DEFINE r == proc["main"]
  <2>1. Wait \in Nat /\ Grace \in Nat /\ r.wait \in Nat /\ r.elapsed \in Nat
    BY TimesAssumption DEF IInv, TypeOK, Processes, Proc
  <2>2. Polled(Wait, P) = P * (Wait + 1) + Wait /\ P * (Wait + 1) \in Nat
    BY <2>1 DEF Polled
  <2>3. CASE r.at = "poll"
    <3>1. r.elapsed <= Wait /\ 0 + (R + Polled(r.elapsed, P)) >= Wait + Grace + r.wait
      BY <2>3 DEF Covered, Ahead
    <3>2. Polled(r.elapsed, P) <= Polled(Wait, P) /\ Polled(r.elapsed, P) \in Nat
      BY <2>1, <3>1, PolledNat
    <3> QED
      BY <2>1, <2>2, <3>1, <3>2
  <2>4. CASE r.at = "lost"
    <3>1. 0 + (R + Polled(Wait, P) + 1 + T) >= Wait + Grace + r.wait
      BY <2>4 DEF Covered, Ahead
    <3> QED
      BY <2>1, <2>2, <3>1
  <2> QED
    BY <2>3, <2>4
<1> QED
  BY <1>1, <1>2, <1>3, Invariance, PTL DEF Spec
=============================================================================
