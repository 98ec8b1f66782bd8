------------------------- MODULE OpenVpnWatchdogProofs -------------------------
(***************************************************************************)
(* For all times, any number of boots and any setting back of the clock: the *)
(* OpenVPN watchdog restarts a dead tunnel only after its confirmation window *)
(* and under its rate limit, unless a power loss emptied the file concerned.  *)
(***************************************************************************)
EXTENDS OpenVpnWatchdog, TLAPS

\* FAILED is no older than the last run that saw the tunnel up.
FailedIsYoung == "failed" \in torn \/ \A a \in failed : a <= sinceUp

\* A restart that would come too early is remembered by a LAST_RESTART that is no older.
RestartIsRemembered ==
  sinceConfirmed >= RateLimit \/ "last" \in torn \/ \E a \in last : a <= sinceConfirmed

\* Between the tests and the restart no time passes.
Confirmed ==
  pc = "confirmed" =>
    /\ wait = 0 /\ last = {0}
    /\ sinceUp >= Confirm \/ "failed" \in torn
    /\ sinceConfirmed >= RateLimit \/ "last" \in torn

IInv == TypeOK /\ FailedIsYoung /\ RestartIsRemembered /\ Confirmed

\* TypeOK without the network, which only has to be Boolean.
FilesOK   == /\ \A a \in failed : a \in Int /\ a <= Confirm
             /\ \A a \in last : a \in Int /\ a <= RateLimit
             /\ torn \subseteq {"failed", "last"}
ProcessOK == pc \in Label /\ wait \in Nat /\ ran \in 0..Limit /\ due \in 0..Period
HistoryOK == boots \in 0..MaxBoots /\ sinceUp \in 0..Confirm /\ sinceConfirmed \in 0..RateLimit
NetworkOK == network \in BOOLEAN \X BOOLEAN \X BOOLEAN \X BOOLEAN \X BOOLEAN

\* The invariant is its parts.
LEMMA Parts ==
  ASSUME IInv
  PROVE  /\ FilesOK /\ ProcessOK /\ HistoryOK /\ NetworkOK
         /\ FailedIsYoung /\ RestartIsRemembered /\ Confirmed
  BY DEF IInv, TypeOK, FilesOK, ProcessOK, HistoryOK, NetworkOK

\* What a step has to establish.
LEMMA Together ==
  ASSUME FilesOK', ProcessOK', HistoryOK', NetworkOK',
         FailedIsYoung', RestartIsRemembered', Confirmed'
  PROVE  IInv'
  BY DEF IInv, TypeOK, FilesOK, ProcessOK, HistoryOK, NetworkOK

\* The constants are numbers.
LEMMA Times ==
  /\ Confirm \in Nat /\ RateLimit \in Nat /\ Period \in Nat /\ Limit \in Nat /\ MaxBoots \in Nat
  /\ ProbeTime \subseteq Nat /\ RestartTime \subseteq Nat /\ SetBack \subseteq Nat
  BY TimesAssumption DEF TimesAssumption

\* There are no files, and no restart was made, when the machine starts first.
LEMMA InitIInv == Init => IInv
<1> SUFFICES ASSUME Init PROVE IInv  OBVIOUS
<1>1. FilesOK /\ ProcessOK /\ HistoryOK
  BY Times DEF Init, FilesOK, ProcessOK, HistoryOK, Label
<1>2. NetworkOK  BY DEF Init, NetworkOK, network
<1>3. FailedIsYoung /\ RestartIsRemembered /\ Confirmed
  <2>1. failed = {} /\ sinceConfirmed = RateLimit /\ pc = "idle"  BY DEF Init
  <2>2. QED  BY <2>1, Times DEF FailedIsYoung, RestartIsRemembered, Confirmed
<1>4. QED
  BY <1>1, <1>2, <1>3 DEF IInv, TypeOK, FilesOK, ProcessOK, HistoryOK, NetworkOK

\* The tests of the script before the tunnel's leave files and history alone.
LEMMA ChecksKeep ==
  ASSUME IInv, Start \/ CheckLink \/ CheckService \/ CheckRoute \/ TunnelDown \/ Kill
  PROVE  IInv'
<1> USE DEF files, process, history, At, Goto, Exit, RestartAtOnce
<1>0. /\ FilesOK /\ ProcessOK /\ HistoryOK /\ NetworkOK
      /\ FailedIsYoung /\ RestartIsRemembered /\ Confirmed
  BY Parts
<1>1. UNCHANGED <<files, boots, history, network>> /\ pc' # "confirmed"
  BY DEF Start, CheckLink, CheckService, CheckRoute, TunnelDown, Kill
<1>2. ProcessOK'
  BY <1>0, Times DEF Start, CheckLink, CheckService, CheckRoute, TunnelDown, Kill, ProcessOK, Label
<1>3. FilesOK' /\ HistoryOK'  BY <1>0, <1>1 DEF FilesOK, HistoryOK
<1>4. NetworkOK'  BY <1>0, <1>1 DEF NetworkOK
<1>5. FailedIsYoung' /\ RestartIsRemembered'
  BY <1>0, <1>1 DEF FailedIsYoung, RestartIsRemembered
<1>6. Confirmed'  BY <1>1 DEF Confirmed
<1>7. QED  BY <1>2, <1>3, <1>4, <1>5, <1>6, Together

\* A tunnel that is up removes FAILED and the doubt about it.
LEMMA TunnelUpKeeps ==
  ASSUME IInv, TunnelUp
  PROVE  IInv'
<1> USE DEF At, Exit
<1>0. /\ FilesOK /\ ProcessOK /\ HistoryOK /\ NetworkOK /\ RestartIsRemembered
  BY Parts
<1>1. /\ failed' = {} /\ torn' = torn \ {"failed"} /\ sinceUp' = 0
      /\ UNCHANGED <<network, last, boots, sinceConfirmed, due>>
      /\ pc' = "idle" /\ wait' = 0 /\ ran' = 0
  BY DEF TunnelUp
<1>2. ProcessOK' /\ FilesOK' /\ HistoryOK'
  BY <1>0, <1>1, Times DEF ProcessOK, FilesOK, HistoryOK, Label
<1>3. NetworkOK'  BY <1>0, <1>1 DEF NetworkOK
<1>4. RestartIsRemembered'  BY <1>0, <1>1 DEF RestartIsRemembered
<1>5. FailedIsYoung' /\ Confirmed'  BY <1>1 DEF FailedIsYoung, Confirmed
<1>6. QED  BY <1>2, <1>3, <1>4, <1>5, Together

\* Past TooEarly and Limited, the window is over and so is the rate limit: FAILED and
\* LAST_RESTART are younger than what they stand for.
LEMMA RecordKeeps ==
  ASSUME IInv, Record
  PROVE  IInv'
<1> USE DEF At, Goto, Exit, files, history
<1>0. /\ FilesOK /\ ProcessOK /\ HistoryOK /\ NetworkOK
      /\ FailedIsYoung /\ RestartIsRemembered
  BY Parts
<1>1. UNCHANGED <<network, boots, history, due>>  BY DEF Record
<1>2. NetworkOK' /\ HistoryOK'  BY <1>0, <1>1 DEF NetworkOK, HistoryOK
<1>3. ProcessOK'  BY <1>0, Times DEF Record, ProcessOK, Label
<1>4. CASE failed = {}
  <2>1. failed' = {0} /\ last' = last /\ pc' = "idle"  BY <1>4 DEF Record
  <2>2. FilesOK'  BY <1>0, <1>1, <2>1, Times DEF FilesOK
  <2>3. FailedIsYoung'  BY <1>0, <1>1, <2>1, Times DEF FailedIsYoung, HistoryOK
  <2>4. RestartIsRemembered'  BY <1>0, <1>1, <2>1 DEF RestartIsRemembered
  <2>5. Confirmed'  BY <2>1 DEF Confirmed
  <2>6. QED  BY <1>2, <1>3, <2>2, <2>3, <2>4, <2>5, Together
<1>5. CASE failed # {} /\ (TooEarly \/ Limited)
  <2>1. failed' = failed /\ last' = last /\ pc' = "idle"  BY <1>5 DEF Record
  <2>2. FilesOK' /\ FailedIsYoung' /\ RestartIsRemembered'
    BY <1>0, <1>1, <2>1 DEF FilesOK, FailedIsYoung, RestartIsRemembered
  <2>3. Confirmed'  BY <2>1 DEF Confirmed
  <2>4. QED  BY <1>2, <1>3, <2>2, <2>3, Together
<1>6. CASE failed # {} /\ ~TooEarly /\ ~Limited
  <2>1. failed' = failed /\ last' = {0} /\ pc' = "confirmed" /\ wait' = 0
    BY <1>6 DEF Record
  <2>2. FilesOK'  BY <1>0, <1>1, <2>1, Times DEF FilesOK
  <2>3. FailedIsYoung'  BY <1>0, <1>1, <2>1 DEF FailedIsYoung
  <2>4. RestartIsRemembered'
    BY <1>0, <1>1, <2>1, Times DEF RestartIsRemembered, HistoryOK
  <2>5. sinceUp >= Confirm \/ "failed" \in torn
    <3>1. PICK a \in failed : TRUE  BY <1>6
    <3>2. a >= Confirm  BY <1>0, <1>6, <3>1, Times DEF TooEarly, FilesOK
    <3>3. QED  BY <1>0, <3>1, <3>2, Times DEF FailedIsYoung, FilesOK, HistoryOK
  <2>6. sinceConfirmed >= RateLimit \/ "last" \in torn
    BY <1>0, <1>6, Times DEF Limited, RestartIsRemembered, FilesOK, HistoryOK
  <2>7. Confirmed'  BY <1>1, <2>1, <2>5, <2>6 DEF Confirmed
  <2>8. QED  BY <1>2, <1>3, <2>2, <2>3, <2>4, <2>7, Together
<1>7. QED  BY <1>4, <1>5, <1>6

\* The restart begins anew what LAST_RESTART, written just before, stands for.
LEMMA RestartKeeps ==
  ASSUME IInv, RestartTunnel \/ Restarted
  PROVE  IInv'
<1> USE DEF At, Goto, Exit, files, history
<1>0. /\ FilesOK /\ ProcessOK /\ HistoryOK /\ NetworkOK
      /\ FailedIsYoung /\ RestartIsRemembered /\ Confirmed
  BY Parts
<1>1. CASE RestartTunnel
  <2>1. /\ UNCHANGED <<network, failed, last, boots, sinceUp, ran, due>>
        /\ sinceConfirmed' = 0 /\ torn' = torn \ {"last"} /\ pc' = "forget"
        /\ wait' \in RestartTime /\ last = {0}
    BY <1>0, <1>1 DEF RestartTunnel, Confirmed
  <2>2. FilesOK' /\ HistoryOK' /\ ProcessOK'
    BY <1>0, <2>1, Times DEF FilesOK, HistoryOK, ProcessOK, Label
  <2>3. NetworkOK'  BY <1>0, <2>1 DEF NetworkOK
  <2>4. FailedIsYoung'  BY <1>0, <2>1 DEF FailedIsYoung
  <2>5. RestartIsRemembered'  BY <2>1 DEF RestartIsRemembered
  <2>6. Confirmed'  BY <2>1 DEF Confirmed
  <2>7. QED  BY <2>2, <2>3, <2>4, <2>5, <2>6, Together
<1>2. CASE Restarted
  <2>0. UNCHANGED <<recovering, link, route, tunnel>> /\ service' \in BOOLEAN
    BY <1>2, Zenon DEF Restarted
  <2>1. /\ UNCHANGED <<last, boots, sinceUp, sinceConfirmed, due>>
        /\ pc' = "idle" /\ wait' = 0 /\ ran' = 0
        /\ \/ failed' = {} /\ torn' = torn \ {"failed"}
           \/ UNCHANGED <<failed, torn>>
    <3>1. UNCHANGED <<last, boots, sinceUp, sinceConfirmed, due>>
          /\ pc' = "idle" /\ wait' = 0 /\ ran' = 0
      BY <1>2 DEF Restarted
    <3>2. IF pc = "forget"
          THEN failed' = {} /\ torn' = torn \ {"failed"}
          ELSE UNCHANGED <<failed, torn>>
      BY <1>2 DEF Restarted
    <3>3. QED  BY <3>1, <3>2
  <2>2. FilesOK' /\ HistoryOK' /\ ProcessOK'
    <3>1. torn' \subseteq {"failed", "last"}  BY <1>0, <2>1 DEF FilesOK
    <3>2. FilesOK'  BY <1>0, <2>1, <3>1 DEF FilesOK
    <3>3. HistoryOK'  BY <1>0, <2>1 DEF HistoryOK
    <3>4. ProcessOK'  BY <1>0, <2>1, Times DEF ProcessOK, Label
    <3>5. QED  BY <3>2, <3>3, <3>4
  <2>3. NetworkOK'  BY <1>0, <2>0 DEF NetworkOK, network
  <2>4. FailedIsYoung'  BY <1>0, <2>1 DEF FailedIsYoung
  <2>5. RestartIsRemembered'  BY <1>0, <2>1 DEF RestartIsRemembered
  <2>6. Confirmed'  BY <2>1 DEF Confirmed
  <2>7. QED  BY <2>2, <2>3, <2>4, <2>5, <2>6, Together
<1>3. QED  BY <1>1, <1>2

\* The files and what they stand for grow older together, each up to the same constant.
LEMMA TickKeeps ==
  ASSUME IInv, Tick
  PROVE  IInv'
<1>0. /\ FilesOK /\ ProcessOK /\ HistoryOK /\ NetworkOK
      /\ FailedIsYoung /\ RestartIsRemembered /\ Confirmed
  BY Parts
<1>1. /\ UNCHANGED <<network, pc, boots, torn>>
      /\ failed' = {Capped(a, Confirm) : a \in failed}
      /\ last' = {Capped(a, RateLimit) : a \in last}
      /\ sinceUp' = Capped(sinceUp, Confirm)
      /\ sinceConfirmed' = Capped(sinceConfirmed, RateLimit)
  BY DEF Tick
<1>2. ASSUME NEW cap \in Nat, NEW a \in Int, a <= cap
      PROVE  /\ Capped(a, cap) \in Int /\ Capped(a, cap) <= cap
             /\ a \in Nat => Capped(a, cap) \in Nat
             /\ \A b \in Int : b <= cap /\ a <= b => Capped(a, cap) <= Capped(b, cap)
             /\ a >= cap => Capped(a, cap) >= cap
  BY <1>2 DEF Capped
<1>3. sinceUp \in Nat /\ sinceUp <= Confirm /\ sinceConfirmed \in Nat /\ sinceConfirmed <= RateLimit
  BY <1>0, Times DEF HistoryOK
<1>4. HistoryOK'  BY <1>0, <1>1, <1>2, <1>3, Times DEF HistoryOK
<1>5. FilesOK'  BY <1>0, <1>1, <1>2, Times DEF FilesOK
<1>6. NetworkOK'  BY <1>0, <1>1 DEF NetworkOK
<1>7. ProcessOK'
  <2>1. wait' \in Nat /\ due' \in 0..Period  BY <1>0, Times DEF Tick, Sooner, ProcessOK
  <2>2. ran' \in 0..Limit  BY <1>0, Times DEF Tick, ProcessOK
  <2>3. QED  BY <1>0, <1>1, <2>1, <2>2 DEF ProcessOK
<1>8. FailedIsYoung'
  BY <1>0, <1>1, <1>2, <1>3, Times DEF FailedIsYoung, FilesOK
<1>9. RestartIsRemembered'
  <2>1. CASE sinceConfirmed >= RateLimit
    BY <1>1, <1>2, <1>3, <2>1, Times DEF RestartIsRemembered
  <2>2. CASE "last" \in torn  BY <1>1, <2>2 DEF RestartIsRemembered
  <2>3. ASSUME NEW a \in last, a <= sinceConfirmed  PROVE RestartIsRemembered'
    <3>1. a \in Int /\ a <= RateLimit  BY <1>0, <2>3 DEF FilesOK
    <3>2. Capped(a, RateLimit) \in last'  BY <1>1, <2>3
    <3>3. Capped(a, RateLimit) <= sinceConfirmed'
      BY <1>1, <1>2, <1>3, <2>3, <3>1, Times
    <3>4. QED  BY <3>2, <3>3 DEF RestartIsRemembered
  <2>4. QED  BY <1>0, <2>1, <2>2, <2>3 DEF RestartIsRemembered
<1>10. Confirmed'
  <2>1. pc # "confirmed"  BY <1>0 DEF Tick, Confirmed, ProcessOK
  <2>2. QED  BY <1>1, <2>1 DEF Confirmed
<1>11. QED  BY <1>4, <1>5, <1>6, <1>7, <1>8, <1>9, <1>10, Together

\* A boot may make the files younger, never older; a file that a power loss emptied is
\* in doubt.
LEMMA BootKeeps ==
  ASSUME IInv, Boot
  PROVE  IInv'
<1>0. /\ FilesOK /\ ProcessOK /\ HistoryOK /\ NetworkOK
      /\ FailedIsYoung /\ RestartIsRemembered
  BY Parts
<1>1. PICK b \in SetBack,
           empty \in SUBSET ({"failed" : a \in failed} \cup {"last" : a \in last}) :
        /\ failed' = {IF "failed" \in empty THEN Confirm ELSE a - b : a \in failed}
        /\ last' = {IF "last" \in empty THEN RateLimit ELSE a - b : a \in last}
        /\ torn' = torn \cup empty
  BY DEF Boot
<1>2. /\ boots < MaxBoots /\ boots' = boots + 1
      /\ pc' = "idle" /\ wait' = 0 /\ ran' = 0 /\ due' = Period
      /\ UNCHANGED <<network, sinceUp, sinceConfirmed>>
  BY DEF Boot
<1>3. b \in Nat  BY <1>1, Times
<1>4. ProcessOK' /\ HistoryOK'  BY <1>0, <1>2, Times DEF ProcessOK, HistoryOK, Label
<1>5. NetworkOK'  BY <1>0, <1>2 DEF NetworkOK
<1>6. FilesOK'
  <2>1. empty \subseteq {"failed", "last"}  BY <1>1
  <2>2. \A a \in failed' : a \in Int /\ a <= Confirm  BY <1>0, <1>1, <1>3, Times DEF FilesOK
  <2>3. \A a \in last' : a \in Int /\ a <= RateLimit  BY <1>0, <1>1, <1>3, Times DEF FilesOK
  <2>4. QED  BY <1>0, <1>1, <2>1, <2>2, <2>3 DEF FilesOK
<1>7. FailedIsYoung'
  <2>1. CASE "failed" \in empty  BY <1>1, <2>1 DEF FailedIsYoung
  <2>2. CASE "failed" \notin empty
    <3>1. failed' = {a - b : a \in failed}  BY <1>1, <2>2
    <3>2. sinceUp' = sinceUp /\ sinceUp \in Int  BY <1>0, <1>2, Times DEF HistoryOK
    <3>3. \A a \in failed : a <= sinceUp => a - b <= sinceUp  BY <1>0, <1>3, <3>2 DEF FilesOK
    <3>4. QED  BY <1>0, <1>1, <3>1, <3>2, <3>3 DEF FailedIsYoung
  <2>3. QED  BY <2>1, <2>2
<1>8. RestartIsRemembered'
  <2>1. CASE "last" \in empty  BY <1>1, <2>1 DEF RestartIsRemembered
  <2>2. CASE "last" \notin empty
    <3>1. last' = {a - b : a \in last}  BY <1>1, <2>2
    <3>2. sinceConfirmed' = sinceConfirmed /\ sinceConfirmed \in Int
      BY <1>0, <1>2, Times DEF HistoryOK
    <3>3. \A a \in last : a <= sinceConfirmed => a - b <= sinceConfirmed
      BY <1>0, <1>3, <3>2 DEF FilesOK
    <3>4. QED  BY <1>0, <1>1, <3>1, <3>2, <3>3 DEF RestartIsRemembered
  <2>3. QED  BY <2>1, <2>2
<1>9. Confirmed'  BY <1>2 DEF Confirmed
<1>10. QED  BY <1>4, <1>5, <1>6, <1>7, <1>8, <1>9, Together

\* The network changes, or nothing does.
LEMMA WorldKeeps ==
  ASSUME IInv, NetworkChanges \/ UNCHANGED vars
  PROVE  IInv'
<1>0. /\ FilesOK /\ ProcessOK /\ HistoryOK /\ NetworkOK
      /\ FailedIsYoung /\ RestartIsRemembered /\ Confirmed
  BY Parts
<1>1. UNCHANGED <<failed, last, pc, wait, ran, due, boots, sinceUp, sinceConfirmed, torn>>
  BY DEF NetworkChanges, vars, files, process, history
<1>2. NetworkOK'  BY <1>0 DEF NetworkChanges, vars, network, NetworkOK
<1>3. FilesOK' /\ ProcessOK' /\ HistoryOK'
  BY <1>0, <1>1 DEF FilesOK, ProcessOK, HistoryOK
<1>4. FailedIsYoung' /\ RestartIsRemembered' /\ Confirmed'
  BY <1>0, <1>1 DEF FailedIsYoung, RestartIsRemembered, Confirmed
<1>5. QED  BY <1>2, <1>3, <1>4, Together

\* The inductive invariant holds in every reachable state.
THEOREM OpenVpnInvariance == Spec => []IInv
<1>1. IInv /\ [Next]_vars => IInv'
  BY ChecksKeep, TunnelUpKeeps, RecordKeeps, RestartKeeps, TickKeeps, BootKeeps, WorldKeeps
  DEF Next, Run
<1>2. QED  BY <1>1, InitIInv, PTL DEF Spec

\* The files, the script and its timer stay in their domains, for all times.
THEOREM OpenVpnTypeCorrect == Spec => []TypeOK
  BY OpenVpnInvariance, PTL DEF IInv

\* A dead tunnel is restarted only when no run saw it up for the 20 seconds of the
\* window, unless a power loss emptied FAILED: for every setting back of the clock and
\* any number of boots and kills.
THEOREM FailureConfirmed == Spec => ConfirmedFailure
<1>1. IInv /\ At("confirmed") => sinceUp >= Confirm \/ "failed" \in torn
  BY DEF IInv, Confirmed, At
<1>2. IInv => [At("confirmed") /\ pc' = "forget"
                 => sinceUp >= Confirm \/ "failed" \in torn]_vars
  BY <1>1
<1>3. QED  BY <1>2, OpenVpnInvariance, PTL DEF ConfirmedFailure

\* Restarts for a dead tunnel are 120 seconds apart, unless a power loss emptied
\* LAST_RESTART.
THEOREM RestartsLimited == Spec => TunnelRestartsSpaced
<1>1. IInv /\ At("confirmed") => sinceConfirmed >= RateLimit \/ "last" \in torn
  BY DEF IInv, Confirmed, At
<1>2. IInv => [At("confirmed") /\ pc' = "forget"
                 => sinceConfirmed >= RateLimit \/ "last" \in torn]_vars
  BY <1>1
<1>3. QED  BY <1>2, OpenVpnInvariance, PTL DEF TunnelRestartsSpaced
=============================================================================
