------------------------------- MODULE RelayWatchdog -------------------------------
(***************************************************************************)
(* roborock-relay-watchdog.sh on the Pi, started every five minutes, and the  *)
(* relay it looks after on the router: it builds the binary when the source   *)
(* is newer, copies it to the router's /tmp, opens the firewall and starts    *)
(* the process, each of them by ssh.  A reboot clears the router, the process  *)
(* may crash, the router may be out of reach at any command, and an upload may *)
(* end half way.  Binaries are their versions, 0 for none.                     *)
(***************************************************************************)
EXTENDS UdpRelay, Integers

CONSTANTS
  MaxFaults,   \* bound on the faults and the new versions of the source
  ShellListed  \* TRUE if ps lists the command line of the shell that runs the check

ASSUME WatchdogAssumption == MaxFaults \in Nat /\ ShellListed \in BOOLEAN

VARIABLES
  source,     \* the version of SRC
  built,      \* LOCAL_BIN
  remote,     \* REMOTE_BIN, Partial if only a part of it is there
  pc,         \* the command the script is at
  reachable,  \* ssh gets through to the router
  faults,     \* how many faults and new versions there were
  undeployed  \* history: the deployment of the latest build failed

script == <<source, built, pc, undeployed>>
vars   == <<relay, client, rule, traffic, source, built, remote, pc, reachable, faults, undeployed>>

Partial == -1

\* "again" marks the second deployment and check of a run.
Label == {"idle", "build", "upload", "chmod", "check", "upload again", "chmod again",
          "check again", "rule", "start"}

Init ==
  /\ RelayInit
  /\ source = 1 /\ built = 0 /\ remote = 0
  /\ pc = "idle" /\ reachable = TRUE
  /\ faults = 0 /\ undeployed = FALSE

routerUnchanged == UNCHANGED <<relay, client, rule, remote>>
restUnchanged == UNCHANGED <<traffic, source, reachable, faults>>

Start ==
  /\ pc = "idle" /\ pc' = "build"
  /\ UNCHANGED <<built, undeployed>> /\ routerUnchanged /\ restUnchanged

\* build_local_binary, and the deployment of what was built now (the mistake: it is
\* left to the check, which only looks for a missing binary).
WrongBuild ==
  /\ pc = "build" /\ pc' = "check"
  /\ built' = source
  /\ UNCHANGED undeployed /\ routerUnchanged /\ restUnchanged

Build ==
  /\ pc = "build"
  /\ IF built = source THEN pc' = "check" /\ UNCHANGED <<built, undeployed>>
     ELSE pc' = "upload" /\ built' = source /\ undeployed' = FALSE
  /\ routerUnchanged /\ restUnchanged

\* The run ends in a deployment that failed: the next one does not know of it.
DeployFailed == pc' = "idle" /\ undeployed' = TRUE /\ UNCHANGED built

\* scp writes into the file itself, which a running process forbids ("text file
\* busy"), and which is executable from its first byte on.
Upload(here, next) ==
  /\ pc = here
  /\ IF reachable /\ relay = 0
     THEN remote' = built /\ pc' = next /\ UNCHANGED <<built, undeployed>>
     ELSE DeployFailed /\ UNCHANGED remote
  /\ UNCHANGED <<relay, client, rule>> /\ restUnchanged

Chmod(here, next) ==
  /\ pc = here
  /\ IF reachable THEN pc' = next /\ UNCHANGED <<built, undeployed>> ELSE DeployFailed
  /\ routerUnchanged /\ restUnchanged

Deploy ==
  \/ Upload("upload", "chmod") \/ Chmod("chmod", "check")
  \/ Upload("upload again", "chmod again") \/ Chmod("chmod again", "check again")

\* ensure_remote_state, command by command; a broken connection is status 255.  Status
\* 20 for a missing binary has it deployed once.
Check ==
  /\ pc \in {"check", "check again"}
  /\ pc' = IF ~reachable THEN "idle"
           ELSE IF remote # 0 THEN "rule"
           ELSE IF pc = "check" THEN "upload again" ELSE "idle"
  /\ UNCHANGED <<built, undeployed>> /\ routerUnchanged /\ restUnchanged

OpenRule ==
  /\ pc = "rule"
  /\ IF reachable THEN rule' = TRUE /\ pc' = "start" ELSE pc' = "idle" /\ UNCHANGED rule
  /\ UNCHANGED <<relay, client, remote, built, undeployed>> /\ restUnchanged

\* A process whose command line has the relay's name in it: the relay, and the shell
\* that was given the whole check as an argument.
Listed == relay # 0 \/ ShellListed

\* A whole binary that is not listed is started; one in part does not run.
StartRelay ==
  /\ pc = "start" /\ pc' = "idle"
  /\ IF reachable /\ ~Listed /\ remote > 0 THEN Becomes(remote) ELSE UNCHANGED <<relay, client>>
  /\ UNCHANGED <<rule, remote, built, undeployed>> /\ restUnchanged

Script == Build \/ Deploy \/ Check \/ OpenRule \/ StartRelay

-----------------------------------------------------------------------------
Fault == faults < MaxFaults /\ faults' = faults + 1

RouterReboots ==
  /\ Fault
  /\ Becomes(0) /\ remote' = 0 /\ rule' = FALSE
  /\ UNCHANGED <<traffic, script, reachable>>

RelayCrashes ==
  /\ relay # 0 /\ Fault /\ Becomes(0)
  /\ UNCHANGED <<rule, remote, traffic, script, reachable>>

ConnectionChanges ==
  /\ Fault /\ reachable' = ~reachable
  /\ UNCHANGED <<traffic, script>> /\ routerUnchanged

UploadBreaks ==
  /\ pc \in {"upload", "upload again"} /\ relay = 0 /\ Fault
  /\ remote' = Partial /\ DeployFailed
  /\ UNCHANGED <<relay, client, rule, traffic, source, reachable>>

\* iptables reports an error, which the check does not look at.
RuleFails ==
  /\ pc = "rule" /\ Fault /\ pc' = "start"
  /\ UNCHANGED <<traffic, source, built, reachable, undeployed>> /\ routerUnchanged

\* The Pi reboots, or the script is killed.
Kill ==
  /\ pc # "idle" /\ Fault /\ pc' = "idle"
  /\ undeployed' = (undeployed \/ pc \in {"upload", "chmod"})
  /\ UNCHANGED <<traffic, source, built, reachable>> /\ routerUnchanged

NewSource ==
  /\ Fault /\ source' = source + 1
  /\ UNCHANGED <<traffic, built, pc, reachable, undeployed>> /\ routerUnchanged

Traffic ==
  /\ \/ (Ask \/ Forward) /\ UNCHANGED faults
     \/ (Reconnect \/ \E s \in Sockets : Lose(s)) /\ Fault
  /\ UNCHANGED <<script, remote, reachable>>

Next ==
  \/ Start \/ Script \/ Traffic
  \/ RouterReboots \/ RelayCrashes \/ ConnectionChanges \/ UploadBreaks
  \/ RuleFails \/ Kill \/ NewSource

Spec == Init /\ [][Next]_vars

\* The timer starts the script and its commands return, the accessory asks again
\* and again, and what is not lost arrives.
FairSpec ==
  /\ Spec /\ WF_vars(Start) /\ WF_vars(Script)
  /\ WF_vars(Ask /\ UNCHANGED <<script, remote, reachable, faults>>)
  /\ WF_vars(Forward /\ UNCHANGED <<script, remote, reachable, faults>>)

-----------------------------------------------------------------------------
\* Script, router and traffic stay in their domains, and only versions that were
\* built are on the router.
TypeOK ==
  /\ RelayTypeOK
  /\ source \in 1..(MaxFaults + 1) /\ built \in 0..source
  /\ remote \in {Partial} \cup 0..built /\ relay <= built
  /\ pc \in Label /\ reachable \in BOOLEAN
  /\ faults \in 0..MaxFaults /\ undeployed \in BOOLEAN

\* A relay runs the binary that is in its place, and between two runs that is the
\* latest build, unless its deployment failed.
NoStaleRelay ==
  relay # 0 => /\ relay = remote
               /\ pc = "idle" /\ ~undeployed => relay = built

\* SOLUTION.md, "Expected Failure Modes": whatever reboots, crashes or is lost, once the
\* router stays reachable and its binary is whole the accessory gets answers again.
AnsweredInTheEnd ==
  <>[](reachable /\ remote # Partial) => []<>(flight[socket] = "answered")
=============================================================================
