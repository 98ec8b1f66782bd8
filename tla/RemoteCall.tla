------------------------------- MODULE RemoteCall -------------------------------
(***************************************************************************)
(* What DeviceInfo.call of miio/lib/device_info.js promises its callers: an  *)
(* at-least-once remote call over a network that promises nothing.  A call   *)
(* that resolves was executed by the robot; one that fails may have been     *)
(* executed or not; no call is executed more often than it is tried; and an  *)
(* execution may still happen after its caller has been told of a failure.   *)
(***************************************************************************)
EXTENDS Naturals

CONSTANTS
  Calls,    \* the calls that are made
  Retries   \* how often one call is tried

VARIABLES
  outcome,  \* of each call: not made yet, pending, or how it was settled
  executed  \* how often the robot has executed each call

Outcome == {"idle", "pending", "ok", "error", "timeout"}

Init ==
  /\ outcome = [c \in Calls |-> "idle"]
  /\ executed = [c \in Calls |-> 0]

Issue(c) ==
  /\ outcome[c] = "idle"
  /\ outcome' = [outcome EXCEPT ![c] = "pending"]
  /\ UNCHANGED executed

Execute(c) ==
  /\ outcome[c] # "idle" /\ executed[c] < Retries
  /\ executed' = [executed EXCEPT ![c] = @ + 1]
  /\ UNCHANGED outcome

\* Only a result needs an execution: an error may be one of the socket, which may
\* settle all the calls that wait for one handshake.
Settle ==
  /\ outcome' \in [Calls -> Outcome]
  /\ \A c \in Calls :
       \/ outcome'[c] = outcome[c]
       \/ /\ outcome[c] = "pending" /\ outcome'[c] # "idle"
          /\ outcome'[c] = "ok" => executed[c] > 0
  /\ UNCHANGED executed

Next == Settle \/ \E c \in Calls : Issue(c) \/ Execute(c)

Spec == Init /\ [][Next]_<<outcome, executed>>
=============================================================================
