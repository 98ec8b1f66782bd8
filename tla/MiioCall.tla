-------------------------------- MODULE MiioCall --------------------------------
(***************************************************************************)
(* DeviceInfo of miio/lib/device_info.js: calls to the robot over UDP.  A     *)
(* call makes up to retries attempts; an attempt does the handshake if the   *)
(* last one is stale, sends its request under a fresh id and waits.  Every    *)
(* attempt races a timer of two seconds.  The calls share the handshake in   *)
(* progress, the map of promises and the id counter, and JavaScript runs one *)
(* of them at a time from one await to the next.                             *)
(*                                                                           *)
(* A datagram takes one of the times of Delay, or it is lost or takes one of *)
(* the times of Late: the sum of these two faults is bounded by MaxLost.     *)
(***************************************************************************)
EXTENDS Integers, FiniteSets

CONSTANTS
  Calls,     \* the calls that are made, each once
  Retries,   \* options.retries
  Timeout,   \* the timer of _setTimeout, in ticks
  Delay,     \* the time a datagram takes, in ticks
  Late,      \* the time a late datagram takes
  MaxLost,   \* bound on the lost and late datagrams
  IdLimit,   \* 10000, where ids roll over
  Stride,    \* 100, the step of the id after a failed attempt
  FirstIds,  \* the values of lastId that the run begins with, after earlier calls
  Faults     \* {"send"} if socket.send may report an error, {} if not

ASSUME CallAssumption ==
  /\ IsFiniteSet(Calls) /\ Retries \in Nat \ {0} /\ Timeout \in Nat \ {0}
  /\ Delay \subseteq Nat /\ Late \subseteq Nat /\ MaxLost \in Nat
  /\ IdLimit \in Nat \ {0, 1} /\ Stride \in Nat \ {0}
  /\ FirstIds \subseteq 0..(IdLimit - 1)
  /\ Faults \subseteq {"send"}

VARIABLES
  call,      \* each call, see Unused
  shake,     \* handshakePromise and handshakeResolve: its number, 0 for null
  shakes,    \* how many handshakes were begun
  stamp,     \* packet.needsHandshake: "none" if so; "old" before it expires
  promises,  \* the entries of the map: id, and the attempt that waits for it
  lastId,
  net,       \* the datagrams under way
  executed,  \* what the robot has done: how often it ran each call
  lost       \* the faults so far

vars == <<call, shake, shakes, stamp, promises, lastId, net, executed, lost>>

\* A call: where its attempt waits or how it was settled, the retries left, the
\* ticks until the timer fires, and the handshake it awaits.
Unused  == [at |-> "idle", left |-> 0, timer |-> 0, shake |-> 0]
Settled == {"ok", "error", "timeout"}
Label   == {"idle", "shaking", "ready", "waiting"} \cup Settled

Running(c) == call[c].at \in {"shaking", "ready", "waiting"}

\* Between two events no continuation is left to run.
Calm == \A c \in Calls : call[c].at # "ready"

Init ==
  /\ call = [c \in Calls |-> Unused]
  /\ shake = 0 /\ shakes = 0
  /\ stamp \in {"none", "old"}
  /\ promises = {} /\ net = {}
  /\ lastId \in FirstIds
  /\ executed = [c \in Calls |-> 0]
  /\ lost = 0

-----------------------------------------------------------------------------
\* Datagram m joins those of rest: on time, late or never.
Transmit(m, rest) ==
  \/ /\ \E d \in Delay : net' = rest \cup {[m EXCEPT !.delay = d]}
     /\ UNCHANGED lost
  \/ /\ lost < MaxLost /\ lost' = lost + 1
     /\ \/ net' = rest
        \/ \E d \in Late : net' = rest \cup {[m EXCEPT !.delay = d]}

\* _sendPacket: the callback of socket.send may report an error instead.
SendPacket(m) ==
  \/ Transmit(m, net)
  \/ /\ "send" \in Faults
     /\ net' = net \cup {[m EXCEPT !.kind = "failed", !.delay = 0]}
     /\ UNCHANGED lost

Hello(n) == [kind |-> "hello", shake |-> n, delay |-> 0]

\* The loop body of _retryOnTimeout up to the first await of the attempt, with the
\* handshake current in progress.
Attempt(c, left, current) ==
  \/ /\ left = 0
     /\ call' = [call EXCEPT ![c] = [Unused EXCEPT !.at = "timeout"]]
     /\ shake' = current
     /\ UNCHANGED <<shakes, net, lost>>
  \/ /\ left > 0 /\ stamp # "none"
     /\ call' = [call EXCEPT ![c] =
                   [at |-> "ready", left |-> left, timer |-> Timeout, shake |-> 0]]
     /\ shake' = current
     /\ UNCHANGED <<shakes, net, lost>>
  \/ /\ left > 0 /\ stamp = "none"
     /\ shake' = IF current = 0 THEN shakes + 1 ELSE current
     /\ call' = [call EXCEPT ![c] =
                   [at |-> "shaking", left |-> left, timer |-> Timeout, shake |-> shake']]
     /\ IF current = 0
        THEN shakes' = shakes + 1 /\ SendPacket(Hello(shakes'))
        ELSE UNCHANGED <<shakes, net, lost>>

Issue(c) ==
  /\ Calm /\ call[c].at = "idle"
  /\ Attempt(c, Retries, shake)
  /\ UNCHANGED <<stamp, promises, lastId, executed>>

\* _nextId (the mistake: an id rolls over one too late).
WrongNextId(first) ==
  LET id == lastId + IF first THEN 1 ELSE Stride IN IF id > IdLimit THEN 1 ELSE id

NextId(first) ==
  LET id == lastId + IF first THEN 1 ELSE Stride IN IF id >= IdLimit THEN 1 ELSE id

\* The attempt goes on after the handshake: its promise, then its request.
Request(c) ==
  LET id    == NextId(call[c].left = Retries)
      entry == [id |-> id, call |-> c, left |-> call[c].left]
  IN /\ call[c].at = "ready"
     /\ call' = [call EXCEPT ![c].at = "waiting"]
     /\ lastId' = id
     /\ promises' = {p \in promises : p.id # id} \cup {entry}
     /\ SendPacket([kind |-> "request", entry |-> entry, delay |-> 0])
     /\ UNCHANGED <<shake, shakes, stamp, executed>>

\* The timer of an attempt fires.  An attempt that waits for its reply is left
\* behind with its promise; one that waits for the handshake resets it on its way
\* out, whoever began the one in progress now (the mistake: the handshake is not
\* reset).
WrongTimeoutShake(c) ==
  /\ Calm /\ Running(c) /\ call[c].timer = 0
  /\ Attempt(c, call[c].left - 1, shake)
  /\ UNCHANGED <<stamp, promises, lastId, executed>>

TimeOut(c) ==
  /\ Calm /\ Running(c) /\ call[c].timer = 0
  /\ Attempt(c, call[c].left - 1, IF call[c].at = "shaking" THEN 0 ELSE shake)
  /\ UNCHANGED <<stamp, promises, lastId, executed>>

-----------------------------------------------------------------------------
\* The robot.
AnswerHello(m) ==
  /\ m.kind = "hello"
  /\ Transmit([m EXCEPT !.kind = "welcome"], net \ {m})
  /\ UNCHANGED <<call, shake, shakes, stamp, promises, lastId, executed>>

Execute(m) ==
  /\ m.kind = "request"
  /\ executed' = [executed EXCEPT ![m.entry.call] = @ + 1]
  /\ \E answer \in {"result", "error"} :
       Transmit([m EXCEPT !.kind = answer], net \ {m})
  /\ UNCHANGED <<call, shake, shakes, stamp, promises, lastId>>

\* onMessage, a handshake reply: it resolves the handshake in progress, whichever
\* one it answers, and those who await that one go on.
Welcome(m) ==
  /\ m.kind = "welcome"
  /\ stamp' = "new"
  /\ call' = [c \in Calls |->
                IF call[c].at = "shaking" /\ call[c].shake = shake
                THEN [call[c] EXCEPT !.at = "ready", !.shake = 0]
                ELSE call[c]]
  /\ shake' = 0
  /\ net' = net \ {m}
  /\ UNCHANGED <<shakes, promises, lastId, executed, lost>>

\* The attempt of entry p is the one its call waits for.
Current(p) == call[p.call].at = "waiting" /\ call[p.call].left = p.left

Settle(p, how) ==
  IF Current(p)
  THEN call' = [call EXCEPT ![p.call] = [Unused EXCEPT !.at = how]]
  ELSE UNCHANGED call

\* onMessage, a reply: the promise of its id is settled, and the attempt that
\* awaited it removes the entry (the mistake: any promise will do).
WrongAwaited(id) == promises
Awaited(id) == {p \in promises : p.id = id}

\* finally: an attempt whose await is over removes its entry (the mistake: nothing
\* does).
WrongForget(entries) == promises
Forget(entries) == promises \ entries

Reply(m) ==
  /\ m.kind \in {"result", "error"}
  /\ stamp' = "new"
  /\ \/ Awaited(m.entry.id) = {} /\ UNCHANGED <<call, promises>>
     \/ \E p \in Awaited(m.entry.id) :
          /\ Settle(p, IF m.kind = "result" THEN "ok" ELSE "error")
          /\ promises' = Forget({p})
  /\ net' = net \ {m}
  /\ UNCHANGED <<shake, shakes, lastId, executed, lost>>

\* An error of socket.send rejects the handshake for all who await it, or the
\* one attempt, and is no reason to retry.
HelloFailed(m) ==
  LET failing == {c \in Calls : call[c].at = "shaking" /\ call[c].shake = m.shake}
  IN /\ call' = [c \in Calls |->
                   IF c \in failing THEN [Unused EXCEPT !.at = "error"] ELSE call[c]]
     /\ shake' = IF failing = {} THEN shake ELSE 0
     /\ UNCHANGED promises

RequestFailed(m) ==
  /\ Settle(m.entry, "error")
  /\ promises' = Forget(Awaited(m.entry.id))
  /\ UNCHANGED shake

SendFailed(m) ==
  /\ m.kind = "failed"
  /\ IF "shake" \in DOMAIN m THEN HelloFailed(m) ELSE RequestFailed(m)
  /\ net' = net \ {m}
  /\ UNCHANGED <<shakes, stamp, lastId, executed, lost>>

Deliver ==
  /\ Calm
  /\ \E m \in net :
       /\ m.delay = 0
       /\ AnswerHello(m) \/ Execute(m) \/ Welcome(m) \/ Reply(m) \/ SendFailed(m)

-----------------------------------------------------------------------------
\* The handshake is stale 120 seconds after the last message: longer than a call
\* takes, so one that a running call has renewed lasts until it is settled.
Expire ==
  /\ Calm
  /\ \/ stamp = "old"
     \/ stamp = "new" /\ \A c \in Calls : ~Running(c)
  /\ stamp' = "none"
  /\ UNCHANGED <<call, shake, shakes, promises, lastId, net, executed, lost>>

\* Time passes until a timer fires or a datagram arrives (the mistake: the timer
\* does not cover the handshake, only the wait for the reply).
WrongTick ==
  /\ Calm
  /\ \A c \in Calls : Running(c) => call[c].timer > 0
  /\ \A m \in net : m.delay > 0
  /\ call' = [c \in Calls |->
                IF call[c].at = "waiting" THEN [call[c] EXCEPT !.timer = @ - 1] ELSE call[c]]
  /\ net' = {[m EXCEPT !.delay = @ - 1] : m \in net}
  /\ UNCHANGED <<shake, shakes, stamp, promises, lastId, executed, lost>>

Tick ==
  /\ Calm
  /\ \A c \in Calls : Running(c) => call[c].timer > 0
  /\ \A m \in net : m.delay > 0
  /\ call' = [c \in Calls |->
                IF Running(c) THEN [call[c] EXCEPT !.timer = @ - 1] ELSE call[c]]
  /\ net' = {[m EXCEPT !.delay = @ - 1] : m \in net}
  /\ UNCHANGED <<shake, shakes, stamp, promises, lastId, executed, lost>>

Next ==
  \/ \E c \in Calls : Issue(c) \/ Request(c) \/ TimeOut(c)
  \/ Deliver \/ Expire \/ Tick

Spec == Init /\ [][Next]_vars

\* The event loop runs what is ready, timers fire, datagrams arrive or are lost.
Fairness ==
  /\ \A c \in Calls : WF_vars(Request(c)) /\ WF_vars(TimeOut(c))
  /\ WF_vars(Deliver) /\ WF_vars(Tick)

FairSpec == Spec /\ Fairness

-----------------------------------------------------------------------------
Entry == [id : 1..IdLimit, call : Calls, left : 1..Retries]

\* The calls, the map and the datagrams stay in their domains.
TypeOK ==
  /\ call \in [Calls -> [at : Label, left : 0..Retries, timer : 0..Timeout, shake : Nat]]
  /\ shake \in 0..shakes /\ shakes \in Nat
  /\ stamp \in {"none", "old", "new"}
  /\ promises \subseteq Entry
  /\ lastId \in 0..(IdLimit - 1)
  /\ executed \in [Calls -> 0..Retries]
  /\ lost \in 0..MaxLost

\* The calls as their callers see them.
Outcome ==
  [c \in Calls |-> IF Running(c) THEN "pending" ELSE call[c].at]

\* A call is an at-least-once remote call, although its attempts share the
\* handshake, the ids and the map, and late replies meet later attempts.
R == INSTANCE RemoteCall WITH outcome <- Outcome
AtLeastOnce == R!Spec

\* Calls that share a handshake reset it under one another, but the first lost or
\* late datagram costs a call no more than two of its attempts and each other one no
\* more than one: all but one of the retries of a call that gives up met a fault.
TimeoutNeedsFaults ==
  \A c \in Calls : call[c].at = "timeout" => lost > 0 /\ Retries <= lost + 1

\* The entry of an attempt whose reply is lost is never deleted: what bounds the map
\* is that only a lost datagram leaves an entry that no datagram under way can remove,
\* however many attempts are over, whichever entries replace one another and however
\* late a reply is.
Letters == {m \in net : "entry" \in DOMAIN m}
Orphans == {p \in promises : \A m \in Letters : m.entry # p}
PromisesBounded == Cardinality(Orphans) <= lost

\* Every call is settled: no lost datagram and no orphaned handshake hangs it.
CallsSettle == \A c \in Calls : Running(c) ~> call[c].at \in Settled
=============================================================================
