----------------------------- MODULE MiioCallProofs -----------------------------
(***************************************************************************)
(* Theorems about MiioCall, for any number of calls, retries and faults and   *)
(* any times: the map grows by no more than the datagrams that are lost; if   *)
(* ids are not reused too soon the calls implement RemoteCall; and if also    *)
(* the timer covers what datagrams take, only faults make a call give up.     *)
(***************************************************************************)
EXTENDS MiioCall, FiniteSetTheorems, TLAPS

-----------------------------------------------------------------------------
(* The inductive invariant.                                                  *)

ShakeMsg == [kind : {"hello", "welcome", "failed"}, shake : Nat, delay : Nat]
EntryMsg == [kind : {"request", "result", "error", "failed"}, entry : Entry, delay : Nat]

\* The attempts of call c whose request is still to be sent.
Unsent(c) ==
  {l \in 1..Retries :
     \/ call[c].at = "idle"
     \/ Running(c) /\ l < call[c].left
     \/ call[c].at \in {"shaking", "ready"} /\ l = call[c].left}

\* The attempts of call c whose request was sent and is not under way any more.
Done(c) ==
  {l \in 1..Retries :
     /\ l \notin Unsent(c)
     /\ \A m \in Letters :
          m.kind = "request" => ~(m.entry.call = c /\ m.entry.left = l)}

CallOK == call \in [Calls -> [at : Label, left : 0..Retries, timer : 0..Timeout, shake : Nat]]
LeftOK == \A c \in Calls : Running(c) => call[c].left > 0
NetOK  == net \subseteq ShakeMsg \cup EntryMsg
MapOK  == /\ promises \subseteq Entry /\ IsFiniteSet(promises)
          /\ \A p, q \in promises : p.id = q.id => p = q
NumsOK == /\ shakes \in Nat /\ shake \in 0..shakes
          /\ stamp \in {"none", "old", "new"}
          /\ lastId \in 0..(IdLimit - 1) /\ lost \in 0..MaxLost
          /\ executed \in [Calls -> Nat]

\* An entry is of an attempt whose request was sent.
Issued ==
  /\ \A p \in promises : p.left \notin Unsent(p.call)
  /\ \A m \in Letters : m.entry.left \notin Unsent(m.entry.call)

\* An attempt has no more than one datagram under way, its request or the reply.
OneLetter ==
  \A m, n \in Letters :
    m.entry.call = n.entry.call /\ m.entry.left = n.entry.left => m = n

\* A call was executed no more often than it has attempts that are done.
ExecutedDone == \A c \in Calls : executed[c] <= Cardinality(Done(c))

\* A result is that of an execution.
ResultsExecuted == \A m \in Letters : m.kind = "result" => executed[m.entry.call] > 0

IInv ==
  /\ CallOK /\ LeftOK /\ NetOK /\ MapOK /\ NumsOK
  /\ Issued /\ OneLetter /\ ExecutedDone /\ ResultsExecuted
  /\ PromisesBounded

-----------------------------------------------------------------------------
(* Ids that are not reused too soon.                                         *)

\* All the ids that the calls need, from any id they may begin with, lie before the
\* rollover, or those after the rollover lie before that id.  With the 10000 ids, the
\* step of 100 and the 5 retries of the code this is so for every first id and up to
\* ten calls.
Needed == Stride * (Cardinality(Calls) * Retries)
EnoughIds == \A f \in FirstIds : f + Needed < IdLimit \/ Needed <= f

Entries == promises \cup {m.entry : m \in Letters}

\* The attempts that have sent their request: each has taken one id.
Used == {a \in Calls \X (1..Retries) : a[2] \notin Unsent(a[1])}

\* From first on, no more ids were given out than requests were sent, at Stride apart;
\* none is of two entries.
Straight(first) ==
  /\ first <= lastId /\ lastId <= first + Stride * Cardinality(Used)
  /\ \A e \in Entries : first < e.id /\ e.id <= lastId
Wrapped(first) ==
  /\ lastId >= 1 /\ lastId <= Stride * Cardinality(Used)
  /\ \A e \in Entries : first < e.id \/ e.id <= lastId
IdsApart ==
  /\ \E first \in FirstIds : Straight(first) \/ (Needed <= first /\ Wrapped(first))
  /\ \A e, g \in Entries : e.id = g.id => e = g

-----------------------------------------------------------------------------
(* Datagrams.                                                                *)

\* A datagram has either an entry or a handshake, and keeps it when it changes.
LEMMA Shapes ==
  /\ \A m \in ShakeMsg : "entry" \notin DOMAIN m /\ "shake" \in DOMAIN m
  /\ \A m \in EntryMsg : "entry" \in DOMAIN m /\ "shake" \notin DOMAIN m
  BY DEF ShakeMsg, EntryMsg

LEMMA Changed ==
  ASSUME NEW d \in Nat
  PROVE  /\ \A m \in ShakeMsg : \A k \in {"hello", "welcome", "failed"} :
              /\ [m EXCEPT !.delay = d] \in ShakeMsg
              /\ [m EXCEPT !.kind = k] \in ShakeMsg
              /\ [m EXCEPT !.kind = k, !.delay = d] \in ShakeMsg
         /\ \A m \in EntryMsg : \A k \in {"request", "result", "error", "failed"} :
              /\ [m EXCEPT !.delay = d] \in EntryMsg
              /\ [m EXCEPT !.kind = k] \in EntryMsg
              /\ [m EXCEPT !.kind = k, !.delay = d] \in EntryMsg
              /\ [m EXCEPT !.delay = d].entry = m.entry
              /\ [m EXCEPT !.delay = d].kind = m.kind
              /\ [m EXCEPT !.kind = k].entry = m.entry
              /\ [m EXCEPT !.kind = k].kind = k
              /\ [m EXCEPT !.kind = k, !.delay = d].entry = m.entry
              /\ [m EXCEPT !.kind = k, !.delay = d].kind = k
  BY DEF ShakeMsg, EntryMsg

\* The datagrams with an entry are letters, those with a handshake are not.
LEMMA LettersAre ==
  ASSUME NetOK
  PROVE  /\ Letters = net \cap EntryMsg
         /\ \A m \in net \ Letters : m \in ShakeMsg
         /\ \A m \in Letters : m.entry \in Entry /\ m \notin ShakeMsg
                               /\ m.kind \in {"request", "result", "error", "failed"}
<1>1. \A m \in net : m \in ShakeMsg \/ m \in EntryMsg  BY DEF NetOK
<1>2. \A m \in net : m \in Letters <=> m \in EntryMsg  BY <1>1, Shapes DEF Letters
<1>3. Letters = net \cap EntryMsg  BY <1>2 DEF Letters
<1>4. \A m \in EntryMsg : m \notin ShakeMsg  BY Shapes
<1>5. \A m \in EntryMsg : m.entry \in Entry
                          /\ m.kind \in {"request", "result", "error", "failed"}
  BY DEF EntryMsg
<1> QED  BY <1>1, <1>2, <1>3, <1>4, <1>5

\* A datagram that is sent goes on its way, on time or late, or is lost.
LEMMA Transmitted ==
  ASSUME NEW m, NEW rest, Transmit(m, rest), lost \in 0..MaxLost
  PROVE  \/ lost' \in 0..MaxLost /\ lost <= lost'
            /\ \E d \in Nat : net' = rest \cup {[m EXCEPT !.delay = d]}
         \/ lost' \in 0..MaxLost /\ lost' = lost + 1 /\ net' = rest
  BY CallAssumption DEF Transmit, CallAssumption

-----------------------------------------------------------------------------
(* What the steps leave.                                                     *)

CallState == [at : Label, left : 0..Retries, timer : 0..Timeout, shake : Nat]

\* Call c has left attempts: it gives up, or the next attempt begins.
Becomes(c, left, r) ==
  /\ call' = [call EXCEPT ![c] = r]
  /\ left = 0 => r.at = "timeout"
  /\ left > 0 => r.at \in {"shaking", "ready"} /\ r.left = left

\* An attempt settles its call or is under way; it sends no letter.
LEMMA AttemptLeaves ==
  ASSUME CallOK, NetOK, NumsOK, NEW c \in Calls, NEW left \in 0..Retries,
         NEW current \in 0..shakes, Attempt(c, left, current)
  PROVE  /\ NetOK' /\ Letters' = Letters
         /\ shakes' \in Nat /\ shake' \in 0..shakes'
         /\ lost' \in 0..MaxLost /\ lost <= lost'
         /\ \E r \in CallState : Becomes(c, left, r)
<1> shakes \in Nat /\ lost \in 0..MaxLost  BY DEF NumsOK
<1>1. CASE left = 0
  <2> DEFINE r == [Unused EXCEPT !.at = "timeout"]
  <2>1. call' = [call EXCEPT ![c] = r]
        /\ shake' = current /\ UNCHANGED <<shakes, net, lost>>
    BY <1>1 DEF Attempt
  <2>2. r \in CallState /\ r.at = "timeout"
    BY CallAssumption DEF Unused, CallState, Label, Settled, CallAssumption
  <2>3. NetOK' /\ Letters' = Letters  BY <2>1 DEF NetOK, Letters
  <2>5. Becomes(c, left, r)  BY <1>1, <2>1, <2>2 DEF Becomes
  <2> HIDE DEF r
  <2> QED  BY <2>1, <2>2, <2>3, <2>5
<1>2. CASE left > 0 /\ stamp # "none"
  <2> DEFINE r == [at |-> "ready", left |-> left, timer |-> Timeout, shake |-> 0]
  <2>1. call' = [call EXCEPT ![c] = r] /\ shake' = current /\ UNCHANGED <<shakes, net, lost>>
    BY <1>2 DEF Attempt
  <2>2. r \in CallState /\ r.at = "ready" /\ r.left = left
    BY CallAssumption DEF CallState, Label, CallAssumption
  <2>3. NetOK' /\ Letters' = Letters  BY <2>1 DEF NetOK, Letters
  <2>5. Becomes(c, left, r)  BY <1>2, <2>1, <2>2 DEF Becomes
  <2> HIDE DEF r
  <2> QED  BY <2>1, <2>2, <2>3, <2>5
<1>3. CASE left > 0 /\ stamp = "none"
  <2> DEFINE r == [at |-> "shaking", left |-> left, timer |-> Timeout, shake |-> shake']
  <2>1. /\ shake' = (IF current = 0 THEN shakes + 1 ELSE current)
        /\ call' = [call EXCEPT ![c] = r]
        /\ IF current = 0
           THEN shakes' = shakes + 1 /\ SendPacket(Hello(shakes'))
           ELSE UNCHANGED <<shakes, net, lost>>
    BY <1>3 DEF Attempt
  <2>2. shakes' \in Nat /\ shake' \in 0..shakes'  BY <2>1
  <2>3. r \in CallState /\ r.at = "shaking" /\ r.left = left
    BY <2>2, CallAssumption DEF CallState, Label, CallAssumption
  <2>4. NetOK' /\ Letters' = Letters /\ lost' \in 0..MaxLost /\ lost <= lost'
    <3>1. CASE current # 0
      BY <2>1, <3>1 DEF NetOK, Letters
    <3>2. CASE current = 0
      <4> DEFINE h == Hello(shakes')
      <4>1. h \in ShakeMsg  BY <2>2 DEF Hello, ShakeMsg
      <4>2. lost' \in 0..MaxLost /\ lost <= lost'
            /\ (net' = net \/ \E s \in ShakeMsg : net' = net \cup {s})
        <5>1. SendPacket(h)  BY <2>1, <3>2
        <5> HIDE DEF h
        <5>2. CASE Transmit(h, net)
          <6>1. \A d \in Nat : [h EXCEPT !.delay = d] \in ShakeMsg  BY <4>1, Changed
          <6>2. CASE \E d \in Nat : net' = net \cup {[h EXCEPT !.delay = d]}
            <7>1. PICK d \in Nat : net' = net \cup {[h EXCEPT !.delay = d]}  BY <6>2
            <7>2. \E s \in ShakeMsg : net' = net \cup {s}  BY <6>1, <7>1
            <7> QED  BY <5>2, <7>2, Transmitted
          <6>3. CASE net' = net
            BY <5>2, <6>3, Transmitted
          <6> QED  BY <5>2, <6>2, <6>3, Transmitted
        <5>3. CASE net' = net \cup {[h EXCEPT !.kind = "failed", !.delay = 0]} /\ UNCHANGED lost
          <6>1. [h EXCEPT !.kind = "failed", !.delay = 0] \in ShakeMsg  BY <4>1, Changed
          <6> QED  BY <5>3, <6>1
        <5> QED  BY <5>1, <5>2, <5>3 DEF SendPacket
      <4>3. NetOK' /\ Letters' = Letters
        BY <4>2, Shapes DEF NetOK, Letters
      <4> QED  BY <4>2, <4>3
    <3> QED  BY <3>1, <3>2
  <2>5. Becomes(c, left, r)  BY <1>3, <2>1, <2>3 DEF Becomes
  <2> HIDE DEF r
  <2> QED  BY <2>1, <2>2, <2>3, <2>4, <2>5
<1> QED  BY <1>1, <1>2, <1>3

\* The next attempt leaves no more to be sent than there was.
LEMMA AttemptSends ==
  ASSUME CallOK, NEW c \in Calls, NEW left \in 0..Retries, NEW r \in CallState,
         Becomes(c, left, r),
         call[c].at = "idle" \/ (Running(c) /\ left = call[c].left - 1)
  PROVE  CallOK' /\ \A d \in Calls : Unsent(d)' \subseteq Unsent(d)
<1>1. CallOK'  BY DEF CallOK, CallState, Becomes
<1>2. call'[c] = r /\ \A d \in Calls : d # c => call'[d] = call[d]  BY DEF CallOK, Becomes
<1>3. call[c].left \in 0..Retries /\ Retries \in Nat
  BY CallAssumption DEF CallOK, CallAssumption
<1>4. ASSUME NEW d \in Calls, d # c  PROVE Unsent(d)' \subseteq Unsent(d)
  BY <1>2, <1>4 DEF Unsent, Running
<1>5. ASSUME NEW l \in Unsent(c)'  PROVE l \in Unsent(c)
  <2>1. l \in 1..Retries /\ left > 0 /\ l <= left
    BY <1>2, <1>5 DEF Unsent, Running, Becomes
  <2> QED  BY <1>3, <2>1 DEF Unsent
<1> QED  BY <1>1, <1>4, <1>5

-----------------------------------------------------------------------------
(* Steps that send and execute nothing.                                      *)

\* Letters, entries and attempts to come become fewer, and no entry loses its letter.
Fades ==
  /\ promises' \subseteq promises
  /\ \A c \in Calls : Unsent(c)' \subseteq Unsent(c)
  /\ UNCHANGED <<executed, lastId>> /\ lost <= lost' /\ lost' \in Nat
  /\ \A m \in Letters' : \E n \in Letters : n.entry = m.entry /\ n.kind = m.kind
  /\ \A p \in promises' : (\E n \in Letters : n.entry = p) => \E m \in Letters' : m.entry = p

\* The attempts of a call that are done are finitely many.
LEMMA DoneFinite ==
  ASSUME NEW c \in Calls
  PROVE  /\ IsFiniteSet(Done(c)) /\ Cardinality(Done(c)) \in Nat
         /\ Cardinality(Done(c)) <= Retries
         /\ IsFiniteSet(Done(c)') /\ Cardinality(Done(c)') \in Nat
         /\ Cardinality(Done(c)') <= Retries
<1>1. IsFiniteSet(1..Retries) /\ Cardinality(1..Retries) = Retries
  BY FS_Interval, CallAssumption DEF CallAssumption
<1>2. Done(c) \in SUBSET (1..Retries) /\ Done(c)' \in SUBSET (1..Retries)  BY DEF Done
<1>3. \A S \in SUBSET (1..Retries) :
        IsFiniteSet(S) /\ Cardinality(S) <= Retries /\ Cardinality(S) \in Nat
  BY <1>1, FS_Subset, FS_CardinalityType
<1> QED  BY <1>2, <1>3

\* More attempts are done, as often as calls are executed.
LEMMA DoneGrows ==
  ASSUME ExecutedDone, NumsOK, NEW c \in Calls, executed'[c] = executed[c],
         Done(c) \subseteq Done(c)'
  PROVE  executed'[c] <= Cardinality(Done(c)')
<1>1. Cardinality(Done(c)) <= Cardinality(Done(c)')  BY DoneFinite, FS_Subset
<1>2. executed[c] <= Cardinality(Done(c)) /\ executed[c] \in Nat
  BY DEF ExecutedDone, NumsOK
<1> QED  BY <1>1, <1>2, DoneFinite

\* A subset of a finite set has no more elements.
LEMMA Fewer ==
  ASSUME NEW S, NEW T, IsFiniteSet(T), S \subseteq T
  PROVE  /\ IsFiniteSet(S) /\ Cardinality(S) \in Nat /\ Cardinality(T) \in Nat
         /\ Cardinality(S) <= Cardinality(T)
  BY FS_Subset, FS_CardinalityType

\* The orphans become no more than the lost datagrams when none is added.
LEMMA NoNewOrphan ==
  ASSUME MapOK, NumsOK, PromisesBounded, lost' \in Nat, lost <= lost',
         Orphans' \subseteq Orphans
  PROVE  PromisesBounded'
<1>1. IsFiniteSet(Orphans)  BY Fewer DEF MapOK, Orphans
<1>2. Cardinality(Orphans') <= Cardinality(Orphans)
      /\ Cardinality(Orphans) \in Nat /\ Cardinality(Orphans') \in Nat
  BY <1>1, Fewer
<1>3. Cardinality(Orphans) <= lost /\ lost \in Nat  BY DEF PromisesBounded, NumsOK
<1> QED  BY <1>2, <1>3 DEF PromisesBounded

LEMMA FadesKeeps ==
  ASSUME IInv, NetOK', Fades
  PROVE  MapOK' /\ Issued' /\ ExecutedDone' /\ ResultsExecuted' /\ PromisesBounded'
<1> USE DEF IInv
<1>1. MapOK'
  <2>1. IsFiniteSet(promises')  BY Fewer DEF MapOK, Fades
  <2> QED  BY <2>1 DEF MapOK, Fades
<1>2. Issued'
  <2>1. ASSUME NEW p \in promises'  PROVE p.left \notin Unsent(p.call)'
    BY <2>1 DEF Issued, Fades, MapOK, Entry
  <2>2. ASSUME NEW m \in Letters'  PROVE m.entry.left \notin Unsent(m.entry.call)'
    <3>1. PICK n \in Letters : n.entry = m.entry  BY <2>2 DEF Fades
    <3>2. n.entry.left \notin Unsent(n.entry.call) /\ n.entry.call \in Calls
      BY LettersAre DEF Issued, Entry
    <3> QED  BY <3>1, <3>2 DEF Fades
  <2> QED  BY <2>1, <2>2 DEF Issued
<1>3. ExecutedDone'
  <2> SUFFICES ASSUME NEW c \in Calls  PROVE executed'[c] <= Cardinality(Done(c)')
    BY DEF ExecutedDone
  <2>1. Done(c) \subseteq Done(c)'
    <3> SUFFICES ASSUME NEW l \in Done(c)  PROVE l \in Done(c)'
      OBVIOUS
    <3>1. l \in 1..Retries /\ l \notin Unsent(c)  BY DEF Done
    <3>2. l \notin Unsent(c)'  BY <3>1 DEF Fades
    <3>3. ASSUME NEW m \in Letters', m.kind = "request"
          PROVE  ~(m.entry.call = c /\ m.entry.left = l)
      BY <3>3 DEF Done, Fades
    <3> QED  BY <3>1, <3>2, <3>3 DEF Done
  <2> QED  BY <2>1, DoneGrows DEF Fades
<1>4. ResultsExecuted'
  BY DEF ResultsExecuted, Fades
<1>5. PromisesBounded'
  <2>1. Orphans' \subseteq Orphans  BY DEF Orphans, Fades
  <2> QED  BY <2>1, NoNewOrphan DEF Fades
<1> QED  BY <1>1, <1>2, <1>3, <1>4, <1>5

\* A step that fades and keeps the types keeps the invariant.
LEMMA FadesInv ==
  ASSUME IInv, CallOK', LeftOK', NetOK', NumsOK', OneLetter', Fades
  PROVE  IInv'
  BY FadesKeeps DEF IInv

\* A step that begins an attempt.
LEMMA AttemptKeeps ==
  ASSUME IInv, NEW c \in Calls, NEW left \in 0..Retries, NEW current \in 0..shakes,
         Attempt(c, left, current), UNCHANGED <<stamp, promises, lastId, executed>>,
         call[c].at = "idle" \/ (Running(c) /\ left = call[c].left - 1)
  PROVE  IInv' /\ Fades /\ OneLetter'
<1> CallOK /\ NetOK /\ NumsOK /\ LeftOK  BY DEF IInv
<1>1. /\ NetOK' /\ Letters' = Letters
      /\ shakes' \in Nat /\ shake' \in 0..shakes'
      /\ lost' \in 0..MaxLost /\ lost <= lost'
  BY AttemptLeaves
<1>2. PICK r \in CallState : Becomes(c, left, r)  BY AttemptLeaves
<1>3. CallOK' /\ \A d \in Calls : Unsent(d)' \subseteq Unsent(d)  BY <1>2, AttemptSends
<1>4. LeftOK'
  <2>1. call'[c] = r /\ \A d \in Calls : d # c => call'[d] = call[d]
    BY <1>2 DEF CallOK, Becomes
  <2>2. ASSUME NEW d \in Calls, Running(d)'  PROVE call'[d].left > 0
    <3>1. CASE d = c
      BY <1>2, <2>1, <2>2, <3>1 DEF Becomes, Running
    <3>2. CASE d # c
      BY <2>1, <2>2, <3>2 DEF LeftOK, Running
    <3> QED  BY <3>1, <3>2
  <2> QED  BY <2>2 DEF LeftOK
<1>5. NumsOK'  BY <1>1 DEF NumsOK
<1>6. Fades  BY <1>1, <1>3 DEF Fades
<1>7. OneLetter'  BY <1>1 DEF IInv, OneLetter
<1> QED  BY <1>1, <1>3, <1>4, <1>5, <1>6, <1>7, FadesInv

LEMMA IssueKeeps ==
  ASSUME IInv, NEW c \in Calls, Issue(c)
  PROVE  IInv' /\ Fades /\ OneLetter'
<1>1. Retries \in 0..Retries /\ shake \in 0..shakes
  BY CallAssumption DEF IInv, NumsOK, CallAssumption
<1> QED  BY <1>1, AttemptKeeps DEF Issue

LEMMA TimeOutKeeps ==
  ASSUME IInv, NEW c \in Calls, TimeOut(c)
  PROVE  IInv' /\ Fades /\ OneLetter'
<1>1. call[c].left - 1 \in 0..Retries
  BY CallAssumption DEF IInv, CallOK, LeftOK, TimeOut, CallAssumption
<1>2. (IF call[c].at = "shaking" THEN 0 ELSE shake) \in 0..shakes
  BY DEF IInv, NumsOK
<1> QED  BY <1>1, <1>2, AttemptKeeps DEF TimeOut

\* A handshake is answered, or the answer is lost.
LEMMA AnswerHelloKeeps ==
  ASSUME IInv, NEW m \in net, AnswerHello(m)
  PROVE  IInv' /\ Fades /\ OneLetter'
<1> CallOK /\ NetOK /\ NumsOK /\ LeftOK  BY DEF IInv
<1>1. m \in ShakeMsg
  BY LettersAre DEF AnswerHello
<1> DEFINE w == [m EXCEPT !.kind = "welcome"]
<1>2. w \in ShakeMsg  BY <1>1, Changed
<1>3. Transmit(w, net \ {m}) /\ UNCHANGED <<call, shake, shakes, stamp, promises, lastId, executed>>
  BY DEF AnswerHello
<1> HIDE DEF w
<1>4. lost' \in 0..MaxLost /\ lost <= lost'
  BY <1>3, Transmitted DEF NumsOK
<1>5. net' = net \ {m} \/ \E s \in ShakeMsg : net' = (net \ {m}) \cup {s}
  <2>1. CASE net' = net \ {m}
    BY <2>1
  <2>2. CASE \E d \in Nat : net' = (net \ {m}) \cup {[w EXCEPT !.delay = d]}
    <3>1. PICK d \in Nat : net' = (net \ {m}) \cup {[w EXCEPT !.delay = d]}  BY <2>2
    <3>2. [w EXCEPT !.delay = d] \in ShakeMsg  BY <1>2, Changed
    <3> QED  BY <3>1, <3>2
  <2> QED  BY <1>3, <2>1, <2>2, Transmitted DEF NumsOK
<1>6. NetOK' /\ Letters' = Letters
  BY <1>1, <1>5, Shapes DEF NetOK, Letters
<1>7. CallOK' /\ LeftOK' /\ NumsOK' /\ \A d \in Calls : Unsent(d)' = Unsent(d)
  BY <1>3, <1>4 DEF CallOK, LeftOK, NumsOK, Unsent, Running
<1>8. Fades  BY <1>3, <1>4, <1>6, <1>7 DEF Fades
<1>9. OneLetter'  BY <1>6 DEF IInv, OneLetter
<1> QED  BY <1>6, <1>7, <1>8, <1>9, FadesInv

\* The reply to a handshake wakes those who await the one in progress.
LEMMA WelcomeKeeps ==
  ASSUME IInv, NEW m \in net, Welcome(m)
  PROVE  IInv' /\ Fades /\ OneLetter'
<1> CallOK /\ NetOK /\ NumsOK /\ LeftOK  BY DEF IInv
<1>1. m \in ShakeMsg  BY LettersAre DEF Welcome
<1>2. NetOK' /\ Letters' = Letters
  BY <1>1, Shapes DEF NetOK, Letters, Welcome
<1>3. ASSUME NEW d \in Calls
      PROVE  /\ call'[d] \in CallState /\ call'[d].left = call[d].left
             /\ call'[d].at = call[d].at \/ (call[d].at = "shaking" /\ call'[d].at = "ready")
  BY DEF Welcome, CallOK, CallState, Label
<1>4. CallOK'  BY <1>3 DEF Welcome, CallOK, CallState
<1>5. LeftOK'
  <2>1. ASSUME NEW d \in Calls, Running(d)'  PROVE call'[d].left > 0
    <3>1. Running(d)  BY <1>3, <2>1 DEF Running
    <3> QED  BY <1>3, <3>1 DEF LeftOK
  <2> QED  BY <2>1 DEF LeftOK
<1>6. /\ stamp' = "new" /\ shake' = 0
      /\ UNCHANGED <<shakes, promises, lastId, executed, lost>>
  BY Zenon DEF Welcome
<1>7. NumsOK'  BY <1>6 DEF NumsOK
<1>8. \A d \in Calls : Unsent(d)' \subseteq Unsent(d)
  BY <1>3 DEF Unsent, Running
<1>9. Fades
  <2>1. UNCHANGED <<promises, lastId, executed, lost>> /\ lost' \in Nat /\ lost <= lost'
    BY <1>6, CallAssumption DEF NumsOK, CallAssumption
  <2> QED  BY <1>2, <1>8, <2>1 DEF Fades
<1>10. OneLetter'  BY <1>2 DEF IInv, OneLetter
<1> QED  BY <1>2, <1>4, <1>5, <1>7, <1>9, <1>10, FadesInv

\* A step that changes no more than the age of the handshake.
LEMMA StillKeeps ==
  ASSUME IInv, stamp' \in {"none", "old", "new"},
         UNCHANGED <<call, shake, shakes, promises, lastId, net, executed, lost>>
  PROVE  IInv' /\ Fades /\ OneLetter'
<1> CallOK /\ NetOK /\ NumsOK /\ LeftOK  BY DEF IInv
<1>1. CallOK' /\ LeftOK' /\ NetOK' /\ NumsOK' /\ Letters' = Letters
  BY DEF CallOK, LeftOK, Running, NetOK, NumsOK, Letters
<1>2. \A c \in Calls : Unsent(c)' = Unsent(c)  BY DEF Unsent, Running
<1>3. Fades  BY <1>1, <1>2 DEF Fades, NumsOK
<1>4. OneLetter'  BY <1>1 DEF IInv, OneLetter
<1> QED  BY <1>1, <1>3, <1>4, FadesInv

\* Calls are settled, no other changes.
LEMMA SettledLeaves ==
  ASSUME CallOK, LeftOK, call' \in [Calls -> CallState],
         \A d \in Calls : call'[d] = call[d] \/ call'[d].at \in Settled
  PROVE  CallOK' /\ LeftOK' /\ \A d \in Calls : Unsent(d)' \subseteq Unsent(d)
<1>1. CallOK'  BY DEF CallOK, CallState
<1>2. ASSUME NEW d \in Calls, Running(d)'  PROVE call'[d] = call[d] /\ Running(d)
  BY <1>2 DEF Running, Settled
<1>3. LeftOK'  BY <1>2 DEF LeftOK
<1>4. ASSUME NEW d \in Calls  PROVE Unsent(d)' \subseteq Unsent(d)
  <2>1. CASE call'[d] = call[d]
    BY <2>1 DEF Unsent, Running
  <2>2. CASE call'[d].at \in Settled
    BY <2>2 DEF Unsent, Running, Settled
  <2> QED  BY <2>1, <2>2
<1> QED  BY <1>1, <1>3, <1>4

LEMMA SettleLeaves ==
  ASSUME CallOK, LeftOK, NEW p \in Entry, NEW how \in Settled, Settle(p, how)
  PROVE  CallOK' /\ LeftOK' /\ \A d \in Calls : Unsent(d)' \subseteq Unsent(d)
<1> DEFINE r == [Unused EXCEPT !.at = how]
<1>1. r \in CallState /\ r.at \in Settled
  BY CallAssumption DEF Unused, CallState, Label, CallAssumption
<1>2. call' = call \/ call' = [call EXCEPT ![p.call] = r]
  BY DEF Settle
<1> HIDE DEF r
<1>3. p.call \in Calls  BY DEF Entry
<1>4. call \in [Calls -> CallState]  BY DEF CallOK, CallState
<1>5. /\ call' \in [Calls -> CallState]
      /\ \A d \in Calls : call'[d] = call[d] \/ call'[d].at \in Settled
  BY <1>1, <1>2, <1>3, <1>4
<1> QED  BY <1>5, SettledLeaves

\* A letter arrives, and the entry of its id is removed.
LEMMA LetterGone ==
  ASSUME IInv, NEW m \in Letters, net' = net \ {m}, promises' \subseteq promises,
         \A p \in promises' : p.id # m.entry.id,
         CallOK', LeftOK', \A d \in Calls : Unsent(d)' \subseteq Unsent(d),
         shake' \in 0..shakes, stamp' = "new" \/ UNCHANGED stamp,
         UNCHANGED <<shakes, lastId, executed, lost>>
  PROVE  IInv' /\ Fades /\ OneLetter'
<1> CallOK /\ NetOK /\ NumsOK /\ LeftOK  BY DEF IInv
<1>1. NetOK' /\ Letters' = Letters \ {m}  BY DEF NetOK, Letters
<1>2. NumsOK'  BY DEF NumsOK
<1>3. ASSUME NEW p \in promises', NEW n \in Letters, n.entry = p
      PROVE  \E k \in Letters' : k.entry = p
  BY <1>1, <1>3
<1>4. Fades
  <2>1. \A k \in Letters' : \E n \in Letters : n.entry = k.entry /\ n.kind = k.kind
    BY <1>1
  <2> QED  BY <1>3, <2>1 DEF Fades, NumsOK
<1>5. OneLetter'  BY <1>1 DEF IInv, OneLetter
<1> QED  BY <1>1, <1>2, <1>4, <1>5, FadesInv

LEMMA ReplyKeeps ==
  ASSUME IInv, NEW m \in net, Reply(m)
  PROVE  IInv' /\ Fades /\ OneLetter'
<1> CallOK /\ NetOK /\ NumsOK /\ LeftOK /\ MapOK  BY DEF IInv
<1>1. m.kind \in {"result", "error"}  BY DEF Reply
<1>2. m \in EntryMsg /\ m \in Letters
  BY <1>1, Shapes DEF NetOK, ShakeMsg, Letters
<1>3. CASE Awaited(m.entry.id) = {} /\ UNCHANGED <<call, promises>>
  <2>1. \A p \in promises' : p.id # m.entry.id  BY <1>3 DEF Awaited
  <2>2. CallOK' /\ LeftOK' /\ \A d \in Calls : Unsent(d)' \subseteq Unsent(d)
    BY <1>3 DEF CallOK, LeftOK, Unsent, Running
  <2> QED  BY <1>2, <1>3, <2>1, <2>2, LetterGone DEF Reply, NumsOK
<1>4. CASE \E p \in Awaited(m.entry.id) :
             /\ Settle(p, IF m.kind = "result" THEN "ok" ELSE "error")
             /\ promises' = Forget({p})
  <2>1. PICK p \in Awaited(m.entry.id) :
               /\ Settle(p, IF m.kind = "result" THEN "ok" ELSE "error")
               /\ promises' = promises \ {p}
    BY <1>4 DEF Forget
  <2>2. p \in Entry /\ p \in promises /\ p.id = m.entry.id  BY DEF Awaited, MapOK
  <2>3. \A q \in promises' : q.id # m.entry.id  BY <2>1, <2>2 DEF MapOK
  <2>4. (IF m.kind = "result" THEN "ok" ELSE "error") \in Settled  BY DEF Settled
  <2>5. CallOK' /\ LeftOK' /\ \A d \in Calls : Unsent(d)' \subseteq Unsent(d)
    BY <2>1, <2>2, <2>4, SettleLeaves
  <2> QED  BY <1>2, <2>1, <2>3, <2>5, LetterGone DEF Reply, NumsOK
<1> QED  BY <1>3, <1>4 DEF Reply

LEMMA SendFailedKeeps ==
  ASSUME IInv, NEW m \in net, SendFailed(m)
  PROVE  IInv' /\ Fades /\ OneLetter'
<1> CallOK /\ NetOK /\ NumsOK /\ LeftOK /\ MapOK  BY DEF IInv
<1>1. m.kind = "failed" /\ net' = net \ {m}
      /\ UNCHANGED <<shakes, stamp, lastId, executed, lost>>
  BY DEF SendFailed
<1>2. CASE m \in EntryMsg
  <2>1. m \in Letters /\ m.entry \in Entry  BY <1>2, LettersAre
  <2>2. RequestFailed(m)  BY <1>2, Shapes DEF SendFailed
  <2>3. /\ Settle(m.entry, "error") /\ UNCHANGED shake
        /\ promises' = promises \ Awaited(m.entry.id)
    BY <2>2 DEF RequestFailed, Forget
  <2>4. CallOK' /\ LeftOK' /\ \A d \in Calls : Unsent(d)' \subseteq Unsent(d)
    BY <2>1, <2>3, SettleLeaves DEF Settled
  <2>5. promises' \subseteq promises /\ \A p \in promises' : p.id # m.entry.id
    BY <2>3 DEF Awaited
  <2>6. shake' \in 0..shakes  BY <2>3 DEF NumsOK
  <2> QED  BY <1>1, <2>1, <2>4, <2>5, <2>6, LetterGone
<1>3. CASE m \in ShakeMsg
  <2>1. HelloFailed(m)  BY <1>3, Shapes DEF SendFailed
  <2> DEFINE r == [Unused EXCEPT !.at = "error"]
             failing == {c \in Calls : call[c].at = "shaking" /\ call[c].shake = m.shake}
  <2>2. r \in CallState /\ r.at \in Settled
    BY CallAssumption DEF Unused, CallState, Label, Settled, CallAssumption
  <2>3. /\ call' = [c \in Calls |-> IF c \in failing THEN r ELSE call[c]]
        /\ shake' = (IF failing = {} THEN shake ELSE 0)
        /\ UNCHANGED promises
    BY <2>1 DEF HelloFailed
  <2> HIDE DEF r, failing
  <2>4. call \in [Calls -> CallState]  BY DEF CallOK, CallState
  <2>5. CallOK' /\ LeftOK' /\ \A d \in Calls : Unsent(d)' \subseteq Unsent(d)
    BY <2>2, <2>3, <2>4, SettledLeaves
  <2>6. NetOK' /\ Letters' = Letters  BY <1>1, <1>3, Shapes DEF NetOK, Letters
  <2>7. NumsOK'  BY <1>1, <2>3 DEF NumsOK
  <2>8. Fades  BY <1>1, <2>3, <2>5, <2>6 DEF Fades, NumsOK
  <2>9. OneLetter'  BY <2>6 DEF IInv, OneLetter
  <2> QED  BY <2>5, <2>6, <2>7, <2>8, <2>9, FadesInv
<1> QED  BY <1>2, <1>3 DEF NetOK

\* Time passes for the datagrams and the timers.
LEMMA TickKeeps ==
  ASSUME IInv, Tick
  PROVE  IInv' /\ Fades /\ OneLetter'
<1> CallOK /\ NetOK /\ NumsOK /\ LeftOK  BY DEF IInv
<1> DEFINE Nearer(m) == [m EXCEPT !.delay = @ - 1]
<1>1. /\ \A m \in net : m.delay > 0
      /\ net' = {Nearer(m) : m \in net}
      /\ UNCHANGED <<shake, shakes, stamp, promises, lastId, executed, lost>>
  BY Zenon DEF Tick
<1>2. ASSUME NEW m \in net
      PROVE  /\ m \in EntryMsg => /\ Nearer(m) \in EntryMsg /\ Nearer(m).entry = m.entry
                                  /\ Nearer(m).kind = m.kind
             /\ m \in ShakeMsg => Nearer(m) \in ShakeMsg
  <2>1. m.delay > 0  BY <1>1
  <2>2. CASE m \in EntryMsg
    BY <2>1, <2>2, Shapes DEF EntryMsg
  <2>3. CASE m \in ShakeMsg
    BY <2>1, <2>3, Shapes DEF ShakeMsg
  <2> QED  BY <2>2, <2>3 DEF NetOK
<1> HIDE DEF Nearer
<1>3. NetOK'  BY <1>1, <1>2 DEF NetOK
<1>4. /\ \A m \in Letters : Nearer(m) \in Letters' /\ Nearer(m).entry = m.entry
                            /\ Nearer(m).kind = m.kind
      /\ \A k \in Letters' : \E m \in Letters : k = Nearer(m)
  <2>1. ASSUME NEW m \in Letters
        PROVE  Nearer(m) \in Letters' /\ Nearer(m).entry = m.entry
               /\ Nearer(m).kind = m.kind
    <3>1. m \in net /\ m \in EntryMsg  BY LettersAre
    <3>2. Nearer(m) \in net' /\ Nearer(m) \in EntryMsg  BY <1>1, <1>2, <3>1
    <3> QED  BY <1>2, <3>1, <3>2, Shapes DEF Letters
  <2>2. ASSUME NEW k \in Letters'  PROVE \E m \in Letters : k = Nearer(m)
    <3>1. k \in net' /\ "entry" \in DOMAIN k  BY DEF Letters
    <3>2. PICK m \in net : k = Nearer(m)  BY <1>1, <3>1
    <3>3. m \in EntryMsg  BY <1>2, <3>1, <3>2, Shapes DEF NetOK
    <3>4. m \in Letters  BY <3>3, Shapes DEF Letters
    <3> QED  BY <3>2, <3>4
  <2> QED  BY <2>1, <2>2
<1>5. ASSUME NEW c \in Calls
      PROVE  /\ call'[c] \in CallState
             /\ call'[c].at = call[c].at /\ call'[c].left = call[c].left
  <2>1. call'[c] = IF Running(c) THEN [call[c] EXCEPT !.timer = @ - 1] ELSE call[c]
    BY DEF Tick
  <2>2. call[c] \in CallState  BY DEF CallOK, CallState
  <2>3. CASE Running(c)
    <3>1. call[c].timer > 0  BY <2>3 DEF Tick
    <3> QED  BY <2>1, <2>2, <2>3, <3>1, CallAssumption DEF CallState, CallAssumption
  <2> QED  BY <2>1, <2>2, <2>3
<1>6. CallOK'
  <2>1. DOMAIN call' = Calls /\ call' = [c \in Calls |-> call'[c]]  BY DEF Tick
  <2> QED  BY <1>5, <2>1 DEF CallOK, CallState
<1>7. LeftOK' /\ \A d \in Calls : Unsent(d)' = Unsent(d)
  BY <1>5 DEF LeftOK, Unsent, Running
<1>8. NumsOK'  BY <1>1 DEF NumsOK
<1>9. Fades
  <2>1. \A k \in Letters' : \E n \in Letters : n.entry = k.entry /\ n.kind = k.kind
    BY <1>4
  <2>2. \A p \in promises' : (\E n \in Letters : n.entry = p) => \E k \in Letters' : k.entry = p
    BY <1>4
  <2> QED  BY <1>1, <1>7, <2>1, <2>2 DEF Fades, NumsOK
<1>10. OneLetter'
  <2> SUFFICES ASSUME NEW k \in Letters', NEW l \in Letters',
                      k.entry.call = l.entry.call, k.entry.left = l.entry.left
               PROVE  k = l
    BY DEF OneLetter
  <2>1. PICK m \in Letters : k = Nearer(m)  BY <1>4
  <2>2. PICK n \in Letters : l = Nearer(n)  BY <1>4
  <2>3. m.entry = k.entry /\ n.entry = l.entry  BY <1>4, <2>1, <2>2
  <2> QED  BY <2>1, <2>2, <2>3 DEF IInv, OneLetter
<1> QED  BY <1>3, <1>6, <1>7, <1>8, <1>9, <1>10, FadesInv

-----------------------------------------------------------------------------
(* The steps that send a request and execute it.                             *)

\* A lost datagram leaves one entry more that none can remove.
LEMMA OneMoreOrphan ==
  ASSUME MapOK, NumsOK, PromisesBounded, NEW e, lost' = lost + 1,
         Orphans' \subseteq Orphans \cup {e}
  PROVE  PromisesBounded'
<1>1. IsFiniteSet(Orphans)  BY Fewer DEF MapOK, Orphans
<1>2. /\ IsFiniteSet(Orphans \cup {e})
      /\ Cardinality(Orphans \cup {e}) <= Cardinality(Orphans) + 1
      /\ Cardinality(Orphans) \in Nat
  BY <1>1, FS_AddElement, FS_CardinalityType
<1>3. /\ Cardinality(Orphans') <= Cardinality(Orphans \cup {e})
      /\ Cardinality(Orphans') \in Nat /\ Cardinality(Orphans \cup {e}) \in Nat
  BY <1>2, Fewer
<1>4. Cardinality(Orphans) <= lost /\ lost \in Nat  BY DEF PromisesBounded, NumsOK
<1> QED  BY <1>2, <1>3, <1>4 DEF PromisesBounded

\* A request goes out with an entry of the attempt that sends it, or it is lost.
LEMMA RequestSends ==
  ASSUME IInv, NEW c \in Calls, Request(c)
  PROVE  \E e \in Entry :
           /\ e.call = c /\ e.left = call[c].left
           /\ e.id = lastId' /\ lastId' = NextId(call[c].left = Retries)
           /\ lastId' \in 1..(IdLimit - 1)
           /\ promises' = {p \in promises : p.id # e.id} \cup {e}
           /\ lost' \in 0..MaxLost
           /\ \/ lost <= lost' /\ \E k \in EntryMsg : /\ k.entry = e
                                                      /\ k.kind \in {"request", "failed"}
                                                      /\ net' = net \cup {k}
              \/ lost' = lost + 1 /\ net' = net
<1> CallOK /\ NumsOK /\ LeftOK  BY DEF IInv
<1> DEFINE id == NextId(call[c].left = Retries)
           e  == [id |-> id, call |-> c, left |-> call[c].left]
           q  == [kind |-> "request", entry |-> e, delay |-> 0]
<1>1. call[c].left \in 1..Retries
  BY CallAssumption DEF Request, CallOK, LeftOK, Running, CallAssumption
<1>2. id \in 1..(IdLimit - 1)  BY CallAssumption DEF NextId, NumsOK, CallAssumption
<1>3. e \in Entry /\ e.call = c /\ e.left = call[c].left /\ e.id = id
  <2> HIDE DEF id
  <2>1. id \in 1..IdLimit  BY <1>2, CallAssumption DEF CallAssumption
  <2> QED  BY <1>1, <2>1 DEF Entry
<1>4. q \in EntryMsg /\ q.entry = e /\ q.kind = "request"  BY <1>3 DEF EntryMsg
<1>5. lastId' = id /\ promises' = {p \in promises : p.id # e.id} \cup {e} /\ SendPacket(q)
  BY <1>3 DEF Request
<1> HIDE DEF id, e, q
<1>6. /\ lost' \in 0..MaxLost
      /\ \/ lost <= lost' /\ \E k \in EntryMsg : /\ k.entry = e
                                                 /\ k.kind \in {"request", "failed"}
                                                 /\ net' = net \cup {k}
         \/ lost' = lost + 1 /\ net' = net
  <2>1. CASE Transmit(q, net)
    <3>1. CASE lost <= lost' /\ \E d \in Nat : net' = net \cup {[q EXCEPT !.delay = d]}
      <4>1. PICK d \in Nat : net' = net \cup {[q EXCEPT !.delay = d]}  BY <3>1
      <4> DEFINE k == [q EXCEPT !.delay = d]
      <4>2. k \in EntryMsg /\ k.entry = e /\ k.kind = "request"
        BY <1>4 DEF EntryMsg
      <4>3. net' = net \cup {k}  BY <4>1
      <4> HIDE DEF k
      <4> QED  BY <2>1, <3>1, <4>2, <4>3, Transmitted DEF NumsOK
    <3>2. CASE lost' = lost + 1 /\ net' = net
      BY <2>1, <3>2, Transmitted DEF NumsOK
    <3> QED  BY <2>1, <3>1, <3>2, Transmitted DEF NumsOK
  <2>2. CASE net' = net \cup {[q EXCEPT !.kind = "failed", !.delay = 0]} /\ UNCHANGED lost
    <3> DEFINE k == [q EXCEPT !.kind = "failed", !.delay = 0]
    <3>1. k \in EntryMsg /\ k.entry = e /\ k.kind = "failed"
      BY <1>4 DEF EntryMsg
    <3>2. net' = net \cup {k}  BY <2>2
    <3> HIDE DEF k
    <3> QED  BY <2>2, <3>1, <3>2 DEF NumsOK
  <2> QED  BY <1>5, <2>1, <2>2 DEF SendPacket
<1> QED  BY <1>2, <1>3, <1>5, <1>6 DEF id

\* The attempt whose request is sent is sent no more.
LEMMA RequestLeaves ==
  ASSUME IInv, NEW c \in Calls, Request(c)
  PROVE  /\ CallOK' /\ LeftOK' /\ Outcome' = Outcome
         /\ call[c].left \in Unsent(c)
         /\ Unsent(c)' = Unsent(c) \ {call[c].left}
         /\ \A d \in Calls : d # c => Unsent(d)' = Unsent(d)
<1> CallOK /\ LeftOK  BY DEF IInv
<1>1. /\ call[c].at = "ready" /\ call[c].left \in 1..Retries
      /\ call' = [call EXCEPT ![c].at = "waiting"]
  BY CallAssumption DEF Request, CallOK, LeftOK, Running, CallAssumption
<1>2. /\ call'[c].at = "waiting" /\ call'[c].left = call[c].left
      /\ \A d \in Calls : d # c => call'[d] = call[d]
      /\ CallOK'
  BY <1>1 DEF CallOK, Label
<1>3. LeftOK'  BY <1>1, <1>2 DEF LeftOK, Running
<1>4. call[c].left \in Unsent(c) /\ Unsent(c)' = Unsent(c) \ {call[c].left}
  BY <1>1, <1>2 DEF Unsent, Running
<1>5. \A d \in Calls : d # c => Unsent(d)' = Unsent(d)  BY <1>2 DEF Unsent, Running
<1>6. Outcome' = Outcome  BY <1>1, <1>2 DEF Outcome, Running
<1> QED  BY <1>2, <1>3, <1>4, <1>5, <1>6

LEMMA RequestKeeps ==
  ASSUME IInv, NEW c \in Calls, Request(c)
  PROVE  IInv'
<1> CallOK /\ NetOK /\ NumsOK /\ MapOK /\ Issued /\ OneLetter  BY DEF IInv
<1>1. PICK e \in Entry :
           /\ e.call = c /\ e.left = call[c].left /\ e.id = lastId'
           /\ lastId' \in 1..(IdLimit - 1)
           /\ promises' = {p \in promises : p.id # e.id} \cup {e}
           /\ lost' \in 0..MaxLost
           /\ \/ lost <= lost' /\ \E k \in EntryMsg : /\ k.entry = e
                                                      /\ k.kind \in {"request", "failed"}
                                                      /\ net' = net \cup {k}
              \/ lost' = lost + 1 /\ net' = net
  BY RequestSends
<1>2. UNCHANGED <<shake, shakes, stamp, executed>>  BY DEF Request
<1>3. /\ CallOK' /\ LeftOK'
      /\ e.left \in Unsent(c) /\ Unsent(c)' = Unsent(c) \ {e.left}
      /\ \A d \in Calls : Unsent(d)' \subseteq Unsent(d)
  BY <1>1, RequestLeaves
<1>4. NumsOK'  BY <1>1, <1>2 DEF NumsOK
<1>5. NetOK' /\ (\/ Letters' = Letters
                 \/ \E k \in EntryMsg : /\ k.entry = e /\ k.kind \in {"request", "failed"}
                                        /\ Letters' = Letters \cup {k})
  <2>1. CASE net' = net
    BY <2>1 DEF NetOK, Letters
  <2>2. CASE \E k \in EntryMsg : /\ k.entry = e /\ k.kind \in {"request", "failed"}
                                 /\ net' = net \cup {k}
    <3>1. PICK k \in EntryMsg : /\ k.entry = e /\ k.kind \in {"request", "failed"}
                                /\ net' = net \cup {k}
      BY <2>2
    <3>2. Letters' = Letters \cup {k} /\ NetOK'  BY <3>1, Shapes DEF Letters, NetOK
    <3> QED  BY <3>1, <3>2
  <2> QED  BY <1>1, <2>1, <2>2
<1>6. /\ \A p \in promises : ~(p.call = c /\ p.left = e.left)
      /\ \A m \in Letters : ~(m.entry.call = c /\ m.entry.left = e.left)
  BY <1>3 DEF Issued
<1>7. \A m \in Letters' : m \notin Letters => m.entry = e /\ m.kind # "result"
  BY <1>5
<1>8. MapOK'
  <2>1. IsFiniteSet({p \in promises : p.id # e.id})  BY Fewer DEF MapOK
  <2>2. IsFiniteSet(promises')  BY <1>1, <2>1, FS_AddElement
  <2> QED  BY <1>1, <2>2 DEF MapOK
<1>9. Issued'
  <2>1. ASSUME NEW p \in promises'  PROVE p.left \notin Unsent(p.call)'
    <3>1. CASE p = e
      BY <1>1, <1>3, <3>1
    <3>2. CASE p \in promises
      BY <1>3, <3>2 DEF Issued, MapOK, Entry
    <3> QED  BY <1>1, <3>1, <3>2
  <2>2. ASSUME NEW m \in Letters'  PROVE m.entry.left \notin Unsent(m.entry.call)'
    <3>1. CASE m.entry = e
      BY <1>1, <1>3, <3>1
    <3>2. CASE m \in Letters
      BY <1>3, <3>2, LettersAre DEF Issued, Entry
    <3> QED  BY <1>7, <3>1, <3>2
  <2> QED  BY <2>1, <2>2 DEF Issued
<1>10. OneLetter'
  BY <1>1, <1>5, <1>6 DEF OneLetter
<1>11. ExecutedDone'
  <2> SUFFICES ASSUME NEW d \in Calls  PROVE executed'[d] <= Cardinality(Done(d)')
    BY DEF ExecutedDone
  <2>1. Done(d) \subseteq Done(d)'
    <3> SUFFICES ASSUME NEW l \in Done(d)  PROVE l \in Done(d)'
      OBVIOUS
    <3>1. l \in 1..Retries /\ l \notin Unsent(d)  BY DEF Done
    <3>2. l \notin Unsent(d)'  BY <1>3, <3>1
    <3>3. ASSUME NEW m \in Letters', m.kind = "request"
          PROVE  ~(m.entry.call = d /\ m.entry.left = l)
      <4>1. CASE m \in Letters
        BY <3>3, <4>1 DEF Done
      <4>2. CASE m.entry = e
        BY <1>1, <1>3, <3>1, <4>2
      <4> QED  BY <1>7, <4>1, <4>2
    <3> QED  BY <3>1, <3>2, <3>3 DEF Done
  <2> QED  BY <1>2, <2>1, DoneGrows DEF IInv
<1>12. ResultsExecuted'  BY <1>2, <1>7 DEF IInv, ResultsExecuted
<1>13. PromisesBounded'
  <2>1. CASE lost' = lost + 1 /\ net' = net
    <3>1. Orphans' \subseteq Orphans \cup {e}  BY <1>1, <2>1 DEF Orphans, Letters
    <3> QED  BY <2>1, <3>1, OneMoreOrphan DEF IInv
  <2>2. CASE lost <= lost' /\ \E k \in EntryMsg : k.entry = e /\ net' = net \cup {k}
    <3>1. PICK k \in EntryMsg : k.entry = e /\ net' = net \cup {k}  BY <2>2
    <3>2. Letters' = Letters \cup {k}  BY <3>1, Shapes DEF Letters
    <3>3. Orphans' \subseteq Orphans  BY <1>1, <3>1, <3>2 DEF Orphans
    <3> QED  BY <1>1, <2>2, <3>3, NoNewOrphan DEF IInv
  <2> QED  BY <1>1, <2>1, <2>2
<1> QED  BY <1>3, <1>4, <1>5, <1>8, <1>9, <1>10, <1>11, <1>12, <1>13 DEF IInv

\* The robot's answer takes the place of the request, or it is lost.
LEMMA ExecuteAnswers ==
  ASSUME IInv, NEW m \in net, Execute(m)
  PROVE  /\ m \in Letters /\ m.kind = "request" /\ m.entry \in Entry
         /\ lost' \in 0..MaxLost /\ NetOK'
         /\ \/ lost <= lost' /\ \E a \in EntryMsg : /\ a.entry = m.entry
                                                    /\ a.kind \in {"result", "error"}
                                                    /\ Letters' = (Letters \ {m}) \cup {a}
            \/ lost' = lost + 1 /\ Letters' = Letters \ {m}
<1> NetOK /\ NumsOK  BY DEF IInv
<1>1. m.kind = "request" /\ m \in Letters /\ m \in EntryMsg /\ m.entry \in Entry
  BY Shapes, LettersAre DEF Execute, NetOK, ShakeMsg, Letters
<1>2. PICK answer \in {"result", "error"} : Transmit([m EXCEPT !.kind = answer], net \ {m})
  BY DEF Execute
<1> DEFINE w == [m EXCEPT !.kind = answer]
<1>3. w \in EntryMsg /\ w.entry = m.entry /\ w.kind = answer
  BY <1>1 DEF EntryMsg
<1>4. Transmit(w, net \ {m})  BY <1>2
<1> HIDE DEF w
<1>5. CASE lost <= lost' /\ \E d \in Nat : net' = (net \ {m}) \cup {[w EXCEPT !.delay = d]}
  <2>1. PICK d \in Nat : net' = (net \ {m}) \cup {[w EXCEPT !.delay = d]}  BY <1>5
  <2> DEFINE a == [w EXCEPT !.delay = d]
  <2>2. a \in EntryMsg /\ a.entry = m.entry /\ a.kind = answer
    BY <1>3 DEF EntryMsg
  <2>3. net' = (net \ {m}) \cup {a}  BY <2>1
  <2> HIDE DEF a
  <2>4. NetOK' /\ Letters' = (Letters \ {m}) \cup {a}
    BY <2>2, <2>3, Shapes DEF NetOK, Letters
  <2> QED  BY <1>1, <1>2, <1>4, <1>5, <2>2, <2>4, Transmitted DEF NumsOK
<1>6. CASE lost' = lost + 1 /\ net' = net \ {m}
  <2>1. NetOK' /\ Letters' = Letters \ {m}  BY <1>6 DEF NetOK, Letters
  <2> QED  BY <1>1, <1>4, <1>6, <2>1, Transmitted DEF NumsOK
<1> QED  BY <1>4, <1>5, <1>6, Transmitted DEF NumsOK

LEMMA ExecuteKeeps ==
  ASSUME IInv, NEW m \in net, Execute(m)
  PROVE  IInv'
<1> CallOK /\ NetOK /\ NumsOK /\ MapOK /\ Issued /\ OneLetter  BY DEF IInv
<1>1. /\ m \in Letters /\ m.kind = "request" /\ m.entry \in Entry
      /\ lost' \in 0..MaxLost /\ NetOK'
  BY ExecuteAnswers
<1>2. \/ lost <= lost' /\ \E a \in EntryMsg : /\ a.entry = m.entry
                                              /\ a.kind \in {"result", "error"}
                                              /\ Letters' = (Letters \ {m}) \cup {a}
      \/ lost' = lost + 1 /\ Letters' = Letters \ {m}
  BY ExecuteAnswers
<1> DEFINE c == m.entry.call
           l == m.entry.left
<1>3. c \in Calls /\ l \in 1..Retries  BY <1>1 DEF Entry
<1>4. /\ executed' = [executed EXCEPT ![c] = @ + 1]
      /\ UNCHANGED <<call, shake, shakes, stamp, promises, lastId>>
  BY DEF Execute
<1>5. /\ executed'[c] = executed[c] + 1 /\ executed' \in [Calls -> Nat]
      /\ \A d \in Calls : d # c => executed'[d] = executed[d]
      /\ \A d \in Calls : executed[d] \in Nat
  BY <1>3, <1>4 DEF NumsOK
<1>6. CallOK' /\ LeftOK' /\ MapOK'  BY <1>4 DEF IInv, CallOK, LeftOK, Running, MapOK
<1>7. NumsOK'  BY <1>1, <1>4, <1>5 DEF NumsOK
<1>8. \A d \in Calls : Unsent(d)' = Unsent(d)  BY <1>4 DEF Unsent, Running
<1>9. \A n \in Letters' : \/ n \in Letters \ {m}
                          \/ n.entry = m.entry /\ n.kind \in {"result", "error"}
  BY <1>2
<1>10. Issued'
  <2>1. \A p \in promises' : p.left \notin Unsent(p.call)'
    BY <1>4, <1>8 DEF Issued, MapOK, Entry
  <2>2. ASSUME NEW n \in Letters'  PROVE n.entry.left \notin Unsent(n.entry.call)'
    <3>1. PICK k \in Letters : n.entry = k.entry  BY <1>1, <1>9
    <3>2. k.entry.call \in Calls  BY LettersAre DEF Entry
    <3> QED  BY <1>8, <3>1, <3>2 DEF Issued
  <2> QED  BY <2>1, <2>2 DEF Issued
<1>11. OneLetter'  BY <1>1, <1>2 DEF OneLetter
<1>12. ExecutedDone'
  <2>1. ASSUME NEW d \in Calls, NEW j \in Done(d)  PROVE j \in Done(d)'
    <3>1. j \in 1..Retries /\ j \notin Unsent(d)'  BY <1>8, <2>1 DEF Done
    <3>2. \A n \in Letters' : n.kind = "request" => ~(n.entry.call = d /\ n.entry.left = j)
      BY <1>9, <2>1 DEF Done
    <3> QED  BY <3>1, <3>2 DEF Done
  <2>2. l \notin Done(c)  BY <1>1 DEF Done
  <2>3. l \in Done(c)'
    <3>1. l \notin Unsent(c)'  BY <1>1, <1>3, <1>8 DEF Issued
    <3>2. \A n \in Letters' : n.kind = "request" => ~(n.entry.call = c /\ n.entry.left = l)
      BY <1>1, <1>9 DEF OneLetter
    <3> QED  BY <1>3, <3>1, <3>2 DEF Done
  <2> HIDE DEF c, l
  <2>4. ASSUME NEW d \in Calls, d # c  PROVE executed'[d] <= Cardinality(Done(d)')
    <3>1. Done(d) \subseteq Done(d)'  BY <2>1
    <3> QED  BY <1>5, <2>4, <3>1, DoneGrows DEF IInv
  <2>5. executed'[c] <= Cardinality(Done(c)')
    <3>1. IsFiniteSet(Done(c)) /\ Cardinality(Done(c)) \in Nat /\ IsFiniteSet(Done(c)')
          /\ Cardinality(Done(c)') \in Nat
      BY <1>3, DoneFinite
    <3>2. Cardinality(Done(c) \cup {l}) = Cardinality(Done(c)) + 1
      BY <2>2, <3>1, FS_AddElement
    <3>3. Done(c) \cup {l} \subseteq Done(c)'  BY <1>3, <2>1, <2>3
    <3>4. Cardinality(Done(c) \cup {l}) <= Cardinality(Done(c)')  BY <3>1, <3>3, Fewer
    <3>5. executed[c] <= Cardinality(Done(c))  BY <1>3 DEF IInv, ExecutedDone
    <3> QED  BY <1>3, <1>5, <3>1, <3>2, <3>4, <3>5
  <2> QED  BY <2>4, <2>5 DEF ExecutedDone
<1>13. ResultsExecuted'
  <2> SUFFICES ASSUME NEW n \in Letters', n.kind = "result"
               PROVE  executed'[n.entry.call] > 0
    BY DEF ResultsExecuted
  <2>1. CASE n \in Letters
    <3>1. n.entry.call \in Calls /\ executed[n.entry.call] > 0
      BY <2>1, LettersAre DEF IInv, ResultsExecuted, Entry
    <3> QED  BY <1>5, <3>1
  <2>2. CASE n.entry = m.entry
    BY <1>3, <1>5, <2>2
  <2> QED  BY <1>9, <2>1, <2>2
<1>14. PromisesBounded'
  <2>1. CASE lost' = lost + 1 /\ Letters' = Letters \ {m}
    <3>1. Orphans' \subseteq Orphans \cup {m.entry}  BY <1>4, <2>1 DEF Orphans
    <3> QED  BY <2>1, <3>1, OneMoreOrphan DEF IInv
  <2>2. CASE lost <= lost' /\ \E a \in EntryMsg : /\ a.entry = m.entry
                                                  /\ Letters' = (Letters \ {m}) \cup {a}
    <3>1. Orphans' \subseteq Orphans  BY <1>4, <2>2 DEF Orphans
    <3> QED  BY <1>1, <2>2, <3>1, NoNewOrphan DEF IInv
  <2> QED  BY <1>2, <2>1, <2>2
<1> QED  BY <1>1, <1>6, <1>7, <1>10, <1>11, <1>12, <1>13, <1>14 DEF IInv

-----------------------------------------------------------------------------
(* The theorems that hold whatever the ids are.                              *)

LEMMA InitIInv == Init => IInv
<1> SUFFICES ASSUME Init PROVE IInv
  OBVIOUS
<1> USE CallAssumption DEF CallAssumption
<1>1. Letters = {} /\ Orphans = {}  BY DEF Init, Letters, Orphans
<1>2. CallOK /\ LeftOK
  <2> DEFINE u == Unused
  <2>1. u \in CallState /\ u.at = "idle"  BY DEF Unused, CallState, Label
  <2>2. call = [c \in Calls |-> u]  BY DEF Init
  <2> HIDE DEF u
  <2>3. CallOK  BY <2>1, <2>2 DEF CallOK, CallState
  <2>4. LeftOK  BY <2>1, <2>2 DEF LeftOK, Running
  <2> QED  BY <2>3, <2>4
<1>3. NetOK /\ NumsOK  BY DEF Init, NetOK, NumsOK
<1>4. MapOK  BY FS_EmptySet DEF Init, MapOK
<1>5. Issued /\ OneLetter /\ ResultsExecuted
  BY <1>1 DEF Init, Issued, OneLetter, ResultsExecuted
<1>6. ExecutedDone  BY DoneFinite DEF Init, ExecutedDone
<1>7. PromisesBounded  BY <1>1, FS_EmptySet DEF Init, PromisesBounded
<1> QED  BY <1>2, <1>3, <1>4, <1>5, <1>6, <1>7 DEF IInv

\* A step sends a request, executes one, or only fades.
LEMMA StepKeeps ==
  ASSUME IInv, [Next]_vars
  PROVE  /\ IInv'
         /\ \/ \E c \in Calls : Request(c)
            \/ \E m \in net : Execute(m)
            \/ Fades /\ OneLetter'
<1>1. ASSUME NEW c \in Calls, Issue(c)
      PROVE  IInv' /\ Fades /\ OneLetter'
  BY <1>1, IssueKeeps
<1>2. ASSUME NEW c \in Calls, Request(c)
      PROVE  IInv'
  BY <1>2, RequestKeeps
<1>3. ASSUME NEW c \in Calls, TimeOut(c)
      PROVE  IInv' /\ Fades /\ OneLetter'
  BY <1>3, TimeOutKeeps
<1>4. ASSUME NEW m \in net, AnswerHello(m)
      PROVE  IInv' /\ Fades /\ OneLetter'
  BY <1>4, AnswerHelloKeeps
<1>5. ASSUME NEW m \in net, Execute(m)
      PROVE  IInv'
  BY <1>5, ExecuteKeeps
<1>6. ASSUME NEW m \in net, Welcome(m)
      PROVE  IInv' /\ Fades /\ OneLetter'
  BY <1>6, WelcomeKeeps
<1>7. ASSUME NEW m \in net, Reply(m)
      PROVE  IInv' /\ Fades /\ OneLetter'
  BY <1>7, ReplyKeeps
<1>8. ASSUME NEW m \in net, SendFailed(m)
      PROVE  IInv' /\ Fades /\ OneLetter'
  BY <1>8, SendFailedKeeps
<1>9. CASE Expire
  BY <1>9, StillKeeps DEF Expire
<1>10. CASE Tick
  BY <1>10, TickKeeps
<1>11. CASE UNCHANGED vars
  BY <1>11, StillKeeps DEF vars, IInv, NumsOK
<1> QED
  BY <1>1, <1>2, <1>3, <1>4, <1>5, <1>6, <1>7, <1>8, <1>9, <1>10, <1>11
     DEF Next, Deliver

\* The inductive invariant holds in every reachable state, whatever the ids are.
THEOREM CallInvariance == Spec => []IInv
<1>1. IInv /\ [Next]_vars => IInv'  BY StepKeeps
<1> QED  BY InitIInv, <1>1, PTL DEF Spec

\* TypeOK for any constants: no call is executed more often than it has attempts,
\* however often its requests and their answers are late or lost.
THEOREM TypeCorrect == Spec => []TypeOK
<1>1. IInv => TypeOK
  <2> SUFFICES ASSUME IInv PROVE TypeOK
    OBVIOUS
  <2>1. executed \in [Calls -> 0..Retries]
    <3>1. ASSUME NEW c \in Calls  PROVE executed[c] \in 0..Retries
      <4>1. /\ executed[c] \in Nat /\ executed[c] <= Cardinality(Done(c))
        BY DEF IInv, NumsOK, ExecutedDone
      <4> QED  BY <4>1, DoneFinite, CallAssumption DEF CallAssumption
    <3> QED  BY <3>1 DEF IInv, NumsOK
  <2> QED  BY <2>1 DEF IInv, CallOK, NumsOK, MapOK, TypeOK
<1> QED  BY <1>1, CallInvariance, PTL

\* PromisesBounded for any constants: whatever replies are late and whichever entries
\* replace one another in the map, the entries no datagram can remove are no more than
\* the datagrams lost, so the map does not grow with the calls.
THEOREM MapBounded == Spec => []PromisesBounded
<1>1. IInv => PromisesBounded  BY DEF IInv
<1> QED  BY <1>1, CallInvariance, PTL

-----------------------------------------------------------------------------
(* The entries that are under way have different ids.                        *)

LEMMA Products ==
  /\ \A s, i \in Nat : s * i \in Nat /\ s * (i + 1) = s * i + s
  /\ \A s, i, j \in Nat : i <= j => s * i <= s * j
  OBVIOUS

LEMMA UsedSize ==
  /\ IsFiniteSet(Used) /\ IsFiniteSet(Used')
  /\ Cardinality(Used) \in Nat /\ Cardinality(Used') \in Nat
  /\ Needed \in Nat
  /\ Stride * Cardinality(Used) <= Needed /\ Stride * Cardinality(Used') <= Needed
<1> DEFINE all == Calls \X (1..Retries)
<1>1. IsFiniteSet(1..Retries) /\ Cardinality(1..Retries) = Retries
  BY FS_Interval, CallAssumption DEF CallAssumption
<1>2. /\ IsFiniteSet(all) /\ Cardinality(all) = Cardinality(Calls) * Retries
      /\ Cardinality(all) \in Nat
  BY <1>1, FS_Product, FS_CardinalityType, CallAssumption DEF CallAssumption
<1>3. Used \subseteq all /\ Used' \subseteq all  BY DEF Used
<1> HIDE DEF all
<1>4. /\ IsFiniteSet(Used) /\ Cardinality(Used) \in Nat /\ Cardinality(Used) <= Cardinality(all)
      /\ IsFiniteSet(Used') /\ Cardinality(Used') \in Nat
      /\ Cardinality(Used') <= Cardinality(all)
  BY <1>2, <1>3, Fewer
<1>5. Needed = Stride * Cardinality(all) /\ Stride \in Nat
  BY <1>2, CallAssumption DEF Needed, CallAssumption
<1> QED  BY <1>2, <1>4, <1>5, Products

\* When no request is sent, entries only leave and attempts only end.
LEMMA IdsKeep ==
  ASSUME IdsApart, NumsOK, Entries' \subseteq Entries, lastId' = lastId, Used \subseteq Used'
  PROVE  IdsApart'
<1>1. Stride * Cardinality(Used) <= Stride * Cardinality(Used')
      /\ Stride * Cardinality(Used) \in Nat /\ Stride * Cardinality(Used') \in Nat
  <2>1. Cardinality(Used) <= Cardinality(Used')  BY UsedSize, Fewer
  <2> QED  BY <2>1, UsedSize, Products, CallAssumption DEF CallAssumption
<1>2. lastId \in Nat /\ \A f \in FirstIds : f \in Nat
  BY CallAssumption DEF NumsOK, CallAssumption
<1>3. ASSUME NEW f \in FirstIds
      PROVE  (Straight(f) => Straight(f)') /\ (Wrapped(f) => Wrapped(f)')
  BY <1>1, <1>2 DEF Straight, Wrapped
<1>4. Needed' = Needed  BY DEF Needed
<1> QED  BY <1>3, <1>4 DEF IdsApart

\* An id is that after the last one, or ids roll over.
LEMMA NextIdStep ==
  ASSUME NumsOK, NEW first \in BOOLEAN
  PROVE  \/ /\ lastId < NextId(first) /\ NextId(first) <= lastId + Stride
            /\ NextId(first) < IdLimit
         \/ NextId(first) = 1 /\ lastId + Stride >= IdLimit
  BY CallAssumption DEF NextId, NumsOK, CallAssumption

\* A request takes an id that no entry has.
LEMMA FreshId ==
  ASSUME EnoughIds, IdsApart, NumsOK, NEW e,
         Entries' \subseteq Entries \cup {e}, \A g \in Entries : g.id \in Nat,
         e.id = lastId', lastId' \in 1..(IdLimit - 1),
         Cardinality(Used') = Cardinality(Used) + 1,
         NEW first \in BOOLEAN, lastId' = NextId(first)
  PROVE  IdsApart'
<1> DEFINE S  == Stride * Cardinality(Used)
           S1 == Stride * Cardinality(Used')
<1>1. S \in Nat /\ S1 = S + Stride /\ S1 <= Needed /\ Needed \in Nat /\ Stride \in Nat
      /\ Stride >= 1
  <2>1. Stride \in Nat /\ Stride >= 1  BY CallAssumption DEF CallAssumption
  <2> QED  BY <2>1, UsedSize, Products
<1>2. PICK f \in FirstIds : Straight(f) \/ (Needed <= f /\ Wrapped(f))  BY DEF IdsApart
<1>3. f \in 0..(IdLimit - 1) /\ (f + Needed < IdLimit \/ Needed <= f)
  BY CallAssumption DEF EnoughIds, CallAssumption
<1>4. lastId \in Nat /\ IdLimit \in Nat /\ lastId' \in Nat
  BY CallAssumption DEF NumsOK, CallAssumption
<1>5. \/ lastId < lastId' /\ lastId' <= lastId + Stride
      \/ lastId' = 1 /\ lastId + Stride >= IdLimit
  BY NextIdStep
<1>6. Needed' = Needed  BY DEF Needed
<1>7. CASE Straight(f)
  <2>1. f <= lastId /\ lastId <= f + S /\ \A g \in Entries : f < g.id /\ g.id <= lastId
    BY <1>7 DEF Straight
  <2>2. CASE lastId < lastId' /\ lastId' <= lastId + Stride
    <3>1. f <= lastId' /\ lastId' <= f + S1
      BY <1>1, <1>3, <1>4, <2>1, <2>2
    <3>2. \A g \in Entries : f < g.id /\ g.id <= lastId' /\ g.id # e.id
      BY <1>3, <1>4, <2>1, <2>2
    <3>3. f < e.id /\ e.id <= lastId'
      BY <1>3, <1>4, <2>1, <2>2
    <3>4. Straight(f)'  BY <3>1, <3>2, <3>3 DEF Straight
    <3>5. \A g, h \in Entries' : g.id = h.id => g = h  BY <3>2 DEF IdsApart
    <3> QED  BY <3>4, <3>5 DEF IdsApart
  <2>3. CASE lastId' = 1 /\ lastId + Stride >= IdLimit
    <3>1. Needed <= f
      BY <1>1, <1>3, <1>4, <2>1, <2>3
    <3>2. lastId' >= 1 /\ lastId' <= S1 /\ 1 <= f
      BY <1>1, <1>3, <2>3, <3>1
    <3>3. \A g \in Entries : f < g.id /\ g.id # e.id
      BY <1>3, <2>1, <2>3, <3>2
    <3>4. e.id <= lastId'  BY <1>4
    <3>5. Wrapped(f)'  BY <3>2, <3>3, <3>4 DEF Wrapped
    <3>6. \A g, h \in Entries' : g.id = h.id => g = h  BY <3>3 DEF IdsApart
    <3> QED  BY <1>6, <3>1, <3>5, <3>6 DEF IdsApart
  <2> QED  BY <1>5, <2>2, <2>3
<1>8. CASE Needed <= f /\ Wrapped(f)
  <2>1. lastId >= 1 /\ lastId <= S /\ \A g \in Entries : f < g.id \/ g.id <= lastId
    BY <1>8 DEF Wrapped
  <2>2. lastId < lastId' /\ lastId' <= lastId + Stride
    BY <1>1, <1>3, <1>4, <1>5, <1>8, <2>1
  <2>3. lastId' >= 1 /\ lastId' <= S1 /\ lastId' <= f
    BY <1>1, <1>3, <1>4, <1>8, <2>1, <2>2
  <2>4. \A g \in Entries : (f < g.id \/ g.id <= lastId') /\ g.id # e.id
    BY <1>3, <1>4, <2>1, <2>2, <2>3
  <2>5. e.id <= lastId'  BY <1>4
  <2>6. Wrapped(f)'  BY <2>3, <2>4, <2>5 DEF Wrapped
  <2>7. \A g, h \in Entries' : g.id = h.id => g = h  BY <2>4 DEF IdsApart
  <2> QED  BY <1>6, <1>8, <2>6, <2>7 DEF IdsApart
<1> QED  BY <1>2, <1>7, <1>8

LEMMA IdsStep ==
  ASSUME EnoughIds, IInv, IdsApart, [Next]_vars
  PROVE  IdsApart'
<1> NumsOK /\ MapOK /\ NetOK /\ CallOK /\ Issued  BY DEF IInv
<1>1. \A g \in Entries : g \in Entry
  BY LettersAre DEF Entries, MapOK
<1>2. CASE Fades
  <2>1. Entries' \subseteq Entries  BY <1>2 DEF Entries, Fades
  <2>2. Used \subseteq Used' /\ lastId' = lastId  BY <1>2 DEF Used, Fades
  <2> QED  BY <2>1, <2>2, IdsKeep
<1>3. ASSUME NEW m \in net, Execute(m)  PROVE IdsApart'
  <2>1. m \in Letters /\ \A n \in Letters' : \E k \in Letters : n.entry = k.entry
    BY <1>3, ExecuteAnswers
  <2>2. UNCHANGED <<call, promises, lastId>>  BY <1>3 DEF Execute
  <2>3. Entries' \subseteq Entries  BY <2>1, <2>2 DEF Entries
  <2>4. Used' = Used  BY <2>2 DEF Used, Unsent, Running
  <2> QED  BY <2>2, <2>3, <2>4, IdsKeep
<1>4. ASSUME NEW c \in Calls, Request(c)  PROVE IdsApart'
  <2>1. PICK e \in Entry :
           /\ e.call = c /\ e.left = call[c].left
           /\ e.id = lastId' /\ lastId' = NextId(call[c].left = Retries)
           /\ lastId' \in 1..(IdLimit - 1)
           /\ promises' = {p \in promises : p.id # e.id} \cup {e}
           /\ (net' = net \/ \E k \in EntryMsg : k.entry = e /\ net' = net \cup {k})
    BY <1>4, RequestSends
  <2>2. \A n \in Letters' : n \in Letters \/ n.entry = e
    BY <2>1 DEF Letters
  <2>3. Entries' \subseteq Entries \cup {e}  BY <2>1, <2>2 DEF Entries
  <2>4. /\ e.left \in Unsent(c) /\ Unsent(c)' = Unsent(c) \ {e.left}
        /\ \A d \in Calls : d # c => Unsent(d)' = Unsent(d)
        /\ e.left \in 1..Retries
    BY <1>4, <2>1, RequestLeaves DEF Entry
  <2> DEFINE a == <<c, e.left>>
  <2>5. a \notin Used /\ Used' = Used \cup {a}
    BY <2>4 DEF Used
  <2> HIDE DEF a
  <2>6. Cardinality(Used') = Cardinality(Used) + 1
    BY <2>5, UsedSize, FS_AddElement
  <2>7. \A g \in Entries : g.id \in Nat
    BY <1>1, CallAssumption DEF Entry, CallAssumption
  <2>8. (call[c].left = Retries) \in BOOLEAN
    OBVIOUS
  <2> QED  BY <2>1, <2>3, <2>6, <2>7, <2>8, FreshId
<1> QED  BY <1>2, <1>3, <1>4, StepKeeps

LEMMA InitIds == Init => IdsApart
<1> SUFFICES ASSUME Init PROVE IdsApart
  OBVIOUS
<1>1. Entries = {}  BY DEF Init, Entries, Letters
<1>2. lastId \in FirstIds /\ lastId \in Nat  BY CallAssumption DEF Init, CallAssumption
<1>3. Stride * Cardinality(Used) \in Nat
  BY UsedSize, Products, CallAssumption DEF CallAssumption
<1>4. Straight(lastId)  BY <1>1, <1>2, <1>3 DEF Straight
<1> QED  BY <1>1, <1>2, <1>4 DEF IdsApart

LEMMA IdsInvariance == ASSUME EnoughIds PROVE Spec => [](IInv /\ IdsApart)
<1>1. Init => IInv /\ IdsApart  BY InitIInv, InitIds
<1>2. IInv /\ IdsApart /\ [Next]_vars => (IInv /\ IdsApart)'  BY StepKeeps, IdsStep
<1> QED  BY <1>1, <1>2, PTL DEF Spec

-----------------------------------------------------------------------------
(* The calls implement RemoteCall.                                           *)

LEMMA OutcomeType == ASSUME CallOK' PROVE Outcome' \in [Calls -> R!Outcome]
<1>1. \A d \in Calls : (IF Running(d)' THEN "pending" ELSE call'[d].at) \in R!Outcome
  BY DEF CallOK, Running, Label, Settled, R!Outcome
<1> QED  BY <1>1 DEF Outcome

\* Calls that go on or are settled, those that succeed having been executed.
LEMMA SettlesIf ==
  ASSUME CallOK', UNCHANGED executed,
         \A d \in Calls :
           \/ call'[d].at = call[d].at
           \/ /\ Running(d)
              /\ \/ call'[d].at \in {"ready", "shaking", "waiting", "error", "timeout"}
                 \/ call'[d].at = "ok" /\ executed[d] > 0
  PROVE  R!Settle
<1>1. Outcome' \in [Calls -> R!Outcome]  BY OutcomeType
<1>2. ASSUME NEW d \in Calls
      PROVE  /\ Outcome[d] = IF Running(d) THEN "pending" ELSE call[d].at
             /\ Outcome'[d] = IF Running(d)' THEN "pending" ELSE call'[d].at
  BY DEF Outcome
<1>3. ASSUME NEW d \in Calls
      PROVE  \/ Outcome'[d] = Outcome[d]
             \/ /\ Outcome[d] = "pending" /\ Outcome'[d] # "idle"
                /\ Outcome'[d] = "ok" => executed[d] > 0
  <2>1. CASE call'[d].at = call[d].at
    BY <1>2, <2>1 DEF Running
  <2>2. CASE Running(d) /\ call'[d].at \in {"ready", "shaking", "waiting", "error", "timeout"}
    BY <1>2, <2>2 DEF Running
  <2>3. CASE Running(d) /\ call'[d].at = "ok" /\ executed[d] > 0
    BY <1>2, <2>3 DEF Running
  <2> QED  BY <2>1, <2>2, <2>3
<1> QED  BY <1>1, <1>3 DEF R!Settle

LEMMA IssueImplements ==
  ASSUME IInv, NEW c \in Calls, Issue(c)
  PROVE  R!Issue(c)
<1> CallOK /\ NetOK /\ NumsOK  BY DEF IInv
<1>1. Retries \in 0..Retries /\ Retries > 0 /\ shake \in 0..shakes
  BY CallAssumption DEF NumsOK, CallAssumption
<1>2. call[c].at = "idle" /\ Attempt(c, Retries, shake) /\ UNCHANGED executed
  BY DEF Issue
<1>3. PICK r \in CallState : Becomes(c, Retries, r)  BY <1>1, <1>2, AttemptLeaves
<1>4. call'[c].at \in {"shaking", "ready"} /\ \A d \in Calls : d # c => call'[d] = call[d]
  BY <1>1, <1>3 DEF Becomes, CallOK
<1>5. Outcome[c] = "idle"  BY <1>2 DEF Outcome, Running
<1>6. ASSUME NEW d \in Calls
      PROVE  (IF Running(d)' THEN "pending" ELSE call'[d].at)
             = IF d = c THEN "pending" ELSE Outcome[d]
  BY <1>4 DEF Outcome, Running
<1>7. Outcome' = [Outcome EXCEPT ![c] = "pending"]  BY <1>6 DEF Outcome
<1> QED  BY <1>2, <1>5, <1>7 DEF R!Issue

LEMMA TimeOutImplements ==
  ASSUME IInv, NEW c \in Calls, TimeOut(c)
  PROVE  R!Settle
<1> CallOK /\ NetOK /\ NumsOK /\ LeftOK  BY DEF IInv
<1> DEFINE current == IF call[c].at = "shaking" THEN 0 ELSE shake
<1>1. call[c].left - 1 \in 0..Retries /\ current \in 0..shakes
  BY CallAssumption DEF CallOK, LeftOK, NumsOK, TimeOut, CallAssumption
<1>2. Running(c) /\ Attempt(c, call[c].left - 1, current) /\ UNCHANGED executed
  BY DEF TimeOut
<1> HIDE DEF current
<1>3. PICK r \in CallState : Becomes(c, call[c].left - 1, r)
  BY <1>1, <1>2, AttemptLeaves
<1>4. /\ call'[c].at \in {"timeout", "shaking", "ready"}
      /\ \A d \in Calls : d # c => call'[d] = call[d]
  BY <1>1, <1>3 DEF Becomes, CallOK
<1>5. CallOK'  BY TimeOutKeeps DEF IInv
<1> QED  BY <1>2, <1>4, <1>5, SettlesIf

\* A result settles the call it is of, because no other entry has its id.
LEMMA ReplyImplements ==
  ASSUME IInv, IdsApart, NEW m \in net, Reply(m)
  PROVE  R!Settle
<1> CallOK /\ NetOK /\ MapOK  BY DEF IInv
<1>1. CallOK' /\ UNCHANGED executed  BY ReplyKeeps DEF IInv, Reply
<1>2. m \in Letters /\ m.entry \in Entry
  BY Shapes, LettersAre DEF Reply, NetOK, ShakeMsg, Letters
<1>3. CASE UNCHANGED call
  BY <1>1, <1>3, SettlesIf
<1>4. CASE \E p \in Awaited(m.entry.id) :
             Current(p) /\ Settle(p, IF m.kind = "result" THEN "ok" ELSE "error")
  <2>1. PICK p \in Awaited(m.entry.id) :
               Current(p) /\ Settle(p, IF m.kind = "result" THEN "ok" ELSE "error")
    BY <1>4
  <2>2. p = m.entry  BY <1>2, <2>1 DEF Awaited, IdsApart, Entries
  <2>3. m.kind = "result" => executed[p.call] > 0
    BY <1>2, <2>2 DEF IInv, ResultsExecuted
  <2> DEFINE how == IF m.kind = "result" THEN "ok" ELSE "error"
             r   == [Unused EXCEPT !.at = how]
  <2>4. r.at = how /\ Running(p.call) /\ p.call \in Calls
        /\ call' = [call EXCEPT ![p.call] = r]
    BY <1>2, <2>1, <2>2 DEF Settle, Unused, Current, Running, Entry
  <2> HIDE DEF r
  <2>5. /\ call'[p.call].at = how
        /\ \A d \in Calls : d # p.call => call'[d] = call[d]
    BY <2>4 DEF CallOK
  <2> QED  BY <1>1, <2>3, <2>4, <2>5, SettlesIf
<1> QED  BY <1>3, <1>4 DEF Reply, Settle

LEMMA SendFailedImplements ==
  ASSUME IInv, NEW m \in net, SendFailed(m)
  PROVE  R!Settle
<1> CallOK /\ NetOK  BY DEF IInv
<1>1. CallOK' /\ UNCHANGED executed  BY SendFailedKeeps DEF IInv, SendFailed
<1> DEFINE r == [Unused EXCEPT !.at = "error"]
<1>2. r.at = "error"  BY DEF Unused
<1>3. CASE RequestFailed(m)
  <2>1. CASE UNCHANGED call
    BY <1>1, <2>1, SettlesIf
  <2>2. CASE Current(m.entry) /\ call' = [call EXCEPT ![m.entry.call] = r]
    <3>1. call[m.entry.call].at = "waiting"  BY <2>2 DEF Current
    <3> HIDE DEF r
    <3>2. ASSUME NEW d \in Calls
          PROVE  call'[d] = call[d] \/ (Running(d) /\ call'[d].at = "error")
      BY <1>2, <2>2, <3>1 DEF CallOK, Running
    <3> QED  BY <1>1, <3>2, SettlesIf
  <2> QED  BY <1>3, <2>1, <2>2 DEF RequestFailed, Settle
<1>4. CASE HelloFailed(m)
  <2>1. ASSUME NEW d \in Calls
        PROVE  call'[d] = call[d] \/ (call[d].at = "shaking" /\ call'[d] = r)
    BY <1>4 DEF HelloFailed
  <2> HIDE DEF r
  <2>2. \A d \in Calls : call'[d] = call[d] \/ (Running(d) /\ call'[d].at = "error")
    BY <1>2, <2>1 DEF Running
  <2> QED  BY <1>1, <2>2, SettlesIf
<1> QED  BY <1>3, <1>4 DEF SendFailed

LEMMA ExecuteImplements ==
  ASSUME IInv, NEW m \in net, Execute(m)
  PROVE  R!Execute(m.entry.call)
<1> DEFINE c == m.entry.call
<1>1. m \in Letters /\ c \in Calls /\ m.entry.left \in 1..Retries
  BY ExecuteAnswers DEF Entry
<1>2. executed' = [executed EXCEPT ![c] = @ + 1] /\ UNCHANGED call  BY DEF Execute
<1>3. Outcome' = Outcome  BY <1>2 DEF Outcome, Running
<1>4. m.entry.left \notin Unsent(c)  BY <1>1 DEF IInv, Issued
<1>5. call[c].at # "idle"  BY <1>1, <1>4 DEF Unsent
<1>6. Outcome[c] # "idle"  BY <1>1, <1>5 DEF Outcome
<1>7. executed[c] < Retries
  <2>1. executed'[c] <= Retries
    <3>1. executed'[c] <= Cardinality(Done(c)') /\ executed'[c] \in Nat
      BY <1>1, ExecuteKeeps DEF IInv, ExecutedDone, NumsOK
    <3> HIDE DEF c
    <3> QED  BY <1>1, <3>1, DoneFinite, CallAssumption DEF CallAssumption
  <2>2. executed'[c] = executed[c] + 1 /\ executed[c] \in Nat
    BY <1>1, <1>2 DEF IInv, NumsOK
  <2> QED  BY <2>1, <2>2, CallAssumption DEF CallAssumption
<1> QED  BY <1>2, <1>3, <1>6, <1>7 DEF R!Execute

LEMMA Implements ==
  ASSUME IInv, IdsApart, [Next]_vars
  PROVE  [R!Next]_<<Outcome, executed>>
<1> CallOK /\ NumsOK  BY DEF IInv
<1>1. ASSUME NEW c \in Calls, Issue(c)  PROVE R!Next
  BY <1>1, IssueImplements DEF R!Next
<1>2. ASSUME NEW c \in Calls, Request(c)  PROVE UNCHANGED <<Outcome, executed>>
  BY <1>2, RequestLeaves DEF Request
<1>3. ASSUME NEW c \in Calls, TimeOut(c)  PROVE R!Next
  BY <1>3, TimeOutImplements DEF R!Next
<1>4. ASSUME NEW m \in net, AnswerHello(m)  PROVE UNCHANGED <<Outcome, executed>>
  BY <1>4 DEF AnswerHello, Outcome, Running
<1>5. ASSUME NEW m \in net, Execute(m)  PROVE R!Next
  BY <1>5, ExecuteImplements, ExecuteAnswers DEF R!Next, Entry
<1>6. ASSUME NEW m \in net, Welcome(m)  PROVE R!Next
  <2>1. CallOK' /\ UNCHANGED executed  BY <1>6, WelcomeKeeps DEF IInv, Welcome
  <2>2. ASSUME NEW d \in Calls
        PROVE  call'[d].at = call[d].at \/ (Running(d) /\ call'[d].at = "ready")
    BY <1>6 DEF Welcome, CallOK, Running
  <2> QED  BY <2>1, <2>2, SettlesIf DEF R!Next
<1>7. ASSUME NEW m \in net, Reply(m)  PROVE R!Next
  BY <1>7, ReplyImplements DEF R!Next
<1>8. ASSUME NEW m \in net, SendFailed(m)  PROVE R!Next
  BY <1>8, SendFailedImplements DEF R!Next
<1>9. CASE Expire
  BY <1>9 DEF Expire, Outcome, Running
<1>10. CASE Tick
  <2>1. CallOK' /\ UNCHANGED executed  BY <1>10, TickKeeps DEF IInv, Tick
  <2>2. \A d \in Calls : call'[d].at = call[d].at  BY <1>10 DEF Tick, CallOK, CallState
  <2> QED  BY <2>1, <2>2, SettlesIf DEF R!Next
<1>11. CASE UNCHANGED vars
  BY <1>11 DEF vars, Outcome, Running
<1> QED
  BY <1>1, <1>2, <1>3, <1>4, <1>5, <1>6, <1>7, <1>8, <1>9, <1>10, <1>11
     DEF Next, Deliver

\* AtLeastOnce for any constants with enough ids: however the attempts share the
\* handshake, the ids and the map, a call that resolves was executed, and no call is
\* executed more often than it has retries or before it is made.
THEOREM CallsImplement == ASSUME EnoughIds PROVE Spec => AtLeastOnce
<1>1. Init => R!Init
  <2> SUFFICES ASSUME Init PROVE R!Init
    OBVIOUS
  <2>1. \A c \in Calls : call[c].at = "idle"  BY DEF Init, Unused
  <2>2. Outcome = [c \in Calls |-> "idle"]  BY <2>1 DEF Outcome, Running
  <2> QED  BY <2>2 DEF Init, R!Init
<1>2. IInv /\ IdsApart /\ [Next]_vars => [R!Next]_<<Outcome, executed>>
  BY Implements
<1> QED  BY <1>1, <1>2, IdsInvariance, PTL DEF Spec, AtLeastOnce, R!Spec

\* The ids suffice for ten calls with the values of the code, whatever id is the last.
LEMMA TenCallsEnough ==
  ASSUME IdLimit = 10000, Stride = 100, Retries = 5, Cardinality(Calls) <= 10
  PROVE  EnoughIds
<1>1. Cardinality(Calls) \in Nat  BY FS_CardinalityType, CallAssumption DEF CallAssumption
<1>2. Needed <= 5000 /\ Needed \in Nat  BY <1>1 DEF Needed
<1>3. \A f \in FirstIds : f \in Nat  BY CallAssumption DEF CallAssumption
<1> QED  BY <1>2, <1>3 DEF EnoughIds

\* AtLeastOnce with the ids, the step and the retries of the code.
COROLLARY TenCallsImplement ==
  ASSUME IdLimit = 10000, Stride = 100, Retries = 5, Cardinality(Calls) <= 10
  PROVE  Spec => AtLeastOnce
  BY TenCallsEnough, CallsImplement

-----------------------------------------------------------------------------
(* What a fault costs.                                                       *)

\* How long a datagram and the answer to it take at most, if none takes longer than D.
Remaining(m, D) == m.delay + IF m.kind \in {"hello", "request"} THEN D ELSE 0

\* Handshake h is settled within t.
Greetings == {m \in net : "shake" \in DOMAIN m}
Greeted(h, t, D) == \E m \in Greetings : m.shake = h /\ Remaining(m, D) <= t

\* The attempt that call c waits for is settled within t.
Answered(c, t, D) ==
  \E m \in Letters : /\ m.entry.call = c /\ m.entry.left = call[c].left
                     /\ m.entry \in promises /\ Remaining(m, D) <= t

\* The attempt of call c ends before its timer fires, unless a datagram is lost or late.
OnTime(c, D) ==
  \/ call[c].at = "shaking" /\ Greeted(call[c].shake, call[c].timer - 2 * D - 1, D)
  \/ call[c].at = "ready" /\ 2 * D < call[c].timer
  \/ call[c].at = "waiting" /\ Answered(c, call[c].timer - 1, D)

\* The attempts of a running call that are over.
Missed(c) == Retries - call[c].left

\* A first fault may cost one attempt more once the robot has answered a handshake: the
\* answer goes to the handshake that another call began in between.
Extra == IF stamp = "new" /\ lost > 0 THEN 1 ELSE 0

\* Each attempt that is over, or will not end in time, is paid for by a fault.
Paid(c, D) ==
  Running(c) =>
    /\ Missed(c) <= lost + IF call[c].at = "shaking" THEN 0 ELSE Extra
    /\ OnTime(c, D) \/ Missed(c) < lost + Extra

\* Without a fault all those who wait for a handshake wait for the one in progress, and
\* somebody waits for the one in progress.
Joined ==
  /\ \A c \in Calls : call[c].at = "shaking" =>
       call[c].shake \in 1..shakes /\ stamp # "old" /\ (lost = 0 => call[c].shake = shake)
  /\ shake # 0 => \E c \in Calls : call[c].at = "shaking" /\ call[c].shake = shake
  /\ \A c \in Calls : call[c].at = "ready" => stamp # "none"

\* The fault of the handshake in progress comes on top of those that are paid for by the
\* attempts of a call that may join it.
Unpaid(D) ==
  stamp = "none" /\ shake # 0 /\ ~Greeted(shake, 2 * D, D) =>
    /\ lost > 0
    /\ \A c \in Calls : call[c].at = "waiting" =>
         Missed(c) < lost /\ (OnTime(c, D) \/ Missed(c) + 1 < lost)

FaultsCost(D) == (\A c \in Calls : Paid(c, D)) /\ Joined /\ Unpaid(D) /\ TimeoutNeedsFaults

\* A round trip of the handshake and one of the request are over before the timer fires,
\* if no datagram is lost or late.
InTime(D) == D \in Nat /\ (\A d \in Delay : d <= D) /\ 4 * D < Timeout

LEMMA Numbers ==
  ASSUME IInv
  PROVE  /\ Retries \in Nat /\ Timeout \in Nat /\ lost \in Nat /\ shake \in Nat /\ shakes \in Nat
         /\ Extra \in {0, 1} /\ stamp \in {"none", "old", "new"}
         /\ \A c \in Calls : /\ call[c].left \in Nat /\ call[c].timer \in Nat
                             /\ call[c].shake \in Nat /\ call[c].left <= Retries
                             /\ call[c].at \in Label
                             /\ Running(c) => call[c].left > 0
                             /\ Missed(c) \in Nat
  BY CallAssumption
     DEF IInv, CallOK, LeftOK, NumsOK, Extra, Missed, CallAssumption

LEMMA GreetingsAre ==
  ASSUME NetOK
  PROVE  Greetings = net \cap ShakeMsg
<1>1. \A m \in net : m \in ShakeMsg \/ m \in EntryMsg  BY DEF NetOK
<1>2. \A m \in net : m \in Greetings <=> m \in ShakeMsg  BY <1>1, Shapes DEF Greetings
<1> QED  BY <1>2 DEF Greetings

\* The same of the next state.
LEMMA NextSorts ==
  ASSUME NetOK'
  PROVE  Letters' = net' \cap EntryMsg /\ Greetings' = net' \cap ShakeMsg
<1>1. \A m \in net' : m \in ShakeMsg \/ m \in EntryMsg  BY DEF NetOK
<1>2. \A m \in net' : /\ m \in Greetings' <=> m \in ShakeMsg
                      /\ m \in Letters' <=> m \in EntryMsg
  BY <1>1, Shapes DEF Greetings, Letters
<1> QED  BY <1>2 DEF Greetings, Letters

\* Nothing takes less than no time.
LEMMA RemainingNat ==
  ASSUME NEW D \in Nat
  PROVE  \A m \in ShakeMsg \cup EntryMsg : Remaining(m, D) \in Nat /\ m.delay \in Nat
  BY DEF Remaining, ShakeMsg, EntryMsg

\* A datagram that is sent is on its way for no longer than D, or the step is a fault.
LEMMA SentInTime ==
  ASSUME NEW D, InTime(D), NEW m, NEW rest, Transmit(m, rest), lost \in Nat
  PROVE  \/ /\ lost' = lost
            /\ \E d \in Nat : d <= D /\ net' = rest \cup {[m EXCEPT !.delay = d]}
         \/ /\ lost' = lost + 1
            /\ \/ net' = rest
               \/ \E d \in Nat : net' = rest \cup {[m EXCEPT !.delay = d]}
  BY CallAssumption DEF InTime, Transmit, CallAssumption

\* A call whose attempt goes on: what has paid for it still does.
LEMMA GoesOn ==
  ASSUME NEW D, IInv, IInv', NEW c \in Calls, Paid(c, D),
         Running(c), call'[c].left = call[c].left, lost <= lost', Extra <= Extra',
         call'[c].at = "shaking" => call[c].at = "shaking",
         OnTime(c, D) => OnTime(c, D)' \/ lost + Extra < lost' + Extra'
  PROVE  Paid(c, D)'
<1>1. Missed(c)' = Missed(c)  BY DEF Missed
<1>2. /\ Missed(c) \in Nat /\ lost \in Nat /\ Extra \in {0, 1}
      /\ lost' \in Nat /\ Extra' \in {0, 1}
  BY Numbers, IInv', Numbers DEF Extra, IInv, NumsOK
<1>3. Missed(c) <= lost + Extra /\ (call[c].at = "shaking" => Missed(c) <= lost)
  BY <1>2 DEF Paid
<1>4. OnTime(c, D) \/ Missed(c) < lost + Extra  BY DEF Paid
<1> HIDE DEF Missed, Extra, OnTime
<1>5. OnTime(c, D)' \/ Missed(c) < lost' + Extra'
  BY <1>2, <1>3, <1>4
<1>6. Missed(c) <= lost' + IF call'[c].at = "shaking" THEN 0 ELSE Extra'
  BY <1>2, <1>3
<1> QED  BY <1>1, <1>5, <1>6 DEF Paid

\* A step of the network alone: a fault hits a greeting or a letter, not both.
LEMMA NetworkPays ==
  ASSUME NEW D, IInv, IInv', FaultsCost(D),
         UNCHANGED <<call, shake, shakes, stamp, promises>>,
         NEW G, NEW A, G \in BOOLEAN, A \in BOOLEAN,
         G => \A h, t \in Int : Greeted(h, t, D) => Greeted(h, t, D)',
         A => \A c \in Calls, t \in Int : Answered(c, t, D) => Answered(c, t, D)',
         D \in Nat,
         (lost' = lost /\ G /\ A) \/ (lost' = lost + 1 /\ (G \/ A))
  PROVE  FaultsCost(D)'
<1> /\ lost \in Nat /\ lost' \in Nat /\ lost <= lost' /\ shake \in Nat
    /\ \A c \in Calls : /\ call[c].timer \in Nat /\ call[c].shake \in Nat
                        /\ Missed(c) \in Nat
  BY Numbers
<1>1. Extra <= Extra' /\ Extra \in {0, 1} /\ Extra' \in {0, 1}  BY DEF Extra
<1>2. \A c \in Calls : Missed(c)' = Missed(c)  BY DEF Missed
<1>3. ASSUME NEW c \in Calls, OnTime(c, D)
      PROVE  /\ A /\ call[c].at # "shaking" => OnTime(c, D)'
             /\ G /\ A => OnTime(c, D)'
  <2>1. call[c].timer - 2 * D - 1 \in Int /\ call[c].timer - 1 \in Int  OBVIOUS
  <2>2. CASE call[c].at = "shaking"
    BY <1>3, <2>1, <2>2 DEF OnTime
  <2>3. CASE call[c].at = "ready"
    BY <1>3, <2>3 DEF OnTime
  <2>4. CASE call[c].at = "waiting"
    BY <1>3, <2>1, <2>4 DEF OnTime
  <2> QED  BY <1>3, <2>2, <2>3, <2>4 DEF OnTime
<1>4. ASSUME NEW c \in Calls  PROVE Paid(c, D)'
  <2>1. CASE Running(c)
    <3>1. OnTime(c, D) => OnTime(c, D)' \/ lost + Extra < lost' + Extra'
      BY <1>1, <1>3
    <3>2. Paid(c, D)  BY DEF FaultsCost
    <3> QED  BY <1>1, <2>1, <3>1, <3>2, GoesOn
  <2>2. CASE ~Running(c)
    BY <2>2 DEF Paid, Running
  <2> QED  BY <2>1, <2>2
<1>5. Joined'
  <2>1. lost' = 0 => lost = 0  OBVIOUS
  <2> QED  BY <2>1 DEF FaultsCost, Joined
<1>6. Unpaid(D)'
  <2> SUFFICES ASSUME stamp = "none", shake # 0, ~Greeted(shake, 2 * D, D)'
               PROVE  /\ lost' > 0
                      /\ \A c \in Calls : call[c].at = "waiting" =>
                           Missed(c) < lost' /\ (OnTime(c, D)' \/ Missed(c) + 1 < lost')
    BY <1>2 DEF Unpaid
  <2>1. Extra = 0  BY DEF Extra
  <2>2. \A c \in Calls : call[c].at = "waiting" =>
          Missed(c) <= lost /\ (OnTime(c, D) \/ Missed(c) < lost)
    BY <2>1 DEF FaultsCost, Paid, Running
  <2>3. CASE G
    <3>1. ~Greeted(shake, 2 * D, D)  BY <2>3
    <3>2. lost > 0 /\ \A c \in Calls : call[c].at = "waiting" =>
                         Missed(c) < lost /\ (OnTime(c, D) \/ Missed(c) + 1 < lost)
      BY <3>1 DEF FaultsCost, Unpaid
    <3>3. CASE A
      <4>1. \A c \in Calls : OnTime(c, D) => OnTime(c, D)'  BY <1>3, <2>3, <3>3
      <4> QED  BY <3>2, <4>1
    <3>4. CASE ~A
      <4>1. lost' = lost + 1  BY <3>4
      <4> QED  BY <3>2, <4>1
    <3> QED  BY <3>3, <3>4
  <2>4. CASE ~G
    <3>1. lost' = lost + 1 /\ A  BY <2>4
    <3>2. \A c \in Calls : call[c].at = "waiting" /\ OnTime(c, D) => OnTime(c, D)'
      BY <1>3, <3>1
    <3> QED  BY <2>2, <3>1, <3>2
  <2> QED  BY <2>3, <2>4
<1>7. TimeoutNeedsFaults'
  BY CallAssumption DEF FaultsCost, TimeoutNeedsFaults, CallAssumption
<1> QED  BY <1>4, <1>5, <1>6, <1>7 DEF FaultsCost


\* The answer of the robot takes no longer than what it answers might have.
LEMMA NoLonger ==
  ASSUME NEW D \in Nat, NEW m \in ShakeMsg \cup EntryMsg, m.kind \in {"hello", "request"},
         NEW a, a.kind \in {"welcome", "result", "error"}, a.delay \in Nat, a.delay <= D
  PROVE  Remaining(a, D) <= Remaining(m, D)
<1>1. m.delay \in Nat  BY DEF ShakeMsg, EntryMsg
<1> QED  BY <1>1 DEF Remaining

\* A datagram that another one takes the place of leaves those of the other sort.
LEMMA Replaced ==
  ASSUME NetOK, NetOK', NEW m \in net, NEW a, a \in ShakeMsg \cup EntryMsg,
         m \in ShakeMsg <=> a \in ShakeMsg,
         net' = net \ {m} \/ net' = (net \ {m}) \cup {a}
  PROVE  /\ m \in ShakeMsg => Letters' = Letters
         /\ m \in EntryMsg => Greetings' = Greetings
<1>1. Letters = net \cap EntryMsg /\ Letters' = net' \cap EntryMsg
  BY LettersAre, NextSorts
<1>2. Greetings = net \cap ShakeMsg /\ Greetings' = net' \cap ShakeMsg
  BY GreetingsAre, NextSorts
<1>3. \A n : ~(n \in ShakeMsg /\ n \in EntryMsg)  BY Shapes
<1> QED  BY <1>1, <1>2, <1>3

\* What bounds a datagram bounds the one that takes its place.
LEMMA Shorter ==
  ASSUME NEW D \in Nat, NEW m \in ShakeMsg \cup EntryMsg, NEW a \in ShakeMsg \cup EntryMsg,
         Remaining(a, D) <= Remaining(m, D), NEW t \in Int, Remaining(m, D) <= t
  PROVE  Remaining(a, D) <= t
<1>1. Remaining(a, D) \in Nat /\ Remaining(m, D) \in Nat  BY RemainingNat
<1> HIDE DEF Remaining
<1> QED  BY <1>1

LEMMA AnswerHelloPays ==
  ASSUME NEW D, InTime(D), IInv, IInv', FaultsCost(D), NEW m \in net, AnswerHello(m)
  PROVE  FaultsCost(D)'
<1> D \in Nat /\ lost \in Nat /\ NetOK /\ NetOK'  BY Numbers DEF InTime, IInv
<1>1. /\ m.kind = "hello" /\ UNCHANGED <<call, shake, shakes, stamp, promises>>
      /\ Transmit([m EXCEPT !.kind = "welcome"], net \ {m})
  BY DEF AnswerHello
<1>2. m \in ShakeMsg /\ m \notin EntryMsg  BY <1>1 DEF NetOK, EntryMsg
<1> DEFINE w == [m EXCEPT !.kind = "welcome"]
           a(d) == [w EXCEPT !.delay = d]
<1>3. \A d \in Nat : /\ a(d) \in ShakeMsg /\ a(d).shake = m.shake
                     /\ d <= D => Remaining(a(d), D) <= Remaining(m, D)
  <2> SUFFICES ASSUME NEW d \in Nat
               PROVE  /\ a(d) \in ShakeMsg /\ a(d).shake = m.shake
                      /\ d <= D => Remaining(a(d), D) <= Remaining(m, D)
    OBVIOUS
  <2>1. w \in ShakeMsg /\ w.shake = m.shake /\ w.kind = "welcome"  BY <1>2 DEF ShakeMsg
  <2> HIDE DEF w
  <2>2. a(d) \in ShakeMsg /\ a(d).shake = m.shake /\ a(d).kind = "welcome" /\ a(d).delay = d
    BY <2>1 DEF ShakeMsg
  <2> HIDE DEF a
  <2> QED  BY <1>1, <1>2, <2>2, NoLonger
<1>4. \/ lost' = lost /\ \E d \in Nat : d <= D /\ net' = (net \ {m}) \cup {a(d)}
      \/ /\ lost' = lost + 1
         /\ net' = net \ {m} \/ \E d \in Nat : net' = (net \ {m}) \cup {a(d)}
  BY <1>1, SentInTime
<1> HIDE DEF w, a
<1>5. Letters' = Letters
  <2>1. net' = net \ {m} \/ \E d \in Nat : net' = (net \ {m}) \cup {a(d)}  BY <1>4
  <2>2. CASE net' = net \ {m}
    BY <1>2, <2>2, Replaced
  <2>3. ASSUME NEW d \in Nat, net' = (net \ {m}) \cup {a(d)}  PROVE Letters' = Letters
    BY <1>2, <1>3, <2>3, Replaced
  <2> QED  BY <2>1, <2>2, <2>3
<1>6. \A c \in Calls, t \in Int : Answered(c, t, D) => Answered(c, t, D)'
  BY <1>1, <1>5 DEF Answered
<1>7. CASE lost' = lost + 1
  BY <1>1, <1>6, <1>7, NetworkPays
<1>8. CASE lost' = lost /\ \E d \in Nat : d <= D /\ net' = (net \ {m}) \cup {a(d)}
  <2>1. PICK d \in Nat : d <= D /\ net' = (net \ {m}) \cup {a(d)}  BY <1>8
  <2>2. ASSUME NEW h \in Int, NEW t \in Int, Greeted(h, t, D)  PROVE Greeted(h, t, D)'
    <3>1. PICK n \in Greetings : n.shake = h /\ Remaining(n, D) <= t  BY <2>2 DEF Greeted
    <3>2. n \in net /\ n \in ShakeMsg /\ Greetings' = net' \cap ShakeMsg
      BY GreetingsAre, NextSorts
    <3>3. CASE n # m
      BY <2>1, <3>1, <3>2, <3>3 DEF Greeted, Remaining
    <3>4. CASE n = m
      <4>1. a(d) \in Greetings' /\ a(d).shake = h  BY <1>3, <2>1, <3>1, <3>2, <3>4
      <4>2. Remaining(a(d), D) <= t  BY <1>3, <2>1, <3>1, <3>2, <3>4, Shorter
      <4> QED  BY <4>1, <4>2 DEF Greeted, Remaining
    <3> QED  BY <3>3, <3>4
  <2> QED  BY <1>1, <1>6, <1>8, <2>2, NetworkPays
<1> QED  BY <1>4, <1>7, <1>8

\* The same of a request and its answer.
LEMMA ExecutePays ==
  ASSUME NEW D, InTime(D), IInv, IInv', FaultsCost(D), NEW m \in net, Execute(m)
  PROVE  FaultsCost(D)'
<1> D \in Nat /\ lost \in Nat /\ NetOK /\ NetOK'  BY Numbers DEF InTime, IInv
<1>1. /\ m.kind = "request" /\ UNCHANGED <<call, shake, shakes, stamp, promises>>
      /\ \E k \in {"result", "error"} : Transmit([m EXCEPT !.kind = k], net \ {m})
  BY DEF Execute
<1>2. m \in EntryMsg /\ m \notin ShakeMsg  BY <1>1 DEF NetOK, ShakeMsg
<1>3. PICK k \in {"result", "error"} : Transmit([m EXCEPT !.kind = k], net \ {m})  BY <1>1
<1> DEFINE w == [m EXCEPT !.kind = k]
           a(d) == [w EXCEPT !.delay = d]
<1>4. \A d \in Nat : /\ a(d) \in EntryMsg /\ a(d).entry = m.entry
                     /\ d <= D => Remaining(a(d), D) <= Remaining(m, D)
  <2> SUFFICES ASSUME NEW d \in Nat
               PROVE  /\ a(d) \in EntryMsg /\ a(d).entry = m.entry
                      /\ d <= D => Remaining(a(d), D) <= Remaining(m, D)
    OBVIOUS
  <2>1. w \in EntryMsg /\ w.entry = m.entry /\ w.kind = k  BY <1>2 DEF EntryMsg
  <2> HIDE DEF w
  <2>2. a(d) \in EntryMsg /\ a(d).entry = m.entry /\ a(d).kind = k /\ a(d).delay = d
    BY <2>1 DEF EntryMsg
  <2> HIDE DEF a
  <2> QED  BY <1>1, <1>2, <2>2, NoLonger
<1>5. \/ lost' = lost /\ \E d \in Nat : d <= D /\ net' = (net \ {m}) \cup {a(d)}
      \/ /\ lost' = lost + 1
         /\ net' = net \ {m} \/ \E d \in Nat : net' = (net \ {m}) \cup {a(d)}
  BY <1>3, SentInTime
<1> HIDE DEF w, a
<1>6. Greetings' = Greetings
  <2>1. net' = net \ {m} \/ \E d \in Nat : net' = (net \ {m}) \cup {a(d)}  BY <1>5
  <2>2. CASE net' = net \ {m}
    BY <1>2, <2>2, Replaced
  <2>3. ASSUME NEW d \in Nat, net' = (net \ {m}) \cup {a(d)}  PROVE Greetings' = Greetings
    <3>1. a(d) \in EntryMsg /\ a(d) \notin ShakeMsg  BY <1>4, Shapes
    <3> QED  BY <1>2, <2>3, <3>1, Replaced
  <2> QED  BY <2>1, <2>2, <2>3
<1>7. \A h, t \in Int : Greeted(h, t, D) => Greeted(h, t, D)'
  BY <1>6 DEF Greeted
<1>8. CASE lost' = lost + 1
  BY <1>1, <1>7, <1>8, NetworkPays
<1>9. CASE lost' = lost /\ \E d \in Nat : d <= D /\ net' = (net \ {m}) \cup {a(d)}
  <2>1. PICK d \in Nat : d <= D /\ net' = (net \ {m}) \cup {a(d)}  BY <1>9
  <2>2. ASSUME NEW c \in Calls, NEW t \in Int, Answered(c, t, D)  PROVE Answered(c, t, D)'
    <3>1. PICK n \in Letters : /\ n.entry.call = c /\ n.entry.left = call[c].left
                               /\ n.entry \in promises /\ Remaining(n, D) <= t
      BY <2>2 DEF Answered
    <3>2. n \in net /\ n \in EntryMsg /\ Letters' = net' \cap EntryMsg
      BY LettersAre, NextSorts
    <3>3. CASE n # m
      <4>1. n \in Letters'  BY <2>1, <3>2, <3>3
      <4> QED  BY <1>1, <3>1, <4>1 DEF Answered, Remaining
    <3>4. CASE n = m
      <4>1. a(d) \in Letters' /\ a(d).entry = n.entry  BY <1>4, <2>1, <3>2, <3>4
      <4>2. Remaining(a(d), D) <= t  BY <1>4, <2>1, <3>1, <3>2, <3>4, Shorter
      <4> QED  BY <1>1, <3>1, <4>1, <4>2 DEF Answered, Remaining
    <3> QED  BY <3>3, <3>4
  <2> QED  BY <1>1, <1>7, <1>9, <2>2, NetworkPays
<1> QED  BY <1>5, <1>8, <1>9

\* A letter that arrives settles its attempt, and takes nothing from the others: no
\* other entry has its id.
LEMMA LetterArrives ==
  ASSUME NEW D, IInv, IInv', IdsApart, NEW m \in Letters, net' = net \ {m},
         \A p \in promises : p.id # m.entry.id => p \in promises',
         NEW c \in Calls, call'[c] = call[c], NEW t, Answered(c, t, D),
         ~(m.entry \in promises /\ m.entry.call = c /\ m.entry.left = call[c].left)
  PROVE  Answered(c, t, D)'
<1>1. PICK n \in Letters : /\ n.entry.call = c /\ n.entry.left = call[c].left
                           /\ n.entry \in promises /\ Remaining(n, D) <= t
  BY DEF Answered
<1>2. n # m /\ n.entry # m.entry  BY <1>1
<1>3. n.entry.id # m.entry.id  BY <1>1, <1>2 DEF IdsApart, Entries
<1>4. n \in Letters' /\ n.entry \in promises'  BY <1>1, <1>2, <1>3 DEF Letters
<1> QED  BY <1>1, <1>4 DEF Answered, Remaining

LEMMA LetterPays ==
  ASSUME NEW D, InTime(D), IInv, IInv', IdsApart, FaultsCost(D),
         NEW m \in Letters, net' = net \ {m},
         \A p \in promises : p.id # m.entry.id => p \in promises',
         stamp' = stamp \/ stamp' = "new", UNCHANGED <<shake, shakes, lost>>,
         \A d \in Calls : \/ call'[d] = call[d]
                          \/ call[d].at = "waiting" /\ call'[d].at \in {"ok", "error"},
         m.entry \in promises /\ Current(m.entry) =>
           call'[m.entry.call].at \in {"ok", "error"}
  PROVE  FaultsCost(D)'
<1> NetOK /\ NetOK' /\ D \in Nat /\ lost \in Nat  BY Numbers DEF IInv, InTime
<1>1. Greetings' = Greetings
  <2>1. m \notin ShakeMsg  BY LettersAre
  <2> QED  BY <2>1, GreetingsAre, NextSorts
<1>2. Extra <= Extra' /\ Extra \in {0, 1} /\ Extra' \in {0, 1}  BY DEF Extra
<1>3. ASSUME NEW d \in Calls, Running(d)', call'[d] = call[d], OnTime(d, D)
      PROVE  OnTime(d, D)'
  <2>1. CASE call[d].at = "shaking"
    BY <1>1, <1>3, <2>1 DEF OnTime, Greeted
  <2>2. CASE call[d].at = "ready"
    BY <1>3, <2>2 DEF OnTime
  <2>3. CASE call[d].at = "waiting"
    <3>1. ~(m.entry \in promises /\ m.entry.call = d /\ m.entry.left = call[d].left)
      BY <1>3, <2>3 DEF Current
    <3>2. \A t \in Int : Answered(d, t, D) => Answered(d, t, D)'
      BY <1>3, <3>1, LetterArrives
    <3>3. call[d].timer - 1 \in Int  BY Numbers
    <3> QED  BY <1>3, <2>3, <3>2, <3>3 DEF OnTime
  <2> QED  BY <1>3, <2>1, <2>2, <2>3 DEF OnTime
<1>4. ASSUME NEW d \in Calls  PROVE Paid(d, D)'
  <2>1. CASE Running(d)' /\ call'[d] = call[d]
    <3>1. Running(d) /\ Paid(d, D)  BY <2>1 DEF Running, FaultsCost
    <3>2. OnTime(d, D) => OnTime(d, D)'  BY <1>3, <2>1
    <3>3. lost <= lost' /\ call'[d].left = call[d].left /\ call'[d].at = call[d].at
      BY <2>1
    <3> QED  BY <1>2, <3>1, <3>2, <3>3, GoesOn
  <2>2. CASE ~Running(d)'
    BY <2>2 DEF Paid
  <2>3. CASE call'[d].at \in {"ok", "error"}
    BY <2>3 DEF Paid, Running
  <2> QED  BY <2>1, <2>2, <2>3
<1>5. Joined'
  <2>1. Joined  BY DEF FaultsCost
  <2>2. ASSUME NEW d \in Calls
        PROVE  /\ call'[d].at \in {"shaking", "ready"} => call'[d] = call[d]
               /\ call[d].at = "shaking" => call'[d] = call[d]
    OBVIOUS
  <2>3. stamp' = "none" => stamp = "none"  OBVIOUS
  <2>4. stamp' = "old" => stamp = "old"  OBVIOUS
  <2> QED  BY <2>1, <2>2, <2>3, <2>4 DEF Joined
<1>6. Unpaid(D)'
  <2> SUFFICES ASSUME stamp' = "none", shake # 0, ~Greeted(shake, 2 * D, D)'
               PROVE  /\ lost > 0
                      /\ \A d \in Calls : call'[d].at = "waiting" =>
                           /\ Missed(d)' < lost
                           /\ OnTime(d, D)' \/ Missed(d)' + 1 < lost
    BY DEF Unpaid
  <2>1. stamp = "none" /\ ~Greeted(shake, 2 * D, D)  BY <1>1 DEF Greeted
  <2>2. lost > 0 /\ \A d \in Calls : call[d].at = "waiting" =>
                       Missed(d) < lost /\ (OnTime(d, D) \/ Missed(d) + 1 < lost)
    BY <2>1 DEF FaultsCost, Unpaid
  <2>3. ASSUME NEW d \in Calls, call'[d].at = "waiting"
        PROVE  call'[d] = call[d] /\ Missed(d)' = Missed(d)
               /\ (OnTime(d, D) => OnTime(d, D)')
    <3>1. call'[d] = call[d]  BY <2>3
    <3> QED  BY <1>3, <2>3, <3>1 DEF Missed, Running
  <2> QED  BY <2>2, <2>3
<1>7. TimeoutNeedsFaults'
  BY DEF FaultsCost, TimeoutNeedsFaults
<1> QED  BY <1>4, <1>5, <1>6, <1>7 DEF FaultsCost

\* A reply settles the attempt that waits for it.
LEMMA ReplyPays ==
  ASSUME NEW D, InTime(D), IInv, IInv', IdsApart, FaultsCost(D), NEW m \in net, Reply(m)
  PROVE  FaultsCost(D)'
<1> CallOK /\ NetOK /\ MapOK  BY DEF IInv
<1>1. m.kind \in {"result", "error"} /\ net' = net \ {m} /\ stamp' = "new"
      /\ UNCHANGED <<shake, shakes, lost>>
  BY DEF Reply
<1>2. m \in Letters /\ m.entry \in Entry
  BY <1>1, Shapes, LettersAre DEF NetOK, ShakeMsg, Letters
<1>3. CASE Awaited(m.entry.id) = {} /\ UNCHANGED <<call, promises>>
  <2>1. m.entry \notin promises  BY <1>3 DEF Awaited
  <2> QED  BY <1>1, <1>2, <1>3, <2>1, LetterPays
<1>4. CASE \E p \in Awaited(m.entry.id) :
             /\ Settle(p, IF m.kind = "result" THEN "ok" ELSE "error")
             /\ promises' = Forget({p})
  <2>1. PICK p \in Awaited(m.entry.id) :
               /\ Settle(p, IF m.kind = "result" THEN "ok" ELSE "error")
               /\ promises' = promises \ {p}
    BY <1>4 DEF Forget
  <2>2. p = m.entry /\ p.id = m.entry.id  BY <1>2 DEF Awaited, IdsApart, Entries
  <2> DEFINE r == [Unused EXCEPT !.at = IF m.kind = "result" THEN "ok" ELSE "error"]
  <2>3. r.at \in {"ok", "error"}  BY DEF Unused
  <2>4. IF Current(p) THEN call' = [call EXCEPT ![p.call] = r] ELSE UNCHANGED call
    BY <2>1 DEF Settle
  <2> HIDE DEF r
  <2>5. p.call \in Calls  BY <1>2, <2>2 DEF Entry
  <2>6. /\ \A d \in Calls : \/ call'[d] = call[d]
                            \/ call[d].at = "waiting" /\ call'[d].at \in {"ok", "error"}
        /\ Current(p) => call'[p.call].at \in {"ok", "error"}
    BY <2>3, <2>4, <2>5 DEF CallOK, Current
  <2>7. \A q \in promises : q.id # m.entry.id => q \in promises'  BY <2>1, <2>2
  <2> QED  BY <1>1, <1>2, <2>2, <2>6, <2>7, LetterPays
<1> QED  BY <1>3, <1>4 DEF Reply

\* A request that the socket does not send settles its attempt.
LEMMA RequestFailedPays ==
  ASSUME NEW D, InTime(D), IInv, IInv', IdsApart, FaultsCost(D), NEW m \in Letters,
         RequestFailed(m), net' = net \ {m}, UNCHANGED <<shakes, stamp, lost>>
  PROVE  FaultsCost(D)'
<1> CallOK /\ NetOK  BY DEF IInv
<1>1. m.entry \in Entry  BY LettersAre
<1> DEFINE r == [Unused EXCEPT !.at = "error"]
<1>2. r.at = "error"  BY DEF Unused
<1>3. /\ IF Current(m.entry) THEN call' = [call EXCEPT ![m.entry.call] = r] ELSE UNCHANGED call
      /\ promises' = promises \ Awaited(m.entry.id) /\ UNCHANGED shake
  BY DEF RequestFailed, Settle, Forget
<1> HIDE DEF r
<1>4. m.entry.call \in Calls  BY <1>1 DEF Entry
<1>5. /\ \A d \in Calls : \/ call'[d] = call[d]
                          \/ call[d].at = "waiting" /\ call'[d].at \in {"ok", "error"}
      /\ Current(m.entry) => call'[m.entry.call].at \in {"ok", "error"}
  BY <1>2, <1>3, <1>4 DEF CallOK, Current
<1>6. \A q \in promises : q.id # m.entry.id => q \in promises'  BY <1>3 DEF Awaited
<1> QED  BY <1>3, <1>5, <1>6, LetterPays

\* The attempts whose request is sent or about to be: no greeting matters to them.
LEMMA LettersEnough ==
  ASSUME NEW D, IInv, NEW c \in Calls, call'[c] = call[c], Letters' = Letters,
         promises' = promises, call[c].at # "shaking", OnTime(c, D)
  PROVE  OnTime(c, D)'
<1>1. \A t \in Int : Answered(c, t, D) => Answered(c, t, D)'  BY DEF Answered, Remaining
<1>2. call[c].timer - 1 \in Int  BY Numbers
<1> QED  BY <1>1, <1>2 DEF OnTime

\* A handshake that the socket does not send settles the calls that wait for it.
LEMMA HelloFailedPays ==
  ASSUME NEW D, InTime(D), IInv, IInv', FaultsCost(D), NEW m \in net, m \in ShakeMsg,
         HelloFailed(m), net' = net \ {m}, UNCHANGED <<shakes, stamp, lost>>
  PROVE  FaultsCost(D)'
<1> NetOK /\ NetOK' /\ CallOK /\ D \in Nat /\ lost \in Nat /\ Joined
  BY Numbers DEF IInv, InTime, FaultsCost
<1> DEFINE r == [Unused EXCEPT !.at = "error"]
           failing == {c \in Calls : call[c].at = "shaking" /\ call[c].shake = m.shake}
<1>1. r.at = "error"  BY DEF Unused
<1>2. /\ call' = [c \in Calls |-> IF c \in failing THEN r ELSE call[c]]
      /\ shake' = (IF failing = {} THEN shake ELSE 0)
      /\ UNCHANGED promises
  BY DEF HelloFailed
<1> HIDE DEF r
<1>3. \A c \in Calls : IF c \in failing THEN call'[c].at = "error" ELSE call'[c] = call[c]
  BY <1>1, <1>2
<1>4. Letters' = Letters /\ Greetings' = Greetings \ {m}
  <2>1. Letters = net \cap EntryMsg /\ Letters' = net' \cap EntryMsg /\ m \notin EntryMsg
    BY LettersAre, NextSorts, Shapes
  <2>2. Greetings = net \cap ShakeMsg /\ Greetings' = net' \cap ShakeMsg
    BY GreetingsAre, NextSorts
  <2> QED  BY <2>1, <2>2
<1>5. \A h : h # m.shake => \A t \in Int : Greeted(h, t, D) => Greeted(h, t, D)'
  BY <1>4 DEF Greeted, Remaining
<1>6. ASSUME NEW c \in Calls, c \notin failing, OnTime(c, D)  PROVE OnTime(c, D)'
  <2>1. call'[c] = call[c]  BY <1>3, <1>6
  <2>2. CASE call[c].at = "shaking"
    <3>1. call[c].shake # m.shake  BY <1>6, <2>2
    <3>2. call[c].timer - 2 * D - 1 \in Int  BY Numbers
    <3> QED  BY <1>5, <1>6, <2>1, <2>2, <3>1, <3>2 DEF OnTime
  <2>3. CASE call[c].at # "shaking"
    BY <1>2, <1>4, <1>6, <2>1, <2>3, LettersEnough
  <2> QED  BY <2>2, <2>3
<1>7. ASSUME NEW c \in Calls  PROVE Paid(c, D)'
  <2>1. CASE c \in failing
    BY <1>3, <2>1 DEF Paid, Running
  <2>2. CASE c \notin failing /\ Running(c)
    <3>1. lost <= lost' /\ call'[c].left = call[c].left /\ call'[c].at = call[c].at
          /\ Extra' = Extra
      BY <1>3, <2>2 DEF Extra
    <3>2. Paid(c, D) /\ Extra \in {0, 1}  BY DEF FaultsCost, Extra
    <3> QED  BY <1>6, <2>2, <3>1, <3>2, GoesOn
  <2>3. CASE c \notin failing /\ ~Running(c)
    BY <1>3, <2>3 DEF Paid, Running
  <2> QED  BY <2>1, <2>2, <2>3
<1>8. Joined'
  <2>1. ASSUME NEW c \in Calls, call'[c].at \in {"shaking", "ready"}
        PROVE  call'[c] = call[c] /\ c \notin failing
    BY <1>3, <2>1
  <2>2. ASSUME NEW c \in Calls, call'[c].at = "shaking", lost = 0
        PROVE  call[c].shake = shake'
    <3>1. c \notin failing /\ call[c].at = "shaking" /\ call[c].shake = shake
      BY <2>1, <2>2 DEF Joined
    <3>2. failing = {}
      <4>1. ASSUME NEW d \in failing  PROVE FALSE
        BY <2>2, <3>1 DEF Joined
      <4> QED  BY <4>1
    <3> QED  BY <1>2, <3>1, <3>2
  <2>3. ASSUME shake' # 0
        PROVE  \E c \in Calls : call'[c].at = "shaking" /\ call'[c].shake = shake'
    <3>1. failing = {} /\ shake' = shake  BY <1>2, <2>3
    <3>2. PICK c \in Calls : call[c].at = "shaking" /\ call[c].shake = shake
      BY <2>3, <3>1 DEF Joined
    <3> QED  BY <1>3, <3>1, <3>2
  <2> HIDE DEF failing
  <2> QED  BY <2>1, <2>2, <2>3 DEF Joined
<1>9. Unpaid(D)'
  <2> SUFFICES ASSUME stamp = "none", shake' # 0, ~Greeted(shake, 2 * D, D)'
               PROVE  /\ lost > 0
                      /\ \A c \in Calls : call'[c].at = "waiting" =>
                           /\ Missed(c)' < lost
                           /\ OnTime(c, D)' \/ Missed(c)' + 1 < lost
    BY DEF Unpaid
  <2>1. failing = {} /\ shake' = shake /\ call' = call  BY <1>2, <1>3 DEF CallOK
  <2>2. m.shake # shake  BY <2>1 DEF Joined
  <2>3. ~Greeted(shake, 2 * D, D)
    BY <1>4, <2>1, <2>2 DEF Greeted, Remaining
  <2>4. /\ lost > 0
        /\ \A c \in Calls : call[c].at = "waiting" =>
             Missed(c) < lost /\ (OnTime(c, D) \/ Missed(c) + 1 < lost)
    BY <2>1, <2>3 DEF FaultsCost, Unpaid
  <2>5. \A c \in Calls : Missed(c)' = Missed(c) /\ (OnTime(c, D) => OnTime(c, D)')
    BY <1>6, <2>1 DEF Missed
  <2> QED  BY <2>1, <2>4, <2>5
<1>10. TimeoutNeedsFaults'
  <2>1. \A c \in Calls : call'[c].at = "timeout" => call[c].at = "timeout"  BY <1>3
  <2> QED  BY <2>1 DEF FaultsCost, TimeoutNeedsFaults
<1> QED  BY <1>7, <1>8, <1>9, <1>10 DEF FaultsCost

LEMMA SendFailedPays ==
  ASSUME NEW D, InTime(D), IInv, IInv', IdsApart, FaultsCost(D), NEW m \in net, SendFailed(m)
  PROVE  FaultsCost(D)'
<1> NetOK  BY DEF IInv
<1>1. net' = net \ {m} /\ UNCHANGED <<shakes, stamp, lost>>  BY DEF SendFailed
<1>2. CASE m \in EntryMsg
  <2>1. m \in Letters /\ RequestFailed(m)  BY <1>2, LettersAre, Shapes DEF SendFailed
  <2> QED  BY <1>1, <2>1, RequestFailedPays
<1>3. CASE m \in ShakeMsg
  <2>1. HelloFailed(m)  BY <1>3, Shapes DEF SendFailed
  <2> QED  BY <1>1, <1>3, <2>1, HelloFailedPays
<1> QED  BY <1>2, <1>3 DEF NetOK

\* The robot has answered a handshake: whoever waits for another one than that in
\* progress waits in vain, because of the fault by which it was reset.
LEMMA WelcomePays ==
  ASSUME NEW D, InTime(D), IInv, IInv', FaultsCost(D), NEW m \in net, Welcome(m)
  PROVE  FaultsCost(D)'
<1> NetOK /\ NetOK' /\ CallOK /\ D \in Nat /\ lost \in Nat /\ Joined
  BY Numbers DEF IInv, InTime, FaultsCost
<1>1. /\ m.kind = "welcome" /\ net' = net \ {m} /\ stamp' = "new" /\ shake' = 0
      /\ UNCHANGED <<shakes, promises, lastId, executed, lost>>
  BY Zenon DEF Welcome
<1>2. ASSUME NEW c \in Calls
      PROVE  IF call[c].at = "shaking" /\ call[c].shake = shake
             THEN /\ call'[c].at = "ready" /\ call'[c].left = call[c].left
                  /\ call'[c].timer = call[c].timer
             ELSE call'[c] = call[c]
  BY DEF Welcome, CallOK
<1>3. Letters' = Letters
  <2>1. m \notin EntryMsg  BY <1>1 DEF EntryMsg
  <2> QED  BY <1>1, <2>1, LettersAre, NextSorts
<1>4. Extra <= Extra' /\ Extra \in {0, 1} /\ Extra' = IF lost > 0 THEN 1 ELSE 0
  BY <1>1 DEF Extra
<1>5. ASSUME NEW c \in Calls  PROVE Paid(c, D)'
  <2> Missed(c) \in Nat /\ Paid(c, D) /\ call[c].timer \in Nat /\ Missed(c)' = Missed(c)
    BY <1>2, Numbers DEF FaultsCost, Missed
  <2>1. CASE call[c].at = "shaking" /\ call[c].shake = shake
    <3>1. OnTime(c, D) => OnTime(c, D)'
      <4> SUFFICES ASSUME OnTime(c, D)  PROVE OnTime(c, D)'
        OBVIOUS
      <4>1. PICK n \in Greetings : Remaining(n, D) <= call[c].timer - 2 * D - 1
        BY <2>1 DEF OnTime, Greeted
      <4>2. Remaining(n, D) \in Nat  BY GreetingsAre, RemainingNat
      <4>3. 2 * D < call[c].timer  BY <4>1, <4>2
      <4> QED  BY <1>2, <2>1, <4>3 DEF OnTime
    <3>2. Running(c) /\ call'[c].at = "ready" /\ call'[c].left = call[c].left /\ lost <= lost'
      BY <1>1, <1>2, <2>1 DEF Running
    <3> QED  BY <1>4, <3>1, <3>2, GoesOn
  <2>2. CASE call[c].at = "shaking" /\ call[c].shake # shake
    <3>1. lost > 0  BY <2>2 DEF Joined
    <3>2. Missed(c) <= lost  BY <2>2 DEF Paid, Running
    <3>3. Missed(c)' <= lost' + 0 /\ Missed(c)' < lost' + Extra'
      BY <1>1, <1>4, <3>1, <3>2
    <3>4. call'[c].at = "shaking"  BY <1>2, <2>2
    <3>5. (IF call'[c].at = "shaking" THEN 0 ELSE Extra') = 0  BY <3>4
    <3> QED  BY <3>3, <3>5, Zenon DEF Paid
  <2>3. CASE call[c].at # "shaking" /\ Running(c)
    <3>1. call'[c] = call[c] /\ lost <= lost'  BY <1>1, <1>2, <2>3
    <3>2. OnTime(c, D) => OnTime(c, D)'  BY <1>1, <1>3, <2>3, <3>1, LettersEnough
    <3>3. call'[c].left = call[c].left /\ call'[c].at # "shaking"  BY <2>3, <3>1
    <3> QED  BY <1>4, <2>3, <3>1, <3>2, <3>3, GoesOn
  <2>4. CASE ~Running(c)
    <3>1. ~Running(c)'  BY <1>2, <2>4 DEF Running
    <3> QED  BY <3>1 DEF Paid
  <2> QED  BY <2>1, <2>2, <2>3, <2>4
<1>6. Joined'
  <2>1. ASSUME NEW c \in Calls, call'[c].at = "shaking"
        PROVE  call'[c].shake \in 1..shakes /\ lost # 0
    BY <1>2, <2>1 DEF Joined
  <2> QED  BY <1>1, <2>1 DEF Joined
<1>7. Unpaid(D)'  BY <1>1 DEF Unpaid
<1>8. TimeoutNeedsFaults'
  <2>1. \A c \in Calls : call'[c].at = "timeout" => call[c].at = "timeout"  BY <1>2
  <2> QED  BY <1>1, <2>1 DEF FaultsCost, TimeoutNeedsFaults
<1> QED  BY <1>5, <1>6, <1>7, <1>8 DEF FaultsCost

\* The last handshake is stale: nobody waits for one.
LEMMA ExpirePays ==
  ASSUME NEW D, InTime(D), IInv, IInv', FaultsCost(D), Expire
  PROVE  FaultsCost(D)'
<1> lost \in Nat /\ Joined  BY Numbers DEF FaultsCost
<1>1. /\ stamp' = "none" /\ Calm
      /\ stamp = "old" \/ (stamp = "new" /\ \A c \in Calls : ~Running(c))
      /\ UNCHANGED <<call, shake, shakes, promises, lastId, net, executed, lost>>
  BY DEF Expire
<1>2. \A c \in Calls : call[c].at \notin {"shaking", "ready"}
  BY <1>1 DEF Joined, Running, Calm
<1>3. shake = 0  BY <1>2 DEF Joined
<1>4. ASSUME NEW c \in Calls  PROVE Paid(c, D)'
  <2>1. CASE Running(c)
    <3>1. Extra = 0 /\ Extra' = 0  BY <1>1, <2>1 DEF Extra
    <3>2. OnTime(c, D)' = OnTime(c, D)
      BY <1>1 DEF OnTime, Greeted, Greetings, Answered, Letters, Remaining
    <3>3. call'[c] = call[c] /\ lost <= lost'  BY <1>1
    <3>4. Paid(c, D)  BY DEF FaultsCost
    <3> QED  BY <2>1, <3>1, <3>2, <3>3, <3>4, GoesOn
  <2>2. CASE ~Running(c)
    BY <1>1, <2>2 DEF Paid, Running
  <2> QED  BY <2>1, <2>2
<1>5. Joined'  BY <1>1, <1>2, <1>3 DEF Joined
<1>6. Unpaid(D)'  BY <1>1, <1>3 DEF Unpaid
<1>7. TimeoutNeedsFaults'  BY <1>1 DEF FaultsCost, TimeoutNeedsFaults
<1> QED  BY <1>4, <1>5, <1>6, <1>7 DEF FaultsCost

\* Datagrams come nearer as the timers run down.
LEMMA TickPays ==
  ASSUME NEW D, InTime(D), IInv, IInv', FaultsCost(D), Tick
  PROVE  FaultsCost(D)'
<1> NetOK /\ NetOK' /\ CallOK /\ D \in Nat /\ lost \in Nat /\ Joined
  BY Numbers DEF IInv, InTime, FaultsCost
<1> DEFINE Nearer(m) == [m EXCEPT !.delay = @ - 1]
<1>1. /\ \A m \in net : m.delay > 0
      /\ net' = {Nearer(m) : m \in net}
      /\ UNCHANGED <<shake, shakes, stamp, promises, lastId, executed, lost>>
  BY Zenon DEF Tick
<1>2. ASSUME NEW m \in net
      PROVE  /\ m \in EntryMsg => Nearer(m) \in EntryMsg /\ Nearer(m).entry = m.entry
             /\ m \in ShakeMsg => Nearer(m) \in ShakeMsg /\ Nearer(m).shake = m.shake
             /\ Nearer(m).kind = m.kind /\ Nearer(m).delay = m.delay - 1
  <2>1. m.delay > 0  BY <1>1
  <2>2. CASE m \in EntryMsg
    BY <2>1, <2>2, Shapes DEF EntryMsg
  <2>3. CASE m \in ShakeMsg
    BY <2>1, <2>3, Shapes DEF ShakeMsg
  <2> QED  BY <2>2, <2>3 DEF NetOK
<1> HIDE DEF Nearer
<1>3. ASSUME NEW m \in net, NEW t \in Int, Remaining(m, D) <= t
      PROVE  Remaining(Nearer(m), D) <= t - 1
  <2>1. m.delay \in Nat /\ m.delay > 0  BY <1>1, RemainingNat DEF NetOK
  <2> QED  BY <1>2, <1>3, <2>1 DEF Remaining
<1>4. ASSUME NEW h, NEW t \in Int, Greeted(h, t, D)
      PROVE  \E m \in Greetings' : m.shake = h /\ Remaining(m, D) <= t - 1
  <2>1. PICK m \in Greetings : m.shake = h /\ Remaining(m, D) <= t  BY <1>4 DEF Greeted
  <2>2. m \in net /\ m \in ShakeMsg  BY GreetingsAre
  <2>3. Nearer(m) \in Greetings'  BY <1>1, <1>2, <2>2, NextSorts
  <2> QED  BY <1>2, <1>3, <2>1, <2>2, <2>3
<1>5. ASSUME NEW c \in Calls, NEW t \in Int, Answered(c, t, D)
      PROVE  \E m \in Letters' : /\ m.entry.call = c /\ m.entry.left = call[c].left
                                 /\ m.entry \in promises' /\ Remaining(m, D) <= t - 1
  <2>1. PICK m \in Letters : /\ m.entry.call = c /\ m.entry.left = call[c].left
                             /\ m.entry \in promises /\ Remaining(m, D) <= t
    BY <1>5 DEF Answered
  <2>2. m \in net /\ m \in EntryMsg  BY LettersAre
  <2>3. Nearer(m) \in Letters'  BY <1>1, <1>2, <2>2, NextSorts
  <2> QED  BY <1>1, <1>2, <1>3, <2>1, <2>2, <2>3
<1>6. ASSUME NEW c \in Calls
      PROVE  /\ call'[c].at = call[c].at /\ call'[c].left = call[c].left
             /\ call'[c].shake = call[c].shake
             /\ Running(c) => call'[c].timer = call[c].timer - 1
  BY DEF Tick, CallOK
<1>7. ASSUME NEW c \in Calls, OnTime(c, D)  PROVE OnTime(c, D)'
  <2>1. CASE call[c].at = "shaking"
    <3> DEFINE t == call[c].timer - 2 * D - 1
    <3>1. t \in Int  BY Numbers
    <3>2. Greeted(call[c].shake, t, D)  BY <1>7, <2>1 DEF OnTime
    <3>3. call'[c].timer - 2 * D - 1 = t - 1  BY <1>6, <2>1, Numbers DEF Running
    <3> HIDE DEF t
    <3>4. \E m \in Greetings' : m.shake = call[c].shake /\ Remaining(m, D) <= t - 1
      BY <1>4, <3>1, <3>2
    <3> QED  BY <1>6, <2>1, <3>3, <3>4 DEF OnTime, Greeted, Remaining
  <2>2. CASE call[c].at = "ready"
    BY <2>2 DEF Tick, Calm
  <2>3. CASE call[c].at = "waiting"
    <3> DEFINE t == call[c].timer - 1
    <3>1. t \in Int  BY Numbers
    <3>2. Answered(c, t, D)  BY <1>7, <2>3 DEF OnTime
    <3>3. call'[c].timer - 1 = t - 1  BY <1>6, <2>3, Numbers DEF Running
    <3> HIDE DEF t
    <3>4. \E m \in Letters' : /\ m.entry.call = c /\ m.entry.left = call[c].left
                              /\ m.entry \in promises' /\ Remaining(m, D) <= t - 1
      BY <1>5, <3>1, <3>2
    <3> QED  BY <1>6, <2>3, <3>3, <3>4 DEF OnTime, Answered, Remaining
  <2> QED  BY <1>7, <2>1, <2>2, <2>3 DEF OnTime
<1>8. ASSUME NEW c \in Calls  PROVE Paid(c, D)'
  <2>1. CASE Running(c)
    <3>1. Extra' = Extra /\ Extra \in {0, 1} /\ lost <= lost'  BY <1>1 DEF Extra
    <3>2. Paid(c, D)  BY DEF FaultsCost
    <3> QED  BY <1>6, <1>7, <2>1, <3>1, <3>2, GoesOn
  <2>2. CASE ~Running(c)
    BY <1>6, <2>2 DEF Paid, Running
  <2> QED  BY <2>1, <2>2
<1>9. Joined'  BY <1>1, <1>6 DEF Joined
<1>10. Unpaid(D)'
  <2> SUFFICES ASSUME stamp = "none", shake # 0, ~Greeted(shake, 2 * D, D)'
               PROVE  /\ lost > 0
                      /\ \A c \in Calls : call[c].at = "waiting" =>
                           /\ Missed(c) < lost
                           /\ OnTime(c, D)' \/ Missed(c) + 1 < lost
    BY <1>1, <1>6 DEF Unpaid, Missed
  <2>1. ~Greeted(shake, 2 * D, D)
    <3> SUFFICES ASSUME Greeted(shake, 2 * D, D)  PROVE FALSE
      OBVIOUS
    <3>1. PICK m \in Greetings' : m.shake = shake /\ Remaining(m, D) <= 2 * D - 1
      BY <1>4
    <3>2. Remaining(m, D) \in Nat  BY NextSorts, RemainingNat
    <3>3. Remaining(m, D) <= 2 * D  BY <3>1, <3>2
    <3> QED  BY <1>1, <3>1, <3>3 DEF Greeted, Remaining
  <2> QED  BY <1>7, <2>1 DEF FaultsCost, Unpaid
<1>11. TimeoutNeedsFaults'  BY <1>1, <1>6 DEF FaultsCost, TimeoutNeedsFaults
<1> QED  BY <1>8, <1>9, <1>10, <1>11 DEF FaultsCost

\* A handshake that is sent is settled within two times D, or the step is a fault.
LEMMA HelloSent ==
  ASSUME NEW D, InTime(D), NetOK, NetOK', lost \in Nat, NEW n \in Nat, SendPacket(Hello(n))
  PROVE  /\ net \subseteq net'
         /\ \/ /\ lost' = lost
               /\ \E m \in Greetings' : m.shake = n /\ Remaining(m, D) <= 2 * D
            \/ lost' = lost + 1
<1> D \in Nat  BY DEF InTime
<1> DEFINE h    == Hello(n)
           a(d) == [h EXCEPT !.delay = d]
           f    == [h EXCEPT !.kind = "failed", !.delay = 0]
<1>1. h \in ShakeMsg /\ h.kind = "hello" /\ h.shake = n  BY DEF Hello, ShakeMsg
<1>2. SendPacket(h)  OBVIOUS
<1> HIDE DEF h
<1>3. \A d \in Nat : a(d) \in ShakeMsg /\ a(d).shake = n /\ a(d).delay = d
  BY <1>1 DEF ShakeMsg
<1>4. f \in ShakeMsg /\ f.shake = n /\ f.delay = 0 /\ f.kind = "failed"
  BY <1>1 DEF ShakeMsg
<1>5. \/ Transmit(h, net)
      \/ net' = net \cup {f} /\ UNCHANGED lost
  BY <1>2 DEF SendPacket
<1>6. ASSUME NEW m \in ShakeMsg, m \in net', m.shake = n, Remaining(m, D) <= 2 * D
      PROVE  \E k \in Greetings' : k.shake = n /\ Remaining(k, D) <= 2 * D
  <2>1. m \in Greetings'  BY <1>6, NextSorts
  <2> QED  BY <1>6, <2>1
<1>7. CASE Transmit(h, net)
  <2>1. \/ lost' = lost /\ \E d \in Nat : d <= D /\ net' = net \cup {a(d)}
        \/ lost' = lost + 1 /\ (net' = net \/ \E d \in Nat : net' = net \cup {a(d)})
    BY <1>7, SentInTime
  <2> HIDE DEF a
  <2>2. CASE lost' = lost + 1
    BY <2>1, <2>2
  <2>3. ASSUME NEW d \in Nat, d <= D, net' = net \cup {a(d)}
        PROVE  \E k \in Greetings' : k.shake = n /\ Remaining(k, D) <= 2 * D
    <3>1. Remaining(a(d), D) <= 2 * D  BY <1>3, <2>3 DEF Remaining
    <3> QED  BY <1>3, <1>6, <2>3, <3>1
  <2> QED  BY <2>1, <2>2, <2>3
<1>8. CASE net' = net \cup {f} /\ UNCHANGED lost
  <2>1. Remaining(f, D) <= 2 * D  BY <1>4 DEF Remaining
  <2> HIDE DEF f
  <2> QED  BY <1>4, <1>6, <1>8, <2>1
<1> QED  BY <1>5, <1>7, <1>8

\* How an attempt begins.
LEMMA AttemptBegins ==
  ASSUME NEW D, InTime(D), IInv, IInv', NEW c \in Calls, NEW left \in Nat, NEW current \in Nat,
         Attempt(c, left, current)
  PROVE  /\ \A d \in Calls : d # c => call'[d] = call[d]
         /\ \/ /\ left = 0 /\ call'[c].at = "timeout"
               /\ shake' = current /\ UNCHANGED <<shakes, net, lost>>
            \/ /\ left > 0 /\ stamp # "none"
               /\ call'[c].at = "ready" /\ call'[c].left = left /\ call'[c].timer = Timeout
               /\ shake' = current /\ UNCHANGED <<shakes, net, lost>>
            \/ /\ left > 0 /\ stamp = "none"
               /\ call'[c].at = "shaking" /\ call'[c].left = left /\ call'[c].timer = Timeout
               /\ call'[c].shake = shake'
               /\ \/ current # 0 /\ shake' = current /\ UNCHANGED <<shakes, net, lost>>
                  \/ /\ current = 0 /\ shake' = shakes + 1 /\ shakes' = shakes + 1
                     /\ net \subseteq net'
                     /\ \/ /\ lost' = lost
                           /\ \E m \in Greetings' :
                                m.shake = shakes + 1 /\ Remaining(m, D) <= 2 * D
                        \/ lost' = lost + 1
<1> CallOK /\ NetOK /\ NetOK' /\ lost \in Nat /\ shakes \in Nat  BY Numbers DEF IInv
<1>1. CASE left = 0
  <2> DEFINE r == [Unused EXCEPT !.at = "timeout"]
  <2>1. call' = [call EXCEPT ![c] = r] /\ shake' = current /\ UNCHANGED <<shakes, net, lost>>
    BY <1>1 DEF Attempt
  <2>2. r.at = "timeout"  BY DEF Unused
  <2> HIDE DEF r
  <2> QED  BY <1>1, <2>1, <2>2 DEF CallOK
<1>2. CASE left > 0 /\ stamp # "none"
  BY <1>2 DEF Attempt, CallOK
<1>3. CASE left > 0 /\ stamp = "none"
  <2> DEFINE r == [at |-> "shaking", left |-> left, timer |-> Timeout, shake |-> shake']
  <2>1. /\ shake' = (IF current = 0 THEN shakes + 1 ELSE current)
        /\ call' = [call EXCEPT ![c] = r]
        /\ IF current = 0
           THEN shakes' = shakes + 1 /\ SendPacket(Hello(shakes'))
           ELSE UNCHANGED <<shakes, net, lost>>
    BY <1>3 DEF Attempt
  <2>2. r.at = "shaking" /\ r.left = left /\ r.timer = Timeout /\ r.shake = shake'
    OBVIOUS
  <2> HIDE DEF r
  <2>3. call'[c] = r /\ \A d \in Calls : d # c => call'[d] = call[d]  BY <2>1 DEF CallOK
  <2>4. CASE current = 0
    <3> DEFINE n == shakes + 1
    <3>1. n \in Nat /\ SendPacket(Hello(n)) /\ shake' = n /\ shakes' = n  BY <2>1, <2>4
    <3> HIDE DEF n
    <3>2. /\ net \subseteq net'
          /\ \/ /\ lost' = lost
                /\ \E m \in Greetings' : m.shake = n /\ Remaining(m, D) <= 2 * D
             \/ lost' = lost + 1
      BY <3>1, HelloSent
    <3> QED  BY <1>3, <2>2, <2>3, <2>4, <3>1, <3>2 DEF n
  <2>5. CASE current # 0
    BY <1>3, <2>1, <2>2, <2>3, <2>5
  <2> QED  BY <2>4, <2>5
<1> QED  BY <1>1, <1>2, <1>3

\* What sends a datagram leaves those that are under way.
LEMMA OthersGoOn ==
  ASSUME NEW D, InTime(D), IInv, IInv', NEW d \in Calls, call'[d] = call[d], Paid(d, D),
         net \subseteq net', lost <= lost', UNCHANGED stamp,
         \A m \in Letters : m.entry \in promises /\ m.entry.call = d => m.entry \in promises'
  PROVE  Paid(d, D)' /\ (OnTime(d, D) => OnTime(d, D)')
<1> D \in Nat /\ lost \in Nat /\ lost' \in Nat /\ call[d].timer \in Int
  BY Numbers DEF InTime, IInv, NumsOK
<1>1. Greetings \subseteq Greetings' /\ Letters \subseteq Letters'
  BY DEF Greetings, Letters
<1>2. \A h, t \in Int : Greeted(h, t, D) => Greeted(h, t, D)'
  BY <1>1 DEF Greeted, Remaining
<1>3. \A t \in Int : Answered(d, t, D) => Answered(d, t, D)'
  BY <1>1 DEF Answered, Remaining
<1>4. OnTime(d, D) => OnTime(d, D)'
  <2> SUFFICES ASSUME OnTime(d, D)  PROVE OnTime(d, D)'
    OBVIOUS
  <2>1. call[d].timer - 2 * D - 1 \in Int /\ call[d].timer - 1 \in Int
        /\ call[d].shake \in Int
    BY Numbers
  <2>2. CASE call[d].at = "shaking"
    BY <1>2, <2>1, <2>2 DEF OnTime
  <2>3. CASE call[d].at = "ready"
    BY <2>3 DEF OnTime
  <2>4. CASE call[d].at = "waiting"
    BY <1>3, <2>1, <2>4 DEF OnTime
  <2> QED  BY <2>2, <2>3, <2>4 DEF OnTime
<1>5. Paid(d, D)'
  <2>1. CASE Running(d)
    <3>1. Extra <= Extra' /\ Extra \in {0, 1} /\ Extra' \in {0, 1}  BY DEF Extra
    <3> QED  BY <1>4, <2>1, <3>1, GoesOn
  <2>2. CASE ~Running(d)
    BY <2>2 DEF Paid, Running
  <2> QED  BY <2>1, <2>2
<1> QED  BY <1>4, <1>5

\* What the number of faults bounds it still bounds when it grows.
LEMMA StillLost ==
  ASSUME NEW r \in Nat, NEW k \in Nat, NEW n \in Nat, k <= n, k > 0, r <= k + 1
  PROVE  n > 0 /\ r <= n + 1
  OBVIOUS

LEMMA MorePaid ==
  ASSUME NEW k \in Nat, NEW x \in {0, 1}, NEW y \in {0, 1}, x <= y
  PROVE  k + x < k + 1 + y
  OBVIOUS

\* The next attempt of a call is paid for as the one before was.
LEMMA AttemptPays ==
  ASSUME NEW D, InTime(D), IInv, IInv', FaultsCost(D), NEW c \in Calls, NEW left \in Nat,
         NEW current \in Nat, Attempt(c, left, current), UNCHANGED <<stamp, promises>>,
         left = 0 => lost > 0 /\ Retries <= lost + 1,
         left > 0 => Retries - left <= lost + Extra,
         stamp = "none" /\ current # 0 => Greeted(current, 2 * D, D) \/ Retries - left < lost,
         lost = 0 => current = shake,
         current # 0 => current = shake /\ call[c].at # "shaking"
  PROVE  FaultsCost(D)'
<1> /\ Joined /\ D \in Nat /\ lost \in Nat /\ lost' \in Nat /\ shake \in Nat
    /\ shakes \in Nat /\ shakes' \in Nat /\ Retries \in Nat /\ Timeout \in Nat /\ 4 * D < Timeout
    /\ Extra \in {0, 1} /\ Extra' \in {0, 1} /\ shake <= shakes
  BY Numbers DEF IInv, NumsOK, InTime, FaultsCost, Extra
<1> DEFINE Over    == /\ left = 0 /\ call'[c].at = "timeout"
                      /\ shake' = current /\ UNCHANGED <<shakes, net, lost>>
           Ready   == /\ left > 0 /\ stamp # "none"
                      /\ call'[c].at = "ready" /\ call'[c].left = left
                      /\ call'[c].timer = Timeout
                      /\ shake' = current /\ UNCHANGED <<shakes, net, lost>>
           Shaking == /\ left > 0 /\ stamp = "none"
                      /\ call'[c].at = "shaking" /\ call'[c].left = left
                      /\ call'[c].timer = Timeout /\ call'[c].shake = shake'
           Joins   == current # 0 /\ shake' = current /\ UNCHANGED <<shakes, net, lost>>
           Begins  == /\ current = 0 /\ shake' = shakes + 1 /\ shakes' = shakes + 1
                      /\ net \subseteq net'
                      /\ \/ /\ lost' = lost
                            /\ \E m \in Greetings' :
                                 m.shake = shakes + 1 /\ Remaining(m, D) <= 2 * D
                         \/ lost' = lost + 1
<1>1. \A d \in Calls : d # c => call'[d] = call[d]  BY AttemptBegins
<1>2. Over \/ Ready \/ (Shaking /\ (Joins \/ Begins))  BY AttemptBegins
<1>3. net \subseteq net' /\ lost <= lost' /\ Extra <= Extra' /\ shakes <= shakes'
  BY <1>2 DEF Extra
<1>4. ASSUME NEW d \in Calls, d # c
      PROVE  Paid(d, D)' /\ (OnTime(d, D) => OnTime(d, D)') /\ Missed(d)' = Missed(d)
  <2>1. call'[d] = call[d] /\ Paid(d, D)  BY <1>1, <1>4 DEF FaultsCost
  <2> QED  BY <1>3, <2>1, OthersGoOn DEF Missed
<1>5. Paid(c, D)'
  <2>1. CASE Over
    BY <2>1 DEF Paid, Running
  <2>2. CASE Ready
    <3>1. OnTime(c, D)'  BY <2>2 DEF OnTime
    <3>2. Missed(c)' <= lost' + Extra'  BY <1>3, <2>2 DEF Missed
    <3>3. call'[c].at # "shaking"  BY <2>2
    <3> QED  BY <3>1, <3>2, <3>3 DEF Paid
  <2>3. CASE Shaking /\ (Joins \/ Begins)
    <3>1. Extra = 0 /\ Extra' = 0  BY <2>3 DEF Extra
    <3>2. Missed(c)' = Retries - left /\ Missed(c)' <= lost
      BY <2>3, <3>1 DEF Missed
    <3>3. (\E m \in Greetings' : m.shake = shake' /\ Remaining(m, D) <= 2 * D)
          \/ Missed(c)' < lost'
      <4>1. CASE Joins
        <5>1. Greeted(current, 2 * D, D) \/ Retries - left < lost  BY <2>3, <4>1
        <5>2. Greetings' = Greetings  BY <4>1 DEF Greetings
        <5> QED  BY <3>2, <4>1, <5>1, <5>2 DEF Greeted
      <4>2. CASE Begins
        BY <3>2, <4>2
      <4> QED  BY <2>3, <4>1, <4>2
    <3>4. ASSUME NEW m \in Greetings', m.shake = shake', Remaining(m, D) <= 2 * D
          PROVE  OnTime(c, D)'
      <4>1. Remaining(m, D) \in Nat  BY NextSorts, RemainingNat DEF IInv
      <4>2. Remaining(m, D) <= Timeout - 2 * D - 1  BY <3>4, <4>1
      <4> QED  BY <2>3, <3>4, <4>2 DEF OnTime, Greeted, Remaining
    <3>5. OnTime(c, D)' \/ Missed(c)' < lost' + Extra'  BY <3>1, <3>2, <3>3, <3>4
    <3>6. call'[c].at = "shaking" /\ Missed(c)' <= lost' + 0  BY <1>3, <2>3, <3>2
    <3>7. (IF call'[c].at = "shaking" THEN 0 ELSE Extra') = 0  BY <3>6
    <3> QED  BY <3>5, <3>6, <3>7, Zenon DEF Paid
  <2> QED  BY <1>2, <2>1, <2>2, <2>3
<1>6. Joined'
  <2>1. ASSUME NEW d \in Calls, call'[d].at = "shaking"
        PROVE  call'[d].shake \in 1..shakes' /\ stamp # "old"
               /\ (lost' = 0 => call'[d].shake = shake')
    <3>1. CASE d # c
      <4>1. call[d].at = "shaking" /\ call'[d].shake = call[d].shake  BY <1>1, <2>1, <3>1
      <4>2. call[d].shake \in 1..shakes /\ stamp # "old"
            /\ (lost = 0 => call[d].shake = shake)
        BY <4>1 DEF Joined
      <4>3. lost' = 0 => lost = 0 /\ current = shake  BY <1>3
      <4>4. lost' = 0 => shake' = shake  BY <1>2, <4>2, <4>3
      <4>5. call[d].shake \in 1..shakes'  BY <1>3, <4>2
      <4> QED  BY <4>1, <4>2, <4>3, <4>4, <4>5
    <3>2. CASE d = c
      <4>1. Shaking /\ (Joins \/ Begins)  BY <1>2, <2>1, <3>2
      <4> QED  BY <3>2, <4>1
    <3> QED  BY <3>1, <3>2
  <2>2. ASSUME shake' # 0
        PROVE  \E d \in Calls : call'[d].at = "shaking" /\ call'[d].shake = shake'
    <3>1. CASE Shaking
      BY <3>1
    <3>2. CASE Over \/ Ready
      <4>1. shake' = shake /\ call[c].at # "shaking"  BY <2>2, <3>2
      <4>2. PICK d \in Calls : call[d].at = "shaking" /\ call[d].shake = shake
        BY <2>2, <4>1 DEF Joined
      <4> QED  BY <1>1, <4>1, <4>2
    <3> QED  BY <1>2, <3>1, <3>2
  <2>3. ASSUME NEW d \in Calls, call'[d].at = "ready"  PROVE stamp # "none"
    <3>1. CASE d # c
      BY <1>1, <2>3, <3>1 DEF Joined
    <3>2. CASE d = c
      BY <1>2, <2>3, <3>2
    <3> QED  BY <3>1, <3>2
  <2> HIDE DEF Over, Ready, Shaking, Joins, Begins
  <2> QED  BY <2>1, <2>2, <2>3 DEF Joined
<1>7. Unpaid(D)'
  <2> SUFFICES ASSUME stamp = "none", shake' # 0, ~Greeted(shake, 2 * D, D)'
               PROVE  /\ lost' > 0
                      /\ \A d \in Calls : call'[d].at = "waiting" =>
                           /\ Missed(d)' < lost'
                           /\ OnTime(d, D)' \/ Missed(d)' + 1 < lost'
    BY DEF Unpaid
  <2>1. Extra = 0  BY DEF Extra
  <2>2. \A d \in Calls : call'[d].at = "waiting" => d # c /\ call[d].at = "waiting"
    BY <1>1, <1>2
  <2>3. CASE Begins
    <3>1. lost' = lost + 1  BY <2>3 DEF Greeted, Remaining
    <3>2. ASSUME NEW d \in Calls, call'[d].at = "waiting"
          PROVE  Missed(d)' < lost' /\ (OnTime(d, D)' \/ Missed(d)' + 1 < lost')
      <4>1. d # c /\ call[d].at = "waiting"  BY <2>2, <3>2
      <4>2. /\ OnTime(d, D) => OnTime(d, D)'
            /\ Missed(d)' = Missed(d) /\ Missed(d) \in Nat
        BY <1>4, <4>1, Numbers
      <4>3. Missed(d) <= lost /\ (OnTime(d, D) \/ Missed(d) < lost)
        BY <2>1, <4>1 DEF FaultsCost, Paid, Running
      <4> QED  BY <3>1, <4>2, <4>3
    <3> QED  BY <3>1, <3>2
  <2>4. CASE ~Begins
    <3>1. shake' = current /\ current = shake /\ shake # 0 /\ net' = net /\ lost' = lost
      BY <1>2, <2>4
    <3>2. ~Greeted(shake, 2 * D, D)  BY <3>1 DEF Greeted, Greetings, Remaining
    <3>3. /\ lost > 0
          /\ \A d \in Calls : call[d].at = "waiting" =>
               Missed(d) < lost /\ (OnTime(d, D) \/ Missed(d) + 1 < lost)
      BY <3>1, <3>2 DEF FaultsCost, Unpaid
    <3> QED  BY <1>4, <2>2, <3>1, <3>3
  <2> QED  BY <2>3, <2>4
<1>8. TimeoutNeedsFaults'
  <2>1. ASSUME NEW d \in Calls, call'[d].at = "timeout"
        PROVE  lost' > 0 /\ Retries <= lost' + 1
    <3>1. CASE d # c
      <4>1. call[d].at = "timeout"  BY <1>1, <2>1, <3>1
      <4>2. lost > 0 /\ Retries <= lost + 1  BY <4>1 DEF FaultsCost, TimeoutNeedsFaults
      <4>3. lost <= lost'  BY <1>3
      <4> QED  BY <4>2, <4>3, StillLost
    <3>2. CASE d = c
      <4>1. Over  BY <1>2, <2>1, <3>2
      <4> QED  BY <4>1
    <3> QED  BY <3>1, <3>2
  <2> QED  BY <2>1 DEF TimeoutNeedsFaults
<1> QED  BY <1>4, <1>5, <1>6, <1>7, <1>8 DEF FaultsCost

\* A new call begins without a fault of its own, but may join a handshake that had one.
LEMMA IssuePays ==
  ASSUME NEW D, InTime(D), IInv, IInv', FaultsCost(D), NEW c \in Calls, Issue(c)
  PROVE  FaultsCost(D)'
<1> Retries \in Nat /\ lost \in Nat /\ shake \in Nat /\ Extra \in {0, 1}  BY Numbers
<1>1. /\ call[c].at = "idle" /\ Attempt(c, Retries, shake) /\ UNCHANGED <<stamp, promises>>
      /\ Retries > 0
  BY CallAssumption DEF Issue, CallAssumption
<1>2. stamp = "none" /\ shake # 0 => Greeted(shake, 2 * D, D) \/ Retries - Retries < lost
  BY DEF FaultsCost, Unpaid
<1> QED  BY <1>1, <1>2, AttemptPays

\* A timer that fires ends an attempt that was not on time.
LEMMA TimeOutPays ==
  ASSUME NEW D, InTime(D), IInv, IInv', FaultsCost(D), NEW c \in Calls, TimeOut(c)
  PROVE  FaultsCost(D)'
<1> DEFINE left    == call[c].left - 1
           current == IF call[c].at = "shaking" THEN 0 ELSE shake
<1>1. /\ Calm /\ Running(c) /\ call[c].timer = 0
      /\ Attempt(c, left, current) /\ UNCHANGED <<stamp, promises>>
  BY DEF TimeOut
<1> /\ Retries \in Nat /\ lost \in Nat /\ shake \in Nat /\ D \in Nat
    /\ Extra \in {0, 1} /\ Missed(c) \in Nat /\ left \in Nat /\ current \in Nat
    /\ call[c].left \in Nat /\ call[c].left > 0
  BY <1>1, Numbers DEF InTime
<1>2. ~OnTime(c, D)
  <2>1. ~\E m \in net : m \in ShakeMsg \cup EntryMsg /\ Remaining(m, D) <= 0 - 2 * D - 1
    BY RemainingNat
  <2>2. ~\E m \in net : m \in ShakeMsg \cup EntryMsg /\ Remaining(m, D) <= 0 - 1
    BY RemainingNat
  <2>3. ~Greeted(call[c].shake, call[c].timer - 2 * D - 1, D)
    BY <1>1, <2>1, GreetingsAre DEF Greeted, IInv, Greetings
  <2>4. ~Answered(c, call[c].timer - 1, D)
    BY <1>1, <2>2, LettersAre DEF Answered, IInv, Letters
  <2> QED  BY <1>1, <2>3, <2>4 DEF OnTime
<1>3. Missed(c) < lost + Extra /\ Missed(c) = Retries - left - 1
  BY <1>1, <1>2 DEF FaultsCost, Paid, Missed
<1>4. lost > 0
  <2>1. lost = 0 => Extra = 0  BY DEF Extra
  <2> QED  BY <1>3, <2>1
<1>5. Retries - left <= lost + Extra  BY <1>3
<1>6. left = 0 => Retries <= lost + 1  BY <1>5
<1>7. current # 0 => current = shake /\ call[c].at = "waiting"
  BY <1>1 DEF Calm, Running
<1>8. stamp = "none" /\ current # 0 => Greeted(current, 2 * D, D) \/ Retries - left < lost
  <2> SUFFICES ASSUME stamp = "none", current # 0, ~Greeted(current, 2 * D, D)
               PROVE  Retries - left < lost
    OBVIOUS
  <2>1. Missed(c) + 1 < lost  BY <1>2, <1>7 DEF FaultsCost, Unpaid
  <2> QED  BY <1>3, <2>1
<1>9. lost = 0 => current = shake  BY <1>4
<1> HIDE DEF left, current
<1> QED  BY <1>1, <1>4, <1>5, <1>6, <1>7, <1>8, <1>9, AttemptPays

\* A request that is sent is answered within two times D, or the step is a fault.
LEMMA RequestInTime ==
  ASSUME NEW D, InTime(D), IInv, NetOK', NEW c \in Calls, Request(c)
  PROVE  \E e \in Entry :
           /\ e.call = c /\ e.left = call[c].left
           /\ promises' = {p \in promises : p.id # e.id} \cup {e}
           /\ net \subseteq net'
           /\ \/ /\ lost' = lost
                 /\ \E m \in Letters' : m.entry = e /\ Remaining(m, D) <= 2 * D
              \/ lost' = lost + 1
<1> CallOK /\ NumsOK /\ LeftOK /\ NetOK /\ D \in Nat /\ lost \in Nat
  BY Numbers DEF IInv, InTime
<1> DEFINE id == NextId(call[c].left = Retries)
           e  == [id |-> id, call |-> c, left |-> call[c].left]
           q  == [kind |-> "request", entry |-> e, delay |-> 0]
<1>1. call[c].left \in 1..Retries
  BY CallAssumption DEF Request, CallOK, LeftOK, Running, CallAssumption
<1>2. id \in 1..IdLimit  BY CallAssumption DEF NextId, NumsOK, CallAssumption
<1>3. e \in Entry /\ e.call = c /\ e.left = call[c].left
  <2> HIDE DEF id
  <2> QED  BY <1>1, <1>2 DEF Entry
<1>4. q \in EntryMsg /\ q.entry = e /\ q.kind = "request"  BY <1>3 DEF EntryMsg
<1>5. promises' = {p \in promises : p.id # e.id} \cup {e} /\ SendPacket(q)
  BY <1>3 DEF Request
<1> HIDE DEF id, e, q
<1> DEFINE a(d) == [q EXCEPT !.delay = d]
           f    == [q EXCEPT !.kind = "failed", !.delay = 0]
<1>6. \A d \in Nat : a(d) \in EntryMsg /\ a(d).entry = e /\ a(d).delay = d
  BY <1>4 DEF EntryMsg
<1>7. f \in EntryMsg /\ f.entry = e /\ f.delay = 0 /\ f.kind = "failed"
  BY <1>4 DEF EntryMsg
<1>8. \/ Transmit(q, net)
      \/ net' = net \cup {f} /\ UNCHANGED lost
  BY <1>5 DEF SendPacket
<1>9. ASSUME NEW m \in EntryMsg, m \in net', m.entry = e, Remaining(m, D) <= 2 * D
      PROVE  \E k \in Letters' : k.entry = e /\ Remaining(k, D) <= 2 * D
  <2>1. m \in Letters'  BY <1>9, NextSorts
  <2> QED  BY <1>9, <2>1
<1>10. /\ net \subseteq net'
       /\ \/ lost' = lost /\ \E m \in Letters' : m.entry = e /\ Remaining(m, D) <= 2 * D
          \/ lost' = lost + 1
  <2>1. CASE Transmit(q, net)
    <3>1. \/ lost' = lost /\ \E d \in Nat : d <= D /\ net' = net \cup {a(d)}
          \/ lost' = lost + 1 /\ (net' = net \/ \E d \in Nat : net' = net \cup {a(d)})
      BY <2>1, SentInTime
    <3> HIDE DEF a
    <3>2. CASE lost' = lost + 1
      BY <3>1, <3>2
    <3>3. ASSUME NEW d \in Nat, d <= D, net' = net \cup {a(d)}
          PROVE  \E k \in Letters' : k.entry = e /\ Remaining(k, D) <= 2 * D
      <4>1. Remaining(a(d), D) <= 2 * D  BY <1>6, <3>3 DEF Remaining
      <4> QED  BY <1>6, <1>9, <3>3, <4>1
    <3> QED  BY <3>1, <3>2, <3>3
  <2>2. CASE net' = net \cup {f} /\ UNCHANGED lost
    <3>1. Remaining(f, D) <= 2 * D  BY <1>7 DEF Remaining
    <3> HIDE DEF f
    <3> QED  BY <1>7, <1>9, <2>2, <3>1
  <2> QED  BY <1>8, <2>1, <2>2
<1> HIDE DEF a, f
<1> QED  BY <1>3, <1>5, <1>10

\* The request of an attempt is sent while there is time enough for the answer.
LEMMA RequestPays ==
  ASSUME NEW D, InTime(D), IInv, IInv', IdsApart', FaultsCost(D), NEW c \in Calls, Request(c)
  PROVE  FaultsCost(D)'
<1> NetOK' /\ CallOK /\ Joined /\ D \in Nat /\ lost \in Nat
  BY Numbers DEF IInv, InTime, FaultsCost
<1>1. /\ call[c].at = "ready" /\ call' = [call EXCEPT ![c].at = "waiting"]
      /\ UNCHANGED <<shake, shakes, stamp, executed>>
  BY DEF Request
<1>2. PICK e \in Entry :
           /\ e.call = c /\ e.left = call[c].left
           /\ promises' = {p \in promises : p.id # e.id} \cup {e}
           /\ net \subseteq net'
           /\ \/ /\ lost' = lost
                 /\ \E m \in Letters' : m.entry = e /\ Remaining(m, D) <= 2 * D
              \/ lost' = lost + 1
  BY RequestInTime
<1>3. /\ call'[c].at = "waiting" /\ call'[c].left = call[c].left
      /\ call'[c].timer = call[c].timer
      /\ \A d \in Calls : d # c => call'[d] = call[d]
  BY <1>1 DEF CallOK
<1>4. /\ stamp # "none" /\ lost <= lost' /\ lost' \in Nat
      /\ Extra <= Extra' /\ Extra \in {0, 1} /\ Extra' \in {0, 1}
  BY <1>1, <1>2 DEF Extra, Joined
<1>5. ASSUME NEW d \in Calls, d # c  PROVE Paid(d, D)'
  <2>1. call'[d] = call[d] /\ Paid(d, D) /\ UNCHANGED stamp
    BY <1>1, <1>3, <1>5 DEF FaultsCost
  <2>2. ASSUME NEW m \in Letters, m.entry \in promises, m.entry.call = d
        PROVE  m.entry \in promises'
    <3>1. m \in Letters'  BY <1>2 DEF Letters
    <3>2. m.entry \in Entries' /\ e \in Entries'  BY <1>2, <3>1 DEF Entries
    <3>3. m.entry # e  BY <1>2, <1>5, <2>2
    <3>4. m.entry.id # e.id  BY <3>2, <3>3 DEF IdsApart
    <3> QED  BY <1>2, <2>2, <3>4
  <2> QED  BY <1>2, <1>4, <2>1, <2>2, OthersGoOn
<1>6. Paid(c, D)'
  <2>1. OnTime(c, D) => OnTime(c, D)' \/ lost + Extra < lost' + Extra'
    <3>1. CASE lost' = lost + 1
      <4>1. lost + Extra < lost' + Extra'  BY <1>4, <3>1, MorePaid
      <4> QED  BY <4>1
    <3>2. ASSUME OnTime(c, D), NEW m \in Letters', m.entry = e, Remaining(m, D) <= 2 * D
          PROVE  OnTime(c, D)'
      <4>1. 2 * D < call[c].timer /\ call[c].timer \in Nat
        BY <1>1, <3>2, Numbers DEF OnTime
      <4>2. Remaining(m, D) \in Nat  BY NextSorts, RemainingNat
      <4>3. Remaining(m, D) <= call'[c].timer - 1  BY <1>3, <3>2, <4>1, <4>2
      <4>4. m.entry.call = c /\ m.entry.left = call'[c].left /\ m.entry \in promises'
        BY <1>2, <1>3, <3>2
      <4> QED  BY <1>3, <4>3, <4>4 DEF OnTime, Answered, Remaining
    <3> QED  BY <1>2, <3>1, <3>2
  <2>2. Running(c) /\ Paid(c, D) /\ call'[c].at # "shaking"
    BY <1>1, <1>3 DEF Running, FaultsCost
  <2> QED  BY <1>3, <1>4, <2>1, <2>2, GoesOn
<1>7. Joined'
  <2>1. \A d \in Calls : /\ call'[d].at \in {"shaking", "ready"} => call'[d] = call[d]
                         /\ call[d].at = "shaking" => call'[d] = call[d]
    BY <1>1, <1>3
  <2>2. lost' = 0 => lost = 0  BY <1>4
  <2> QED  BY <1>1, <2>1, <2>2 DEF Joined
<1>8. Unpaid(D)'  BY <1>1, <1>4 DEF Unpaid
<1>9. TimeoutNeedsFaults'
  <2>1. ASSUME NEW d \in Calls, call'[d].at = "timeout"
        PROVE  lost' > 0 /\ Retries <= lost' + 1
    <3>1. call[d].at = "timeout"  BY <1>3, <2>1
    <3>2. lost > 0 /\ Retries <= lost + 1  BY <3>1 DEF FaultsCost, TimeoutNeedsFaults
    <3> QED  BY <1>4, <3>2, StillLost, Numbers
  <2> QED  BY <2>1 DEF TimeoutNeedsFaults
<1> QED  BY <1>5, <1>6, <1>7, <1>8, <1>9 DEF FaultsCost

LEMMA InitPays == ASSUME NEW D PROVE Init => FaultsCost(D)
<1> SUFFICES ASSUME Init PROVE FaultsCost(D)
  OBVIOUS
<1>1. \A c \in Calls : call[c].at = "idle"  BY DEF Init, Unused
<1>2. shake = 0  BY DEF Init
<1> QED  BY <1>1, <1>2 DEF FaultsCost, Paid, Running, Joined, Unpaid, TimeoutNeedsFaults

\* Every step pays for the attempts that it ends or that it dooms.
LEMMA StepPays ==
  ASSUME NEW D, InTime(D), EnoughIds, IInv, IdsApart, FaultsCost(D), [Next]_vars
  PROVE  FaultsCost(D)'
<1>1. IInv' /\ IdsApart'  BY StepKeeps, IdsStep
<1>2. ASSUME NEW c \in Calls, Issue(c) \/ Request(c) \/ TimeOut(c)  PROVE FaultsCost(D)'
  BY <1>1, <1>2, IssuePays, RequestPays, TimeOutPays
<1>3. ASSUME NEW m \in net,
             AnswerHello(m) \/ Execute(m) \/ Welcome(m) \/ Reply(m) \/ SendFailed(m)
      PROVE  FaultsCost(D)'
  BY <1>1, <1>3, AnswerHelloPays, ExecutePays, WelcomePays, ReplyPays, SendFailedPays
<1>4. CASE Expire
  BY <1>1, <1>4, ExpirePays
<1>5. CASE Tick
  BY <1>1, <1>5, TickPays
<1>6. CASE UNCHANGED vars
  BY <1>6 DEF vars, FaultsCost, Paid, Joined, Unpaid, TimeoutNeedsFaults, OnTime, Missed,
              Extra, Running, Greeted, Greetings, Answered, Letters, Remaining
<1> QED  BY <1>2, <1>3, <1>4, <1>5, <1>6 DEF Next, Deliver

\* TimeoutNeedsFaults for any constants with enough ids, if a datagram that is neither
\* lost nor late takes no longer than D and the timer of an attempt is longer than four
\* times that: however the calls that share a handshake reset it under one another, a
\* call that gives up has met as many lost or late datagrams as it has retries but one.
THEOREM FaultsNeeded ==
  ASSUME NEW D, InTime(D), EnoughIds
  PROVE  Spec => []TimeoutNeedsFaults
<1>1. Init => FaultsCost(D)  BY InitPays
<1>2. IInv /\ IdsApart /\ FaultsCost(D) /\ [Next]_vars => FaultsCost(D)'  BY StepPays
<1>3. FaultsCost(D) => TimeoutNeedsFaults  BY DEF FaultsCost
<1> QED  BY <1>1, <1>2, <1>3, IdsInvariance, PTL DEF Spec

\* What that says of up to ten calls with the five retries of the code, if a datagram
\* takes less than half a second each way: a call that gives up has met four faults.
COROLLARY FourFaults ==
  ASSUME IdLimit = 10000, Stride = 100, Retries = 5, Cardinality(Calls) <= 10,
         NEW D, InTime(D)
  PROVE  Spec => [](\A c \in Calls : call[c].at = "timeout" => lost >= 4)
<1>1. Spec => []TimeoutNeedsFaults  BY TenCallsEnough, FaultsNeeded
<1>2. IInv /\ TimeoutNeedsFaults => \A c \in Calls : call[c].at = "timeout" => lost >= 4
  BY Numbers DEF TimeoutNeedsFaults
<1> QED  BY <1>1, <1>2, CallInvariance, PTL
=============================================================================
