---------------------------- MODULE SpeedSyncProofs ----------------------------
(***************************************************************************)
(* The look-up of SpeedModes is right for every number of modes that a         *)
(* percentage can tell apart, not only for the tables of the repository.  And   *)
(* for every robot of the tables, any percentages and any number of calls of   *)
(* setSpeed and setWaterSpeed that overlap: when they are over, fan and water   *)
(* are "Custom" together or not at all, and what is shown selects itself.      *)
(***************************************************************************)
EXTENDS SpeedSync, SequenceTheorems, FiniteSetTheorems, WellFoundedInduction, TLAPS

-----------------------------------------------------------------------------
(* Looking modes up.                                                        *)

\* A table has as many modes as percentages can tell apart: one beside "Off", at least.
Sizes == 2..101

Step(n) == 100 \div (n - 1)

\* The step between two top levels is positive, and all steps together do not exceed 100.
LEMMA Steps ==
  ASSUME NEW n \in Sizes
  PROVE  Step(n) \in 1..100 /\ (n - 1) * Step(n) <= 100
  BY DEF Sizes, Step

\* Multiples of a positive step ascend.
LEMMA Multiples ==
  ASSUME NEW s \in 1..100, NEW a \in Nat, NEW b \in Nat, a < b
  PROVE  a * s < b * s
<1>1. b * s = a * s + (b - a) * s  OBVIOUS
<1>2. (b - a) * s >= 1
  <2>1. b - a \in Nat /\ b - a >= 1 /\ s \in Nat /\ s >= 1  OBVIOUS
  <2>2. QED  BY <2>1
<1>3. a * s \in Int /\ (b - a) * s \in Int  OBVIOUS
<1>4. QED  BY <1>1, <1>2, <1>3

\* The top levels are percentages and ascend strictly: autoAssignHomekitTopLevel gives
\* no two modes the same.
LEMMA Ascending ==
  ASSUME NEW n \in Sizes
  PROVE  /\ \A i \in 1..n : TopLevel(n, i) \in Percent
         /\ \A i, j \in 1..n : i < j => TopLevel(n, i) < TopLevel(n, j)
<1> n \in Nat /\ n >= 2  BY DEF Sizes
<1>1. ASSUME NEW i \in 1..n, i # n
      PROVE  TopLevel(n, i) = (i - 1) * Step(n) /\ TopLevel(n, i) \in 0..99
  <2>1. TopLevel(n, i) = (i - 1) * Step(n)  BY <1>1 DEF TopLevel, Step
  <2>2. i - 1 \in Nat /\ n - 1 \in Nat /\ i - 1 < n - 1  BY <1>1
  <2>3. (i - 1) * Step(n) < (n - 1) * Step(n)  BY <2>2, Steps, Multiples
  <2>4. (i - 1) * Step(n) \in Nat  BY <2>2, Steps
  <2>5. (n - 1) * Step(n) \in Int  BY <2>2, Steps
  <2>6. \A a \in Nat, b \in Int : a < b /\ b <= 100 => a \in 0..99  OBVIOUS
  <2>7. (i - 1) * Step(n) \in 0..99  BY <2>3, <2>4, <2>5, <2>6, Steps
  <2>8. QED  BY <2>1, <2>7
<1>2. TopLevel(n, n) = 100  BY DEF TopLevel
<1>3. \A i \in 1..n : TopLevel(n, i) \in Percent  BY <1>1, <1>2 DEF Percent
<1>4. ASSUME NEW i \in 1..n, NEW j \in 1..n, i < j
      PROVE  TopLevel(n, i) < TopLevel(n, j)
  <2>1. CASE j = n  BY <1>1, <1>2, <1>4, <2>1
  <2>2. CASE j # n
    <3>1. i - 1 \in Nat /\ j - 1 \in Nat /\ i - 1 < j - 1  BY <1>4
    <3>2. (i - 1) * Step(n) < (j - 1) * Step(n)  BY <3>1, Steps, Multiples
    <3>3. QED  BY <1>1, <1>4, <2>2, <3>2
  <2>3. QED  BY <2>1, <2>2
<1>5. QED  BY <1>3, <1>4

\* Every percentage selects one mode: the first one whose top level is not below it
\* exists, because the last top level is 100.
LEMMA Selected ==
  ASSUME NEW n \in Sizes, NEW v \in Percent
  PROVE  /\ Select(n, v) \in 1..n
         /\ v <= TopLevel(n, Select(n, v))
         /\ \A j \in 1..(Select(n, v) - 1) : v > TopLevel(n, j)
<1> n \in Nat /\ n >= 2 /\ v \in Nat /\ v <= 100  BY DEF Sizes, Percent
<1> DEFINE First(i) == /\ v <= TopLevel(n, i)
                       /\ \A j \in 1..(i - 1) : v > TopLevel(n, j)
<1>1. Select(n, v) = CHOOSE i \in 1..n : First(i)
  BY DEF Select, TopLevel
<1>2. \E i \in 1..n : First(i)
  <2> DEFINE S == {i \in 1..n : v <= TopLevel(n, i)}
  <2>1. S \subseteq Nat /\ n \in S  BY DEF TopLevel
  <2>2. PICK i \in S : \A j \in S : i <= j
    <3>1. PICK i \in S : \A j \in S : ~(<<j, i>> \in OpToRel(<, Nat))
      BY <2>1, NatLessThanWellFounded, WFMin
    <3>2. \A j \in S : <<j, i>> \in OpToRel(<, Nat) <=> j < i
      BY <2>1 DEF OpToRel
    <3>3. \A j \in S : ~(j < i)  BY <3>1, <3>2, Zenon
    <3>4. QED  BY <2>1, <3>3
  <2>3. First(i)  BY <2>2, Ascending DEF Percent
  <2>4. QED  BY <2>2, <2>3
<1>3. QED  BY <1>1, <1>2

\* The top level of a mode selects that mode.
LEMMA SelectsItself ==
  ASSUME NEW n \in Sizes, NEW i \in 1..n
  PROVE  Select(n, TopLevel(n, i)) = i
<1> DEFINE v == TopLevel(n, i)
           k == Select(n, v)
<1>1. n \in Nat  BY DEF Sizes
<1>2. v \in Percent  BY Ascending
<1>3. k \in 1..n /\ v <= TopLevel(n, k) /\ \A j \in 1..(k - 1) : v > TopLevel(n, j)
  BY <1>2, Selected
<1> HIDE DEF k
<1>4. ASSUME k < i  PROVE FALSE
  <2>1. TopLevel(n, k) < v  BY <1>3, <1>4, Ascending
  <2>2. TopLevel(n, k) \in Percent  BY <1>3, Ascending
  <2> HIDE DEF v
  <2>3. QED  BY <1>2, <1>3, <2>1, <2>2 DEF Percent
<1>5. ASSUME i < k  PROVE FALSE
  <2>1. v > v  BY <1>1, <1>3, <1>5
  <2> HIDE DEF v
  <2>2. QED  BY <1>2, <2>1 DEF Percent
<1>6. QED  BY <1>1, <1>3, <1>4, <1>5 DEF k

\* A level that one mode of a table has is shown as the top level of that mode, and
\* the mode is selected again when HomeKit sends back what it was shown: getSpeed and
\* changedSpeed followed by setSpeed change nothing, for tables of any such size.
THEOREM ShownIsSelected ==
  ASSUME NEW table, Len(table) \in Sizes, NEW i \in 1..Len(table),
         \A j \in 1..Len(table) : table[j][2] = table[i][2] => j = i
  PROVE  /\ Shown(table, table[i][2]) = {TopLevel(Len(table), i)}
         /\ Select(Len(table), TopLevel(Len(table), i)) = i
<1>1. FromMiio(table, table[i][2]) = {i}  BY DEF FromMiio
<1>2. Shown(table, table[i][2]) = {TopLevel(Len(table), i)}  BY <1>1 DEF Shown
<1>3. QED  BY <1>2, SelectsItself

-----------------------------------------------------------------------------
(* The tables.                                                               *)

\* A table that percentages can look up, or none.
IsTable(t) == t = <<>> \/ Len(t) \in Sizes

\* The elements of an interval are numbers within it.
LEMMA Within ==
  ASSUME NEW k \in 1..100
  PROVE  k \in Nat /\ k >= 1 /\ k <= 100
  OBVIOUS

\* A table of names has these names, and "Off".
LEMMA TableOfNames ==
  ASSUME NEW S, NEW names \in Seq(S), Len(names) \in 1..100, NEW levels
  PROVE  /\ IsTable(Table(names, levels))
         /\ \A i \in 1..Len(names) : names[i] \in Names(Table(names, levels))
<1> DEFINE n == Len(names)
           off == <<"Off", -1>>
           rest == [i \in 1..n |-> <<names[i], levels[i]>>]
           T == {off} \cup {rest[i] : i \in 1..n}
           t == <<off>> \o rest
<1>1. n \in Nat /\ n >= 1 /\ n <= 100  BY Within, Zenon
<1>2. \A i \in 1..n : rest[i] = <<names[i], levels[i]>>  OBVIOUS
<1>3. rest \in Seq(T) /\ Len(rest) = n  BY <1>1, IsASeq
<1>4. off \in T  OBVIOUS
<1>5. Table(names, levels) = t  BY DEF Table
<1> HIDE DEF off, rest, T, n
<1>6. <<off>> \in Seq(T) /\ Len(<<off>>) = 1  BY <1>4
<1>7. /\ Len(t) = 1 + n
      /\ \A i \in 1..(1 + n) : t[i] = IF i <= 1 THEN <<off>>[i] ELSE rest[i - 1]
  BY <1>3, <1>6, ConcatProperties
<1> HIDE DEF t
<1>8. ASSUME NEW i \in 1..n  PROVE names[i] \in Names(t)
  <2>1. i + 1 \in 1..(1 + n) /\ ~(i + 1 <= 1) /\ (i + 1) - 1 = i  BY <1>1
  <2>2. t[i + 1] = rest[i]  BY <1>7, <2>1
  <2>3. t[i + 1][1] = names[i]  BY <1>2, <2>2
  <2>4. QED  BY <1>7, <2>1, <2>3, Zenon DEF Names
<1>9. Len(t) \in Sizes  BY <1>1, <1>7 DEF Sizes
<1>10. QED  BY <1>5, <1>8, <1>9 DEF IsTable, n

\* The names of the generations.
Word == {"Quiet", "Balanced", "Turbo", "Max", "Soft", "Mop", "Gentle", "Silent", "Custom",
         "Max+", "Standard", "Medium"}

LEMMA Fours ==
  /\ Four \in Seq(Word) /\ Len(Four) = 4 /\ Four[2] = "Balanced"
  /\ Soft \in Seq(Word) /\ Len(Soft) = 5 /\ Soft[3] = "Balanced"
<1> DEFINE one == <<"Soft">>
<1>1. Four \in Seq(Word) /\ Len(Four) = 4 /\ Four[2] = "Balanced"  BY DEF Four, Word
<1>2. one \in Seq(Word) /\ Len(one) = 1  BY DEF Word
<1>3. Soft = one \o Four  BY DEF Soft
<1> HIDE DEF one
<1>4. /\ Soft \in Seq(Word) /\ Len(Soft) = Len(one) + Len(Four)
      /\ \A i \in 1..(Len(one) + Len(Four)) :
            Soft[i] = IF i <= Len(one) THEN one[i] ELSE Four[i - Len(one)]
  BY <1>1, <1>2, <1>3, ConcatProperties, Zenon
<1>5. Len(Soft) = 5 /\ Soft[3] = Four[2]
  <2>1. Len(one) + Len(Four) = 5 /\ ~(3 <= Len(one)) /\ 3 - Len(one) = 2  BY <1>1, <1>2
  <2>2. 3 \in 1..5  OBVIOUS
  <2>3. QED  BY <1>4, <2>1, <2>2, Zenon
<1>6. QED  BY <1>1, <1>4, <1>5

\* Names before others come first.
LEMMA Longer ==
  ASSUME NEW names \in Seq(Word), NEW more \in Seq(Word)
  PROVE  /\ names \o more \in Seq(Word) /\ Len(names \o more) = Len(names) + Len(more)
         /\ \A i \in 1..Len(names) : (names \o more)[i] = names[i]
<1>1. Len(names) \in Nat /\ Len(more) \in Nat  OBVIOUS
<1>2. QED  BY <1>1, ConcatProperties

\* Every fan table can be looked up, and those with "Custom" that a robot with a water
\* box has offer "Balanced".
LEMMA SpeedTables ==
  /\ \A g \in DOMAIN SPEEDMODES : IsTable(SPEEDMODES[g])
  /\ "Balanced" \in Names(SPEEDMODES.gen4_custom)
  /\ "Balanced" \in Names(SPEEDMODES.gen5)
<1>1. \A names \in Seq(Word) : Len(names) \in {4, 5, 6} =>
         \A levels : IsTable(Table(names, levels))
                     /\ \A i \in 1..Len(names) : names[i] \in Names(Table(names, levels))
  <2>1. \A k \in {4, 5, 6} : k \in 1..100  OBVIOUS
  <2>2. QED  BY <2>1, TableOfNames
<1> DEFINE mop == <<"Mop">> \o Four
           xiaowa == <<"Gentle", "Silent", "Balanced", "Turbo", "Max">>
           soft == Soft \o <<"Custom">>
           max == Four \o <<"Max+", "Custom">>
           viomi == <<"Silent", "Standard", "Medium", "Turbo">>
<1>2. /\ <<"Mop">> \in Seq(Word) /\ Len(<<"Mop">>) = 1
      /\ <<"Custom">> \in Seq(Word) /\ Len(<<"Custom">>) = 1
      /\ <<"Max+", "Custom">> \in Seq(Word) /\ Len(<<"Max+", "Custom">>) = 2
  BY DEF Word
<1>3. mop \in Seq(Word) /\ Len(mop) = 5
  <2>1. mop \in Seq(Word) /\ Len(mop) = Len(<<"Mop">>) + Len(Four)  BY <1>2, Fours, Longer, Zenon
  <2>2. QED  BY <1>2, <2>1, Fours
<1>4. soft \in Seq(Word) /\ Len(soft) = 6 /\ soft[3] = "Balanced"
  <2>1. soft \in Seq(Word) /\ Len(soft) = Len(Soft) + Len(<<"Custom">>)
        /\ \A i \in 1..Len(Soft) : soft[i] = Soft[i]
    BY <1>2, Fours, Longer, Zenon
  <2>2. QED  BY <1>2, <2>1, Fours
<1>5. max \in Seq(Word) /\ Len(max) = 6 /\ max[2] = "Balanced"
  <2>1. max \in Seq(Word) /\ Len(max) = Len(Four) + Len(<<"Max+", "Custom">>)
        /\ \A i \in 1..Len(Four) : max[i] = Four[i]
    BY <1>2, Fours, Longer, Zenon
  <2>2. QED  BY <1>2, <2>1, Fours
<1>6. xiaowa \in Seq(Word) /\ Len(xiaowa) = 5 /\ viomi \in Seq(Word) /\ Len(viomi) = 4
  BY DEF Word
<1> HIDE DEF mop, xiaowa, soft, max, viomi
<1>7. /\ \A levels : IsTable(Table(Four, levels)) /\ IsTable(Table(Soft, levels))
      /\ \A levels : IsTable(Table(mop, levels)) /\ IsTable(Table(xiaowa, levels))
      /\ \A levels : IsTable(Table(soft, levels)) /\ IsTable(Table(max, levels))
      /\ \A levels : IsTable(Table(viomi, levels))
  BY <1>1, <1>3, <1>4, <1>5, <1>6, Fours
<1>8. \A levels : /\ "Balanced" \in Names(Table(soft, levels))
                  /\ "Balanced" \in Names(Table(max, levels))
  <2>1. 3 \in 1..6 /\ 2 \in 1..6  OBVIOUS
  <2>2. QED  BY <1>1, <1>4, <1>5, <2>1
<1>9. \A g \in DOMAIN SPEEDMODES : IsTable(SPEEDMODES[g])
  BY <1>7 DEF SPEEDMODES, mop, xiaowa, soft, max, viomi
<1>10. "Balanced" \in Names(SPEEDMODES.gen4_custom) /\ "Balanced" \in Names(SPEEDMODES.gen5)
  BY <1>8 DEF SPEEDMODES, soft, max
<1>11. QED  BY <1>9, <1>10

\* A mode that is appended leaves those before it, and comes last.
LEMMA Appended ==
  ASSUME NEW S, NEW t \in Seq(S), NEW last \in S
  PROVE  /\ Len(Append(t, last)) = Len(t) + 1
         /\ \A i \in 1..Len(t) : Append(t, last)[i] = t[i]
  BY AppendProperties

LEMMA AppendedLast ==
  ASSUME NEW S, NEW t \in Seq(S), NEW last \in S
  PROVE  Append(t, last)[Len(t) + 1] = last
  BY AppendProperties

\* The same of the water tables, which offer "Medium".
LEMMA WaterTables ==
  /\ \A g \in DOMAIN WATERMODES : IsTable(WATERMODES[g])
  /\ Names(WATERMODES.none) = {}
  /\ "Medium" \in Names(WATERMODES.gen1)
  /\ "Medium" \in Names(WATERMODES.gen1_custom)
<1> DEFINE gen1 == <<<<"Off", 200>>, <<"Light", 201>>, <<"Medium", 202>>, <<"High", 203>>>>
           last == <<"Custom", 204>>
           custom == Append(gen1, last)
           S == {gen1[1], gen1[2], gen1[3], gen1[4], last}
<1>1. WATERMODES = [none |-> <<>>, gen1 |-> gen1, gen1_custom |-> custom]  BY DEF WATERMODES
<1>2. gen1 \in Seq(S) /\ Len(gen1) = 4 /\ gen1[3][1] = "Medium"  OBVIOUS
<1>3. last \in S  OBVIOUS
<1> HIDE DEF gen1, S, last
<1>4. Len(custom) = 5 /\ custom[3] = gen1[3]
  <2>1. Len(custom) = Len(gen1) + 1 /\ \A i \in 1..Len(gen1) : custom[i] = gen1[i]
    BY <1>2, <1>3, Appended, Zenon
  <2>2. 3 \in 1..4 /\ 4 + 1 = 5  OBVIOUS
  <2>3. QED  BY <1>2, <2>1, <2>2, Zenon
<1> HIDE DEF custom
<1>5. IsTable(gen1) /\ IsTable(custom) /\ IsTable(<<>>)  BY <1>2, <1>4 DEF IsTable, Sizes
<1>6. "Medium" \in Names(gen1) /\ "Medium" \in Names(custom)
  <2>1. 3 \in 1..4 /\ 3 \in 1..5  OBVIOUS
  <2>2. QED  BY <1>2, <1>4, <2>1 DEF Names
<1>7. Names(<<>>) = {}  BY DEF Names
<1>8. QED  BY <1>1, <1>5, <1>6, <1>7

\* The tables of a robot can be looked up; if it has a water box, both have the mode
\* that the other one falls back to.
Fitting(ms) ==
  /\ IsTable(ms.speed) /\ IsTable(ms.waterspeed)
  /\ \/ Names(ms.waterspeed) = {}
     \/ "Balanced" \in Names(ms.speed) /\ "Medium" \in Names(ms.waterspeed)

\* This is so for every robot.
LEMMA RobotTables ==
  ASSUME NEW m \in DOMAIN MODELS, NEW recent \in BOOLEAN
  PROVE  Fitting(FindSpeedModes(m, recent))
<1> DEFINE Custom == {"gen4_custom", "gen5"}
           Box == {"gen1", "gen1_custom"}
           Gens == {"gen1", "gen2", "gen2_no_mop", "xiaowa", "gen3", "gen4", "gen4_custom",
                    "gen5", "viomi"}
<1>1. Gens = DOMAIN SPEEDMODES  BY DEF SPEEDMODES
<1>2. DOMAIN WATERMODES = {"none", "gen1", "gen1_custom"}  BY DEF WATERMODES
<1>3. ASSUME NEW g \in Gens
      PROVE  Fitting(Has(g, "none"))
  BY <1>1, <1>2, SpeedTables, WaterTables DEF Fitting, Has
<1>4. ASSUME NEW g \in Custom, NEW w \in Box
      PROVE  Fitting(Has(g, w))
  BY <1>1, <1>2, SpeedTables, WaterTables DEF Fitting, Has
<1>5. \/ \E g \in Gens : MODELS[m] = Has(g, "none")
      \/ \E g \in Custom, w \in Box : MODELS[m] = Has(g, w)
  BY DEF MODELS
<1>6. Fitting(MODELS[m])  BY <1>3, <1>4, <1>5
<1>7. Fitting(Has("gen4", "none"))  BY <1>3
<1>8. QED  BY <1>6, <1>7 DEF FindSpeedModes

\* What a percentage selects has a name in the table.
LEMMA NameListed ==
  ASSUME NEW t, IsTable(t), t # <<>>, NEW v \in Percent
  PROVE  NameAt(t, v) \in Names(t)
<1>1. Len(t) \in Sizes  BY DEF IsTable
<1>2. Select(Len(t), v) \in 1..Len(t)  BY <1>1, Selected
<1>3. QED  BY <1>2, Zenon DEF NameAt, Names

-----------------------------------------------------------------------------
(* The calls.                                                                *)

\* A difference between the two names is looked after by a call: one that has not
\* remembered its name yet, or one whose name is the last that was remembered.
Repaired ==
  "refused" \notin trouble /\ fan # "Off" /\ Named("fan", "Custom") /\ Named("water", "Custom")
  /\ ~(fan = "Custom" <=> water = "Custom")
  => \E c \in running : c.at = "connecting" \/ (c.at = "sent" /\ c.mode = Remembered(c.kind))

IInv == TypeOK /\ Fitting(modes) /\ Repaired

\* The bounds are numbers.
LEMMA Bounds ==
  MaxRequests \in Nat /\ MaxRunning \in Nat /\ Robots \subseteq DOMAIN MODELS /\ Sent \subseteq Percent
  BY SyncAssumption DEF SyncAssumption

\* No speed is known at the start, and none is "Custom".
LEMMA InitIInv == Init => IInv
<1> SUFFICES ASSUME Init PROVE IInv  OBVIOUS
<1>1. Fitting(modes)  BY Bounds, RobotTables DEF Init
<1>2. fan = "none" /\ water = "none" /\ running = {} /\ requests = 0 /\ trouble = {}
  BY DEF Init
<1>3. TypeOK  BY <1>2, Bounds DEF TypeOK
<1>4. Repaired  BY <1>2 DEF Repaired
<1>5. QED  BY <1>1, <1>3, <1>4 DEF IInv

\* A call that begins is one of its speed.
LEMMA ConnectingCall ==
  ASSUME NEW s \in 1..MaxRunning, NEW kind \in {"fan", "water"}, NEW mode, Named(kind, mode)
  PROVE  /\ Connecting(s, kind, mode) \in Call
         /\ Named(Connecting(s, kind, mode).kind, Connecting(s, kind, mode).mode)
         /\ Connecting(s, kind, mode).at = "connecting"
  BY DEF Connecting, Call, Named, TableOf

\* A call that is under way: its fields.
LEMMA CallFields ==
  ASSUME NEW c \in Call
  PROVE  /\ c.slot \in 1..MaxRunning /\ c.kind \in {"fan", "water"}
         /\ [c EXCEPT !.at = "sent"] \in Call
         /\ [c EXCEPT !.at = "sent"].kind = c.kind /\ [c EXCEPT !.at = "sent"].mode = c.mode
         /\ [c EXCEPT !.at = "sent"].at = "sent"
         /\ Other(c.kind) \in {"fan", "water"}
  BY DEF Call, Other

\* A request adds a call, which looks after whatever difference there is.
LEMMA RequestKeeps ==
  ASSUME IInv, Request
  PROVE  IInv'
<1>0. TypeOK /\ Fitting(modes)  BY DEF IInv
<1>1. PICK s \in 1..MaxRunning, kind \in {"fan", "water"}, v \in Sent :
        /\ TableOf(kind) # <<>>
        /\ running' = running \cup {Connecting(s, kind, NameAt(TableOf(kind), v))}
  BY DEF Request
<1> DEFINE new == Connecting(s, kind, NameAt(TableOf(kind), v))
<1>2. UNCHANGED <<modes, fan, water>> /\ requests' = requests + 1 /\ requests < MaxRequests
      /\ trouble' \in {trouble, trouble \cup {"overlapping"}}
  BY DEF Request
<1>3. IsTable(TableOf(kind))  BY <1>0 DEF Fitting, TableOf
<1>4. Named(kind, NameAt(TableOf(kind), v))  BY <1>1, <1>3, Bounds, NameListed DEF Named
<1>5. new \in Call /\ Named(new.kind, new.mode) /\ new.at = "connecting"
  BY <1>4, ConnectingCall
<1> HIDE DEF new
<1>6. running' \subseteq Call' /\ \A c \in running' : Named(c.kind, c.mode)'
  BY <1>0, <1>1, <1>2, <1>5 DEF TypeOK, Call, Named, TableOf, new
<1>7. TypeOK'  BY <1>0, <1>2, <1>6, Bounds DEF TypeOK
<1>8. Repaired'  BY <1>1, <1>5 DEF Repaired, new
<1>9. Fitting(modes)'  BY <1>0, <1>2
<1>10. QED  BY <1>7, <1>8, <1>9 DEF IInv

\* The call that is connected has the name that is remembered last.
LEMMA ConnectedKeeps ==
  ASSUME IInv, NEW c \in running, Connected(c)
  PROVE  IInv'
<1>0. TypeOK /\ Fitting(modes) /\ c \in Call  BY DEF IInv, TypeOK
<1> DEFINE new == [c EXCEPT !.at = "sent"]
<1>1. /\ running' = (running \ {c}) \cup {new}
      /\ fan' = IF c.kind = "fan" THEN c.mode ELSE fan
      /\ water' = IF c.kind = "water" THEN c.mode ELSE water
      /\ UNCHANGED <<modes, requests, trouble>>
  BY DEF Connected
<1>2. new \in Call /\ new.kind = c.kind /\ new.mode = c.mode /\ new.at = "sent"
      /\ c.kind \in {"fan", "water"}
  BY <1>0, CallFields
<1> HIDE DEF new
<1>3. Named(c.kind, c.mode)  BY <1>0 DEF TypeOK
<1>4. running' \subseteq Call' /\ \A d \in running' : Named(d.kind, d.mode)'
  BY <1>0, <1>1, <1>2, <1>3 DEF TypeOK, Call, Named, TableOf
<1>5. fan' \in Names(modes'.speed) \cup {"none"} /\ water' \in Names(modes'.waterspeed) \cup {"none"}
  BY <1>0, <1>1, <1>2, <1>3 DEF TypeOK, Named, TableOf
<1>6. TypeOK'  BY <1>0, <1>1, <1>4, <1>5 DEF TypeOK
<1>7. new.mode = Remembered(new.kind)'  BY <1>1, <1>2 DEF Remembered
<1>8. Repaired'  BY <1>1, <1>2, <1>7 DEF Repaired
<1>9. Fitting(modes)'  BY <1>0, <1>1
<1>10. QED  BY <1>6, <1>8, <1>9 DEF IInv

\* A call that finds a difference between its name and the other one sets off another
\* call, because the mode it needs is in the table.
LEMMA AnsweredKeeps ==
  ASSUME IInv, NEW c \in running, Answered(c)
  PROVE  IInv'
<1>0. TypeOK /\ Fitting(modes) /\ Repaired /\ c \in Call  BY DEF IInv, TypeOK
<1> DEFINE follow == {m \in FollowUp(c) : Named(Other(c.kind), m)}
<1>1. /\ c.at = "sent"
      /\ running' = (running \ {c}) \cup {Connecting(c.slot, Other(c.kind), m) : m \in follow}
      /\ UNCHANGED <<modes, fan, water, requests, trouble>>
  BY DEF Answered
<1>2. c.slot \in 1..MaxRunning /\ c.kind \in {"fan", "water"} /\ Other(c.kind) \in {"fan", "water"}
  BY <1>0, CallFields
<1>3. \A m \in follow : LET new == Connecting(c.slot, Other(c.kind), m)
                        IN new \in Call /\ Named(new.kind, new.mode) /\ new.at = "connecting"
  BY <1>2, ConnectingCall
<1>4. running' \subseteq Call' /\ \A d \in running' : Named(d.kind, d.mode)'
  <2>1. running' \subseteq Call /\ \A d \in running' : Named(d.kind, d.mode)
    BY <1>0, <1>1, <1>3 DEF TypeOK
  <2>2. QED  BY <1>1, <2>1 DEF Call, Named, TableOf
<1>5. TypeOK'  BY <1>0, <1>1, <1>4 DEF TypeOK
<1>6. Repaired'
  <2> SUFFICES ASSUME "refused" \notin trouble, fan # "Off",
                      Named("fan", "Custom"), Named("water", "Custom"),
                      ~(fan = "Custom" <=> water = "Custom")
               PROVE  \E d \in running' :
                        d.at = "connecting" \/ (d.at = "sent" /\ d.mode = Remembered(d.kind))
    BY <1>1 DEF Repaired, Named, TableOf, Remembered
  <2>1. PICK w \in running :
          w.at = "connecting" \/ (w.at = "sent" /\ w.mode = Remembered(w.kind))
    BY <1>0 DEF Repaired
  <2>2. CASE w # c  BY <1>1, <2>1, <2>2
  <2>3. CASE w = c
    <3>1. c.mode = Remembered(c.kind)  BY <1>1, <2>1, <2>3
    <3>2. "Balanced" \in Names(modes.speed) /\ "Medium" \in Names(modes.waterspeed)
      BY <1>0 DEF Fitting, Named, TableOf
    <3>3. \E m : m \in FollowUp(c) /\ Named(Other(c.kind), m)
      BY <1>2, <3>1, <3>2 DEF FollowUp, Remembered, Other, Named, TableOf
    <3>4. PICK m \in follow : TRUE  BY <3>3
    <3>5. Connecting(c.slot, Other(c.kind), m) \in running'  BY <1>1, <3>4
    <3>6. QED  BY <1>3, <3>4, <3>5
  <2>4. QED  BY <2>2, <2>3
<1>7. Fitting(modes)'  BY <1>0, <1>1
<1>8. QED  BY <1>5, <1>6, <1>7 DEF IInv

\* A call that fails is remembered as refused.
LEMMA FailedKeeps ==
  ASSUME IInv, NEW c \in running, Failed(c)
  PROVE  IInv'
<1>0. TypeOK /\ Fitting(modes)  BY DEF IInv
<1>1. /\ running' = running \ {c} /\ trouble' = trouble \cup {"refused"}
      /\ UNCHANGED <<modes, fan, water, requests>>
  BY DEF Failed
<1>2. TypeOK'  BY <1>0, <1>1 DEF TypeOK, Call, Named, TableOf
<1>3. Repaired'  BY <1>1 DEF Repaired
<1>4. QED  BY <1>0, <1>1, <1>2, <1>3 DEF IInv

\* A step that changes nothing.
LEMMA StutterKeeps == IInv /\ UNCHANGED vars => IInv'
  BY DEF IInv, vars, TypeOK, Call, Named, TableOf, Repaired, Remembered

\* The inductive invariant holds in every reachable state.
THEOREM SyncInvariance == Spec => []IInv
<1>1. IInv /\ [Next]_vars => IInv'
  BY RequestKeeps, ConnectedKeeps, AnsweredKeeps, FailedKeeps, StutterKeeps DEF Next, Finish
<1>2. QED  BY <1>1, InitIInv, PTL DEF Spec

\* The names of the speeds and of the calls are names of the robot's tables.
THEOREM SyncTypeCorrect == Spec => []TypeOK
  BY SyncInvariance, PTL DEF IInv

\* setSpeed and setWaterSpeed leave fan and water "Custom" together or not at all, for
\* every robot of models.js and any number of calls in any order.
THEOREM CustomTogether == Spec => []SettledTogether
<1>1. IInv => SettledTogether  BY DEF IInv, Repaired, SettledTogether, Quiet
<1>2. QED  BY <1>1, SyncInvariance, PTL

-----------------------------------------------------------------------------
(* What HomeKit shows.                                                      *)

\* No two modes of a table have the same level.
Distinct(t) == \A i, j \in 1..Len(t) : t[i][2] = t[j][2] => i = j

\* The entries of a table of names and levels.
LEMMA Entries ==
  ASSUME NEW S, NEW names \in Seq(S), Len(names) \in 1..100, NEW levels
  PROVE  /\ Len(Table(names, levels)) = 1 + Len(names)
         /\ Table(names, levels)[1][2] = -1
         /\ \A i \in 1..Len(names) : Table(names, levels)[i + 1][2] = levels[i]
<1> DEFINE n == Len(names)
           off == <<"Off", -1>>
           rest == [i \in 1..n |-> <<names[i], levels[i]>>]
           T == {off} \cup {rest[i] : i \in 1..n}
           t == <<off>> \o rest
<1>1. n \in Nat /\ n >= 1 /\ n <= 100  BY Within, Zenon
<1>2. /\ \A i \in 1..n : rest[i][2] = levels[i]
      /\ off[2] = -1
  OBVIOUS
<1>3. rest \in Seq(T) /\ Len(rest) = n  BY <1>1, IsASeq
<1>4. off \in T  OBVIOUS
<1>5. Table(names, levels) = t  BY DEF Table
<1> HIDE DEF off, rest, T, n
<1>6. <<off>> \in Seq(T) /\ Len(<<off>>) = 1 /\ <<off>>[1] = off  BY <1>4
<1>7. /\ Len(t) = 1 + n
      /\ \A i \in 1..(1 + n) : t[i] = IF i <= 1 THEN <<off>>[i] ELSE rest[i - 1]
  BY <1>3, <1>6, ConcatProperties
<1> HIDE DEF t
<1>8. ASSUME NEW i \in 1..n  PROVE t[i + 1][2] = levels[i]
  <2>1. i + 1 \in 1..(1 + n) /\ ~(i + 1 <= 1) /\ (i + 1) - 1 = i  BY <1>1
  <2>2. t[i + 1] = rest[i]  BY <1>7, <2>1
  <2>3. QED  BY <1>2, <2>2
<1>9. t[1][2] = -1
  <2>1. 1 \in 1..(1 + n) /\ 1 <= 1  BY <1>1
  <2>2. t[1] = off  BY <1>6, <1>7, <2>1
  <2>3. QED  BY <1>2, <2>2
<1>10. QED  BY <1>5, <1>7, <1>8, <1>9 DEF n

\* Levels that differ from each other and from that of "Off" make a table whose modes
\* can be told apart.
LEMMA DistinctLevels ==
  ASSUME NEW S, NEW names \in Seq(S), Len(names) \in 1..100, NEW levels,
         \A i \in 1..Len(names) : levels[i] # -1,
         \A i, j \in 1..Len(names) : levels[i] = levels[j] => i = j
  PROVE  Distinct(Table(names, levels))
<1> DEFINE n == Len(names)
           t == Table(names, levels)
<1>1. n \in Nat /\ n >= 1 /\ n <= 100  BY Within, Zenon
<1>2. Len(t) = 1 + n /\ t[1][2] = -1 /\ \A i \in 1..n : t[i + 1][2] = levels[i]  BY Entries
<1>3. \A i \in 1..n : levels[i] # -1
  OBVIOUS
<1>4. \A i, j \in 1..n : levels[i] = levels[j] => i = j  OBVIOUS
<1> HIDE DEF n, t
<1>5. ASSUME NEW i \in 1..(1 + n)
      PROVE  i = 1 \/ (i - 1 \in 1..n /\ t[i][2] = levels[i - 1])
  <2>1. i = 1 \/ (i - 1 \in 1..n /\ (i - 1) + 1 = i)  BY <1>1
  <2>2. QED  BY <1>2, <2>1
<1>6. ASSUME NEW i \in 1..(1 + n), NEW j \in 1..(1 + n), t[i][2] = t[j][2]
      PROVE  i = j
  <2>1. CASE i = 1 /\ j = 1  BY <2>1
  <2>2. CASE i = 1 /\ j # 1  BY <1>2, <1>3, <1>5, <1>6, <2>2
  <2>3. CASE i # 1 /\ j = 1  BY <1>2, <1>3, <1>5, <1>6, <2>3
  <2>4. CASE i # 1 /\ j # 1
    <3>1. levels[i - 1] = levels[j - 1] /\ i - 1 \in 1..n /\ j - 1 \in 1..n
      BY <1>5, <1>6, <2>4
    <3>2. i - 1 = j - 1  BY <1>4, <3>1
    <3>3. QED  BY <1>1, <3>2
  <2>5. QED  BY <2>1, <2>2, <2>3, <2>4
<1>7. QED  BY <1>2, <1>6 DEF Distinct, t

\* The modes of every fan table can be told apart by their levels.
LEMMA SpeedsDistinct == \A g \in DOMAIN SPEEDMODES : Distinct(SPEEDMODES[g])
<1> DEFINE mop == <<"Mop">> \o Four
           xiaowa == <<"Gentle", "Silent", "Balanced", "Turbo", "Max">>
           soft == Soft \o <<"Custom">>
           max == Four \o <<"Max+", "Custom">>
           viomi == <<"Silent", "Standard", "Medium", "Turbo">>
<1>1. /\ mop \in Seq(Word) /\ Len(mop) = 5
      /\ soft \in Seq(Word) /\ Len(soft) = 6
      /\ max \in Seq(Word) /\ Len(max) = 6
  <2>1. /\ <<"Mop">> \in Seq(Word) /\ Len(<<"Mop">>) = 1
        /\ <<"Custom">> \in Seq(Word) /\ Len(<<"Custom">>) = 1
        /\ <<"Max+", "Custom">> \in Seq(Word) /\ Len(<<"Max+", "Custom">>) = 2
    BY DEF Word
  <2>2. mop \in Seq(Word) /\ Len(mop) = Len(<<"Mop">>) + Len(Four)  BY <2>1, Fours, Longer, Zenon
  <2>3. soft \in Seq(Word) /\ Len(soft) = Len(Soft) + Len(<<"Custom">>)
    BY <2>1, Fours, Longer, Zenon
  <2>4. max \in Seq(Word) /\ Len(max) = Len(Four) + Len(<<"Max+", "Custom">>)
    BY <2>1, Fours, Longer, Zenon
  <2>5. QED  BY <2>1, <2>2, <2>3, <2>4, Fours
<1>2. /\ xiaowa \in Seq(Word) /\ Len(xiaowa) = 5
      /\ viomi \in Seq(Word) /\ Len(viomi) = 4
  BY DEF Word
<1> HIDE DEF mop, xiaowa, soft, max, viomi
<1> DEFINE Apart(k, l) == /\ \A i \in 1..k : l[i] # -1
                          /\ \A i, j \in 1..k : l[i] = l[j] => i = j
<1>3. \A k \in {4, 5, 6} : \A names \in Seq(Word) : \A levels :
         Len(names) = k /\ Apart(k, levels) => Distinct(Table(names, levels))
  <2> SUFFICES ASSUME NEW k \in {4, 5, 6}, NEW names \in Seq(Word), NEW levels,
                      Len(names) = k, Apart(k, levels)
               PROVE  Distinct(Table(names, levels))
    OBVIOUS
  <2>1. Len(names) \in 1..100  OBVIOUS
  <2>2. QED  BY <2>1, DistinctLevels
<1>4. /\ Apart(4, <<38, 60, 77, 90>>) /\ Apart(4, <<38, 60, 75, 100>>)
      /\ Apart(4, <<101, 102, 103, 104>>) /\ Apart(4, <<0, 1, 2, 3>>)
  OBVIOUS
<1>5. /\ Apart(5, <<105, 38, 60, 75, 100>>) /\ Apart(5, <<41, 50, 68, 79, 100>>)
      /\ Apart(5, <<105, 101, 102, 103, 104>>)
  OBVIOUS
<1>6. /\ Apart(6, <<105, 101, 102, 103, 104, 106>>)
      /\ Apart(6, <<101, 102, 103, 104, 108, 106>>)
  OBVIOUS
<1> HIDE DEF Apart
<1>7. /\ Distinct(Table(Four, <<38, 60, 77, 90>>)) /\ Distinct(Table(Four, <<38, 60, 75, 100>>))
      /\ Distinct(Table(Four, <<101, 102, 103, 104>>))
      /\ Distinct(Table(viomi, <<0, 1, 2, 3>>))
  BY <1>2, <1>3, <1>4, Fours, Zenon
<1>8. /\ Distinct(Table(mop, <<105, 38, 60, 75, 100>>))
      /\ Distinct(Table(xiaowa, <<41, 50, 68, 79, 100>>))
      /\ Distinct(Table(Soft, <<105, 101, 102, 103, 104>>))
  BY <1>1, <1>2, <1>3, <1>5, Fours, Zenon
<1>9. /\ Distinct(Table(soft, <<105, 101, 102, 103, 104, 106>>))
      /\ Distinct(Table(max, <<101, 102, 103, 104, 108, 106>>))
  BY <1>1, <1>3, <1>6, Zenon
<1>10. QED
  BY <1>7, <1>8, <1>9 DEF SPEEDMODES, mop, xiaowa, soft, max, viomi

\* So can those of every water table.
LEMMA WatersDistinct == \A g \in DOMAIN WATERMODES : Distinct(WATERMODES[g])
<1> DEFINE gen1 == <<<<"Off", 200>>, <<"Light", 201>>, <<"Medium", 202>>, <<"High", 203>>>>
           last == <<"Custom", 204>>
           custom == Append(gen1, last)
           S == {gen1[1], gen1[2], gen1[3], gen1[4], last}
<1>1. WATERMODES = [none |-> <<>>, gen1 |-> gen1, gen1_custom |-> custom]  BY DEF WATERMODES
<1>2. gen1 \in Seq(S) /\ Len(gen1) = 4  OBVIOUS
<1>3. last \in S  OBVIOUS
<1>4. last[2] = 204 /\ \A i \in 1..4 : gen1[i][2] = 199 + i  OBVIOUS
<1> HIDE DEF gen1, S, last
<1>5. Len(custom) = 5 /\ (\A i \in 1..4 : custom[i] = gen1[i]) /\ custom[5] = last
  <2>1. Len(custom) = Len(gen1) + 1 /\ \A i \in 1..Len(gen1) : custom[i] = gen1[i]
    BY <1>2, <1>3, Appended, Zenon
  <2>2. custom[Len(gen1) + 1] = last  BY <1>2, <1>3, AppendedLast, Zenon
  <2> HIDE DEF custom
  <2>3. Len(custom) = 5 /\ custom[5] = last
    <3>1. 4 + 1 = 5  OBVIOUS
    <3>2. QED  BY <1>2, <2>1, <2>2, <3>1, Zenon
  <2>4. QED  BY <1>2, <2>1, <2>3, Zenon
<1> HIDE DEF custom
<1>6. \A i \in 1..5 : custom[i][2] = 199 + i
  <2>1. \A i \in 1..5 : i \in 1..4 \/ i = 5  OBVIOUS
  <2>2. QED  BY <1>4, <1>5, <2>1
<1>7. Distinct(gen1) /\ Distinct(custom)  BY <1>2, <1>4, <1>5, <1>6 DEF Distinct
<1>8. Distinct(<<>>)  BY DEF Distinct
<1>9. QED  BY <1>1, <1>7, <1>8

\* Where the steps of the slider are whole percentages, its stops are the top levels,
\* and each of them selects its own mode.
LEMMA StopsApart ==
  ASSUME NEW n \in Sizes, 100 % (n - 1) = 0
  PROVE  Cardinality({Select(n, v) : v \in Stops(n)}) = n
<1>1. n \in Nat /\ n >= 2 /\ n <= 101 /\ n - 1 \in 1..100  BY DEF Sizes
<1>2. n - 1 \in {1, 2, 4, 5, 10, 20, 25, 50, 100}  BY <1>1
<1>3. ASSUME NEW i \in 0..(n - 1)
      PROVE  (i * 100) \div (n - 1) = TopLevel(n, i + 1)
  BY <1>1, <1>2, <1>3 DEF TopLevel
<1>4. ASSUME NEW i \in 0..(n - 1)
      PROVE  i + 1 \in 1..n /\ Select(n, (i * 100) \div (n - 1)) = i + 1
  <2>1. i + 1 \in 1..n  BY <1>1
  <2>2. QED  BY <1>3, <2>1, SelectsItself
<1>5. {Select(n, v) : v \in Stops(n)} = 1..n
  <2>1. \A v \in Stops(n) : Select(n, v) \in 1..n  BY <1>4 DEF Stops
  <2>2. ASSUME NEW k \in 1..n
        PROVE  \E v \in Stops(n) : Select(n, v) = k
    <3>1. k - 1 \in 0..(n - 1) /\ (k - 1) + 1 = k  BY <1>1
    <3>2. Select(n, ((k - 1) * 100) \div (n - 1)) = k  BY <1>4, <3>1
    <3>3. QED  BY <3>1, <3>2 DEF Stops
  <2>3. QED  BY <2>1, <2>2
<1>6. Cardinality(1..n) = n  BY <1>1, FS_Interval
<1>7. QED  BY <1>5, <1>6

\* A table that percentages can look up and whose modes have levels of their own shows
\* what selects itself.
LEMMA TableShows ==
  ASSUME NEW t, IsTable(t), Distinct(t)
  PROVE  /\ \A i \in 1..Len(t) : \A v \in Shown(t, t[i][2]) : Select(Len(t), v) = i
         /\ Len(t) > 1 /\ 100 % (Len(t) - 1) = 0 =>
              Cardinality({Select(Len(t), v) : v \in Stops(Len(t))}) = Len(t)
<1>1. CASE t = <<>>
  <2>1. Len(t) = 0 /\ 1..Len(t) = {}  BY <1>1
  <2>2. QED  BY <2>1
<1>2. CASE Len(t) \in Sizes
  <2>1. ASSUME NEW i \in 1..Len(t)
        PROVE  \A v \in Shown(t, t[i][2]) : Select(Len(t), v) = i
    <3>1. \A j \in 1..Len(t) : t[j][2] = t[i][2] => j = i  BY DEF Distinct
    <3>2. /\ Shown(t, t[i][2]) = {TopLevel(Len(t), i)}
          /\ Select(Len(t), TopLevel(Len(t), i)) = i
      BY <1>2, <3>1, ShownIsSelected
    <3>3. QED  BY <3>2
  <2>2. QED  BY <1>2, <2>1, StopsApart
<1>3. QED  BY <1>1, <1>2 DEF IsTable

\* The levels of both speeds of a robot tell their modes apart.
Telling(ms) == Distinct(ms.speed) /\ Distinct(ms.waterspeed)

\* This is so for every robot.
LEMMA RobotsTelling ==
  ASSUME NEW m \in DOMAIN MODELS, NEW recent \in BOOLEAN
  PROVE  Telling(FindSpeedModes(m, recent))
<1>1. ASSUME NEW g \in DOMAIN SPEEDMODES, NEW w \in DOMAIN WATERMODES
      PROVE  Telling(Has(g, w))
  BY SpeedsDistinct, WatersDistinct DEF Telling, Has
<1>2. /\ DOMAIN SPEEDMODES = {"gen1", "gen2", "gen2_no_mop", "xiaowa", "gen3", "gen4",
                              "gen4_custom", "gen5", "viomi"}
      /\ DOMAIN WATERMODES = {"none", "gen1", "gen1_custom"}
  BY DEF SPEEDMODES, WATERMODES
<1>3. \E g \in DOMAIN SPEEDMODES, w \in DOMAIN WATERMODES : MODELS[m] = Has(g, w)
  BY <1>2 DEF MODELS
<1>4. Telling(MODELS[m]) /\ Telling(Has("gen4", "none"))  BY <1>1, <1>2, <1>3
<1>5. QED  BY <1>4 DEF FindSpeedModes

\* What HomeKit is shown for a level selects that level when it comes back, for both
\* speeds of every robot of models.js, and no mode is out of reach of a slider whose
\* steps are whole percentages.
THEOREM ShownStays == Spec => []ShownSelectsItself
<1>1. Init => Telling(modes)  BY Bounds, RobotsTelling DEF Init
<1>2. Telling(modes) /\ [Next]_vars => Telling(modes)'
  BY DEF Next, Finish, Request, Connected, Answered, Failed, vars
<1>3. IInv /\ Telling(modes) => ShownSelectsItself
  <2> SUFFICES ASSUME IInv, Telling(modes), NEW kind \in {"fan", "water"}
               PROVE  /\ \A i \in 1..Len(TableOf(kind)) :
                           \A v \in Shown(TableOf(kind), TableOf(kind)[i][2]) :
                             Select(Len(TableOf(kind)), v) = i
                      /\ Len(TableOf(kind)) > 1 /\ 100 % (Len(TableOf(kind)) - 1) = 0 =>
                           Cardinality({Select(Len(TableOf(kind)), v) :
                                          v \in Stops(Len(TableOf(kind)))}) = Len(TableOf(kind))
    BY Zenon DEF ShownSelectsItself
  <2>1. IsTable(TableOf(kind)) /\ Distinct(TableOf(kind))
    BY DEF IInv, Fitting, Telling, TableOf
  <2>2. QED  BY <2>1, TableShows
<1>4. QED  BY <1>1, <1>2, <1>3, SyncInvariance, PTL DEF Spec
=============================================================================
