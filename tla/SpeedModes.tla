------------------------------- MODULE SpeedModes -------------------------------
(***************************************************************************)
(* The speeds of a robot as tables: models/speedmodes.js lists the modes of   *)
(* each generation and gives them top levels for HomeKit, models/models.js    *)
(* says which model has which generation, and setSpeed and changedSpeed of     *)
(* index.js look percentages, names and levels of the robot up.  A table is a  *)
(* sequence of modes <<name, miLevel>>; the first one is "Off", at -1.         *)
(***************************************************************************)
EXTENDS Integers, Sequences

Percent == 0..100

-----------------------------------------------------------------------------
\* A table of the names and levels after "Off".
Table(names, levels) ==
  <<<<"Off", -1>>>> \o [i \in 1..Len(names) |-> <<names[i], levels[i]>>]

Four == <<"Quiet", "Balanced", "Turbo", "Max">>
Soft == <<"Soft">> \o Four

SPEEDMODES ==
  [gen1 |-> Table(Four, <<38, 60, 77, 90>>),
   gen2 |-> Table(<<"Mop">> \o Four, <<105, 38, 60, 75, 100>>),
   gen2_no_mop |-> Table(Four, <<38, 60, 75, 100>>),
   xiaowa |-> Table(<<"Gentle", "Silent", "Balanced", "Turbo", "Max">>, <<41, 50, 68, 79, 100>>),
   gen3 |-> Table(Four, <<101, 102, 103, 104>>),
   gen4 |-> Table(Soft, <<105, 101, 102, 103, 104>>),
   gen4_custom |-> Table(Soft \o <<"Custom">>, <<105, 101, 102, 103, 104, 106>>),
   gen5 |-> Table(Four \o <<"Max+", "Custom">>, <<101, 102, 103, 104, 108, 106>>),
   viomi |-> Table(<<"Silent", "Standard", "Medium", "Turbo">>, <<0, 1, 2, 3>>)]

\* models/watermodes.js is not in the repository; setSpeed names two of its modes.
WATERMODES ==
  LET gen1 == <<<<"Off", 200>>, <<"Light", 201>>, <<"Medium", 202>>, <<"High", 203>>>>
  IN [none |-> <<>>, gen1 |-> gen1, gen1_custom |-> Append(gen1, <<"Custom", 204>>)]

\* What a model has: the generations of its fan and of its water box.
Has(speed, water) == [speed |-> SPEEDMODES[speed], waterspeed |-> WATERMODES[water]]

\* The models of models.js by the tables that they have; s5 has two, by firmware.
MODELS ==
  [v1 |-> Has("gen2_no_mop", "none"), c1 |-> Has("gen1", "none"),
   m1s |-> Has("gen3", "none"), t6 |-> Has("gen3", "none"), t4 |-> Has("gen3", "none"),
   a08 |-> Has("gen3", "none"), s5 |-> Has("gen2", "none"), s6 |-> Has("gen4", "none"),
   s5e |-> Has("gen4_custom", "gen1"), e2 |-> Has("xiaowa", "none"),
   a09 |-> Has("gen4_custom", "gen1_custom"), a10 |-> Has("gen4_custom", "gen1_custom"),
   a11 |-> Has("gen4_custom", "gen1_custom"), a15 |-> Has("gen4_custom", "gen1_custom"),
   a23 |-> Has("gen5", "gen1_custom"), viomi |-> Has("viomi", "none"),
   mc1808 |-> Has("viomi", "none")]

\* findSpeedModes: an s5 whose firmware is recent has the modes of the s6, a model
\* that is not listed the default ones.
FindSpeedModes(model, recent) ==
  IF (model = "s5" /\ recent) \/ model \notin DOMAIN MODELS THEN Has("gen4", "none")
  ELSE MODELS[model]

-----------------------------------------------------------------------------
\* homekitTopLevel of mode i of n: proportional steps, rounded down, and 100 for the
\* last mode.
TopLevel(n, i) == IF i = n THEN 100 ELSE (i - 1) * (100 \div (n - 1))

\* setSpeed, setWaterSpeed: the first mode whose top level is not below the
\* percentage (the mistake: the first one whose top level is above it).
WrongSelect(n, v) ==
  CHOOSE i \in 1..n :
    /\ v < TopLevel(n, i) \/ i = n
    /\ \A j \in 1..(i - 1) : v >= TopLevel(n, j)

Select(n, v) ==
  LET safe == IF v > TopLevel(n, n) THEN TopLevel(n, n) ELSE v
  IN CHOOSE i \in 1..n :
       /\ safe <= TopLevel(n, i)
       /\ \A j \in 1..(i - 1) : safe > TopLevel(n, j)

\* findSpeedModeFromMiio, findWaterSpeedModeFromMiio: the modes with that level.
FromMiio(table, level) == {i \in 1..Len(table) : table[i][2] = level}

\* changedSpeed, changedWaterSpeed: what HomeKit is shown when the robot reports a
\* level; one that no mode has is not shown.
Shown(table, level) == {TopLevel(Len(table), i) : i \in FromMiio(table, level)}

\* The name of the mode that a percentage selects, and the names that there are.
NameAt(table, v) == table[Select(Len(table), v)][1]

Names(table) == {table[i][1] : i \in 1..Len(table)}

\* The percentages at which the slider stops: minStep is not rounded, but what the
\* plugin gets of it is (parseInt).
Stops(n) == {(i * 100) \div (n - 1) : i \in 0..(n - 1)}
=============================================================================
