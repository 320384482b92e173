---------------------------- MODULE MCConversions ----------------------------
(***************************************************************************)
(* Three parts of the integration that share no state, in one run: the     *)
(* initial state picks the part, whose variables are the first of the five *)
(* slots x1 to x5; the slot it leaves over stays blank.                    *)
(***************************************************************************)
EXTENDS Integers, Sequences, FiniteSets, TLC

CONSTANTS
    Prefixes, Suffixes, MaxRenames,                         \* Category
    Stored, Names, Usable, Spoken, Drawn, Ordered, Zone, MaxDepth, MaxNodes, MaxEdits,
                                                            \* ScenarioCodec
    Trees, MaxScreens, MaxChanges                           \* SettingsTree: its MaxDepth

VARIABLES part, x1, x2, x3, x4, x5

vars == <<part, x1, x2, x3, x4, x5>>

Categories == INSTANCE Category WITH image <- x1, slug <- x2, truth <- x3, renames <- x4
Scenarios == INSTANCE ScenarioCodec WITH wire <- x1, form <- x2, meant <- x3, status <- x4,
        edits <- x5
Settings == INSTANCE SettingsTree WITH tree <- x1, values <- x2, shown <- x3,
        outdated <- x4, changes <- x5, MaxDepth <- MaxScreens

Init ==
    \/ part = "category" /\ Categories!Init /\ x5 = 0
    \/ part = "scenario" /\ Scenarios!Init
    \/ part = "settings" /\ Settings!Init

Next ==
    /\ part' = part
    /\ \/ part = "category" /\ Categories!Next /\ UNCHANGED x5
       \/ part = "scenario" /\ Scenarios!Next
       \/ part = "settings" /\ Settings!Next

Spec == Init /\ [][Next]_vars

(***************************************************************************)
(* The properties, each for the parts it is about, with their types.       *)
(***************************************************************************)

\* A device is of one category whatever name Sber gives its image, and every setting of a
\* speaker has one entity, that shows what a read will confirm.
ReadAsMeant ==
    /\ part = "category" => Categories!TypeOK /\ Categories!StaysItself
    /\ part = "settings" => Settings!ShownAsRead /\ Settings!OnePerSetting

\* A scenario edited in the panel is saved as its form shows it, with all the panel could
\* not read whole and in its place, and one that was only opened is refused for nothing but
\* what the panel asks of every scenario.
ScenariosSavedAsMeant ==
    part = "scenario" => Scenarios!SavedAsMeant /\ Scenarios!UntouchedAccepted

(***************************************************************************)
(* Scenarios: what the mobile application may have made, with fields and   *)
(* kinds the editor knows and some it does not.                            *)
(***************************************************************************)
MCNode(kind, of, kids, delay, extra) ==
    [kind |-> kind, of |-> of, kids |-> kids, delay |-> delay, extra |-> extra]
Lit    == MCNode("DEVICE", <<"lamp", "on", "EQUAL">>, <<>>, 15, "x")
Hot    == MCNode("DEVICE", <<"lamp", "hot", "EQUAL">>, <<>>, 0, "")
Odd    == MCNode("DEVICE", <<"lamp", "on", "BETWEEN">>, <<>>, 0, "")
Opened == MCNode("CHECK_DEVICE", <<"door", "open", "EQUAL">>, <<>>, 0, "x")
Active == MCNode("CHECK_SCENARIO", <<"sc", "active">>, <<>>, 0, "x")
Place  == MCNode("GEO", <<"home">>, <<>>, 0, "")
Said(words) ==
    MCNode("PHRASES", <<>>,
           [i \in DOMAIN words |-> MCNode("phrase", <<words[i]>>, <<>>, 0, "")], 0, "")
At(zone, rule, extra) == MCNode("TIME", <<zone, "start", rule>>, <<>>, 0, extra)
AllOf(kids) == MCNode("CONDITIONS", <<"AND">>, kids, 0, "x")
OneOf(kids) == MCNode("CONDITIONS", <<"OR">>, kids, 0, "x")
MCConditions ==
    {Said(<<"a", "b">>), At("msk", "daily", ""), At("omsk", "daily", ""), At("msk", "odd", ""),
     At("msk", "daily", "x"), Lit, Place, AllOf(<<Lit, Opened>>), AllOf(<<Said(<<"a">>), Lit>>),
     AllOf(<<At("msk", "daily", ""), Lit>>), AllOf(<<Odd, Opened>>), AllOf(<<Odd, Lit, Opened>>),
     OneOf(<<>>), OneOf(<<Said(<<"b">>), Odd>>), OneOf(<<Said(<<"a">>), Lit, Said(<<"b", "a">>)>>),
     OneOf(<<Said(<<"a">>), OneOf(<<Lit, Hot>>)>>),
     OneOf(<<OneOf(<<Said(<<"b">>), Lit>>), Said(<<"a">>)>>),
     OneOf(<<AllOf(<<Said(<<"b">>), Lit>>), Said(<<"a">>)>>),
     OneOf(<<AllOf(<<Lit, Hot>>), At("msk", "daily", "x")>>),
     OneOf(<<OneOf(<<AllOf(<<Lit, Active>>), Hot>>), Place>>),
     OneOf(<<OneOf(<<AllOf(<<Lit, Opened>>), AllOf(<<Hot, Active>>)>>), Said(<<"a">>)>>)}

Task(kind, of, kids, delay, extra) == MCNode(kind, of, kids, delay, extra)
State(mode, key) == MCNode(mode, <<key, "1">>, <<>>, 0, "")
Told(period, part_, extra) ==
    MCNode("HEAD_DIALOG", <<period, part_, "speaker", "t">>, <<>>, 0, extra)
Say    == Task("PRONOUNCE", <<"hi", "speaker">>, <<>>, 15, "x")
Turn   == Task("DEVICE_COMMAND", <<"lamp">>,
               <<State("INVERT", "on"), State("RELATIVE", "level"), State("RANGE_SET", "hue")>>,
               0, "")
Query  == Task("OTHER", <<"q">>, <<>>, 25, "x")
Regime(commands) == Task("REGIME", <<>>, commands, 20, "x")
MCTasks ==
    {<<>>, <<Say, Turn>>,
     <<Regime(<<Told("morning", "common", "x"), Told("night", "common", "")>>), Say>>,
     <<Regime(<<Told("morning", "common", "x"), Told("morning", "common", "")>>), Say>>,
     <<Regime(<<Told("morning", "weekend", "x")>>)>>,
     <<Query>>, <<Query, Say>>, <<Say, Query, Turn>>,
     <<Task("DEVICE_COMMAND", <<"lamp">>, <<>>, 0, "")>>,
     <<Task("SMS", <<>>, <<>>, 0, "x"), Task("NOTIFY", <<>>, <<>>, 0, "")>>,
     <<Task("SET_ACTIVE", <<"s", "true">>, <<>>, 0, ""),
       Task("HEAD_DIALOG", <<"speaker", "t">>, <<>>, 0, "")>>}
Scenario(name, steps, zone) == [name |-> name, steps |-> steps, zone |-> zone, active |-> TRUE]
StepOf(condition, tasks) == [condition |-> condition, tasks |-> tasks]
\* One step, with every condition and every list of tasks, more of them, and none at all.
MCStored ==
    {Scenario("name", <<StepOf(c, <<Say>>)>>, "msk") : c \in MCConditions}
    \union {Scenario("name", <<StepOf(Said(<<"a">>), t)>>, "omsk") : t \in MCTasks}
    \union {Scenario("name", <<StepOf(Said(<<"a">>), <<Say>>),
                              StepOf(OneOf(<<Lit, Said(<<"b", "a">>)>>), <<Turn>>)>>, "msk"),
             Scenario("name", <<StepOf(Lit, <<>>),
                              StepOf(At("msk", "odd", "x"), <<Say, Query>>)>>, "msk"),
             Scenario("latin", <<StepOf(Lit, <<Say>>)>>, "msk"),
             Scenario("name", <<>>, "msk")}
MCDrawn ==
    {MCNode("DEVICE", <<"", "", "EQUAL">>, <<>>, 0, ""),
     MCNode("DEVICE", <<"fan", "on", "EQUAL">>, <<>>, 0, ""),
     MCNode("CHECK_DEVICE", <<"door", "open", "EQUAL">>, <<>>, 0, ""),
     At("msk", "daily", ""), MCNode("CONDITIONS", <<"AND">>, <<>>, 0, "")}
MCOrdered ==
    {Task("NOTIFY", <<>>, <<>>, 0, ""), Task("PRONOUNCE", <<"hey", "speaker">>, <<>>, 0, "")}

(***************************************************************************)
(* Screens of a speaker: with cards that lead back, a setting on two of    *)
(* them, groups, nodes without an id and types that are not known yet, and *)
(* a screen that a longer way and then a shorter one lead to.              *)
(***************************************************************************)
NodeOf(id, type, options, bounds, minMaxStep, items, opens) ==
    [id |-> id, type |-> type, options |-> options, bounds |-> bounds,
     minMaxStep |-> minMaxStep, items |-> items, opens |-> opens]
SwitchOf(id) == NodeOf(id, "TOGGLE", <<>>, <<>>, <<>>, <<>>, FALSE)
Volume == NodeOf("volume", "SLIDER", <<>>, <<>>, <<0, 15>>, <<>>, FALSE)
Theme == NodeOf("theme", "RADIO_BUTTONS",
              <<[value |-> "dark", title |-> "Dark"], [value |-> "light", title |-> ""]>>,
              <<>>, <<>>, <<>>, FALSE)
Unknown(id, options, bounds) == NodeOf(id, "NEW", options, bounds, <<>>, <<>>, FALSE)
CardOf(id, opens) == NodeOf(id, "CARD", <<>>, <<>>, <<>>, <<>>, opens)
ItemsOf(items) == NodeOf("group", "SETTINGS_GROUP", <<>>, <<>>, <<>>, items, FALSE)
MCTrees ==
    {"root" :> <<SwitchOf("child"), CardOf("light", TRUE), Volume>>
        @@ "light" :> <<ItemsOf(<<Theme, SwitchOf("child")>>), CardOf("light", TRUE)>>,
     "root" :> <<SwitchOf(""), ItemsOf(<<Unknown("a", <<>>, <<>>), CardOf("more", TRUE)>>)>>
        @@ "more" :> <<Unknown("b", Theme.options, <<>>), CardOf("last", TRUE)>>
        @@ "last" :> <<Unknown("c", <<>>, <<0, 20>>), CardOf("more", TRUE), SwitchOf("d")>>,
     "root" :> <<CardOf("way", TRUE), CardOf("far", TRUE), CardOf("side", TRUE)>>
        @@ "way" :> <<CardOf("far", TRUE), SwitchOf("w")>>
        @@ "far" :> <<SwitchOf("f"), CardOf("end", TRUE), CardOf("rim", TRUE)>>
        @@ "side" :> <<CardOf("rim", TRUE)>>
        @@ "end" :> <<SwitchOf("e")>> @@ "rim" :> <<SwitchOf("r")>>}
===============================================================================
