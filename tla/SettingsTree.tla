---------------------------- MODULE SettingsTree ----------------------------
(***************************************************************************)
(* The settings of a Sber speaker as entities: the tree of screens that    *)
(* the cloud sends (aiosber/api/settings.py, aiosber/dto/settings.py), the *)
(* entities made of its nodes (sbermap/transform/staros_settings.py), what *)
(* they show and what they write (switch.py, select.py, number.py).        *)
(* The equalizer, a node of several entities, is the module Equalizer.     *)
(*                                                                         *)
(* A value is a pair of its JSON type and itself; fractions are in tenths. *)
(***************************************************************************)
EXTENDS Integers, Sequences, SequencesExt, FiniteSets

CONSTANTS
    Trees,      \* trees of a speaker: the nodes of each screen
    MaxDepth,   \* _MAX_SCREEN_DEPTH
    MaxChanges  \* bound on the writes and the changes in the app

VARIABLES
    tree,       \* the speaker's screens: their nodes do not change
    values,     \* the cloud: the value of each setting
    shown,      \* staros_settings_entities
    outdated,   \* the app changed a setting since the last read (history)
    changes     \* how many writes and changes there were

vars == <<tree, values, shown, outdated, changes>>

Nothing == <<"null", 0>>
TogglesOf == {"TOGGLE", "UI_TOGGLE_SWITCHER"}
SelectsOf == {"RADIO_BUTTONS", "SELECT"}
SlidersOf == {"SLIDER", "SLIDER_V2", "STARCAST_VOLUME"}
Decor     == {"SECTION_HEADER", "SETTINGS_GROUP", "CARD"}

-------------------------------------------------------------------------------
(* The tree *)

\* get_settings_deep() and the walk of map_settings_screen_to_entities(): a node, its
\* items, then the screen that it opens, each screen once and to a certain depth; seen holds
\* the screens with the depth at which each was opened
RECURSIVE Walk(_, _, _)
Walk(nodes, done, depth) ==
    IF nodes = <<>> THEN done
    ELSE LET node  == Head(nodes)
             items == Walk(node.items, [done EXCEPT !.out = Append(@, node)], depth)
             opens == /\ node.opens /\ node.id # "" /\ depth < MaxDepth
                      /\ \A s \in items.seen : s[1] # node.id
             screen == IF opens
                       THEN Walk(tree[node.id],
                                 [items EXCEPT !.seen = @ \union {<<node.id, depth + 1>>}],
                                 depth + 1)
                       ELSE items
         IN  Walk(Tail(nodes), screen, depth)

Walked == Walk(tree["root"], [out |-> <<>>, seen |-> {}], 0)
Nodes == Walked.out

\* Bounds that are missing come from minMaxStep.
Bounds(node) == IF node.bounds = <<>> THEN node.minMaxStep ELSE node.bounds

-------------------------------------------------------------------------------
(* Entities *)

IsBool(v) == v[1] = "bool"

\* _node_to_entity(): by the type, and for a type yet unknown by the data
Platform(node, v) ==
    CASE node.id = "" \/ node.type = "" \/ node.type \in Decor -> "none"
      [] node.type \in TogglesOf -> "switch"
      [] node.type \in SelectsOf -> "select"
      [] node.type \in SlidersOf -> "number"
      [] OTHER -> IF IsBool(v) /\ node.options = <<>> THEN "switch"
                  ELSE IF node.options # <<>> THEN "select"
                  ELSE IF node.bounds # <<>> THEN "number" ELSE "none"

Truth(v) == v \notin {Nothing, <<"bool", FALSE>>, <<"int", 0>>, <<"float", 0>>, <<"str", "">>}

\* What an entity keeps of a value from the cloud.
Kept(platform, v) ==
    IF platform = "switch" THEN <<"bool", Truth(v)>> ELSE v

Entity(node, v) ==
    [id |-> node.id, type |-> node.type, platform |-> Platform(node, v),
     state |-> Kept(Platform(node, v), v), options |-> node.options, bounds |-> Bounds(node)]

\* Mutant: an id that two screens have makes two entities.
AllEntities(seq) == seq

\* _add(): the first entity of an id
FirstOfEach(seq) ==
    LET firsts == {i \in DOMAIN seq : \A j \in 1 .. i - 1 : seq[j].id # seq[i].id}
    IN  [k \in 1 .. Cardinality(firsts) |->
            seq[CHOOSE i \in firsts : Cardinality({j \in firsts : j <= i}) = k]]

Entities ==
    LET nodes == Nodes
        all   == [i \in DOMAIN nodes |-> Entity(nodes[i], values[nodes[i].id])]
    IN  FirstOfEach(SelectSeq(all, LAMBDA e : e.platform # "none"))

\* The label of an option is its title, or its value.
Label(option) == IF option.title = "" THEN option.value ELSE option.title

Tenths(v) == IF v[1] = "int" THEN v[2] * 10 ELSE v[2]

\* is_on
SwitchShows(e) == <<e.id, "switch", e.state[2]>>

\* current_option
SelectShows(e) ==
    LET now == {i \in DOMAIN e.options : <<"str", e.options[i].value>> = e.state}
    IN  IF now = {} THEN <<e.id, "unknown">>
        ELSE <<e.id, "select", Label(e.options[CHOOSE i \in now : TRUE])>>

\* native_value
NumberShows(e) ==
    IF e.state = Nothing THEN <<e.id, "unknown">> ELSE <<e.id, "number", Tenths(e.state)>>

Display(e) ==
    CASE e.platform = "switch" -> SwitchShows(e)
      [] e.platform = "select" -> SelectShows(e)
      [] e.platform = "number" -> NumberShows(e)

-------------------------------------------------------------------------------
(* Writing *)

\* What a user may ask of an entity.
Asked(e) ==
    CASE e.platform = "switch" -> {<<"bool", b>> : b \in BOOLEAN}
      [] e.platform = "number" -> {<<"float", x>> : x \in {e.bounds[1], e.bounds[2]}}
      [] e.platform = "select" -> {<<"str", e.options[i].value>> : i \in DOMAIN e.options}

\* Mutant: a slider sends whole numbers only.
Truncated(type, v) == IF type \in SlidersOf THEN <<"int", v[2] \div 10>> ELSE v

\* build_staros_value(): a slider sends a whole number as one.
WireValue(type, v) ==
    IF type \in SlidersOf /\ v[2] % 10 = 0 THEN <<"int", v[2] \div 10>> ELSE v

\* _optimistic_staros_state()
Set(id, v) ==
    shown' = [i \in DOMAIN shown |-> IF shown[i].id = id THEN [shown[i] EXCEPT !.state = v]
                                     ELSE shown[i]]

\* The values a node may have in the cloud.
InCloud(node) ==
    IF node.options # <<>> THEN {<<"str", node.options[i].value>> : i \in DOMAIN node.options}
                                \union {Nothing}
    ELSE IF Bounds(node) # <<>> THEN {<<"int", Bounds(node)[1] \div 10>>, <<"float", 15>>, Nothing}
    ELSE IF node.type \in Decor THEN {Nothing} ELSE {<<"bool", b>> : b \in BOOLEAN}

-------------------------------------------------------------------------------

Init ==
    /\ tree \in Trees
    /\ LET nodes == Range(Nodes)
       IN  values = [id \in {node.id : node \in nodes} |->
                        CHOOSE v \in UNION {InCloud(node) : node \in nodes} :
                            \A node \in nodes : node.id = id => v \in InCloud(node)]
    /\ shown = Entities /\ outdated = FALSE /\ changes = 0

\* _refresh_staros()
Read ==
    /\ shown' = Entities /\ outdated' = FALSE
    /\ UNCHANGED <<tree, values, changes>>

\* async_set_staros_setting(), with its answer
Write(e, v) ==
    /\ changes < MaxChanges /\ changes' = changes + 1
    /\ values' = [values EXCEPT ![e.id] = WireValue(e.type, v)]
    /\ Set(e.id, v)
    /\ UNCHANGED <<tree, outdated>>

ChangedInApp(node) ==
    /\ changes < MaxChanges /\ changes' = changes + 1
    /\ \E v \in InCloud(node) : values' = [values EXCEPT ![node.id] = v]
    /\ outdated' = TRUE
    /\ UNCHANGED <<tree, shown>>

Next ==
    \/ Read
    \/ \E i \in DOMAIN shown : \E v \in Asked(shown[i]) : Write(shown[i], v)
    \/ \E node \in Range(Nodes) : ChangedInApp(node)

Spec == Init /\ [][Next]_vars

-------------------------------------------------------------------------------
(* Properties *)

\* What was written is shown as the next read will show it, whatever type the
\* conversions to the cloud and back give it.
Displays(entities) == [i \in DOMAIN entities |-> Display(entities[i])]
ShownAsRead == ~outdated => Displays(shown) = Displays(Entities)

\* The screens met at the last depth first, the cards on which are never opened, not even
\* when a shorter way leads there.
Late == {s[1] : s \in {x \in Walked.seen : x[2] = MaxDepth}}

\* Every setting that can be set has one entity and not two, also when screens lead to one
\* another or show the same setting: on every screen that so many cards lead to as are
\* opened in a row, unless they lead there by a late screen alone.
On(screen) == Range(screen) \union UNION {Range(node.items) : node \in Range(screen)}
Screens[d \in 0 .. MaxDepth] ==
    IF d = 0 THEN {"root"}
    ELSE LET nodes == UNION {On(tree[s]) : s \in Screens[d - 1] \ Late}
         IN  Screens[d - 1] \union {node.id : node \in {n \in nodes : n.opens}}
CanBeSet ==
    LET reached == UNION {On(tree[s]) : s \in Screens[MaxDepth]}
    IN  {node \in reached : Platform(node, values[node.id]) # "none"}
OnePerSetting ==
    /\ {node.id : node \in CanBeSet} = {e.id : e \in Range(Entities)}
    /\ IsInjective([i \in DOMAIN shown |-> shown[i].id])
===============================================================================
