------------------------------ MODULE MCEntities ------------------------------
(***************************************************************************)
(* The entities of one device and the verdicts on their commands, parts    *)
(* that share no state, in one run: the initial state picks the part,      *)
(* which alone moves.  What the entities of a part are about is its        *)
(* thing; the variables a part has no use for stay blank.                  *)
(***************************************************************************)
EXTENDS CommandTracking, Integers, TLC

CONSTANTS
    Configs, Brightnesses, Colours, Kelvins, Raw,           \* Lamp
    Levels,                                                 \* Indicator: its Brightnesses
    Places, Whole, Broken, Selectable, MaxTime,                \* Features
    Targets,                                                \* Climate
    Positions, Instants                                     \* Cover: its MaxTime

VARIABLES
    part,       \* the part that moves, fixed
    thing,      \* what the lamp can do, or the category of the device
    server,     \* what Sber has of it: for a lamp its desired state, for the ring its colours
    cache,      \* the integration's copy of it
    asked,      \* history: what was asked for, set or told last
    now,        \* Features, Cover: the last instant at which something happened
    key,        \* Features: the attribute
    declared,   \* Features: its type
    sending,    \* Indicator: the PUTs under way
    device      \* Cover: the device itself

views == <<thing, server, cache, asked, now, key, declared, sending, device>>
entityVars == <<vars, part, views>>

Lamps == INSTANCE Lamp WITH config <- thing, lamp <- server
Rings == INSTANCE Indicator WITH cloud <- server, colours <- cache, Brightnesses <- Levels
Attributes == INSTANCE Features WITH category <- thing, latest <- asked
Climates == INSTANCE Climate WITH unit <- thing, wanted <- asked
Covers == INSTANCE Cover WITH kind <- thing, halted <- asked, MaxTime <- Instants

(***************************************************************************)
(* What the constants of the parts may be.  A range a device describes has *)
(* a least and a greatest value, neither below zero.  Numbers of Features  *)
(* and Climate are counted in halves.                                      *)
(***************************************************************************)
Ranges == {range \in Nat \X Nat : range[1] <= range[2]}
LampAssumption ==
    /\ Configs \subseteq [bright : Ranges \cup {<<>>}, temp : Ranges \cup {<<>>},
                          colour : (Ranges \X Ranges \X Ranges) \cup {<<>>},
                          modes : SUBSET STRING, scenes : SUBSET STRING, strip : BOOLEAN]
    /\ Brightnesses \subseteq 1 .. 255
    /\ Colours \subseteq (0 .. 360) \X (0 .. 100)
    /\ Kelvins \subseteq Nat
    /\ Raw \subseteq 0 .. 100
RingAssumption == Levels \subseteq 1 .. 255
FeatureAssumption ==
    /\ Whole \subseteq Int /\ \A n \in Whole : n % 2 = 0
    /\ Broken \subseteq Int
    /\ Selectable \subseteq STRING
    /\ MaxTime \in Nat
ClimateAssumption == Targets \subseteq Int
CoverAssumption == Positions \subseteq 0 .. 100 /\ Instants \in Nat
ASSUME EntityAssumptions ==
    LampAssumption /\ RingAssumption /\ FeatureAssumption /\ ClimateAssumption /\ CoverAssumption

-------------------------------------------------------------------------------
Blank == 0
NoThing   == thing = Blank /\ server = Blank /\ asked = Blank
NoCopy    == cache = Blank
NoTime    == now = Blank
NoFeature == key = Blank /\ declared = Blank
NoPut     == sending = Blank
NoDevice  == device = Blank

EntitiesInit ==
    /\ Init
    /\ \/ part = "command" /\ NoThing /\ NoCopy /\ NoTime /\ NoFeature /\ NoPut /\ NoDevice
       \/ part = "lamp" /\ Lamps!Init /\ NoCopy /\ NoTime /\ NoFeature /\ NoPut /\ NoDevice
       \/ part = "ring" /\ Rings!Init /\ thing = Blank /\ NoTime /\ NoFeature /\ NoDevice
       \/ part = "feature" /\ Attributes!Init /\ NoPut /\ NoDevice
       \/ part = "climate" /\ Climates!Init /\ NoTime /\ NoFeature /\ NoPut /\ NoDevice
       \/ part = "cover" /\ Covers!Init /\ NoFeature /\ NoPut

\* The last instant of a part with a clock: nothing is left to happen in it.
Over == (part = "feature" /\ now = MaxTime) \/ (part = "cover" /\ now = Instants)

EntitiesNext ==
    /\ part' = part
    /\ \/ part = "command" /\ Next /\ UNCHANGED views
       \/ /\ UNCHANGED vars
          /\ \/ /\ part = "lamp" /\ Lamps!Next
                /\ UNCHANGED <<cache, now, key, declared, sending, device>>
             \/ /\ part = "ring" /\ Rings!Next
                /\ UNCHANGED <<thing, now, key, declared, device>>
             \/ part = "feature" /\ Attributes!Next /\ UNCHANGED <<sending, device>>
             \/ /\ part = "climate" /\ Climates!Next
                /\ UNCHANGED <<now, key, declared, sending, device>>
             \/ part = "cover" /\ Covers!Next /\ UNCHANGED <<key, declared, sending>>
             \/ Over /\ UNCHANGED views

EntitiesSpec == EntitiesInit /\ [][EntitiesNext]_entityVars

(***************************************************************************)
(* The properties, each for the parts it is about, with their types.       *)
(***************************************************************************)

\* A lamp goes on showing the brightness it was asked for, however its colour is changed,
\* and only a mode it supports; the light ring of a speaker shows what it was told.
LightsSound ==
    /\ part = "lamp" => Lamps!TypeOK /\ Lamps!NoDrift /\ Lamps!ModeSupported
    /\ part = "ring" => Rings!RingShines

\* An entity shows what the device or a command said last: for every attribute the tables
\* know and every type it may come with, for air conditioners and heaters in Home
\* Assistant's words, for covers on their way and at rest.
EntitiesShowTheDevice ==
    /\ part = "feature" => Attributes!TypeOK /\ Attributes!ShownIsLatest /\ Attributes!NeverFails
    /\ part = "climate" =>
          /\ Climates!TypeOK
          /\ Climates!ShowsTheMode /\ Climates!ShowsTheTarget /\ Climates!ShowsAnOffer
    /\ part = "cover" => Covers!TypeOK /\ Covers!ShownWhereItIs /\ Covers!ShownOnItsWay

(***************************************************************************)
(* The instance.  Nothing but the command part has the attributes, their   *)
(* values and the calls.  Lamps: two with all a lamp may have, one with    *)
(* brightness alone and one with colour alone.  Attributes: each on one    *)
(* category for each platform that shows it, primarily or on its own.      *)
(***************************************************************************)
MCSymmetry == Permutations(Keys) \cup Permutations(Values) \cup Permutations(Commands)

LampOf(bright, temp, colour, modes, scenes, strip) ==
    [bright |-> bright, temp |-> temp, colour |-> colour, modes |-> modes, scenes |-> scenes,
     strip |-> strip]
HS(max, low) == << <<0, 360>>, <<0, max>>, <<low, max>> >>
MCConfigs ==
    {LampOf(<<100, 900>>, <<0, 1000>>, HS(1000, 1), {"white", "colour", "scene"}, {"candle"},
            FALSE),
     LampOf(<<100, 900>>, <<0, 100>>, HS(100, 0), {"white", "colour"}, {}, TRUE),
     LampOf(<<1, 255>>, <<>>, <<>>, {}, {}, FALSE),
     LampOf(<<>>, <<>>, HS(100, 1), {"colour"}, {}, FALSE)}
MCColours == {<<360, 100>>}
Tables == INSTANCE FeatureTables
Alike(place, other) ==
    /\ place[2] = other[2]
    /\ Tables!Platform(place[2], place[1]) = Tables!Platform(other[2], other[1])
    /\ Tables!Consumed(place[2], place[1]) = Tables!Consumed(other[2], other[1])
AllPlaces ==
    {place \in (DOMAIN Tables!Categories) \X (DOMAIN Tables!Specs) :
        Tables!Shows(place[2], place[1])}
MCPlaces == {CHOOSE place \in AllPlaces : Alike(place, other) : other \in AllPlaces}
===============================================================================
