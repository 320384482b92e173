------------------------------- MODULE Features -------------------------------
(***************************************************************************)
(* One attribute of one device, from Sber's record of it to the entity     *)
(* that shows it and back, as the tables of features and categories tell   *)
(* (FeatureTables): the codecs, the choice between reported and desired    *)
(* value (mapper.py), and the commands of the platforms that show the      *)
(* attribute they write.                                                   *)
(*                                                                         *)
(* Numbers are counted in halves (45 is 22.5), currents in milliamperes.   *)
(* A value carries its kind, a pair <<kind, value>>.                       *)
(***************************************************************************)
EXTENDS Integers, FeatureTables

CONSTANTS
    Places,     \* attributes on devices, pairs of a category and a key
    Whole,      \* whole numbers a device may have, in halves
    Broken,     \* numbers with a half
    Selectable,    \* words a select offers
    MaxTime     \* bound on the instants at which something happens

VARIABLES
    category, key,  \* the device and the attribute, fixed
    declared,       \* type of the attribute in the device's description
    server,         \* what Sber has: [reported, desired], each [raw, at]
    cache,          \* the same of the integration's copy
    now,            \* the last instant at which something happened
    latest          \* history: what was set last, by the device or by a command

vars == <<category, key, declared, server, cache, now, latest>>

None    == <<"none">>
Num(n)  == <<"number", n>>
Bool(b) == <<"bool", b>>
Enum(e) == <<"enum", e>>

-------------------------------------------------------------------------------
(* AttributeValueDto: a value as Sber sends it, every field a set of at most one *)

Blank == [type |-> "none", int |-> {}, float |-> {}, bool |-> {}, enum |-> {}]
OfInt(n)   == [Blank EXCEPT !.type = "INTEGER", !.int = {n}]
OfFloat(n) == [Blank EXCEPT !.type = "FLOAT", !.float = {n}]
OfBool(b)  == [Blank EXCEPT !.type = "BOOL", !.bool = {b}]
OfEnum(e)  == [Blank EXCEPT !.type = "ENUM", !.enum = {e}]
The(field) == CHOOSE x \in field : TRUE

Value(raw) ==
    CASE raw.type = "INTEGER" /\ raw.int # {} -> Num(The(raw.int))
      [] raw.type = "FLOAT" /\ raw.float # {} -> Num(The(raw.float))
      [] raw.type = "BOOL" /\ raw.bool # {}   -> Bool(The(raw.bool))
      [] raw.type = "ENUM" /\ raw.enum # {}   -> Enum(The(raw.enum))
      [] OTHER -> None

\* int() cuts towards zero.
Cut(n) == IF n >= 0 THEN 2 * (n \div 2) ELSE -(2 * ((-n) \div 2))

\* Mutant: the type the value came with is believed.
AsSent(raw, type) == Value(raw)

NormalizeValue(raw, type) ==
    CASE type = "FLOAT"   -> IF raw.float # {} THEN Num(The(raw.float))
                             ELSE IF raw.int # {} THEN Num(The(raw.int)) ELSE None
      [] type = "INTEGER" -> IF raw.int # {} THEN Num(The(raw.int))
                             ELSE IF raw.float # {} THEN Num(Cut(The(raw.float))) ELSE None
      [] OTHER            -> Value(raw)

\* What a codec or an entity makes of a value; "raises" ends the refresh before all is shown.
Raises == <<"raises">>
IsNum(v) == v[1] = "number"

IntToHa(v)   == IF IsNum(v) THEN Num(Cut(v[2])) ELSE None
ExactToHa(v) == IF IsNum(v) THEN v ELSE None
FloatToHa(v) == IF IsNum(v) \/ v = None THEN v ELSE Raises
BoolToHa(v)  == IF v = None \/ v[1] = "bool" THEN v ELSE Bool(TRUE)
EnumToHa(v)  == v
PresenceToHa(v) == IF v = None THEN None ELSE Bool(v = Enum("any_motion"))

ToHa(codec, v) ==
    CASE codec = "int"                -> IntToHa(v)
      [] codec \in {"temp", "milli"}  -> ExactToHa(v)
      [] codec \in {"float", "volume"} -> FloatToHa(v)
      [] codec = "bool"               -> BoolToHa(v)
      [] codec = "presence"           -> PresenceToHa(v)
      [] codec = "enum"               -> EnumToHa(v)

-------------------------------------------------------------------------------
(* map_device_to_entities: the value that counts, and what is shown of it *)

Never == -1     \* no last_sync
Epoch == 0      \* last_sync of 1970: a value Sber made up

\* Mutant: a command counts for ever.
CountsForEver(desired, reported) == desired \notin {Never, Epoch}

IsFreshDesired(desired, reported) ==
    /\ desired \notin {Never, Epoch}
    /\ reported = Never \/ desired >= reported

Effective(record, type) ==
    IF IsFreshDesired(record.desired.at, record.reported.at)
    THEN NormalizeValue(record.desired.raw, type)
    ELSE NormalizeValue(record.reported.raw, type)

\* An entity of its own: what the codec makes of the value, a binary state of its truth, and
\* a select of the words it offers.
OnOff(v)  == Bool(v # None /\ v # Bool(FALSE))
Option(c) == IF \E e \in Selectable : c = Enum(e) THEN c ELSE None
Extra(v) ==
    LET c == ToHa(Specs[key].codec, v)
    IN  CASE Specs[key].platform \in {"binary_sensor", "switch"} -> OnOff(c)
          [] Specs[key].platform = "select" -> Option(c)
          [] OTHER -> c

\* The primary entities take the value as it came; the target of a humidifier goes through a
\* plain int(), which a word raises in.
BareInt(v) == IF v = None THEN None ELSE IF IsNum(v) THEN Num(Cut(v[2])) ELSE Raises
FanShows(v)        == IF key = "on_off" THEN OnOff(v) ELSE v
HumidifierShows(v) == CASE key = "on_off" -> OnOff(v)
                        [] key = "hvac_humidity_set" -> BareInt(v)
                        [] OTHER -> v
MediaPlayerShows(v) == CASE key = "on_off" -> OnOff(v)
                         [] key = "volume_int" -> FloatToHa(v)
                         [] OTHER -> v
Primarily(v) ==
    CASE Platform(key, category) \in {"switch", "binary_sensor"} -> OnOff(v)
      [] Platform(key, category) = "fan"          -> FanShows(v)
      [] Platform(key, category) = "humidifier"   -> HumidifierShows(v)
      [] Platform(key, category) = "media_player" -> MediaPlayerShows(v)

Shown(record, type) ==
    LET v == Effective(record, type)
    IN  IF Consumed(key, category) THEN Primarily(v) ELSE Extra(v)

-------------------------------------------------------------------------------
(* The device, Sber and the integration *)

Codec == Specs[key].codec
Numeric == Codec \in {"int", "temp", "float", "milli", "volume"}

\* What a device can say of the feature.
Sayings ==
    CASE Codec \in {"int", "temp", "float"} -> {Num(n) : n \in Whole \cup Broken}
      [] Codec \in {"milli", "volume"}      -> {Num(n) : n \in Whole}
      [] Codec = "bool"                     -> {Bool(TRUE), Bool(FALSE)}
      [] Codec = "presence"                 -> {Enum("any_motion"), Enum("no_motion")}
      [] OTHER                              -> {Enum("auto"), Enum("low")}

\* How it may say it: a bridge fills the other number too, and names the wrong type.
Wire(v) ==
    CASE v[1] = "bool" -> {OfBool(v[2])}
      [] v[1] = "enum" -> {OfEnum(v[2])}
      [] OTHER ->
           (IF declared = "INTEGER" THEN {} ELSE {OfFloat(v[2])}) \cup
           (IF v[2] = Cut(v[2]) THEN {OfInt(v[2]), OfFloat(v[2])} ELSE {}) \cup
           (IF declared = "FLOAT" THEN {[OfFloat(v[2]) EXCEPT !.type = "INTEGER", !.int = {0}]}
                                  ELSE {})

Nothing == [raw |-> Blank, at |-> Never]
\* Sber's desired value of a feature nobody commanded: the least of its range, in 1970.
Junk == [raw |-> IF Numeric THEN OfInt(0) ELSE Blank, at |-> Epoch]

Init ==
    /\ \E place \in Places : category = place[1] /\ key = place[2]
    /\ category \in DOMAIN Categories /\ key \in DOMAIN Specs /\ Shows(key, category)
    /\ declared \in IF Numeric THEN {"none", "FLOAT", "INTEGER"} ELSE {"none"}
    /\ declared = "INTEGER" => Codec \in {"int", "milli", "volume"}
    /\ server \in [reported : {Nothing}, desired : {Nothing, Junk}]
    /\ cache = server
    /\ now = 0
    /\ latest = None

fixed == <<category, key, declared>>

Reports ==
    \E v \in Sayings : \E raw \in Wire(v) :
        /\ now < MaxTime
        /\ now' = now + 1
        /\ server' = [server EXCEPT !.reported = [raw |-> raw, at |-> now']]
        /\ latest' = v
        /\ UNCHANGED <<fixed, cache>>

\* A word where a number belongs.
Misreports ==
    /\ Numeric
    /\ now < MaxTime
    /\ now' = now + 1
    /\ server' = [server EXCEPT !.reported = [raw |-> OfEnum("low"), at |-> now']]
    /\ latest' = Enum("low")
    /\ UNCHANGED <<fixed, cache>>

\* int(level * 100) of the levels that have no exact float falls one short (in halves).
FallsShort == {2 * 29, 2 * 57, 2 * 58}

SwitchSends(v)     == OfBool(v[2])
SelectSends(v)     == OfEnum(v[2])
NumberSends(v)     == OfInt(Cut(v[2]))
FanSends(v)        == IF key = "on_off" THEN OfBool(v[2]) ELSE OfEnum(v[2])
HumidifierSends(v) == CASE key = "on_off" -> OfBool(v[2])
                        [] key = "hvac_humidity_set" -> OfInt(Cut(v[2]))
                        [] OTHER -> OfEnum(v[2])
VolumeSends(v)     == OfInt(IF v[2] \in FallsShort THEN v[2] - 2 ELSE v[2])

\* Mutant: the level goes out as it is, a fraction that is cut to zero.
LevelSent(v) == IF key = "volume_int" THEN OfInt(2 * (v[2] \div 200))
                ELSE IF key = "source" THEN OfEnum(v[2]) ELSE OfBool(v[2])

MediaPlayerSends(v) == CASE key \in {"on_off", "mute"} -> OfBool(v[2])
                         [] key = "volume_int" -> VolumeSends(v)
                         [] OTHER -> OfEnum(v[2])

Sends(v) ==
    CASE Platform(key, category) = "switch"       -> SwitchSends(v)
      [] Platform(key, category) = "select"       -> SelectSends(v)
      [] Platform(key, category) = "number"       -> NumberSends(v)
      [] Platform(key, category) = "fan"          -> FanSends(v)
      [] Platform(key, category) = "humidifier"   -> HumidifierSends(v)
      [] Platform(key, category) = "media_player" -> MediaPlayerSends(v)

\* A command that was served: Sber stamps it, the copy gets it without a stamp.  A select is
\* told nothing it does not offer.
Command ==
    \E v \in Sayings :
        /\ Writable(key, category)
        /\ now < MaxTime
        /\ IsNum(v) => v[2] \in Whole
        /\ Platform(key, category) = "select" => v[2] \in Selectable
        /\ now' = now + 1
        /\ server' = [server EXCEPT !.desired = [raw |-> Sends(v), at |-> now']]
        /\ cache' = [cache EXCEPT !.desired = [raw |-> Sends(v), at |-> Never]]
        /\ latest' = v
        /\ UNCHANGED fixed

\* The copy is taken anew by a poll; a push brings what the device reports.
Polled ==
    /\ cache # server
    /\ cache' = server
    /\ UNCHANGED <<fixed, server, now, latest>>

Pushed ==
    /\ cache.reported # server.reported
    /\ cache' = [cache EXCEPT !.reported = server.reported]
    /\ UNCHANGED <<fixed, server, now, latest>>

Next == Reports \/ Misreports \/ Command \/ Polled \/ Pushed
Spec == Init /\ [][Next]_vars

-------------------------------------------------------------------------------
TypeOK ==
    /\ category \in DOMAIN Categories
    /\ key \in DOMAIN Specs
    /\ declared \in {"none", "FLOAT", "INTEGER"}
    /\ now \in 0..MaxTime

\* The values that go through a plain float() or int().
Bare == Codec \in {"float", "volume"} \/ (Platform(key, category) = "humidifier" /\ Numeric)

\* The entity of a copy that is level with Sber shows what was set last, by the device or by
\* a command, whatever type the number came as: an integer feature loses what is behind the
\* point, the volume of a TV at most one hundredth, and a word where a number belongs is
\* unknown, as is a word that a select does not offer.
ShownIsLatest ==
    cache = server /\ latest # None =>
        LET s == Shown(cache, declared)
        IN  IF Numeric /\ ~IsNum(latest) THEN s = None \/ Bare
            ELSE CASE Platform(key, category) = "select" ->
                        s = IF latest[2] \in Selectable THEN latest ELSE None
              [] Codec = "int"      -> s = Num(Cut(latest[2]))
              [] Codec = "volume"   -> s \in {latest, Num(latest[2] - 2)}
              [] Codec = "presence" -> s = Bool(latest = Enum("any_motion"))
              [] OTHER              -> s = latest

\* No value a device may send ends a refresh before everything is shown, but for the values
\* read with a plain float() or int().
NeverFails == ~Bare => Shown(cache, declared) # Raises
===============================================================================
