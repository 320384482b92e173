------------------------------- MODULE Category --------------------------------
(***************************************************************************)
(* Which category a device belongs to (spec/ha_mapping.py), while Sber     *)
(* renames it: every firmware may wrap the name of its image in prefixes   *)
(* and suffixes, and the slug of its category comes and goes.              *)
(* All entities of the device hang on the category, so a rename that moved *)
(* the device to another one would replace them all.                       *)
(***************************************************************************)
EXTENDS Integers, Sequences, TLC

CONSTANTS
    Prefixes, Suffixes,     \* what a name is wrapped in
    MaxRenames              \* bound on the wrappings

VARIABLES
    image,      \* image_set_type
    slug,       \* full_categories[0].slug, "default" where Sber tells nothing
    truth,      \* history: what the device is
    renames     \* the wrappings so far

vars == <<image, slug, truth, renames>>

As(category, patterns) == [p \in patterns |-> category]

\* IMAGE_TYPE_MAP
Images ==
    As("light", {"bulb_sber", "dt_bulb", "bulb"}) @@
    As("led_strip", {"ledstrip_sber", "dt_ledstrip", "dt_led_strip", "led_strip"}) @@
    As("socket", {"dt_socket_sber", "dt_socket", "socket"}) @@
    As("relay", {"dt_relay", "relay"}) @@
    As("sensor_temp", {"cat_sensor_temp_humidity", "dt_sensor_temp", "sensor_temp"}) @@
    As("sensor_water_leak", {"dt_sensor_water_leak", "sensor_water_leak"}) @@
    As("sensor_door", {"cat_sensor_door", "dt_sensor_door", "sensor_door"}) @@
    As("sensor_pir", {"cat_sensor_motion", "dt_sensor_motion", "sensor_motion", "sensor_pir"}) @@
    As("sensor_smoke", {"dt_sensor_smoke", "sensor_smoke"}) @@
    As("sensor_gas", {"dt_sensor_gas", "sensor_gas"}) @@
    As("sensor_air", {"cat_sensor_air", "dt_sensor_air", "sensor_air"}) @@
    As("scenario_button", {"scenario_button", "button_scenario", "cat_button"}) @@
    As("curtain", {"dt_curtain", "curtain"}) @@
    As("gate", {"dt_gate", "gate"}) @@
    As("window_blind", {"dt_window_blind", "window_blind"}) @@
    As("valve", {"dt_valve", "valve"}) @@
    As("hvac_underfloor_heating", {"hvac_underfloor"}) @@
    [p \in {"hvac_ac", "hvac_heater", "hvac_radiator", "hvac_boiler", "hvac_fan",
            "hvac_humidifier", "hvac_air_purifier", "kettle", "vacuum_cleaner", "tv", "hub",
            "intercom"} |-> p] @@
    As("sber_speaker", {"dt_boom", "dt_aura", "dt_portal", "dt_sberbox", "dt_box",
                        "dt_satellite"})

\* CATEGORY_TO_HA_PLATFORMS names the categories the integration knows.
Known == {Images[p] : p \in DOMAIN Images}

\* CATEGORY_KEYWORDS
Keywords ==
    As("light", {"light", "bulb"}) @@
    As("led_strip", {"ledstrip", "led_strip"}) @@
    As("sensor_temp", {"sensor_temp", "sensor_temp_humidity"}) @@
    As("sensor_pir", {"sensor_motion", "sensor_pir"}) @@
    As("scenario_button", {"scenario_button", "button_scenario"}) @@
    As("hvac_underfloor_heating", {"hvac_underfloor", "hvac_underfloor_heating"}) @@
    As("vacuum_cleaner", {"vacuum", "vacuum_cleaner"}) @@
    As("sber_speaker", {"boom", "portal", "satellite", "sberbox"}) @@
    [k \in Known \ {"light", "led_strip", "sensor_temp", "sensor_pir", "scenario_button",
                    "hvac_underfloor_heating", "vacuum_cleaner", "sber_speaker"} |-> k]

-------------------------------------------------------------------------------
At(name, i, part) ==
    /\ i + Len(part) - 1 <= Len(name)
    /\ SubSeq(name, i, i + Len(part) - 1) = part
Contains(name, part) == \E i \in 1..Len(name) : At(name, i, part)

\* Mutant: a keyword may be part of a word.
InWords(name, words) == Contains(name, words)

\* A window of whole words between underscores.
HasWords(name, words) ==
    \E i \in 1..Len(name) :
        /\ At(name, i, words)
        /\ i = 1 \/ SubSeq(name, i - 1, i - 1) = "_"
        /\ LET next == i + Len(words)
           IN  next > Len(name) \/ SubSeq(name, next, next) = "_"

Words(name) == Len(SelectSeq([i \in 1..Len(name) |-> SubSeq(name, i, i)], LAMBDA c : c = "_"))

None == "none"

\* The widest window of words that is a keyword.
TokenFallback(name) ==
    LET found == {k \in DOMAIN Keywords : HasWords(name, k)}
        widest == {k \in found : \A o \in found : Words(o) <= Words(k)}
    IN  IF found = {} THEN {None} ELSE {Keywords[k] : k \in widest}

\* The longest pattern found in the name (of equally long ones the first of the table; the
\* set holds what the order of the table decides).
LongestPattern(name) ==
    LET found == {p \in DOMAIN Images : Contains(name, p)}
        longest == {p \in found : \A o \in found : Len(o) <= Len(p)}
    IN  IF found = {} THEN TokenFallback(name) ELSE {Images[p] : p \in longest}

\* The categories the name may be taken for.
ResolveCategory(name, known) ==
    IF known \in Known THEN {known}
    ELSE IF name \in DOMAIN Images THEN {Images[name]}
    ELSE LongestPattern(name)

-------------------------------------------------------------------------------
\* Names no pattern is part of, which the keywords are for.
Newer == ("cat_ledstrip_m" :> "led_strip") @@ ("xyz_boom_2026" :> "sber_speaker") @@
         ("cat_vacuum" :> "vacuum_cleaner") @@ ("cat_light" :> "light")

Init ==
    /\ image \in DOMAIN Images \cup DOMAIN Newer
    /\ truth = (Images @@ Newer)[image]
    /\ slug \in {"default", truth}
    /\ renames = 0

Rename ==
    /\ renames < MaxRenames
    /\ renames' = renames + 1
    /\ image' \in {p \o image : p \in Prefixes} \cup {image \o s : s \in Suffixes}
    /\ UNCHANGED <<slug, truth>>

SlugComes ==
    /\ slug' \in {"default", truth} \ {slug}
    /\ UNCHANGED <<image, truth, renames>>

Next == Rename \/ SlugComes
Spec == Init /\ [][Next]_vars

-------------------------------------------------------------------------------
TypeOK == truth \in Known /\ slug \in {"default", truth} /\ renames \in 0..MaxRenames

\* A device stays in its category when its image is renamed and when its slug comes or goes,
\* and the order of the table never decides.
StaysItself == ResolveCategory(image, slug) = {truth}
===============================================================================
