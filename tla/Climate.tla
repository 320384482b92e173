-------------------------------- MODULE Climate --------------------------------
(***************************************************************************)
(* One air conditioner, heater, radiator, boiler or warm floor             *)
(* (climate.py, climate_helpers.py). The entity reads the DESIRED values   *)
(* of Sber's record, the commands write them, and so does the user in      *)
(* Sber's app. Temperatures are counted in halves of a degree; a value     *)
(* Sber does not have is an empty set.                                     *)
(***************************************************************************)
EXTENDS Integers

CONSTANTS Targets       \* temperatures the user may ask for, in halves

VARIABLES
    unit,       \* the category of the device, fixed
    server,     \* desired values at Sber: [on, mode, target, fan]
    cache,      \* the integration's copy of them
    wanted      \* history: what the unit was told last, in Home Assistant's words

vars == <<unit, server, cache, wanted>>

Units == {"hvac_ac", "hvac_heater", "hvac_radiator", "hvac_boiler", "hvac_underfloor_heating"}

\* _CONFIGS: bounds in halves, modes of Sber and speeds of the fan.
Speeds == {"auto", "low", "medium", "high", "turbo"}
Config ==
    [u \in Units |->
        CASE u = "hvac_ac" ->
               [min |-> 32, max |-> 60, modes |-> {"auto", "cool", "heat", "dry", "fan_only"},
                fan |-> Speeds]
          [] u = "hvac_heater"   -> [min |-> 14, max |-> 60, modes |-> {}, fan |-> Speeds]
          [] u = "hvac_radiator" -> [min |-> 50, max |-> 80, modes |-> {}, fan |-> {}]
          [] u = "hvac_boiler"   -> [min |-> 50, max |-> 160, modes |-> {}, fan |-> {}]
          [] OTHER               -> [min |-> 50, max |-> 100, modes |-> {}, fan |-> {}]]

\* Mutant: the word of older units is not known.
OneWordForFan(modes, on) ==
    IF ~on THEN "off"
    ELSE IF modes \in {{"cool"}, {"heat"}, {"dry"}, {"fan_only"}} THEN CHOOSE m \in modes : TRUE
    ELSE "auto"

\* Sber's mode of a unit that is on or off, as a mode of Home Assistant.
MapHvacMode(modes, on) ==
    IF ~on THEN "off"
    ELSE CASE modes \in {{"cool"}, {"heat"}, {"dry"}}  -> CHOOSE m \in modes : TRUE
           [] modes \in {{"fan"}, {"fan_only"}} -> "fan_only"
           [] OTHER -> "auto"

\* The modes the entity offers: always off, and heat where the table has none.
Offered(u) ==
    LET modes == {MapHvacMode({m}, TRUE) : m \in Config[u].modes}
    IN  {"off"} \cup IF modes = {} THEN {"heat"} ELSE modes

\* climate_state_from_dto
Shown(record) ==
    LET on == record.on = {TRUE}
    IN  [mode |-> MapHvacMode(record.mode, on), target |-> record.target, fan |-> record.fan]

-------------------------------------------------------------------------------
Blank == [on |-> {}, mode |-> {}, target |-> {}, fan |-> {}]

Init ==
    /\ unit \in Units
    /\ server = Blank
    /\ cache = Blank
    /\ wanted = [on |-> FALSE, mode |-> "auto", target |-> {}, fan |-> {}]

\* int(temperature)
Cut(n) == 2 * (n \div 2)

With(record, attrs) ==
    [f \in DOMAIN record |-> IF f \in DOMAIN attrs THEN attrs[f] ELSE record[f]]

\* A command writes its attributes at Sber and, once Sber has answered, in the copy; without
\* an answer the copy stays as it was until it is read anew.
Sends(attrs, told) ==
    /\ server' = With(server, attrs)
    /\ \/ cache' = With(cache, attrs) /\ wanted' = told
       \/ UNCHANGED <<cache, wanted>>
    /\ UNCHANGED unit

\* Mutant: the mode without the switch.
ModeAlone(m) == IF m = "off" \/ Config[unit].modes = {} THEN [on |-> {m # "off"}]
                ELSE [mode |-> {m}]

ModeAttrs(m) ==
    IF m = "off" \/ Config[unit].modes = {} THEN [on |-> {m # "off"}]
    ELSE [on |-> {TRUE}, mode |-> {m}]

SetHvacMode ==
    \E m \in Offered(unit) :
        Sends(ModeAttrs(m),
              IF m = "off" \/ Config[unit].modes = {} THEN [wanted EXCEPT !.on = m # "off"]
              ELSE [wanted EXCEPT !.on = TRUE, !.mode = m])

SetTemperature ==
    \E t \in Targets :
        /\ t \in Config[unit].min..Config[unit].max
        /\ Sends([target |-> {Cut(t)}], [wanted EXCEPT !.target = {t}])

SetFanMode ==
    \E f \in Config[unit].fan : Sends([fan |-> {f}], [wanted EXCEPT !.fan = {f}])

TurnOnOff ==
    \E b \in BOOLEAN : Sends([on |-> {b}], [wanted EXCEPT !.on = b])

\* The user sets the unit in Sber's app, in Sber's words.
AppSets ==
    \E b \in BOOLEAN, m \in {"auto", "cool", "fan", "quiet"} :
        /\ server' = [server EXCEPT !.on = {b}, !.mode = IF Config[unit].modes = {} THEN @ ELSE {m}]
        /\ UNCHANGED <<unit, cache, wanted>>

\* What Sber's words mean, whoever set them.
Meaning(record) ==
    [on |-> record.on = {TRUE},
     mode |-> CASE record.mode = {} \/ record.mode \cap {"quiet"} # {} -> "auto"
                [] record.mode = {"fan"} -> "fan_only"
                [] OTHER -> CHOOSE m \in record.mode : TRUE,
     target |-> record.target, fan |-> record.fan]

Refreshed ==
    /\ cache # server
    /\ cache' = server
    /\ wanted' = Meaning(server)
    /\ UNCHANGED <<unit, server>>

Next ==
    \/ SetHvacMode \/ SetTemperature \/ SetFanMode \/ TurnOnOff
    \/ AppSets \/ Refreshed

Spec == Init /\ [][Next]_vars

-------------------------------------------------------------------------------
TypeOK ==
    /\ unit \in Units
    /\ wanted.on \in BOOLEAN /\ \E u \in Units : wanted.mode \in Offered(u)
    /\ \A r \in {server, cache} : r.on \subseteq BOOLEAN /\ \A m, n \in r.mode : m = n

\* The entity shows the mode the unit was told last, off while it is off and the same mode as
\* before once it is on again, also when it was set in the app in a word of Sber's own.
ShowsTheMode ==
    Shown(cache).mode = IF wanted.on THEN wanted.mode ELSE "off"

\* The entity shows the temperature and the speed asked for last, the temperature without its
\* half degree.
ShowsTheTarget ==
    /\ Shown(cache).fan = wanted.fan
    /\ \A t \in wanted.target : \E s \in Shown(cache).target : s \in (t - 1)..t

\* Where the table names modes, the mode shown is one the entity offers.
ShowsAnOffer == Config[unit].modes # {} => Shown(cache).mode \in Offered(unit)
===============================================================================
