----------------------------- MODULE FeatureTables -----------------------------
(***************************************************************************)
(* The tables of features and categories (feature_specs.py,                *)
(* category_specs.py): which attributes a device of a category has, which  *)
(* platform shows each and through which codec.                            *)
(***************************************************************************)
-------------------------------------------------------------------------------
(* FEATURE_SPECS: platform, codec and categories of every feature *)

Anywhere == {"any"}
Each(keys, platform, codec, categories) ==
    [keys |-> keys, platform |-> platform, codec |-> codec, categories |-> categories]
Speaker == {"sber_speaker"}
Plug    == {"socket", "relay"}

SpeakerFeatures ==
    {Each({"zigbee_ready", "matter_ready", "sub_pairing"}, "binary_sensor", "bool",
          {"sber_speaker", "hub"}),
     Each({"gamepad", "staros_assistant_sounds_enabled", "staros_has_hub", "detector",
           "motion_sensor_enabled"}, "binary_sensor", "bool", Speaker),
     Each({"motion_sensor"}, "binary_sensor", "presence", Speaker),
     Each({"staros_age_mode", "call_status"}, "sensor", "enum", Speaker),
     Each({"position"}, "select", "enum", Speaker)}

CommonSensors ==
    {Each({"battery_percentage", "signal_strength_dbm", "humidity", "air_pressure", "co2",
           "pm1_0", "pm2_5", "pm10"}, "sensor", "int", Anywhere),
     Each({"signal_strength"}, "sensor", "enum", Anywhere),
     Each({"battery_low_power"}, "binary_sensor", "bool", Anywhere),
     Each({"temperature"}, "sensor", "temp", Anywhere),
     Each({"tvoc_float", "hcho_float"}, "sensor", "float", Anywhere)}

Detectors ==
    {Each({"water_leak_state", "doorcontact_state", "motion_state", "pir", "smoke_state",
           "gas_leak_state"}, "binary_sensor", "bool", Anywhere),
     Each({"tamper_alarm"}, "binary_sensor", "bool", {"sensor_door"}),
     Each({"incoming_call"}, "binary_sensor", "bool", {"intercom"}),
     Each({"cur_voltage", "voltage", "cur_power", "power"}, "sensor", "int", Plug),
     Each({"cur_current", "current"}, "sensor", "milli", Plug)}

Toggles ==
    {Each({"child_lock"}, "switch", "bool", {"socket", "kettle", "vacuum_cleaner"}),
     Each({"alarm_mute"}, "switch", "bool", {"sensor_gas", "sensor_smoke"}),
     Each({"hvac_night_mode", "hvac_ionization"}, "switch", "bool",
          {"hvac_ac", "hvac_humidifier", "hvac_air_purifier"}),
     Each({"hvac_aromatization", "hvac_decontaminate"}, "switch", "bool",
          {"hvac_air_purifier"}),
     Each({"switch_led"}, "switch", "bool", {"led_strip"}),
     Each({"kitchen_water_low_level"}, "binary_sensor", "bool", {"kettle"}),
     Each({"hvac_water_low_level"}, "binary_sensor", "bool", {"hvac_humidifier"}),
     Each({"hvac_replace_filter", "hvac_replace_ionizator"}, "binary_sensor", "bool",
          {"hvac_humidifier", "hvac_air_purifier"})}

Selects ==
    {Each({"open_rate"}, "select", "enum", {"curtain", "gate", "window_blind"}),
     Each({"hvac_air_flow_direction"}, "select", "enum", {"hvac_ac"}),
     Each({"sensor_sensitive"}, "select", "enum",
          {"sensor_temp", "sensor_door", "sensor_pir", "sensor_gas"}),
     Each({"temp_unit_view"}, "select", "enum", {"sensor_temp", "sensor_air"}),
     Each({"vacuum_cleaner_program", "vacuum_cleaner_cleaning_type"}, "select", "enum",
          {"vacuum_cleaner"}),
     Each({"hvac_thermostat_mode"}, "select", "enum",
          {"hvac_heater", "hvac_boiler", "hvac_underfloor_heating"}),
     Each({"hvac_heating_rate"}, "select", "enum",
          {"hvac_boiler", "hvac_underfloor_heating"}),
     Each({"hvac_direction_set"}, "select", "enum", {"hvac_fan"})}

Numbers ==
    {Each({"kitchen_water_temperature_set"}, "number", "int", {"kettle"}),
     Each({"sleep_timer"}, "number", "int", {"led_strip"}),
     Each({"hvac_humidity_set"}, "number", "int", {"hvac_ac"}),
     Each({"light_transmission_percentage"}, "number", "int", {"window_blind"}),
     Each({"kitchen_water_temperature", "kitchen_water_level"}, "sensor", "int", {"kettle"}),
     Each({"hvac_water_level", "hvac_water_percentage"}, "sensor", "int", {"hvac_humidifier"})}

\* Presses (see ButtonPresses) and the buttons of an intercom.
Presses ==
    {Each({"unlock", "reject_call"}, "button", "bool", {"intercom"}),
     Each({"button_event", "button_left_event", "button_right_event", "button_1_event",
           "button_2_event", "button_3_event", "button_4_event", "button_5_event",
           "button_6_event", "button_7_event", "button_8_event", "button_9_event",
           "button_10_event", "button_top_left_event", "button_top_right_event",
           "button_bottom_left_event", "button_bottom_right_event"},
          "event", "enum", {"scenario_button"})}

\* Features without an entity of their own: the primary entity of a device has them.
OnlyPrimary ==
    {Each({"on_off", "mute"}, "none", "bool", Anywhere),
     Each({"light_brightness", "light_colour_temp", "hvac_temp_set", "open_set",
           "open_percentage", "channel_int"}, "none", "int", Anywhere),
     Each({"light_colour", "light_mode", "hvac_work_mode", "hvac_air_flow_power", "open_state",
           "vacuum_cleaner_status", "vacuum_cleaner_command", "source"}, "none", "enum",
          Anywhere),
     Each({"volume_int"}, "none", "volume", Anywhere)}

FeatureRows ==
    {Each({"online"}, "binary_sensor", "bool", Anywhere)} \cup SpeakerFeatures
    \cup CommonSensors \cup Detectors \cup Toggles \cup Selects \cup Numbers
    \cup Presses \cup OnlyPrimary

\* No key is in two rows.
Specs == [k \in UNION {row.keys : row \in FeatureRows} |->
            CHOOSE row \in FeatureRows : k \in row.keys]

Applies(k, c) == Specs[k].categories = Anywhere \/ c \in Specs[k].categories

-------------------------------------------------------------------------------
(* CATEGORY_SPECS: the primary entity of every category and what it consumes *)

Primary(categories, platform, consumed) ==
    [categories |-> categories, platform |-> platform, consumed |-> consumed]
SwitchLike  == Primary({"socket", "relay", "kettle"}, "switch", {"on_off"})
Thermostat  == Primary({"hvac_ac", "hvac_heater", "hvac_radiator", "hvac_boiler",
                        "hvac_underfloor_heating"}, "climate",
                       {"on_off", "hvac_temp_set", "hvac_work_mode", "hvac_air_flow_power"})
CoverLike   == Primary({"curtain", "window_blind", "gate", "valve"}, "cover",
                       {"open_set", "open_state", "open_percentage"})
LightLike   == Primary({"light", "led_strip"}, "light",
                       {"on_off", "light_brightness", "light_colour", "light_colour_temp",
                        "light_mode"})
Detects(categories, keys) == Primary(categories, "binary_sensor", keys)

CategoryRows ==
    {LightLike, SwitchLike, Thermostat, CoverLike,
     Primary({"hvac_fan", "hvac_air_purifier"}, "fan", {"on_off", "hvac_air_flow_power"}),
     Primary({"hvac_humidifier"}, "humidifier",
             {"on_off", "hvac_humidity_set", "humidity", "hvac_air_flow_power"}),
     Primary({"tv"}, "media_player", {"on_off", "volume_int", "mute", "source", "channel_int"}),
     Primary({"vacuum_cleaner"}, "vacuum",
             {"on_off", "vacuum_cleaner_status", "vacuum_cleaner_command",
              "battery_percentage"}),
     Detects({"sensor_water_leak"}, {"water_leak_state"}),
     Detects({"sensor_door"}, {"doorcontact_state"}),
     Detects({"sensor_pir"}, {"motion_state", "pir"}),
     Detects({"sensor_smoke"}, {"smoke_state"}),
     Detects({"sensor_gas"}, {"gas_leak_state"}),
     Detects({"hub", "sber_speaker"}, {"online"}),
     Detects({"sensor_temp", "sensor_air", "intercom", "scenario_button"}, {})}

\* No category is in two rows.
Categories == [c \in UNION {row.categories : row \in CategoryRows} |->
                 CHOOSE row \in CategoryRows : c \in row.categories]

Consumed(k, c) == k \in Categories[c].consumed
Platform(k, c) == IF Consumed(k, c) THEN Categories[c].platform ELSE Specs[k].platform
Has(k, c)      == Consumed(k, c) \/ (Applies(k, c) /\ Specs[k].platform # "none")

\* A category of detectors with two keys shows whichever its set yields first.
ShownByPrimary(k, c) ==
    Categories[c].platform = "binary_sensor" /\ Consumed(k, c) =>
        Categories[c].consumed = {k}

\* The measured humidity of a humidifier, collected for its entity, which has no use for it.
Unseen(k, c) == k = "humidity" /\ Consumed(k, c)

\* What the platform shows of the attribute; climates, covers, lamps and vacuum cleaners have
\* modules of their own (Climate, Cover, Lamp), and a detector with two keys is left out.
Shows(k, c) ==
    /\ Has(k, c)
    /\ Platform(k, c) \in {"binary_sensor", "sensor", "switch", "select", "number", "fan",
                           "humidifier", "media_player"}
    /\ k # "channel_int" /\ ~Unseen(k, c)
    /\ ShownByPrimary(k, c)

Writable(k, c) ==
    Platform(k, c) \in {"switch", "select", "number", "fan", "humidifier", "media_player"}
===============================================================================
