--------------------------------- MODULE Lamp ---------------------------------
(***************************************************************************)
(* A lamp: the state Home Assistant shows of it (light_state_from_dto) and *)
(* the commands it is sent (build_light_command, light.py), through the    *)
(* scales of its own ranges (sbermap/transform/lights.py).                 *)
(*                                                                         *)
(* A command overwrites some attributes of the desired state; the shown    *)
(* state is read from it.  The application changes attributes as it likes. *)
(* Ranges are pairs <<low, high>>; degrees, percents and kelvins are whole.*)
(***************************************************************************)
EXTENDS Integers

CONSTANTS
    Configs,        \* capabilities of the lamps: ranges (or <<>>), modes, scenes, strip
    Brightnesses,   \* brightnesses Home Assistant may ask for, in 1 .. 255
    Colours,        \* colours it may ask for: <<hue, saturation>>
    Kelvins,        \* temperatures it may ask for
    Raw             \* positions in a range the application may choose, in percent

VARIABLES
    config,     \* what the lamp can do, fixed for an installation
    lamp,       \* attribute -> value of its desired state, None where it has none
    asked       \* history: the brightness last asked for, or seen when somebody else set it

vars == <<config, lamp, asked>>

None     == -1
NoColour == [h |-> None, s |-> None, v |-> None]
Hue      == <<0, 360>>
Percent  == <<0, 100>>
Bright   == <<1, 255>>

-------------------------------------------------------------------------------
(* Scales *)

States(range) == range[2] - range[1] + 1

\* scale_ranged_value_to_int_range(): rounds down.
Scaled(from, to, x) == ((x - from[1] + 1) * States(to)) \div States(from) + to[1] - 1

\* value_to_brightness()
Clamped(range, x) == IF x < range[1] THEN range[1] ELSE IF x > range[2] THEN range[2] ELSE x
ToBrightness(range, x) == Clamped(Bright, Scaled(range, Bright, x))

\* Mutant: the raw value is rounded down, as when it is shown.
RoundsDown(range, b) == Scaled(Bright, range, b)

\* math.ceil(brightness_to_value())
FromBrightness(range, b) == range[1] - 1 - ((-b * States(range)) \div States(Bright))

\* Ranges the lamp does not describe.
Or(range, default) == IF range = <<>> THEN default ELSE range
BrightRange == Or(config.bright, Bright)
TempRange   == Or(config.temp, Percent)
RealTemp    == IF config.strip THEN <<2000, 6500>> ELSE <<2700, 6500>>
HueRange    == IF config.colour = <<>> THEN Hue ELSE config.colour[1]
SatRange    == IF config.colour = <<>> THEN Percent ELSE config.colour[2]
ValueRange  == IF config.colour = <<>> THEN <<1, 100>> ELSE config.colour[3]

-------------------------------------------------------------------------------
(* What is shown *)

\* Brightness is the V of the colour, in a coloured light whose V is not zero.
InColour == lamp.mode = "colour" /\ lamp.colour.v > 0
ShownBrightness ==
    IF InColour THEN ToBrightness(ValueRange, lamp.colour.v)
    ELSE IF lamp.bright # None THEN ToBrightness(BrightRange, lamp.bright) ELSE None

ShownColour ==
    IF lamp.colour = NoColour THEN <<0, 0>>
    ELSE <<Scaled(HueRange, Hue, lamp.colour.h), Scaled(SatRange, Percent, lamp.colour.s)>>

ShownKelvin == Scaled(TempRange, RealTemp, lamp.temp)

\* The colour modes the lamp is said to support: brightness only without colours.
SupportedModes ==
    LET coloured ==
          (IF config.colour # <<>> /\ "colour" \in config.modes THEN {"hs"} ELSE {}) \cup
          (IF config.temp # <<>> /\ "white" \in config.modes THEN {"color_temp"} ELSE {})
    IN  IF coloured # {} THEN coloured
        ELSE IF config.bright # <<>> THEN {"brightness"} ELSE {"onoff"}

\* The mode it is in; where none fits, the code takes whichever the set yields first.
ColorModes ==
    LET fits == CASE lamp.mode = "white"  -> SupportedModes \cap {"color_temp", "brightness"}
                  [] lamp.mode = "colour" -> SupportedModes \cap {"hs"}
                  [] OTHER -> {}
    IN  IF fits # {} THEN fits
        ELSE IF "brightness" \in SupportedModes THEN {"brightness"} ELSE SupportedModes

SupportsEffects == "scene" \in config.modes

-------------------------------------------------------------------------------
\* Hue, saturation and a shown temperature may fall one below their range, where a narrow
\* range stands for a wide one; what a scale rounds up never does.
In(range)    == range[1] .. range[2]
Below(range) == range[1] - 1 .. range[2]
TypeOK ==
    /\ config \in Configs
    /\ lamp \in [on : BOOLEAN, mode : {"none", "white", "colour", "scene"},
                 bright : {None} \cup In(BrightRange), temp : {None} \cup Nat,
                 colour : {NoColour} \cup
                    [h : Below(HueRange), s : Below(SatRange), v : In(ValueRange)]]
    /\ asked \in {None} \cup 1 .. 255

Init ==
    /\ config \in Configs
    /\ lamp = [on |-> FALSE, mode |-> "none", bright |-> None, temp |-> None,
               colour |-> NoColour]
    /\ asked = None

-------------------------------------------------------------------------------
(* SberLightEntity.async_turn_on() and async_turn_off(): a command that was served is   *)
(* patched into the desired state (_async_send_attrs)                                   *)

\* The lamp turned on, with the brightness of the command if it has one.
Raised(b) ==
    [lamp EXCEPT !.on = TRUE, !.bright = IF b # None THEN FromBrightness(BrightRange, b) ELSE @]

Painted(hs, b) ==
    [h |-> Scaled(Hue, HueRange, hs[1]), s |-> Scaled(Percent, SatRange, hs[2]),
     v |-> FromBrightness(ValueRange, b)]

\* The brightness of a new colour: without one in the command the lamp keeps what it shows.
Kept(b) == IF b # None THEN b ELSE IF ShownBrightness # None THEN ShownBrightness ELSE 255

\* A colour, maybe with a brightness; the lamp is coloured then, told so or before.
TurnOnColour(hs, b) ==
    /\ "hs" \in SupportedModes
    /\ lamp' = [Raised(b) EXCEPT !.mode = "colour", !.colour = Painted(hs, Kept(b))]
    /\ asked' = IF b = None /\ InColour THEN asked ELSE Kept(b)
    /\ UNCHANGED config

TurnOnWhite(kelvin, b) ==
    LET temp == Scaled(RealTemp, TempRange, kelvin)
    IN  /\ "color_temp" \in SupportedModes
        /\ lamp' = [Raised(b) EXCEPT !.mode = "white", !.temp = IF temp < 0 THEN 0 ELSE temp]
        /\ asked' = None
        /\ UNCHANGED config

\* Only a brightness: a coloured lamp takes it as the V of the colour it shows.
TurnOnBrightness(b) ==
    /\ SupportedModes # {"onoff"}
    /\ IF lamp.mode = "colour"
       THEN lamp' = [Raised(None) EXCEPT !.colour = Painted(ShownColour, b)] /\ asked' = b
       ELSE lamp' = Raised(b) /\ asked' = None
    /\ UNCHANGED config

\* A scene; one the lamp does not know is taken for a plain "on".
TurnOnEffect(effect) ==
    /\ SupportsEffects
    /\ IF effect \in config.scenes
       THEN lamp' = [Raised(None) EXCEPT !.mode = "scene"] /\ asked' = None
       ELSE lamp' = Raised(None) /\ asked' = asked
    /\ UNCHANGED config

TurnOn  == lamp' = Raised(None) /\ UNCHANGED <<config, asked>>
TurnOff == lamp' = [lamp EXCEPT !.on = FALSE] /\ UNCHANGED <<config, asked>>

\* The application, in the ranges of the lamp.
At(range, percent) == range[1] + ((range[2] - range[1]) * percent) \div 100
Application(p) ==
    /\ \/ /\ config.bright # <<>>
          /\ lamp' = [lamp EXCEPT !.on = TRUE, !.bright = At(BrightRange, p)]
       \/ /\ "hs" \in SupportedModes
          /\ lamp' = [lamp EXCEPT !.mode = "colour",
                                  !.colour = [h |-> At(HueRange, p), s |-> At(SatRange, p),
                                              v |-> At(ValueRange, p)]]
       \/ /\ "color_temp" \in SupportedModes
          /\ lamp' = [lamp EXCEPT !.mode = "white", !.temp = At(TempRange, p)]
       \/ lamp' = [lamp EXCEPT !.on = FALSE]
    /\ asked' = IF lamp'.mode = "colour" /\ lamp'.colour # lamp.colour /\ lamp'.colour.v > 0
                THEN ToBrightness(ValueRange, lamp'.colour.v) ELSE asked
    /\ UNCHANGED config

Given == Brightnesses \cup {None}
Next ==
    \/ \E hs \in Colours, b \in Given : TurnOnColour(hs, b)
    \/ \E kelvin \in Kelvins, b \in Given : TurnOnWhite(kelvin, b)
    \/ \E b \in Brightnesses : TurnOnBrightness(b)
    \/ \E effect \in {"candle", "unknown"} : TurnOnEffect(effect)
    \/ TurnOn \/ TurnOff
    \/ \E p \in Raw : Application(p)

Spec == Init /\ [][Next]_vars

-------------------------------------------------------------------------------
(* Properties *)

\* However often the colour of a lamp is changed without a brightness, in Home
\* Assistant or back and forth through the rounding of its V, the lamp goes on
\* showing the brightness that was asked for, up to the one rounding of its range.
NoDrift ==
    InColour /\ asked # None =>
        ShownBrightness = ToBrightness(ValueRange, FromBrightness(ValueRange, asked))

\* The mode the lamp shows is one it is said to support, whatever the application
\* or an effect has set: Home Assistant refuses the state otherwise.
ModeSupported == ColorModes # {} /\ ColorModes \subseteq SupportedModes

===============================================================================
