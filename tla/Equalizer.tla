------------------------------ MODULE Equalizer ------------------------------
(***************************************************************************)
(* The equalizer of a Sber speaker: one setting of the cloud, shown as a   *)
(* switch, a list of presets and a number per band, and written whole      *)
(* (coordinator.py, sbermap/transform/staros_settings.py).                 *)
(*                                                                         *)
(* Not every speaker reports it: where the tree of settings lacks it, the  *)
(* entities are made up and keep what was written last.  The entities of   *)
(* one platform write in turn (PARALLEL_UPDATES), those of two overlap.    *)
(* A plain switch of the same speaker stands for its other settings, which *)
(* are patched in the same list.                                           *)
(*                                                                         *)
(* A read asks for the screens of one speaker after the other and replaces *)
(* the whole list at its end; for a while after a write the cloud answers  *)
(* with what it had before (SpeakerSettings has the reads in full).        *)
(***************************************************************************)
EXTENDS Integers

CONSTANTS
    Bands, Levels,  \* frequencies, and levels in half decibels
    Presets,        \* _BUILTIN_EQ_PRESETS: the bands of each name
    Own,            \* presets that the speaker itself lists
    MaxWrites       \* bound on the writes and the changes in the app

VARIABLES
    reported,   \* the tree of settings has the equalizer
    held,       \* what the cloud has
    echo,       \* what it answers a read with
    panel,      \* what staros_settings_entities shows
    put,        \* per platform: the PUT under way
    paused,     \* before _staros_write_cooldown_until
    reading,    \* the read under way: whether the user asked for it, its stage, what it
                \* brings; history: whether that was the cloud's, whether a PUT or a
                \* change in the app met the read
    writes,     \* how many there were
    \* history, for the properties
    crossed,    \* PUTs of the equalizer that something else overlapped
    loose,      \* the cloud's equalizer may differ from the shown one
    astray      \* the plain switch may

vars == <<reported, held, echo, panel, put, paused, reading, writes, crossed, loose, astray>>

Manual == "manual"      \* EQ_PRESET_MANUAL
User   == "user"        \* its name in the cloud
Flat   == [b \in Bands |-> 0]
Builtin   == DOMAIN Presets
Platforms == {"switch", "select", "number"}

Group(names) == [enabled : BOOLEAN, preset : names, bands : [Bands -> Levels], plain : BOOLEAN]
Held    == Group(Builtin \union Own \union {User})
Panel   == Group(Builtin \union Own \union {Manual})
Options == Builtin \union {Manual} \union (IF reported THEN Own ELSE {})

TypeOK ==
    /\ reported \in BOOLEAN /\ loose \in BOOLEAN /\ astray \in BOOLEAN
    /\ held \in Held /\ echo \in Held /\ panel \in Panel /\ paused \in BOOLEAN
    /\ reading \in [user : BOOLEAN, stage : {"idle", "asked", "served", "collected"},
                    got : Held \union Panel, fresh : BOOLEAN, met : BOOLEAN]
    /\ put \in [Platforms -> [stage : {"idle", "asked", "served"},
                              what : {"equalizer", "plain"}, aim : Panel]]
    /\ writes \in 0 .. MaxWrites /\ crossed \subseteq Platforms

-------------------------------------------------------------------------------
(* Reading *)

\* _match_preset(): the name from the cloud, else the preset with these bands
Match(preset, bands) ==
    IF preset # User THEN preset
    ELSE IF \E p \in Builtin : Presets[p] = bands
    THEN CHOOSE p \in Builtin : Presets[p] = bands ELSE Manual

\* _make_equalizer(): as the tree has it
FromTree(h) == [h EXCEPT !.preset = Match(h.preset, h.bands)]

\* Mutant: the made-up equalizer starts from flat bands at every read.
SyntheticFlat(s, h) == [s EXCEPT !.preset = Match(User, Flat), !.bands = Flat, !.plain = h.plain]

\* _synthetic_equalizer_entities(): as it was shown, bands and switch
Synthetic(s, h) == [s EXCEPT !.preset = Match(User, s.bands), !.plain = h.plain]

Unread == [enabled |-> TRUE, preset |-> Manual, bands |-> Flat, plain |-> FALSE]
NoPut  == [stage |-> "idle", what |-> "plain", aim |-> Unread]
NoRead == [user |-> FALSE, stage |-> "idle", got |-> Unread, fresh |-> FALSE, met |-> FALSE]

Init ==
    /\ reported \in BOOLEAN
    /\ held \in {h \in Held : ~h.plain} /\ echo = held
    /\ panel = IF reported THEN FromTree(held) ELSE Synthetic(Unread, held)
    /\ put = [p \in Platforms |-> NoPut] /\ paused = FALSE /\ reading = NoRead
    /\ writes = 0 /\ crossed = {} /\ loose = ~reported /\ astray = FALSE

Busy   == {p \in Platforms : put[p].stage # "idle"}
EqPuts == {p \in Busy : put[p].what = "equalizer"}

\* Mutant: an automatic read does not wait for the end of the pause.
AskAlways(user) == reading.stage = "idle"

\* The user's read ignores the pause after a write (async_refresh_staros()).
MayAsk(user) == reading.stage = "idle" /\ (user \/ ~paused)

Ask(user) ==
    /\ MayAsk(user)
    /\ reading' = [NoRead EXCEPT !.user = user, !.stage = "asked", !.met = (Busy # {})]
    /\ UNCHANGED <<reported, held, echo, panel, put, paused, writes, crossed, loose, astray>>

ReadServed ==
    /\ reading.stage = "asked"
    /\ reading' = [reading EXCEPT !.stage = "served", !.got = echo, !.fresh = (echo = held)]
    /\ UNCHANGED <<reported, held, echo, panel, put, paused, writes, crossed, loose, astray>>

\* The screens of this speaker are there, those of another may be asked for next.
Collect ==
    /\ reading.stage = "served"
    /\ reading' = [reading EXCEPT !.stage = "collected",
                        !.got = IF reported THEN FromTree(@) ELSE Synthetic(panel, @)]
    /\ UNCHANGED <<reported, held, echo, panel, put, paused, writes, crossed, loose, astray>>

\* Nothing is known of what a read shows that a write or the app met, nor of what the
\* user's read brings while the cloud is behind.
Replace ==
    /\ reading.stage = "collected"
    /\ panel' = reading.got /\ reading' = NoRead
    /\ LET hasty == reading.user /\ ~reading.fresh
       IN  /\ loose' = (reading.met \/ (reported /\ hasty)
                        \/ (loose /\ ~(reported /\ reading.fresh)))
           /\ astray' = (reading.met \/ hasty \/ (astray /\ ~reading.fresh))
    /\ UNCHANGED <<reported, held, echo, put, paused, writes, crossed>>

ReadFails ==
    /\ reading.stage # "idle" /\ reading' = NoRead
    /\ UNCHANGED <<reported, held, echo, panel, put, paused, writes, crossed, loose, astray>>

\* The cloud's answers catch up with what it has.
CatchesUp ==
    /\ echo # held /\ echo' = held
    /\ UNCHANGED <<reported, held, panel, put, paused, reading, writes, crossed, loose, astray>>

\* STAROS_WRITE_COOLDOWN_SEC is chosen so that they have by then.
PauseEnds ==
    /\ paused /\ echo = held /\ paused' = FALSE
    /\ UNCHANGED <<reported, held, echo, panel, put, reading, writes, crossed, loose, astray>>

-------------------------------------------------------------------------------
(* Writing *)

\* A preset brings its bands, if it is one of ours.
WithPreset(s, p) ==
    [s EXCEPT !.preset = p, !.bands = IF p \in Builtin THEN Presets[p] ELSE @]

\* Mutant: a band set by hand leaves the preset named.
WithBandOnly(s, b, x) == [s EXCEPT !.bands[b] = x]

\* A band set by hand ends the preset.
WithBand(s, b, x) == [s EXCEPT !.bands[b] = x, !.preset = Manual]

MetRead == [reading EXCEPT !.met = (reading.stage # "idle")]

Send(p, what, aim) ==
    /\ put[p].stage = "idle" /\ writes < MaxWrites
    /\ put' = [put EXCEPT ![p] = [stage |-> "asked", what |-> what, aim |-> aim]]
    /\ writes' = writes + 1
    /\ crossed' = IF what = "equalizer" /\ EqPuts # {} THEN crossed \union EqPuts \union {p}
                  ELSE crossed \ {p}
    /\ loose' = (loose \/ (what = "equalizer" /\ EqPuts # {}))
    /\ astray' = (astray \/ \E q \in Busy : put[q].what # what)
    /\ reading' = MetRead
    /\ UNCHANGED <<reported, held, echo, panel, paused>>

\* async_set_staros_setting(): the equalizer is collected from what is shown ...
TurnOn(on)      == Send("switch", "equalizer", [panel EXCEPT !.enabled = on])
Choose(p)       == Send("select", "equalizer", WithPreset(panel, p))
SetBand(b, x)   == Send("number", "equalizer", WithBand(panel, b, x))
\* ... any other setting is written by itself.
Toggle(on)      == Send("switch", "plain", [panel EXCEPT !.plain = on])

\* The body of the PUT names a manual preset "user".
Wire(p) == IF p = Manual THEN User ELSE p
Body(aim, h) == [aim EXCEPT !.preset = Wire(aim.preset), !.plain = h.plain]

Serve(p) ==
    /\ put[p].stage = "asked"
    /\ put' = [put EXCEPT ![p].stage = "served"]
    /\ held' = IF put[p].what = "equalizer" THEN Body(put[p].aim, held)
               ELSE [held EXCEPT !.plain = put[p].aim.plain]
    /\ UNCHANGED <<reported, echo, panel, paused, reading, writes, crossed, loose, astray>>

\* The pause begins.  The equalizer is shown as it was sent, in the list as it was before the PUT:
\* what was shown of other settings since then is undone.  The answer of another
\* setting changes that setting alone.
Answered(p) ==
    /\ put[p].stage = "served"
    /\ panel' = IF put[p].what = "equalizer" THEN put[p].aim
                ELSE [panel EXCEPT !.plain = put[p].aim.plain]
    /\ put' = [put EXCEPT ![p] = NoPut] /\ crossed' = crossed \ {p} /\ paused' = TRUE
    /\ loose' = (loose /\ ~(put[p].what = "equalizer" /\ p \notin crossed))
    /\ UNCHANGED <<reported, held, echo, reading, writes, astray>>

\* The PUT or its answer is lost: nothing is shown.
Fails(p) ==
    /\ put[p].stage # "idle"
    /\ put' = [put EXCEPT ![p] = NoPut] /\ crossed' = crossed \ {p}
    /\ loose' = (loose \/ put[p].what = "equalizer")
    /\ astray' = (astray \/ put[p].what = "plain")
    /\ UNCHANGED <<reported, held, echo, panel, paused, reading, writes>>

\* The Sber app sets the equalizer.
ChangedInApp(h) ==
    /\ writes < MaxWrites /\ writes' = writes + 1
    /\ held' = [h EXCEPT !.plain = held.plain]
    /\ loose' = TRUE /\ crossed' = crossed \union EqPuts /\ reading' = MetRead
    /\ UNCHANGED <<reported, echo, panel, put, paused, astray>>

Next ==
    \/ \E user \in BOOLEAN : Ask(user)
    \/ ReadServed \/ Collect \/ Replace \/ ReadFails \/ CatchesUp \/ PauseEnds
    \/ \E on \in BOOLEAN : TurnOn(on) \/ Toggle(on)
    \/ \E p \in Options : Choose(p)
    \/ \E b \in Bands, x \in Levels : SetBand(b, x)
    \/ \E p \in Platforms : Serve(p) \/ Answered(p) \/ Fails(p)
    \/ \E h \in Held : ChangedInApp(h)

Spec == Init /\ [][Next]_vars

-------------------------------------------------------------------------------
(* Properties *)

\* One object in the cloud and its shown entities: a preset made of the cloud's bands
\* may be shown by its name.
SameEqualizer(s, h) ==
    /\ s.enabled = h.enabled /\ s.bands = h.bands
    /\ \/ h.preset = Wire(s.preset)
       \/ h.preset = User /\ s.preset \in Builtin /\ Presets[s.preset] = h.bands

\* The panel shows what the speaker has, with no read in between and also where no read
\* tells: after a PUT of its own that nothing overlapped, or a read that nothing met and
\* the user did not hurry, until the app, a lost answer, an overlap of PUTs or a read that
\* a write met sets it loose; and the plain switch until PUTs of both kinds overlap, one
\* of its own is lost, or such a read replaces it.
PanelIsHeld ==
    /\ ~loose /\ EqPuts = {} => SameEqualizer(panel, held)
    /\ ~astray /\ Busy = {} => panel.plain = held.plain

\* A named preset is sent with its very bands, whatever was written before it in whatever
\* order: the app takes any other bands for a setting of the user's own.
Exact(s) == s.preset \in Builtin => s.bands = Presets[s.preset]
PresetIsExact == ~reported => Exact(panel) /\ \A p \in Busy : Exact(put[p].aim)
===============================================================================
