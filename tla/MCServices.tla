----------------------------- MODULE MCServices -----------------------------
(***************************************************************************)
(* Twelve parts of the integration that share no state, in one run: the    *)
(* initial state picks the part, and the others never move.  Variables of  *)
(* the same name serve each part in its turn.                              *)
(***************************************************************************)
EXTENDS Integers, Sequences, FiniteSets, TLC

CONSTANTS
    Settings, Reads, MaxValue,              \* SpeakerSettings
    Homes, MaxPushes,                       \* HomeVariables
    MaxSetting, MaxChoice, MaxReloads,      \* EntryLifecycle
    Accounts, NoAccount, MaxLogins, MaxRotation,    \* LoginFlows
    Slugs, MaxContent, MaxScenarios,        \* ScenarioSync
    Callers, NoCaller, Blank, MaxId,        \* Surrogates
    Bands, Levels, Presets, Own, MaxWrites, \* Equalizer
    MaxPresses,                             \* ButtonPresses: its MaxReloads too
    Lists, MaxUpdates,                      \* EntityDiscovery
    Devices, Snapshots, KnownKeys, KnownTypes, Sizes, MaxSeen,      \* DevTools
    Files, HomeLists, Events,               \* Listeners: its MaxReloads too
    GivenIds, Entities, Unlisted, MaxLoads  \* UniqueIdRepair

VARIABLES
    part,       \* the part that moves
    stage, pending, value,
    readable, allowed, cooling, rested, quiet, shown, read, writing, overtaken, written,
    account, pushes, homes, atHome, throttle, task, refresh, setting, stopped, heard, excused,
    options, snapshot, flag, inForce, built, listening, running, reloads, owed, raced,
    source, method, entry, uid, phone, tokens, stored, ouid, challenge, chains, lost,
    yaml, scenarios, work, effect, meddled,
    cloud, cache, lock, pc, job, sid, again, look, stray, mixed,
    reported, held, echo, panel, put, paused, reading, writes, crossed, loose, astray,
    stamped, server, image, entity, lastSeen, due, born, remakes, fired,
    listed, known, entities, refused, updates,
    diffs, last, recent, byDevice, size, start, latest, seen,
    file, loaded, homeList, registry, firedAt, bus, basis, reread,
    turn, offered, records, loads

\* What the numbers, and the names with a meaning of their own, may not be.
ASSUME BoundAssumption == MaxValue \in Nat /\ MaxPresses \in Nat \ {0}
ASSUME NameAssumption ==
    /\ NoAccount \notin Accounts
    /\ {"by the user", "deleted"} \cap Slugs = {}
    /\ {NoCaller, Blank} \cap Callers = {}

\* The bands of no two presets are the same, and no preset of ours or of the speaker
\* has a name that stands for bands set by hand.
ASSUME PresetAssumption ==
    /\ 0 \in Levels
    /\ Presets \in [DOMAIN Presets -> [Bands -> Levels]]
    /\ \A p, q \in DOMAIN Presets : Presets[p] = Presets[q] => p = q
    /\ {"manual", "user"} \cap DOMAIN Presets = {}
    /\ "manual" \notin Own

Tools == INSTANCE DevTools

\* A snapshot is a function, and none is the sign for none; one of the sizes of a ring
\* is the largest.
ASSUME SnapshotAssumption ==
    /\ \A s \in Snapshots : s = [k \in DOMAIN s |-> s[k]]
    /\ Tools!None \notin Snapshots
    /\ Sizes \subseteq Nat /\ \E n \in Sizes : \A m \in Sizes : m <= n

IsSequence(s) == s \in Seq({s[i] : i \in DOMAIN s})

\* A file lists its listeners in an order; no two homes have one name, no home is called
\* by the id of another, and an id is not empty.
ASSUME ListenerAssumption ==
    /\ \A f \in DOMAIN Files : f # 0 /\ IsSequence(Files[f].listeners)
    /\ \A list \in HomeLists : \A h \in list :
          /\ h.id # ""
          /\ \A x \in list : x.name[1] = h.name[1] => x.id = h.id
          /\ \A f \in DOMAIN Files : \A i \in DOMAIN Files[f].listeners :
                LET item == Files[f].listeners[i]
                IN  item.home # <<h.id, "">> /\ item.homeId # h.name[1]

\* A device has finitely many entities, whose keys are sequences of words; one that is
\* not listed has a key, and no key of a listed one ends in the last word of it.
ASSUME KeyAssumption ==
    /\ IsFiniteSet(Entities) /\ Unlisted \subseteq Entities
    /\ \A e \in Entities : e = [domain |-> e.domain, key |-> e.key] /\ IsSequence(e.key)
    /\ \A u \in Unlisted : u.key # <<>> /\ \A e \in Entities \ Unlisted :
          e.key # <<>> => e.key[Len(e.key)] # u.key[Len(u.key)]

Kind == [c \in Callers |-> "tts"]

Speaker   == INSTANCE SpeakerSettings
Variables == INSTANCE HomeVariables
Life      == INSTANCE EntryLifecycle
Login     == INSTANCE LoginFlows
Sync      == INSTANCE ScenarioSync
Surrogate == INSTANCE Surrogates
Equal     == INSTANCE Equalizer
Presses   == INSTANCE ButtonPresses WITH cache <- image, reloads <- remakes
Discovery == INSTANCE EntityDiscovery
Listening == INSTANCE Listeners WITH homes <- homeList, fired <- firedAt, reloads <- reread
Repair    == INSTANCE UniqueIdRepair

speakerOnly   == <<readable, allowed, cooling, rested, quiet, shown, read, writing, overtaken,
                   written>>
variablesOnly == <<account, pushes, homes, atHome, throttle, task, refresh, setting, stopped,
                   heard, excused>>
lifeOnly      == <<options, snapshot, flag, inForce, built, listening, running, reloads, owed,
                   raced>>
loginOnly     == <<source, method, entry, uid, phone, tokens, stored, ouid, challenge, chains,
                   lost>>
syncOnly      == <<yaml, scenarios, work, effect, meddled>>
surrogateOnly == <<cloud, cache, lock, pc, job, sid, again, look, stray, mixed>>
equalizerOnly == <<reported, held, echo, panel, put, paused, reading, writes, crossed, loose,
                   astray>>
pressesOnly   == <<stamped, server, image, entity, lastSeen, due, born, remakes, fired>>
discoveryOnly == <<listed, known, entities, refused, updates>>
toolsOnly     == <<diffs, last, recent, byDevice, size, start, latest, seen>>
listenersOnly == <<file, loaded, homeList, registry, firedAt, bus, basis, reread>>
repairOnly    == <<turn, offered, records, loads>>
vars == <<part, stage, pending, value, speakerOnly, variablesOnly, lifeOnly, loginOnly, syncOnly,
          surrogateOnly, equalizerOnly, pressesOnly, discoveryOnly, toolsOnly, listenersOnly,
          repairOnly>>

None == 0
NoSpeaker ==
    /\ readable = None /\ allowed = None /\ cooling = None /\ rested = None /\ quiet = None
    /\ shown = None /\ read = None /\ writing = None /\ overtaken = None /\ written = None
NoVariables ==
    /\ account = None /\ pushes = None /\ homes = None /\ atHome = None /\ throttle = None
    /\ task = None /\ refresh = None /\ setting = None /\ stopped = None /\ heard = None
    /\ excused = None
NoLife ==
    /\ options = None /\ snapshot = None /\ flag = None /\ inForce = None /\ built = None
    /\ listening = None /\ running = None /\ reloads = None /\ owed = None /\ raced = None
NoLogin ==
    /\ source = None /\ method = None /\ entry = None /\ uid = None /\ phone = None
    /\ tokens = None /\ stored = None /\ ouid = None /\ challenge = None /\ chains = None
    /\ lost = None
NoSync == yaml = None /\ scenarios = None /\ work = None /\ effect = None /\ meddled = None
NoSurrogate ==
    /\ cloud = None /\ cache = None /\ lock = None /\ pc = None /\ job = None
    /\ sid = None /\ again = None /\ look = None /\ stray = None /\ mixed = None
NoEqualizer ==
    /\ reported = None /\ held = None /\ echo = None /\ panel = None /\ put = None
    /\ paused = None /\ reading = None
    /\ writes = None /\ crossed = None /\ loose = None /\ astray = None
NoPresses ==
    /\ stamped = None /\ server = None /\ image = None /\ entity = None /\ lastSeen = None
    /\ due = None /\ born = None /\ remakes = None /\ fired = None
NoDiscovery ==
    listed = None /\ known = None /\ entities = None /\ refused = None /\ updates = None
NoTools ==
    /\ diffs = None /\ last = None /\ recent = None /\ byDevice = None
    /\ size = None /\ start = None /\ latest = None /\ seen = None
NoListeners ==
    /\ file = None /\ loaded = None /\ homeList = None /\ registry = None
    /\ firedAt = None /\ bus = None /\ basis = None /\ reread = None
NoRepair == turn = None /\ offered = None /\ records = None /\ loads = None

Init ==
    \/ /\ NoPresses /\ NoDiscovery /\ NoTools /\ NoListeners /\ NoRepair
       /\ \/ /\ part = "speaker" /\ Speaker!Init
             /\ stage = None /\ pending = None
             /\ NoVariables /\ NoLife /\ NoLogin /\ NoSync /\ NoSurrogate /\ NoEqualizer
          \/ /\ part = "variables" /\ Variables!Init
             /\ stage = None
             /\ NoSpeaker /\ NoLife /\ NoLogin /\ NoSync /\ NoSurrogate /\ NoEqualizer
          \/ /\ part = "life" /\ Life!Init
             /\ pending = None /\ value = None
             /\ NoSpeaker /\ NoVariables /\ NoLogin /\ NoSync /\ NoSurrogate /\ NoEqualizer
          \/ /\ part = "login" /\ Login!Init
             /\ value = None
             /\ NoSpeaker /\ NoVariables /\ NoLife /\ NoSync /\ NoSurrogate /\ NoEqualizer
          \/ /\ part = "sync" /\ Sync!Init
             /\ stage = None /\ pending = None /\ value = None
             /\ NoSpeaker /\ NoVariables /\ NoLife /\ NoLogin /\ NoSurrogate /\ NoEqualizer
          \/ /\ part = "surrogates" /\ Surrogate!Init
             /\ stage = None /\ pending = None /\ value = None
             /\ NoSpeaker /\ NoVariables /\ NoLife /\ NoLogin /\ NoSync /\ NoEqualizer
          \/ /\ part = "equalizer" /\ Equal!Init
             /\ stage = None /\ pending = None /\ value = None
             /\ NoSpeaker /\ NoVariables /\ NoLife /\ NoLogin /\ NoSync /\ NoSurrogate
    \/ /\ stage = None /\ pending = None /\ value = None
       /\ NoSpeaker /\ NoVariables /\ NoLife /\ NoLogin /\ NoSync /\ NoSurrogate /\ NoEqualizer
       /\ \/ /\ part = "presses" /\ Presses!Init
             /\ NoDiscovery /\ NoTools /\ NoListeners /\ NoRepair
          \/ /\ part = "discovery" /\ Discovery!Init
             /\ NoPresses /\ NoTools /\ NoListeners /\ NoRepair
          \/ /\ part = "devtools" /\ Tools!Init
             /\ NoPresses /\ NoDiscovery /\ NoListeners /\ NoRepair
          \/ /\ part = "listeners" /\ Listening!Init
             /\ NoPresses /\ NoDiscovery /\ NoTools /\ NoRepair
          \/ /\ part = "repair" /\ Repair!Init
             /\ NoPresses /\ NoDiscovery /\ NoTools /\ NoListeners

Next ==
    /\ part' = part
    /\ \/ /\ UNCHANGED <<pressesOnly, discoveryOnly, toolsOnly, listenersOnly, repairOnly>>
          /\ \/ /\ part = "speaker" /\ Speaker!Next
                /\ UNCHANGED <<stage, pending, variablesOnly, lifeOnly, loginOnly, syncOnly,
                               surrogateOnly, equalizerOnly>>
             \/ /\ part = "variables" /\ Variables!Next
                /\ UNCHANGED <<stage, speakerOnly, lifeOnly, loginOnly, syncOnly, surrogateOnly,
                               equalizerOnly>>
             \/ /\ part = "life" /\ Life!Next
                /\ UNCHANGED <<pending, value, speakerOnly, variablesOnly, loginOnly, syncOnly,
                               surrogateOnly, equalizerOnly>>
             \/ /\ part = "login" /\ Login!Next
                /\ UNCHANGED <<value, speakerOnly, variablesOnly, lifeOnly, syncOnly, surrogateOnly,
                               equalizerOnly>>
             \/ /\ part = "sync" /\ Sync!Next
                /\ UNCHANGED <<stage, pending, value, speakerOnly, variablesOnly, lifeOnly,
                               loginOnly, surrogateOnly, equalizerOnly>>
             \/ /\ part = "surrogates" /\ Surrogate!Next
                /\ UNCHANGED <<stage, pending, value, speakerOnly, variablesOnly, lifeOnly,
                               loginOnly, syncOnly, equalizerOnly>>
             \/ /\ part = "equalizer" /\ Equal!Next
                /\ UNCHANGED <<stage, pending, value, speakerOnly, variablesOnly, lifeOnly,
                               loginOnly, syncOnly, surrogateOnly>>
       \/ /\ UNCHANGED <<stage, pending, value, speakerOnly, variablesOnly, lifeOnly, loginOnly,
                         syncOnly, surrogateOnly, equalizerOnly>>
          /\ \/ /\ part = "presses" /\ Presses!Next
                /\ UNCHANGED <<discoveryOnly, toolsOnly, listenersOnly, repairOnly>>
             \/ /\ part = "discovery" /\ Discovery!Next
                /\ UNCHANGED <<pressesOnly, toolsOnly, listenersOnly, repairOnly>>
             \/ /\ part = "devtools" /\ Tools!Next
                /\ UNCHANGED <<pressesOnly, discoveryOnly, listenersOnly, repairOnly>>
             \/ /\ part = "listeners" /\ Listening!Next
                /\ UNCHANGED <<pressesOnly, discoveryOnly, toolsOnly, repairOnly>>
             \/ /\ part = "repair" /\ Repair!Next
                /\ UNCHANGED <<pressesOnly, discoveryOnly, toolsOnly, listenersOnly>>

Spec == Init /\ [][Next]_vars

-------------------------------------------------------------------------------

\* A setting of the speaker that was written stays shown: no read that the
\* integration starts by itself after the write brings the older value back; and the
\* equalizer, which is written whole, is shown as the speaker has it, its presets exact.
WriteStaysShown ==
    [][ /\ part = "speaker" => Speaker!StaysShown /\ Speaker!TypeOK'
        /\ part = "equalizer" => (Equal!PanelIsHeld /\ Equal!PresetIsExact)' ]_vars

\* A push about a home variable that comes while the variables are being read is
\* read again: at the end every home shows what it had at the last push, or newer.
PushesAreRead == part = "variables" => Variables!PushesAreRead

\* A loaded entry runs with the stored options, nothing of an entry that is not
\* loaded survives, and every reload has an edit of the choice of its own.
EntrySound ==
    part = "life" => Life!OptionsInForce /\ Life!NothingSurvives /\ Life!ReloadsForCause

\* What a login saves is the last token of its chain that reached it, of the account of
\* the entry: Sber's newest, unless a rotation was lost on the way.
SavedLoginWorks == [][ part = "login" => Login!SavesWhatWorks ]_vars

\* What the reconciliation of the YAML reports is so in the cloud, until the user
\* changes it, above all that a disabled scenario is inactive; and whatever fails
\* in between, no slug has two scenarios.
ScenariosSound == part = "sync" => Sync!ReportIsTrue /\ Sync!OneScenario

\* Every announcement is spoken with its own text, and a home has one surrogate of
\* a kind, however the callers overlap and the user deletes.
AnnouncementsSound == part = "surrogates" => Surrogate!SpeaksItsOwn /\ Surrogate!OneSurrogate

\* A press of a button fires one event and none is made up after a reload; the entities
\* of homes, scenarios and groups exist once and follow the cloud's names; the
\* differences kept for DevTools add up, and its verdicts are those of the last snapshot.
NothingTwice ==
    /\ part = "presses" => Presses!TypeOK /\ Presses!FiresOnce /\ Presses!MissesNone
    /\ part = "discovery" => Discovery!EntitiesFollow
    /\ part = "devtools" => Tools!DiffsAddUp /\ Tools!VerdictIsCurrent

\* A run of a scenario fires the events the YAML asks for, and those only, whatever became
\* of the file and the homes; a setup after the cloud gave the device a new id renames
\* the record of every listed entity to that entity, and none to another.
StepsSound ==
    [][ /\ part = "listeners" => Listening!FiresAsWritten
        /\ part = "repair" => Repair!RecordsKeepTheirEntity ]_vars

(***************************************************************************)
(* One band of two levels, of which a preset has one.                      *)
(***************************************************************************)
MCPresets == [p \in {"bass"} |-> [b \in Bands |-> 1]]

(***************************************************************************)
(* Reported states: attributes come, go and change, and some are malformed.*)
(***************************************************************************)
Attr(type, number, field) == [type |-> type, value |-> number, field |-> field]
MCSnapshots ==
    {"on" :> Attr("BOOL", 1, TRUE),
     "on" :> Attr("BOOL", 0, TRUE) @@ "level" :> Attr("INTEGER", 5, TRUE),
     "on" :> Attr("BOOL", 1, TRUE) @@ "level" :> Attr("INTEGER", 0, FALSE),
     "level" :> Attr("ODD", 1, TRUE) @@ "new" :> Attr("BOOL", 1, TRUE),
     <<>>}

(***************************************************************************)
(* The lists of the cloud: things appear, vanish, are renamed or lose the  *)
(* name, a group gets its first device.                                    *)
(***************************************************************************)
Thing(name, members) == [name |-> name, members |-> members]
Dwelling == <<"home", "h">>
Drink == <<"scenario", "s">>
Lights == <<"group", "g">>
Hall == <<"room", "r">>
MCLists ==
    {Dwelling :> Thing("flat", {}) @@ Drink :> Thing("tea", {}) @@ Lights :> Thing("lamps", {})
         @@ Hall :> Thing("hall", {"d"}),
     Dwelling :> Thing("dacha", {}) @@ Drink :> Thing("milk", {})
         @@ Lights :> Thing("lamps", {"d"}),
     Dwelling :> Thing("dacha", {}) @@ Drink :> Thing("", {}) @@ Lights :> Thing("", {"d"}),
     Drink :> Thing("tea", {}) @@ Lights :> Thing("lights", {"d"}),
     Dwelling :> Thing("flat", {})}

(***************************************************************************)
(* Listeners: one whose slug an intent has, two that name their home in    *)
(* different ways, one that is disabled, two with one slug.                *)
(***************************************************************************)
Entry(slug, name, enabled, triggers, scenario, homeId, home) ==
    [slug |-> slug, name |-> <<name, "">>, enabled |-> enabled, triggers |-> triggers,
     scenario |-> scenario, homeId |-> homeId, home |-> home]
Plain == <<"", "">>
MCFiles ==
    << [intents |-> {"tea"},
        listeners |->
            <<Entry("", "tea", TRUE, {"TIME"}, Plain, "", Plain),
              Entry("l2", "x", TRUE, {}, <<"tea", "up">>, "", <<"flat", "up">>)>>],
       [intents |-> {},
        listeners |->
            <<Entry("", "tea", TRUE, {"TIME", "PHRASES"}, Plain, "h1", <<"dacha", "">>),
              Entry("l2", "x", TRUE, {}, Plain, "", <<"dacha", "">>),
              Entry("l3", "y", FALSE, {"TIME"}, Plain, "", Plain)>>],
       [intents |-> {},
        listeners |->
            <<Entry("", "tea", TRUE, {"TIME"}, Plain, "", Plain),
              Entry("tea", "x", TRUE, {}, Plain, "", <<"dacha", "">>)>>] >>
Home(id, name, style) == [id |-> id, name |-> <<name, style>>]
MCHomeLists ==
    { {}, {Home("h1", "flat", "")}, {Home("h1", "flat", ""), Home("h2", "dacha", "up")},
      {Home("h1", "dacha", ""), Home("h2", "flat", "")} }
MCEvents == [name : {<<"tea", "">>, <<"milk", "">>}, trigger : {"TIME", ""},
             home : {"h1", "h2", ""}, time : {"t"}]

(***************************************************************************)
(* Keys of entities that end in one another, one key in two domains, and   *)
(* an entity that is not listed; the ids of one device, one of them again. *)
(***************************************************************************)
Firmware == [domain |-> "update", key |-> <<"firmware">>]
MCEntities ==
    {[domain |-> "light", key |-> <<>>], [domain |-> "sensor", key |-> <<"state">>],
     [domain |-> "switch", key |-> <<"state">>], [domain |-> "sensor", key |-> <<"power", "state">>],
     Firmware}
MCUnlisted == {Firmware}
MCIds == <<"a", "b", "a">>
===============================================================================
