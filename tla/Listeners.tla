------------------------------- MODULE Listeners -------------------------------
(****************************************************************************)
(* The listeners a user writes in YAML: loading them (listeners/            *)
(* yaml_loader.py), resolving their homes (__init__.py), matching them      *)
(* (listeners/matcher.py) and the events fired on the bus for a scenario    *)
(* that ran (IntentDispatcher.fire_event).                                  *)
(*                                                                          *)
(* A name is a pair <<word, style>>: how it is written, apart from case and *)
(* blanks around it, is the word. A missing field is "" or {}.              *)
(****************************************************************************)
EXTENDS Integers, Sequences

CONSTANTS
    Files,          \* what the YAML may hold: a sequence of [intents |-> slugs,
                    \* listeners |-> entries], of which a file is known by its place
    HomeLists,      \* the homes the cloud may list: sets of [id, name], no name twice
    Events,         \* the runs of scenarios that may be reported
    MaxReloads      \* bound of the model: how often the YAML is read again

VARIABLES
    file,           \* the YAML on disk
    loaded,         \* the listeners kept from the last good reading
    homes,          \* the homes in the cache
    registry,       \* the listeners in force
    fired,          \* when each of them fired last, "" when it did not
    bus,            \* the events fired for the last run
    basis,          \* history: the file and the homes the registry was made from
    reloads         \* how often the YAML was read again

vars == <<file, loaded, homes, registry, fired, bus, basis, reloads>>

Word(name) == name[1]
Content(f) == IF f = 0 THEN [intents |-> {}, listeners |-> <<>>] ELSE Files[f]
NoName == <<"", "">>

(****************************************************************************)
(* Loading. Two listeners with one slug make the whole file invalid, one    *)
(* that takes the slug of an intent is kept but disabled.                   *)
(****************************************************************************)
SlugOf(entry) == IF entry.slug # "" THEN entry.slug ELSE Word(entry.name)

Duplicate(f) ==
    LET entries == Content(f).listeners
    IN  \E i, j \in DOMAIN entries : i < j /\ SlugOf(entries[i]) = SlugOf(entries[j])

Listener(slug, enabled, triggers, scenario, home) ==
    [slug |-> slug, enabled |-> enabled, triggers |-> triggers, scenario |-> scenario,
     home |-> home]

HomeOf(entry) == IF entry.homeId # "" THEN <<entry.homeId, "">> ELSE entry.home

\* Mutant: the slugs of the intents are not reserved.
AnySlug(entry, reserved) ==
    Listener(SlugOf(entry), entry.enabled, entry.triggers, entry.scenario, HomeOf(entry))

ListenerOf(entry, reserved) ==
    Listener(SlugOf(entry), entry.enabled /\ SlugOf(entry) \notin reserved,
             entry.triggers, entry.scenario, HomeOf(entry))

Load(f) == [i \in DOMAIN Content(f).listeners |->
               ListenerOf(Content(f).listeners[i], Content(f).intents)]

(****************************************************************************)
(* Resolving: a home given by its id stays, one given by name becomes the   *)
(* id of the home listed last under that name, any other disables.          *)
(****************************************************************************)
HomesNamed(list, name) == {h.id : h \in {x \in list : Word(x.name) = Word(name)}}
Settled(list, home) == home = NoName \/ \E h \in list : <<h.id, "">> = home

\* Mutant: a home nobody has any more is left out of the filter.
ResolvedLoosely(spec, list) ==
    LET named == HomesNamed(list, spec.home)
    IN  IF Settled(list, spec.home) THEN spec
        ELSE Listener(spec.slug, spec.enabled, spec.triggers, spec.scenario,
                      IF named = {} THEN NoName ELSE <<CHOOSE id \in named : TRUE, "">>)

Resolved(spec, list) ==
    LET named == HomesNamed(list, spec.home)
    IN  IF Settled(list, spec.home) THEN spec
        ELSE Listener(spec.slug, spec.enabled /\ named # {}, spec.triggers, spec.scenario,
                      IF named = {} THEN spec.home ELSE <<CHOOSE id \in named : TRUE, "">>)

Unfired(specs) == [i \in DOMAIN specs |-> ""]
Apply(specs, list) == [i \in DOMAIN specs |-> Resolved(specs[i], list)]

(****************************************************************************)
(* Matching and firing. The home of an event is the one it was read for.    *)
(****************************************************************************)
MatchListener(spec, event) ==
    /\ spec.enabled
    /\ spec.triggers = {} \/ event.trigger \in spec.triggers
    /\ spec.scenario = NoName \/ Word(spec.scenario) = Word(event.name)
    /\ spec.home = NoName \/ spec.home = <<event.home, "">>

\* The given places of the first n, in their order.
InOrder(n, places) ==
    LET taken[i \in 0..n] ==
            IF i = 0 THEN <<>>
            ELSE IF i \in places THEN Append(taken[i - 1], i) ELSE taken[i - 1]
    IN  taken[n]

BaseEvent(event) == [slug |-> "", source |-> "sber_only", event |-> event]
ListenerEvent(spec, event) == [slug |-> spec.slug, source |-> "listener", event |-> event]

Init ==
    /\ file \in DOMAIN Files /\ homes \in HomeLists
    /\ loaded = Load(IF Duplicate(file) THEN 0 ELSE file)
    /\ registry = Apply(loaded, homes) /\ fired = Unfired(registry)
    /\ basis = <<IF Duplicate(file) THEN 0 ELSE file, homes>>
    /\ bus = <<>> /\ reloads = 0

\* The user edits the file; nothing reads it yet.
EditFile(f) ==
    /\ reloads < MaxReloads /\ file' = f
    /\ UNCHANGED <<loaded, homes, registry, fired, bus, basis, reloads>>

HomesChange(list) ==
    /\ reloads < MaxReloads /\ homes' = list
    /\ UNCHANGED <<file, loaded, registry, fired, bus, basis, reloads>>

\* The service: an invalid file leaves the listeners in force as they were.
ReloadIntents ==
    /\ reloads < MaxReloads /\ reloads' = reloads + 1
    /\ IF Duplicate(file)
       THEN UNCHANGED <<loaded, registry, fired, basis>>
       ELSE /\ loaded' = Load(file)
            /\ registry' = Apply(Load(file), homes)
            /\ fired' = Unfired(Load(file))
            /\ basis' = <<file, homes>>
    /\ UNCHANGED <<file, homes, bus>>

\* The entry is set up again: what was loaded is applied to the homes of now.
ReloadEntry ==
    /\ reloads < MaxReloads /\ reloads' = reloads + 1
    /\ registry' = Apply(loaded, homes)
    /\ fired' = Unfired(loaded)
    /\ basis' = <<basis[1], homes>>
    /\ UNCHANGED <<file, loaded, homes, bus>>

FireEvent(event) ==
    LET matches == InOrder(Len(registry),
                           {i \in DOMAIN registry : MatchListener(registry[i], event)})
    IN  /\ bus' = <<BaseEvent(event)>>
                  \o [i \in DOMAIN matches |-> ListenerEvent(registry[matches[i]], event)]
        /\ fired' = [i \in DOMAIN registry |->
                        IF MatchListener(registry[i], event) THEN event.time ELSE fired[i]]
        /\ UNCHANGED <<file, loaded, homes, registry, basis, reloads>>

Next ==
    \/ \E f \in DOMAIN Files : EditFile(f)
    \/ \E list \in HomeLists : HomesChange(list)
    \/ ReloadIntents \/ ReloadEntry
    \/ \E event \in Events : FireEvent(event)

Spec == Init /\ [][Next]_vars

(****************************************************************************)
(* Properties.                                                              *)
(****************************************************************************)

\* What the user wrote, read without the code: an entry asks for an event when it is
\* enabled, no intent has its slug, and every filter it names holds.
AskedFor(entry, f, list, event) ==
    /\ entry.enabled /\ SlugOf(entry) \notin f.intents
    /\ entry.triggers # {} => event.trigger \in entry.triggers
    /\ entry.scenario # NoName => Word(entry.scenario) = Word(event.name)
    /\ entry.homeId # "" => event.home = entry.homeId /\ \E h \in list : h.id = entry.homeId
    /\ entry.homeId = "" /\ entry.home # NoName =>
          \E h \in list : h.id = event.home /\ Word(h.name) = Word(entry.home)

\* Every run of a scenario fires one event of its own and one for each listener of the
\* last good file that asks for it, in the order of the file and nothing else, whatever
\* happened to the file and to the homes since (intent_dispatcher.py:330).
FiresAsWritten ==
    bus' # bus =>
        LET event == bus'[1].event
            good == Content(basis[1])
            asked == {i \in DOMAIN good.listeners :
                         AskedFor(good.listeners[i], good, basis[2], event)}
            own == 1..Len(bus') - 1
        IN  /\ bus'[1] = BaseEvent(event)
            /\ \E place \in [own -> asked] :
                  /\ asked = {place[i] : i \in own}
                  /\ \A i, j \in own : i < j => place[i] < place[j]
                  /\ \A i \in own :
                        /\ bus'[1 + i].slug = SlugOf(good.listeners[place[i]])
                        /\ bus'[1 + i].event = event
==============================================================================
