# A verification project for SberHome

SberHome (`src/custom_components/sberhome`) is a Home Assistant integration for
the Sber smart home: a Python client of the Sber cloud (`aiosber/`), a
`DataUpdateCoordinator` that polls the cloud and listens to its WebSocket, entity
platforms, an editor for Sber scenarios, announcements, and a panel. Everything runs
on one asyncio event loop, so there are no data races; what is hard are the `await`s:
between a request and its answer anything else may run, answers come late or
never, pushes are lost, and the process may stop at any of these points. The
other hard part is data: the integration reads what firmwares, the mobile application
and users wrote, and writes it back.

This directory holds TLA+ models of the parts where that matters, TLC runs over
small instances, and TLAPS proofs about any instance. `PROJECT.json` lists the
components, the runs, the hazards and, under `map`, the source lines behind
every definition. Paths below are relative to `src/custom_components/sberhome`.

1. [Inventory](#1-inventory) – 2. [Modules](#2-modules) – 3. [Runs](#3-what-the-runs-check) –
4. [Proofs](#4-what-is-proved) – 5. [Disagreements](#5-disagreements-met) –
6. [Not modelled](#6-not-modelled)

## 1. Inventory

| Component | State | Operations | Hard because | Correct if |
|---|---|---|---|---|
| **SberID token manager** `aiosber/auth/manager.py`, `_single_flight.py`, `_ha_token_store.py` | SberID tokens, companion token, lock, last error, attempt counter; a copy in the config entry | `access_token`, `force_refresh`, `sberid_access_token`, `force_refresh_sberid`, the two refreshes, persistence | two channels share one one-shot refresh token; many requests are refused at once; a rotation's answer may be lost; restarts | nobody spends a refresh token twice; the entry always holds the newest one; a refusal for good is asked for once |
| **CSAFront (SMS) token manager** `csafront_manager.py` | refresh token, SmartHomeToken, lock, last error | `access_token`, `force_refresh`, a refresh of two requests | the second request may fail after the first has rotated the token | a new login is never the integration's own doing |
| **HTTP transport** `aiosber/transport/http.py` | none | one request with one retry after a refusal | works on a token that others replace meanwhile | a good token is not replaced |
| **State cache, device service** `aiosber/service/` | devices, homes, rooms, groups, enums, time of the last local write per device | refresh (flat, or the tree of the default home), push, optimistic patch, command | refreshes, pushes and commands overlap; a degraded answer lacks devices | an old snapshot does not bring back an old state; the cache catches up with the cloud |
| **Coordinator: polling** `coordinator.py` | interval, timer, pause after HTTP 429, WebSocket task, availability log | `_async_update_data`, publication of pushes, `_run_ws`, `_rate_limited_failure` | three sources of polls, a push re-arms the timer, the pause may stretch the interval | polling never falls asleep and never breaks a pause |
| **Coordinator: home variables** | throttle, pending flag, refresh task | throttled poll, manual refresh, coalesced refresh after a push, PUT, shutdown | a push says *that*, not *what*; it comes while values are read | a push during a refresh is read again |
| **Speaker settings (StarOS)** `coordinator.py`, `aiosber/api/settings.py`, `sbermap/transform/staros_settings.py` | shown entities, pause after a write, failure flags | polls, reads on request, writes, the tree of screens made into entities, the equalizer | the cloud answers with the old value for a while; one object is written by three platforms; screens lead back to one another | a written setting stays shown; each has one entity |
| **WebSocket client** `aiosber/transport/ws.py`, `_ws_adapter.py` | connection, backoff, failures in a row | `run`, `_connect_and_receive` | tokens expire while connected, the server closes at will | it reconnects, and gives up only after its limit |
| **Intent dispatcher** `intent_dispatcher.py` | cursor per home, bounded memory of fired ids, pending flag, worker, poller | push, worker pass, poller tick, restart | pushes say *that*, not *what*; logs list late; requests fail; one event in several homes | every voice command fires once, none is lost, nothing historical is fired |
| **Listeners** `listeners/` | listeners in force, the last good file | load, resolve homes, match, fire | names in many spellings, homes known later, a broken file | exactly the listeners the YAML asks for fire |
| **Command tracker** `command_tracker.py` | pending and closed commands | record, observe (push, poll), sweep, clear | no correlation id: an effect is recognised by its value, attribute by attribute | a verdict comes in time and is true |
| **Device selection** `identity.py`, `selection_migration.py`, `registry_maintenance.py` | three options of the entry, device registry, miss counters | enable, disable, set, import, migrate, reconcile, prune | units are paired again under new ids, answers are incomplete, a user goes back to an older version | the choice follows the hardware; nothing unchosen appears; nothing chosen is removed |
| **Repair of unique ids** `unique_id_repair.py` | records of the entity registry | rename at setup | an id is a suffix of another; an id changes twice | every record keeps its entity |
| **Entry life cycle** `__init__.py` | `hass.data` of the entry, platforms, listener, snapshot of options | setup, rollback, unload, options listener | a setup may stop half way; reloads from several sides | nothing survives an unload; no reload is doubled |
| **Config and reauth flows** `config_flow.py`, `auth_view.py` | pending flows, tokens of the dialog | SberID callback, SMS and e-mail codes, check of the gateway, reauth | callback and form race; the check itself may rotate the token | the entry gets the last token that arrived, of the right account |
| **Scenario editing** `intents/` | none of its own; markers in scenarios, the YAML specs | decode, edit, encode, create, update, reconcile | scenarios of others, understood in part; requests fail in the middle | what is not edited is kept; the report is true |
| **Surrogates** `tts_surrogate/`, `ttc_surrogate/`, `notify.py` | cached scenario id, lock per home | edit, then run; the panel's look | two announcements at once, deletion, late requests | the text that runs is the one asked for |
| **Mapping** `sbermap/`, platforms | tables, codecs, scales | attributes to entities and back | ranges, rounding, types, two time stamps per attribute | what is shown is what was said last |
| **Homes, groups, scenarios as entities** `switch.py`, `button.py`, `switch_groups.py` | what was discovered | discovery at every update, rename | things vanish and come back | each entity once, under its present name |
| **DevTools** `state_diff.py`, `schema_validator.py` | bounded rings, last snapshots | observe, resize, clear | rings drop, snapshots stay | the differences kept add up |
| Pairing, diagnostics, repairs, panel, DTOs | little | read, single requests | little | |

How they interact: the coordinator owns a client, whose transport asks a token
manager for every request. A poll calls `DeviceService.refresh`, which replaces the
cache; pushes and commands patch it; each of them rebuilds the entities,
feeds the command tracker and DevTools, and publishes. A push of topic
`UPDATE_WIDGETS` wakes the intent dispatcher and the refresh of home variables; what
the dispatcher finds is matched against the listeners. The end of the WebSocket task
asks for a poll, and a good poll starts the task again. After each poll the registry is
pruned and a migration of the selection is made up for. An edit of the selection
writes the options; the update listener compares them with a snapshot and reloads
the entry, which starts all of this anew. A setup repairs unique ids, reconciles the YAML's
scenarios and loads the listeners.

## 2. Modules

| Module | Models | Run |
|---|---|---|
| `SingleFlight` | `SingleFlightRefresh`: the lock, the shared error, who missed an attempt. Extended by both token modules | |
| `TokenAuth` | `AuthManager`, `HATokenStore`, the retry of `HttpTransport`, reauth, restart | `token_auth` |
| `CsafrontAuth` | `CsafrontAuthManager` with its store | `csafront_auth`, `csafront_rotation_kept` |
| `StateSync` | `StateCache`, `DeviceService`, the pushes and commands that write it | `state_sync`, `state_sync_live` |
| `Polling` | the schedule of the coordinator | `polling` |
| `PushLink` | abstract: what the push connection promises the coordinator | `polling` |
| `WebSocketLoop` | `WebSocketClient.run()`, the adapter, `_run_ws()`; implements `PushLink` | `polling` |
| `PollingWithSocket` | `Polling` and `WebSocketLoop` composed | `polling` |
| `IntentDispatch` | `IntentDispatcher` with the event log of the cloud | `intents`, `intents_live` |
| `CommandTracking` | `CommandTracker` and the entity that records a command | `entities` |
| `DeviceSelection` | the choice of devices and the registry | `device_selection` |
| `HomeVariables`, `SpeakerSettings`, `Equalizer`, `EntryLifecycle`, `LoginFlows`, `ScenarioSync`, `Surrogates`, `ButtonPresses`, `EntityDiscovery`, `DevTools`, `Listeners`, `UniqueIdRepair` | one component each | `services` |
| `Lamp`, `Indicator`, `Features` over `FeatureTables`, `Climate`, `Cover` | the mapping and the commands of the platforms | `entities` |
| `Category`, `ScenarioCodec`, `SettingsTree` | one component each | `conversions` |
| `TokenAuthProofs`, `CsafrontAuthProofs`, `StateSyncProofs`, `PollingProofs`, `IntentDispatchProofs`, `EntitiesProofs`, `DeviceSelectionProofs`, `ServicesProofs` | theorems | |

An action is one stretch of code between two `await`s, so interleavings of the model
are interleavings of the event loop. Requests are split in three: sent, served by
the cloud, answer processed; a request can fail before or after it was served.
Variables marked *history* exist for the properties only and guard nothing. Definitions
marked *Mutant* are plausible wrong versions of a definition of the code; `PROJECT.json`
says which property notices which of them, and no specification uses them.

`MCServices` holds twelve components, `MCEntities` six and `MCConversions` three, which share no
state: the initial state picks the part, the other parts stay where they are, so that their state
spaces add up and do not multiply. `MCEntities` and `MCConversions` map the variables of their parts to
common ones by `INSTANCE ... WITH`; `MCEntities` also states what the constants of its parts may
be (`EntityAssumptions`), for the proofs.

**TokenAuth.** A caller is one `HttpTransport.request()`, on the companion channel
or on the sberid channel (speaker settings). `pc` says at which `await` it is,
`req` holds its locals (`stale_token`, whether it was retried). Tokens are numbers
in the order of issue. `Queue`, `LockFree`, `BeginAttempt`, `EndAttempt` of
`SingleFlight` are the lines of `run` and `_run_locked`; `missed[f]` is the set of
callers whose `seen_attempt` is out of date, which is all the code asks of the
counter.

**CsafrontAuth.** The same with a refresh of two requests; `fresh` is the local
`new_refresh` between them.

**StateSync.** Values are the numbers of the changes of an attribute, so *older* has
a meaning. `fetch[r]` is a refresh: its place, the devices and states of its
snapshot. `patched[r]` stands for `_last_local_write_at > fetch_started_at`. The
tree fallback returns `DefaultHome` only.

**Polling, PushLink, WebSocketLoop, PollingWithSocket.** Time is in ticks; `window`, `timer`,
`owed` count down. The timer and the debouncer belong to Home Assistant and are modelled from
their use. `Polling` sees of the WebSocket three states (`ws`), which
`PushLink` specifies. `WebSocketLoop` is the client itself: a turn asks for a token,
shakes hands, receives, and ends in a close or an error (which the adapter makes one and the
same); `failures` and `backoff` are the loop's own. `Promised == INSTANCE PushLink WITH ws <-
Link` is the refinement. In the composition the steps that change `ws` are steps of both
(`Connects`, `Disconnects`, `TaskEnds`, `Restarts`).

**IntentDispatch.** Events are numbered by their time; `log[h]` is what the log of a
home lists so far, maybe out of order. `order` and `fires` represent the bounded deque
`_fired_event_ids`: an id is remembered while it is among the last `DedupHistory`
appended.

**CommandTracking.** `record[c]` is the `CommandRecord` of command `c`, its `age` the
time since `sent_at`. Pushes carry one attribute.

**DeviceSelection.** A unit stands for its serial number, an id for a record of the
cloud; `unit[i]` is the serial number in the record `i`. `uids`, `legacy`, `mirror`
are the three options. The freshest of two records is the later one
("живая запись почти всегда свежее", `identity.py:81`). The order in which the cloud
lists the records of one serial number is left open (`CHOOSE`).

**HomeVariables, SpeakerSettings.** Values are numbered in the order they are set. A read is a
cause (poll, button or push; poll, push or user), a stage, and the values answered so far.
`heard[h]` is the value a home had at the last push. `cooling` is the pause after a write; that
it is long enough for the cloud is the code's own assumption and the guard of `CooldownEnds`.

**Equalizer, SettingsTree.** The equalizer is one object of the cloud, written whole by a switch, a
list and a number per band; `put[p]` is the PUT under way of platform `p`, whose body (`aim`) was
collected from what was shown. Where the speaker does not report it (`reported`), its entities are made up.
A read has the awaits of the code: it asks (`Ask`, at once if the user wants it, else only outside the pause), is
served, makes entities of the answer (`Collect`) and replaces the whole list later (`Replace`), with PUTs sent, served
and answered at any point between. `echo` is what the cloud answers a read with, which may lag behind what
it has (`held`) while the pause lasts. `loose` and `astray` say from when on the shown equalizer, or another setting
beside it, may differ from the cloud (section 5, 16). `SettingsTree` walks the screens depth first, each once, to the
depth of the code, makes an entity of each node that can be set, and follows a value to the cloud and back through
its JSON types. `Late` are the screens first met at the last depth.

**EntryLifecycle.** `stage` is where setup or unload stands. Home Assistant runs setups, unloads
and reloads of one entry in turn and calls the update listener at once; edits of the
settings and saved tokens may come at any stage, edits of the choice while the entry is loaded.
`owed` counts the edits of the choice whose reload has not begun.

**LoginFlows.** A sign-in starts a chain of one-time refresh tokens at Sber; a token is its chain
and its number there. The dialog may be closed at every await. The check of
the gateway rotates the token like any other request (`Rotates`) and may lose a rotation (`LosesRotation`, counted
in `lost`: the answer does not arrive, or the second request of the CSAFront manager fails); it fails back to the form
it began at, and it may succeed with any refresh token, as the gateway looks at the access token only.

**ScenarioSync.** What a scenario does is a number, whether it is active is kept apart: the cloud
may ignore that part of a POST, which is why the code follows it with a PUT, and deletes the new scenario
again (`undo`) when that PUT, or its answer, is lost. The
user edits the YAML between two reconciliations and the cloud's scenarios at any time; Home
Assistant may stop at any stage.

**Surrogates.** One home, callers that overlap, both services. `stray` is a PUT the client gave up
and the cloud may serve later; a POST is served before that or never (section 3, assumptions).

**Lamp, Indicator.** Every scale is the code's integer arithmetic over ranges the device
declares; `config` is fixed in a behaviour. A command makes the whole new state of the lamp
(`Raised`, `Painted`), which the copy has when the PUT was served. `asked` is the brightness asked for last.

**Features, FeatureTables.** `FeatureTables` is `FEATURE_SPECS` and `CATEGORY_SPECS` without names and icons, each a
set of rows, of which no two have a key or a category in common. `Features` takes one attribute of one category, out
of `Places`, with every type its value may come with, through decoding, choice between the reported and the desired
value by their stamps, the platform's view and its command. A select shows the words it offers (`Selectable`) and
nothing for any other, the target of a humidifier passes through a bare `int()` (`BareInt`), and what the description
of a category collects but no property of its entity reads has no view (`Unseen`). Numbers are counted in halves, so
that cutting shows.

**Climate, Cover, ButtonPresses, Category.** The tables of modes and bounds with the words of both
sides; a cover that moves with the reports it sends; the marks by which presses are told apart;
and the image-name heuristics, over all wrapped names.

**ScenarioCodec.** Conditions and tasks are nodes of one shape (kind, words, children, delay,
unknown fields). `Decode*` opens a scenario, all its steps as one form, or the user begins a new one (`OpenNew`); the user
adds, removes or moves what the form shows, of a scenario with a task the editor does not know name, phrases and state
alone (`IsHaManaged`); the panel checks the form (`Valid` is `_validate` of the modal), the service checks it
(`Accepted`), `Encode*` saves it as one step, and the service writes it in its two requests. `meant` is what the user was
left with in the form (`Meaning` takes the steps one after the other, as the form does). `Fires` and `Runs` say, without
the code, what starts a stored scenario and what it runs.

**DevTools, Listeners, UniqueIdRepair, EntityDiscovery.** Rings are sequences, a snapshot a
function from keys to attributes; a name is a pair of its word and its spelling; a unique id is
the id of the device followed by a sequence of words, so that one key can end in another, and a record is found by its
unique id and its domain; of the entities of a device some are `Unlisted`: the firmware (`update.py`) and a hub's count of
devices (`sensor.py`) are made beside the list of the coordinator, from which the repair takes its keys; a thing
of the account is a pair of kind and id, an entity a pair of role and thing.

## 3. What the runs check

| Run | Instance | Shows |
|---|---|---|
| `token_auth` | 3 callers on both channels, 3 tokens of each kind | `NoSpuriousReauth`: a new login is asked for only if the grant was revoked or the answer to a rotation was lost. `DiskSurvivesRestart`: the entry holds the newest refresh token but for an answer on the wire. `RefusedOnce`: after one invalid_grant no further rotation. `LockHolderWorks`: the lock is held only while a request is out. `ReplacedForCause`: a token is replaced only if expired or refused, whatever number of requests was refused with it |
| `csafront_auth` | 3 callers, 3 tokens | `ReauthExplained`: invalid_grant comes from Sber, a lost answer or the dropped rotation of section 5. `PairReplacedForCause` |
| `csafront_rotation_kept` | 2 callers | violated, section 5 |
| `state_sync` | a poll and a service refresh at once, one command with its retry, degraded answers without the device, 2 changes | `NoRollback`: a refresh not overtaken never shows anything older. `StalenessExplained`: the cache is behind only by a push on the way or a push that was lost |
| `state_sync_live` | the same with 1 change | `InSyncAgain`: the cache agrees with the cloud again and again |
| `intents` | 2 homes, 2 events, an answer of 1 event, 1 restart | `AtMostOnce`, `NonePassedOver`: a cursor passes an event only when it was fired or pushed out of the answer. `PushesAreServed`: a push during a pass is not lost. `NothingHistorical` |
| `intents_live` | 1 home, 3 events | `Delivered`: the poller brings what pushes did not |
| `polling` | polls by the timer, on request and by the service, one at a time, intervals 2 and 4, pauses up to 3, a Home Assistant without `retry_after`; the WebSocket task with 2 failures and backoff up to 4 | `NeverAsleep`, `PauseRespected`, `SteadyPace` (an interval stretched by a pause does not outlive it), `OneWarning` (one per outage), `PaceFits` (a stable session resets the backoff, a broken one does not), `PolledAgain` and `Reconnects` (liveness), `ImplementsLink` (the task refines `PushLink`, with its liveness) |
| `entities` | six parts: 2 commands, 2 attributes, 2 values; 4 lamps with the ranges of `MCConfigs`, 2 brightnesses, 3 temperatures; 6 brightnesses of the ring; every attribute on one category for each kind of platform that shows it, as a primary entity and as one of its own (`MCPlaces`), with 3 whole numbers and a broken one in 3 instants; the 5 units of climate; 4 kinds of cover in 5 instants | `VerdictInTime`: on the timer alone. `HeardIsConfirmed`: a push with the effect of a waiting command counts. `LightsSound`: no drift of brightness, only supported modes, the ring shines as told. `EntitiesShowTheDevice`: an attribute is shown where the entity of its category reads it, an air conditioner and a cover always, as it was reported or commanded last, by a select if it offers the word |
| `device_selection` | 2 units, 3 ids, one unit outside the default home, 3 misses as in the code | `ChosenShown`: a chosen unit is shown whenever an answer has it, however often it was paired again. `NothingUnchosen`. `RemovedForCause`: an entry goes only after enough full answers in a row without the unit |
| `services` | twelve parts: 1 setting with 2 overlapping reads and 2 values; an equalizer of 1 band, 2 levels, 1 preset, with 2 writes and a read at a time; 1 home with 2 pushes; 2 settings values and 2 choices with 2 reloads waiting; 2 accounts, 3 sign-ins, 2 rotations; 1 slug, 2 contents, 3 scenarios; 2 callers, 2 scenarios; a button with 4 presses and 2 reloads; the lists of things of `MCLists` with 6 updates; 2 devices, the snapshots of `MCSnapshots` and rings of 1 and 2; the files, lists of homes and events of `MCFiles`, `MCHomeLists` and `MCEvents` with 2 reloads; the entities of `MCEntities`, 3 ids of the device and 4 setups | `WriteStaysShown` (a setting stays shown as written; the equalizer is shown as the speaker has it, also when reads lie across writes and the pause, and a named preset goes out with its very bands), `PushesAreRead`, `EntrySound` (options in force, nothing survives an unload, reloads for cause), `SavedLoginWorks` (the entry gets the last token of its chain that reached the flow, of the right account, whichever checks rotated it, failed and were repeated), `ScenariosSound` (the report is true, one scenario per slug), `AnnouncementsSound` (each speaks its own text, one surrogate per home), `NothingTwice` (a press fires once, a discovered thing has one entity under its present name, the differences kept add up), `StepsSound` (a run fires the listeners that the last good file asks for, in its order; a setup leaves every record with the entity it was made for, and every listed entity with one record) |
| `conversions` | three parts; the stored scenarios and trees of screens are in `MCConversions`, 2 renames of a device, 3 changes of a setting, 3 edits of a form | `ReadAsMeant` (a device keeps its category under every name, a setting on a screen the walk can open has one entity, which shows what a read will confirm), `ScenariosSavedAsMeant` (a saved form fires and runs what the user was left with, of several steps all but which event starts which tasks; an untouched scenario is refused only if it lacks what the panel asks for) |

Bounds, all of them CONSTANTS: `MaxToken`, `MaxVersion`, `MaxEvents`,
`MaxRestarts`, `PushCopies`, `MaxPushes`, `MaxId`, `MaxValue`, `MaxReloads`, `MaxLogins`,
`MaxRotation`, `MaxScenarios`, `MaxTime`, `MaxPresses`, `MaxRenames`, `MaxEdits`, `MaxSeen`,
`MaxLoads`, `MaxUpdates`, `MaxWrites`, `MaxChanges` cap counters and appear in the guards of the
environment's actions (the cloud, the user, the passing of time, the observation of a
snapshot), never in those of a decision of the integration. `MaxFailures`, `BackoffMax`,
`FetchLimit`, `DedupHistory`, `MissLimit`, `Timeout`, `Sizes`, `MaxDepth`, `MaxNodes`, `MaxScreens` are limits
of the code itself, made small.

Why they are enough. Three callers are two on one channel (sharing a failure, skipping after a neighbour's success)
and one on the other; two tokens suffice for a spent one and a new one, the third for a needless refresh after a
refresh. `token_auth` refuses with 401 only: a request refused by the in-band code 16 differs in that no refusal is
retried after it (`Forced`), and the theorems hold for both; `CsafrontAuth` knows the refusal with 401 alone. The
second by which a request may be planned before the end of a pause (`RATE_LIMIT_SCHEDULE_SLACK_SEC`) is less than a
tick of `Polling`. Two versions give a snapshot older than a push and a push older than a command. Two events and an
answer of one are the least with which an event is pushed out of an answer; two homes the least that list an event
twice. Three ids let one of two units be paired again, with an old record that lingers or goes; with four (two units
paired again, or one twice) and `MissLimit` 2 the same run has 1.9 million states and passes too, in more time than a
routine run should take. Two failures give a task that survives one and gives up at the next; a backoff of four is
three lengths of a pause. Two reads, two values and two pushes give an answer from before a write or a push and one
from after it. Two accounts and three sign-ins give a reauth with the wrong account after a failed one; two rotations
a token used by a check that is repeated. Three scenarios give a creation, a deletion and another creation of one
slug. Two writes of the equalizer overlap, or one is under way and one done while a read waits; the theorem has any
number of bands, presets and writes. The trees of `MCTrees` have screens that lead back, a setting on two of them,
nodes without an id, types that are not known yet, and a screen that a longer way and then a shorter one lead to. The
scenarios of `MCStored` have every kind of node the editor names, some it does not, nested groups on both sides of the
depth and size limits, delays that are not whole seconds, two steps and none, a name with Latin letters, a task that
lacks its words and no task but unknown ones. The keys of the repair's `MCEntities` are a chain in which each is the
end of the next, one of them unlisted. Symmetry is used for callers, keys, values, commands, refreshes and homes, in
runs of safety properties only. `device_selection`, `services` and `conversions` switch the deadlock check off: once
the ids, values, presses or updates are used up the environment may have nothing left to do.

Fairness. `CoupledSpec`: time passes, a due poll starts, the cloud answers or the client's
timeout fires (httpx has one), a poll that was served ends; of the loop, a token or handshake
request ends somehow (`aiohttp` has timeouts) and a pause of the backoff passes. That a connection
comes about is assumed nowhere but in the premise of `Reconnects`: once nothing fails any more.
`StateSync`: pushes on a live connection arrive, a PUT and a due refresh end, and a refresh is now
and then served whole and applied at once (strong fairness: a cloud that fails
every refresh for ever leaves nothing to promise). `IntentDispatch`: the poller ticks
(`_poller_loop` has no exit but cancellation), answers are processed, and no home's
log fails every request. No action of a user and no push is fair. `services`, `entities` and `conversions` check safety only.

Assumptions of single parts: two PUTs of one setting do not overlap; a firmware takes no entity away
(`UniqueIdRepair`, see section 5); no two homes have one name, and none is named by the id of another
(`ListenerAssumption`: `_async_apply_yaml_listeners` takes a filter for an id first, then for a name, the last of
equal ones); the keys of a device are finitely many sequences of words (`KeyAssumption`); the calls of a
reconciliation take turns (`ScenarioSync`); the ranges a lamp declares are fixed (`Lamp`); the options of a setting
have distinct titles (`SettingsTree`, see section 5); no two built-in presets of the equalizer have the same bands and
none is called "manual" or "user" (`PresetAssumption`, after the table at `staros_settings.py:53`); one read of the
equalizer runs at a time; a snapshot is a function from keys to attributes, and one size of a ring is the largest
(`SnapshotAssumption`); the answer to a POST names the new scenario (`ScenarioSync`, `ScenarioCodec`; without the id
`service.py:88` would leave a disabled one active); a POST is served before the client gives it up or never
(`ScenarioSync`, `Surrogates`); the unloading of the platforms in a rollback succeeds (`EntryLifecycle`;
`__init__.py:536` goes on after a failure); a refresh that brings presses is not overtaken by a push or another
refresh (`ButtonPresses`; section 5, 2 has what that does).

## 4. What is proved

TLAPS checks every theorem for every value of the constants that meets the named
assumptions (any number of callers, devices, keys, refreshes, commands, polls;
any bounds).

**TokenAuthProofs**: `TypeCorrect`, `ReauthOnlyForCause`, `RestartKeepsGrant`,
`RefusedAtMostOnce`, `LockNeverStuck`, `ReplacedOnlyForCause`. `NoSpuriousReauth` alone is not inductive: that Sber
refuses a rotation says nothing of what memory holds. The invariant adds `HolderInv` (a
caller is at a refresh's request exactly when it holds the lock, so there is one),
`WireInv` (memory and entry hold the newest token unless the answer that brings it is
on the wire or was lost), `OwnerInv` (what the holder sends is what memory holds)
and `RefusalInv` (a refusal was counted at most once, and then the error is
kept). Each action is checked against each part; most of them are frames.
For `ReplacedOnlyForCause` (the action property `ReplacedForCause`) `ReasonInv` follows the cause of a
refresh: who waits to have the token in use replaced has seen it refused (`ForcedInv`), and from the moment a refresh
begins until it ends, the token it will replace is an expired or a refused one (`CauseInv`), because
the lock keeps everybody else from replacing it first.

**CsafrontAuthProofs**: `TypeCorrect`, `ReauthForCause` (`ReauthExplained`), `PairReplacedOnlyForCause`. `HolderInv` as
above; `KeptInv`: unless an answer was lost or a rotated token dropped, memory has the newest
token but while it is on the wire or in the local of the refresh, where `FreshInv` finds it.
A refused rotation then sent an old token (a lost answer, a dropped token) or met an ended session.
`CauseInv` is, as above, what a pair is replaced for; that memory and entry agree (`KeptInv`) is why a restart
replaces nothing.

**StateSyncProofs**: `TypeCorrect`, `RefreshKeepsNewer` (`NoRollback`), `StaleForCause`
(`StalenessExplained`). The first invariant is
`CloudLeads` (nothing in the cache or on the way is newer than the cloud) and
`SnapshotLeads` (a snapshot is at least as new as what the cache shows of any device
that was not patched since the refresh started, unless it was overtaken). The step
then follows: a patched device keeps its local state, any other gets a newer one. The second,
`EInv`, says where the news are: the last push of an attribute on the way carries the cloud's
value (`ChannelEnds`, from the order of the channel, which a disconnect empties), so a value
that differs from the cloud's is explained by a push on the way or one that was missed, be it in
the cache (`CacheExplained`) or in the snapshot of a refresh that is not overtaken
(`SnapExplained`), and applying either keeps that.

**EntitiesProofs**: `TypeCorrect`, `VerdictsInTime`, `HeardIsKept` of `CommandTracking`, `CommandsAsSpecified`
(what runs beside it changes nothing of it), `LightsAlwaysSound` and `EntitiesAlwaysShowTheDevice`. `VerdictInTime`
says nothing of when the next sweep comes; the invariant does: `AgeInv` is `age +
sweepIn < Timeout + SweepEvery`, which a tick keeps and a sweep restores. `EffectInv`
(a push that carries a command's effect carries a value it asked for) and `UnsentInv`
(no record before the PUT has returned) give the other one. What `Observe` and
`Sweep` do to a record are lemmas of their own (`ObserveKeeps`, `ObserveConfirms`,
`SweepKeeps`). Each of the other parts has its own invariant, which the last section joins (`EntitiesInv`):

- lamps (`LampInv`): `ThereAndBack` is the arithmetic of `math.ceil(brightness_to_value())` and
  `value_to_brightness()`: what is shown of a sent brightness is shown again when it is what is sent, for every range
  with a least and a greatest value, wider or narrower than 1 to 255. `NoDrift` speaks of the lamp while it is
  coloured; it is inductive only in the form in which the brightness asked for outlives the other modes (`Lasting`).
  `DivUnique` and `ProductGrows` stand for the nonlinear steps. Hue and saturation may fall one below their range and
  drift, about which nothing is promised (section 5, 24);
- the ring (`RingInv`): both lists have at most one colour of an id, and a PUT under way shows, once served, what it was
  sent for and is off exactly if that was meant (`PutMeant`);
- attributes (`FeatureInv`): no stamp is of the future, and the value that counts in Sber's record means what was said
  last (`Means`). The tables enter through `RowsFit` and `CategoryFits`, checked row by row, and `HowShown`: the
  combinations of platform, codec and key in which an attribute is shown (`WaysShown`), the select, which shows only
  what it offers, and the humidifier, whose target is a bare number, among them. A value is read back from every form
  it may come in (`WireReads`) and from what a command sends of it (`SendReads`), and what is shown of it is right for
  each combination (`ShownRight`);
- climate (`ClimateInv`): the copy says in Sber's words what was wanted in Home Assistant's (`Follows`);
- covers (`CoverInv`): Sber's record is the device's last report, and a stop counts exactly until it is
  answered.

The assumptions are those of `EntityAssumptions`: ranges of naturals whose least is not above the greatest, brightnesses
from 1 to 255, colours in Home Assistant's scales, even whole numbers (they are counted in halves).
`Places` may be anything: the run takes a category for each way to show an attribute, the theorem holds for every
attribute of `FeatureRows` on every category of `CategoryRows` whose entity reads it.

**PollingProofs**: `TypeCorrect`, `NeverFallsAsleep`, `OneWarningEach`, `PausesKept`, for
any number of overlapping polls, where TLC runs one. The invariant adds `PauseInv`
(the pause kept is at least the one owed, unless it was cut short) and `WarnInv`
(the flag that silences the log is up exactly when the warning was written).

About the composition: `ImplementsPolling` (every step of the composition is a step of
`Polling` or a stutter, so the theorems above carry over: `CoupledNeverAsleep`,
`CoupledOneWarning`, `CoupledPauses`), `LinkSeen` (what the polls see of the WebSocket is the
loop's state, `SeenAsIs`), and `LinkPromised`, the safety half of the refinement
`ImplementsLink`: initial states map to initial states of `PushLink`, and every step of the loop to a step of it
or a stutter.

`CoupledSteady` (`SteadyPace`) is about polls one at a time (`Polls = {p}`): while its poll is under way,
or none is planned, the interval is not one that a pause stretched (`SteadyInv`). With two polls it is
false: one that overlaps a limited one may plan one other poll at the stretched interval.

`PaceAlwaysFits` (`PaceFits`): `PaceInv` says which pause belongs to the count so far at every stage.
The pace is a recursive function, `PaceAfter`. That it is the function its recursion describes
(`PaceAfterIs`) and that it grows up to the cap (`PaceGrows`, why a count that has reached its bound changes
nothing) are proved by induction, in the form of a least counterexample (`LeastOf`, from the
well-foundedness of the natural numbers): the induction theorems of the library take an operator as
a parameter, which the provers at hand cannot instantiate.

**IntentDispatchProofs**: `TypeCorrect`, `FiresAtMostOnce`, `CursorsPassNothing`,
`PushesServed`, `FiresNothingHistorical`, for any finite set of homes, and any number of events and
restarts. The invariant has two halves. *Firing*: whatever was fired since the start was put
into the memory of ids (`MemoryInv`), and an event of one home that was fired is at or below
that home's cursor (`SingleInv`); so what an answer brings above the cursor and outside the
memory was not fired before (`FreshEvents`). *Reading*: an answer is a part of the log
(`ReplyInv`) and, when it has an event newer than one that is due, it has that one too or it is
buried (`OrderInv`); so the cursor, which moves to the newest event fired, passes nothing.
`WorkInv` says where an announced event is while the worker runs: in the answer, at a home
ahead, or in another pass. TLC checked the whole invariant on the instance of `intents`
first, also with a memory of one id. That a batch has a largest event (`LargestExists`) is proved
from the well-foundedness of strict inclusion on finite sets.

**DeviceSelectionProofs**: `TypeCorrect`, `ChosenIsShown`, `NothingUnchosenShown`,
`RemovalsForCause`, for any finite set of units, any number of ids and any number of misses. What is
shown depends on stored keys, of which some find nothing for now, so the invariant speaks of the
keys: one that can still find a record, in the cloud or in the cache, stands for a chosen unit
(`ChoiceInv`); a unit that a save saw as one record is stored by its serial number and by no record
(`SecuredInv`), so neither pairing it again nor deleting a record loses it; the cache has all records
of a unit or none, but for those paired since, which nothing stored names (`WholeInv`: what an edit
cannot resolve is then out of sight as a whole, and an edit that keeps it adds nothing);
the older key differs from its mirror only if the older version wrote it (`ElsewhereInv`, which is why
the reconciliation takes its value for the user's); misses were answers without the unit
(`MissInv`). The lemmas on `identity.py` (`ResolveFacts`, `UidsNothingNew`, `UidsKeep`,
`UidsAlone`) say what showing and storing a list does to the units it stands for; `PersistKeeps`
reduces every edit to what its list stands for. TLC checked the whole invariant on the
instance of `device_selection` first. The assumption that the cloud issues at least as many ids as
there are units is what lets `Init` pair each.

**ServicesProofs**: one theorem for each property of the run `services` (`PushesAlwaysRead`,
`EntryAlwaysSound`, `ScenariosAlwaysSound`, `AnnouncementsAlwaysSound`, `WritesStayShown`,
`LoginsAlwaysWork`, `NothingHappensTwice`, `StepsAlwaysSound`), for any homes, settings, accounts, slugs, callers,
bands, presets, lists of things, snapshots, sizes of rings, files, events, ids, keys and bounds. The
parts never move together, so the invariant of the whole (`ServicesInv`) is, for each part, that the part
that runs has its own:

- the speaker (`SpeakerInv`): no answer is ahead of the cloud, after the pause the answers have
  caught up with what was shown of a write (`SpeakerPause`), and so has what a read that no write overtook
  brings (`SpeakerReads`);
- the equalizer (`EqualizerInv`): the panel is the speaker's unless it is known to be loose
  (`PanelInv`); a PUT that nothing overlapped is the only one (`AloneInv`), so that its answer tells
  what the speaker has; the plain switch beside it (`SwitchInv`); a made-up equalizer knows our presets
  alone, with their bands (`OursInv`); the cloud's answers are behind in the pause after a write alone (`EchoInv`); and
  a read that no write met brings what the speaker has, at every await on its way to the panel, if the cloud was not
  behind when it answered or the read waited for the pause (`ReadingInv`);
- the home variables (`VariablesInv`): where a home that was named by a push is while its refresh
  runs: still to be read, or read since the push (`ReadInv`), and the task is there while a push waits (`TaskInv`);
- the entry (`LifeInv`): the snapshot is the options exactly while the listener is registered
  (`LifeSnapshot`, `LifeListening`), the flag of the platforms says whether there are entities (`LifeBuilt`), and from
  which stage on settings and choice in use are the stored ones (`LifeForce`, `LifeChoice`);
- the login (`LoginInv`): a flow goes one way of the two (`WayInv`), a token it keeps is of a
  chain of the account it is for, what the check stores is of the same chain, and the newer of the two is the last one
  that arrived (`TokenInv`), which a failed check must hand back to the form for a later one to save;
- the reconciliation (`SyncInv`): one scenario per slug (`OneEach`); what the list said of the slugs that are left is
  still so but for deletions (`LeftInv`); the scenario at hand is the slug's own (`TurnInv`) and holds what was sent
  (`SentInv`), from the POST to the undoing, so that a report is true when it is made (`ClaimInv`);
- the surrogates (`SurrogateInv`): who is past the lock holds it (`HolderInv`); every id kept
  anywhere, in the cache, a local, a late PUT, is of the caller's kind (`CachedInv`, `InHandInv`, `StrayInv`);
  none exists where one is about to be created (`NoneInv`), hence one of a kind (`OneInv`); from PUT to
  run the scenario has the caller's text (`TextInv`);
- the presses (`PressesInv`): the press that fired last is the one in the copy, which the entity then has seen,
  or an older one (`FiredInv`); an entity has seen the press it was born with and, unless it is about to be told,
  the one in the copy (`BornInv`); of a device that tells the time no mark is from a later press, and what
  was seen since the birth became an event (`SeenInv`). So none fires twice and none is missed;
- the discovered entities (`DiscoveryInv`): what was listed last is known, the entities are exactly those of
  the things known, no second one is ever refused, and each is labelled as it keeps its name, which is the
  listed one (`NamedInv`);
- DevTools (`ToolsInv`): of each device the differences kept are a trail of snapshots from `start` to `last`
  (`Told`): each leads from one to the next (`DiffApplies`), so replaying them arrives at the last snapshot
  (`ReplayedIs`, by a least counterexample, `Replayed` being a recursive function); dropping the oldest, when
  the ring is full or shrinks, leaves a shorter trail that begins later (`Trimmed`);
- the listeners (`ListenersInv`): what was loaded is the last good file's, and what is in force is that file
  resolved with the homes of then. `AskedForIs` compares the filters as the code resolves and matches them with
  what the user wrote, and `InOrderIs` shows, by a least counterexample, that the places that match are gone
  through once each and upwards;
- the repair of unique ids (`RepairInv`): a listed entity has at most one record, an unlisted one at most one under
  each id, and every record bears the key of the entity it was made for. Of the keys
  that an id ends with its own is the longest (`EndsIs`), so each record of a listed entity is renamed to its own key, none
  finds its new id taken and none of an unlisted one is touched (`RepairOneIs`, `RepairedIs`); what is created afterwards is
  what had no record (`CreatedIs`).

TLC checked `ServicesInv` on the whole instance of `services` (1.4 million states) before it was proved.

Model-checked only:

- liveness (`InSyncAgain`, `Delivered`, `PolledAgain`, `Reconnects`, the liveness half of
  `ImplementsLink`): TLAPS 1.4.5 has no support for liveness under fairness or `ENABLED`;
- the properties of `conversions` (`ReadAsMeant`, `ScenariosSavedAsMeant`). `ScenarioCodec` and `SettingsTree` use
  RECURSIVE operators (conditions and screens are trees), with which TLAPS cannot work; `Category` looks for
  patterns inside names, and the characters of a string are not known to the provers.

The type invariants of `TokenAuth`, `CsafrontAuth`, `StateSync`, `Polling`, `CommandTracking`,
`IntentDispatch` and `DeviceSelection` are theorems (`TypeCorrect`), those of the parts of `services` are parts of
their inductive invariants; those of the entities are conjuncts of the properties of `entities`, that of `Category` one of
`ReadAsMeant`.

## 5. Disagreements met

With a run:

1. `csafront_manager.py:192` against its docstring, line 170 («Persist'им сразу»): the
   rotated refresh token is kept in a local until the second request succeeds. When that
   fails, the spent token stays, and the user must log in again. (`csafront_rotation_kept`) The check of the gateway in
   the login has the same manager: when it loses a rotation so, the flow keeps the spent token (`config_flow.py:520`, against
   its docstring, line 506: «Токены, обновлённые во время проверки … сохраняются во flow»), and a later check that the
   access token still passes saves it. (`lost`)

Without a run, found by reading or by counterexamples on the way to the properties; the
properties excuse them explicitly (the name of the history variable or guard is given).

State, polling, intents, commands, selection:

2. `device_service.py:165` against `state_cache.py:57`: refreshes do not stamp what
   they write, so that the older of two overlapping ones, answered last, rolls the
   state back. (`overtaken`)
3. `intent_dispatcher.py:276` against `tests/test_intent_dispatcher.py:284`: an event
   listed by two homes fires again when the bounded memory has forgotten it and the
   second home's cursor never moved. (`AtMostOnce` is about events that one home lists, or a memory that is
   never full)
4. `state_cache.py:227` keeps the local state of the *whole* device after a push of one
   attribute.
5. `coordinator.py:698` ends the pause when an overlapping poll was served; the comment
   at 674 says that no poll leaves before its end. (`cutShort`)
6. `coordinator.py:577`: the slow interval for a live WebSocket stays in force after a
   drop until the next poll, the docstring says otherwise.
7. `intent_dispatcher.py:315` sets the cursor of a home to now with the first answer: an
   event between the start and that answer never fires, which `coordinator.py:2051`
   ("never lost") does not say. The poller also backs off after a push whose request failed
   (`intent_dispatcher.py:184`).
8. `entity.py:158` records a command after the PUT; a push during the PUT does not confirm
   it (`command_tracker.py:17`).
9. `identity.py:177`: of a stored serial number shared by two records, `to_uids` stores the
   id of the record listed first, `_pick_one` shows the freshest. Any edit of the selection,
   of another device, moves the choice to the stale record; when that is deleted, the device
   is gone («молчаливая потеря выбора — ровно та ошибка, которую мы чиним»). (`Followed`)
10. `coordinator.py:1578`: on an installation without a choice, the base of the first edit is
    what the cache holds; after an incomplete answer the other homes are deselected.
11. `coordinator.py:1624`: importing a file where ids are stored removes the registry
    entries of devices that stay chosen, with their names and areas.
12. `coordinator.py:1640`: a panel edit before the choice of the older version is
    reconciled overwrites it. (`elsewhere`)
13. `device_service.py:192`: an answer to `/devices` that is not a list empties the cache without
    counting as incomplete; `registry_maintenance.py:90`: a device that comes back after its entry was pruned
    gets entities only at the next reload; `coordinator.py:1514`: a PUT whose answer was lost is
    sent again two seconds later, over what was changed in between.
14. The module docstring of `ws.py` («При 401 на handshake — вызов auth.force_refresh()»): every
    failed handshake is a `NetworkError`, nothing is refreshed.
15. `state_cache.py:540` stores an optimistic patch without `last_sync`, and the mapper's
    `_is_fresh_desired` takes an attribute without one for stale: the patch is not shown until
    Sber's own answer, against `coordinator.py:894` and `tests/sbermap/transform/test_mapper.py:336`.

Speaker settings, home variables, life cycle, login, scenarios, surrogates:

16. `coordinator.py:1316`: the pause after a write is checked when a read starts, not when its answer is applied,
    against the comments at 168 and 429 (`overtaken`, and of the equalizer `met`); the read a user asks for ignores it
    (1232 speaks of automatic reads only) and may bring back what was there before the write. An equalizer write
    builds its body from what is shown before the await: of two that overlap one is lost. Its answer shows again the
    list as it was before the PUT (`coordinator.py:1385`), undoing what another entity's write showed meanwhile.
    (`loose`, `astray`)
17. Overlapping answers of a poll, the button and a PUT may put an older `at_home` over a newer
    one. (`excused`)
18. `__init__.py:1151` calls the panel's registration idempotent; its marker is checked before and
    set after the awaits. Settings edited between the creation of the coordinator and the
    registration of the listener are not applied until the next edit. (`raced`)
19. When the e-mail step of the SMS login loses its session only `auth_session_expired` is answered; a failed
    `get_smart_home_token` loses the one-time code.
20. A PUT of an announcement that the client gave up and the cloud serves late puts another text between PUT and
    run. (`mixed`) The panel's status command may replace the cached id without the lock.
21. Two overlapping reconciliations create one slug twice. A spec with `ha_event_only` beside other
    actions, or a phrase with blanks around it, never compares equal and is reported as updated each time. Templates are
    rendered into the cached spec itself. An update of a disabled scenario reports an error when only its
    second request fails. An answer to a POST without an id leaves a disabled scenario active (`service.py:88`).
22. `IntentSpec.to_dict` omits `raw_extras`, so that an edit in the panel loses image, metadata and time zone, against
    `service.py:102` and the repository's README; a schedule in another zone becomes read-only. The steps of a stored
    scenario are merged when it is opened (`encoder.py:100`: «На практике обычно 1 step») and saved as one
    (`encoder.py:286`), without a word to the user: each of its events then starts the tasks of all. (`Meaning` takes
    them so) The panel says of a scenario with unknown actions «Имя и фразы можно менять»
    (`sberhome-intent-modal.js:808`), but its `_validate` asks for an action of its own (369) and refuses the saving
    if there are only such; as it refuses an untouched scenario whose name has Latin letters. (`Unfit`)
    `reload_intents`: an error in the listeners comes after the intents were replaced.
23. `registry.py`: any relative `desired_state` is decoded as INVERT; unknown fields of known tasks
    are dropped; a retry after a failed creation POSTs again.

Mapping and entities:

24. `lights.py`: a change of brightness in colour mode sends hue and saturation read back through
    truncating scales, and a colour temperature sent back drops one step; brightness 1 or 2 of a range 0 to 100 becomes
    V = 0; the light ring rounds up both ways and drifts upward.
25. A category with two detector keys (`sensor_pir`) shows whichever a `frozenset` yields first
    (`ShownByPrimary`). `FloatCodec` and the `int()`, `float()` calls of battery, position, target and
    volume, and the humidity aimed at (`humidifier.py:85`), raise on a word and fail the refresh of all devices or the state
    of the entity. (`NeverFails`) The humidity measured is collected for the humidifier (`category_specs.py:182`), whose class
    has no `current_humidity`: it is neither shown there nor a sensor of its own. (`Unseen`)
26. `FEATURE_SPECS` reads `cur_voltage` and `cur_power` as integers, against the comment of
    `FEATURE_CODECS`. The volume of a TV is cut where its codec rounds.
27. Climate categories without modes offer OFF and HEAT and show AUTO when on
    (`ShowsAnOffer` is about the others); climate reads desired values only.
28. The stop of a cover is a desired `open_state` newer than the reported one: an open cover
    shows closed until the device reports again. (`halted`)
29. The bulk command of a group patches the desired value, its switch shows the reported one
    (`switch_groups.py:13`). Two options of a setting with one title write the last
    (`StarosSettingSelect`). Scenario events are created at setup only.
30. `unique_id_repair.py:41`: the record of an entity that is no longer offered and whose id ends
    with a shorter key of a live one is given to that one. (the assumption of `UniqueIdRepair`) The entities of
    `update.py:54` (firmware) and `sensor.py:114` (count of a hub's devices) are not in `coordinator.entities`, from which
    line 44 takes the suffixes: after a new id their records match none and are left behind, and second ones
    are made, the very thing lines 8 to 12 speak of. (`Unlisted`)
31. `state_diff.py` says that every push repeats every attribute, `patch_device_state` merges: a partial push
    is recorded as a removal (`coordinator.py:1953`).
32. `aiosber/api/settings.py:155`: a screen first met at the last depth is marked as seen with its cards closed, and is
    not opened again when a shorter way leads to it: the settings behind those cards have no entity. (`Late`)

## 6. Not modelled

- **Pairing** (`websocket_api/pairing.py`): one request per command, no state in the integration;
  the session lives in the cloud.
- **Data transfer objects**: typed parsing of JSON. The typed value of an attribute is in
  `Features`. HTTP bodies are their outcomes; tokens, attributes and events are numbers;
  clocks are ticks or orders.
- **Texts**: names, icons, translation keys, device classes, the names of a speaker's settings, the wording of
  repairs, diagnostics and logs.
- **Polls of firmware updates and discovery**: they replace one table and differ from the polls in `HomeVariables`
  in the URL.
- **Other effects of the options flow** (it shows what is stored), the migration of old entries, the
  panel's registration, YAML parsing, Home Assistant templates in phrases and
  the scenario templates of Sber.
- **Homes, rooms, enums in the cache**: every refresh replaces them whole.
- **The panel in the browser**: only the scenario form, as far as it changes what is saved; not the draft of a schedule
  before it is taken over, nor a form whose list of types did not load.
- **Requests served late**: a PUT of an announcement the client gave up is modelled, a POST served after that is not,
  nor a failing unload of the platforms in a rollback.
- **Home Assistant and the cloud** are modelled from their use (`external` in `map`): the timer and
  debouncer of the coordinator, the turns of setups and reloads, the entity registry, Sber's token
  endpoints, event log and scenario list.
