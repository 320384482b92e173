--------------------------- MODULE EntryLifecycle ---------------------------
(***************************************************************************)
(* The life of the config entry: setup with its rollback, unload, the      *)
(* listener that compares the options with a snapshot, the settings that   *)
(* apply without a reload and the choice of devices that needs one         *)
(* (__init__.py, settings.py, the end of coordinator._async_persist_       *)
(* selection()).  Home Assistant runs setups, unloads and reloads of an    *)
(* entry one at a time and calls a listener at once.                       *)
(***************************************************************************)
EXTENDS Integers

CONSTANTS
    MaxSetting,     \* values the live settings take, 0 to MaxSetting
    MaxChoice,      \* choices of devices; 0 is the empty one
    MaxReloads      \* bound on the reloads that wait

VARIABLES
    stage,      \* where setup or unload stands, or the state the entry rests in
    options,    \* entry.options: live settings and chosen devices
    snapshot,   \* ENTRY_DATA_OPTIONS in hass.data, or NoOptions
    flag,       \* ENTRY_DATA_PLATFORMS_FORWARDED: none, yes, no
    inForce,    \* the settings the coordinator runs with
    built,      \* the choice the entities were created from, or NotBuilt
    listening,  \* the update listener is registered
    running,    \* httpx client, WebSocket task and timers of the coordinator
    reloads,    \* reloads that wait for the entry
    owed,       \* history: edits of the choice whose reload has not begun
    raced       \* history: settings were edited during the setup

lifeVars == <<stage, options, snapshot, flag, inForce, built, listening, running, reloads,
              owed, raced>>

NoOptions == [settings |-> -1, chosen |-> -1]
NotBuilt  == -1

Resting   == {"not_loaded", "setup_retry", "setup_error", "failed_unload"}
SettingUp == {"created", "refreshed", "forwarded", "reconciling"}

Init ==
    /\ stage = "not_loaded"
    /\ options = [settings |-> 0, chosen |-> 0]
    /\ snapshot = NoOptions /\ flag = "none"
    /\ inForce = 0 /\ built = NotBuilt
    /\ listening = FALSE /\ running = FALSE
    /\ reloads = 0 /\ owed = 0 /\ raced = FALSE

\* _async_remove_entry_data(), and what HA calls from async_on_unload()
Released ==
    /\ snapshot' = NoOptions /\ flag' = "none"
    /\ listening' = FALSE /\ running' = FALSE

-------------------------------------------------------------------------------
(* Setup *)

\* A reload that waited has its turn.
TakesTurn ==
    /\ reloads > 0
    /\ reloads' = reloads - 1
    /\ owed' = IF owed > 0 THEN owed - 1 ELSE 0

\* _create_coordinator(): the coordinator reads the settings.  Without tokens of
\* the entry's login it raises, and the client is closed.
Create ==
    /\ \/ stage \in {"not_loaded", "setup_retry"} /\ UNCHANGED <<reloads, owed>>
       \/ stage \in {"not_loaded", "setup_retry", "setup_error"} /\ TakesTurn
    /\ raced' = FALSE
    /\ \/ /\ stage' = "created" /\ running' = TRUE
          /\ inForce' = options.settings
          /\ UNCHANGED <<snapshot, flag, listening>>
       \/ stage' = "setup_error" /\ Released /\ UNCHANGED inForce
    /\ UNCHANGED <<options, built>>

FirstRefresh ==
    /\ stage = "created"
    /\ stage' = "refreshed"
    /\ UNCHANGED <<options, snapshot, flag, inForce, built, listening, running, reloads, owed,
                   raced>>

\* _should_forward_platforms(): by the length of the stored list
ShouldForward == options.chosen # 0

\* The flag is set before the platforms are.
Forward ==
    /\ stage = "refreshed"
    /\ flag' = IF ShouldForward THEN "yes" ELSE "no"
    /\ built' = IF ShouldForward THEN options.chosen ELSE NotBuilt
    /\ stage' = "forwarded"
    /\ UNCHANGED <<options, snapshot, inForce, listening, running, reloads, owed, raced>>

\* The snapshot is taken with the listener; then the scenarios are reconciled.
Listen ==
    /\ stage = "forwarded"
    /\ snapshot' = options
    /\ listening' = TRUE
    /\ stage' = "reconciling"
    /\ UNCHANGED <<options, flag, inForce, built, running, reloads, owed, raced>>

Loaded ==
    /\ stage = "reconciling"
    /\ stage' = "loaded"
    /\ UNCHANGED <<options, snapshot, flag, inForce, built, listening, running, reloads, owed,
                   raced>>

\* _async_abort_setup(), after a failure or a cancellation at any await.  Home Assistant
\* is taken to unload the platforms: an exception is swallowed there, and False ignored.
Abort ==
    /\ stage \in SettingUp
    /\ stage' \in {"setup_retry", "setup_error"}
    /\ Released
    /\ built' = IF flag = "yes" THEN NotBuilt ELSE built
    /\ UNCHANGED <<options, inForce, reloads, owed, raced>>

-------------------------------------------------------------------------------
(* Unload *)

\* Mutant: unload asks the options, which have changed, what setup did.
ForwardedByOptions == ShouldForward

WasForwarded == flag = "yes"

\* async_unload_entry(), of a reload or because the user disables the entry; the
\* platforms may refuse
Unload ==
    /\ stage = "loaded"
    /\ TakesTurn \/ UNCHANGED <<reloads, owed>>
    /\ IF WasForwarded
       THEN \/ stage' = "unloading" /\ built' = NotBuilt
            \/ stage' = "failed_unload" /\ UNCHANGED built
       ELSE stage' = "unloading" /\ UNCHANGED built
    /\ UNCHANGED <<options, snapshot, flag, inForce, listening, running, raced>>

\* The coordinator has shut down.  A reload goes on to setup.
Unloaded ==
    /\ stage = "unloading"
    /\ stage' = "not_loaded"
    /\ Released
    /\ UNCHANGED <<options, inForce, built, reloads, owed, raced>>

\* Home Assistant stops or crashes; the options are on disk.
Restart ==
    /\ stage \in {"loaded", "setup_error", "failed_unload"}
    /\ stage' = "not_loaded"
    /\ Released
    /\ built' = NotBuilt
    /\ reloads' = 0 /\ owed' = 0
    /\ UNCHANGED <<options, inForce, raced>>

-------------------------------------------------------------------------------
(* Edits *)

\* only_live_settings_changed()
OnlyLive(before, after) ==
    before.settings # after.settings /\ before.chosen = after.chosen

\* Mutant: every update of the entry reloads it.
ReloadAlways(prev, current) == FALSE

\* prev == current: only the data has changed.
NothingNew(prev, current) == prev = current

\* _async_entry_updated(), which finds the snapshot prev
Notified(prev, current) ==
    IF ~listening \/ prev = NoOptions \/ NothingNew(prev, current)
    THEN snapshot' = prev /\ UNCHANGED <<inForce, reloads>>
    ELSE /\ snapshot' = current
         /\ IF OnlyLive(prev, current)
            THEN inForce' = current.settings /\ UNCHANGED reloads
            ELSE reloads' = reloads + 1 /\ UNCHANGED inForce

\* The options flow, or the panel's settings: over the other options
EditSettings ==
    /\ \E n \in 0 .. MaxSetting :
        /\ options' = [options EXCEPT !.settings = n]
        /\ Notified(snapshot, [options EXCEPT !.settings = n])
    /\ raced' = (raced \/ (stage \in SettingUp /\ ~listening))
    /\ UNCHANGED <<stage, flag, built, listening, running, owed>>

\* Mutant: the snapshot is left to the listener.
SnapshotLater(new) == snapshot

\* The panel's edit puts the new options into the snapshot first, so that the
\* listener leaves the reload to it.
SnapshotFirst(new) == new

\* _async_persist_selection(), of a loaded entry, then its own reload
EditChoice ==
    /\ stage = "loaded" /\ reloads < MaxReloads
    /\ \E m \in 0 .. MaxChoice :
        LET new == [options EXCEPT !.chosen = m] IN
        /\ m # options.chosen
        /\ options' = new
        /\ LET prev == SnapshotFirst(new) IN
            IF prev = new \/ ~listening THEN snapshot' = prev /\ reloads' = reloads + 1
            ELSE snapshot' = new /\ reloads' = reloads + 2
    /\ owed' = owed + 1
    /\ UNCHANGED <<stage, flag, inForce, built, listening, running, raced>>

\* A rotated token is saved: the listener is told of an update of the data.
TokenSaved ==
    /\ Notified(snapshot, options)
    /\ UNCHANGED <<stage, options, flag, built, listening, running, owed, raced>>

Next ==
    \/ Create \/ FirstRefresh \/ Forward \/ Listen \/ Loaded \/ Abort
    \/ Unload \/ Unloaded \/ Restart
    \/ EditSettings \/ EditChoice \/ TokenSaved

Spec == Init /\ [][Next]_lifeVars

-------------------------------------------------------------------------------

\* A loaded entry runs with the options the user sees: the settings in the
\* coordinator are the stored ones (unless they were edited while it was being
\* set up, before the listener), and the entities are those of the stored choice
\* or a reload is about to build them.
OptionsInForce ==
    stage = "loaded" =>
        /\ raced \/ inForce = options.settings
        /\ reloads > 0 \/ built = IF options.chosen = 0 THEN NotBuilt ELSE options.chosen

\* A reload, which drops the WebSocket and every entity, has an edit of the choice
\* of its own: there is none for a token, for a live setting, or twice for an edit
\* that both the panel's command and the listener see.
ReloadsForCause == reloads <= owed

\* Nothing of an entry that is not loaded survives: client, tasks, listener,
\* snapshot and entities are gone, however its setup ended.
NothingSurvives ==
    stage \in Resting \ {"failed_unload"} =>
        ~running /\ ~listening /\ snapshot = NoOptions /\ flag = "none" /\ built = NotBuilt
===============================================================================
