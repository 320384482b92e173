--------------------------- MODULE SpeakerSettings ---------------------------
(***************************************************************************)
(* The settings of a Sber speaker: the part of SberHomeCoordinator that    *)
(* reads and writes them through StarosSettingsAPI (coordinator.py).       *)
(*                                                                         *)
(* A setting is written with a PUT and shown at once when the PUT returns. *)
(* For a while the cloud still answers with the value from before, so the  *)
(* automatic reads pause after a write.  A read asks for the devices, then *)
(* for the screens, and replaces everything that is shown.                 *)
(*                                                                         *)
(* The values of a setting are numbered in the order they are written.     *)
(* The equalizer is written whole and counts as one setting.               *)
(***************************************************************************)
EXTENDS Integers

CONSTANTS
    Settings,   \* settings of the speaker
    Reads,      \* reads that may overlap
    MaxValue    \* bound on the values written

VARIABLES
    \* the cloud
    value,      \* per setting: the value written last
    readable,   \* per setting: the value a read answers with
    \* the integration
    allowed,    \* _staros_api is not None
    cooling,    \* before _staros_write_cooldown_until
    rested,     \* the interval of _staros_poll, and its pause, have passed
    quiet,      \* STAROS_WS_TRIGGER_MIN_INTERVAL_SEC have passed since the last trigger
    shown,      \* per setting: the value of staros_settings_entities
    read,       \* per read: its cause, its stage, and the answer
    writing,    \* per setting: the value of the PUT under way, or 0
    \* history, for the properties
    overtaken,  \* reads during which a write was shown
    written     \* per setting: the value of the last write that was shown

cloud == <<value, readable>>
vars  == <<cloud, allowed, cooling, rested, quiet, shown, read, writing, overtaken, written>>

Values == 0 .. MaxValue
Causes == {"poll", "push", "user"}
Idle   == [cause |-> "user", stage |-> "idle", got |-> [s \in Settings |-> 0]]

TypeOK ==
    /\ value \in [Settings -> Values] /\ readable \in [Settings -> Values]
    /\ {allowed, cooling, rested, quiet} \subseteq BOOLEAN
    /\ shown \in [Settings -> Values]
    /\ read \in [Reads -> [cause : Causes, stage : {"idle", "asked", "served"},
                           got : [Settings -> Values]]]
    /\ writing \in [Settings -> Values] /\ written \in [Settings -> Values]
    /\ overtaken \subseteq Reads

Init ==
    /\ value = [s \in Settings |-> 0] /\ readable = value
    /\ allowed = TRUE /\ cooling = FALSE /\ rested = TRUE /\ quiet = TRUE
    /\ shown = [s \in Settings |-> 0]
    /\ read = [r \in Reads |-> Idle]
    /\ writing = [s \in Settings |-> 0] /\ written = writing
    /\ overtaken = {}

-------------------------------------------------------------------------------
(* The cloud *)

\* The Sber app changes a setting.
ChangedInApp(s) ==
    /\ value[s] < MaxValue /\ writing[s] = 0
    /\ value' = [value EXCEPT ![s] = @ + 1]
    /\ UNCHANGED <<readable, allowed, cooling, rested, quiet, shown, read, writing,
                   overtaken, written>>

\* The answers catch up with what was written.
CatchesUp(s) ==
    /\ readable[s] # value[s]
    /\ readable' = [readable EXCEPT ![s] = value[s]]
    /\ UNCHANGED <<value, allowed, cooling, rested, quiet, shown, read, writing,
                   overtaken, written>>

Serve(r) ==
    /\ read[r].stage = "asked"
    /\ read' = [read EXCEPT ![r].stage = "served", ![r].got = readable]
    /\ UNCHANGED <<cloud, allowed, cooling, rested, quiet, shown, writing, overtaken, written>>

-------------------------------------------------------------------------------
(* Reads *)

Ask(r, cause) ==
    /\ read[r].stage = "idle"
    /\ read' = [read EXCEPT ![r] = [Idle EXCEPT !.cause = cause, !.stage = "asked"]]
    /\ overtaken' = overtaken \ {r}

\* _maybe_poll_staros(), up to its first request
Poll(r) ==
    /\ allowed /\ rested /\ ~cooling
    /\ Ask(r, "poll")
    /\ UNCHANGED <<cloud, allowed, cooling, rested, quiet, shown, writing, written>>

\* Mutant: the push reads at once, write or no write.
PushReadsAlways == allowed

\* async_refresh_staros(respect_cooldown=True)
PushMayRead == allowed /\ ~cooling

\* _maybe_trigger_staros_from_push(): the trigger counts, read or no read.
Triggered(r) ==
    /\ allowed /\ quiet
    /\ quiet' = FALSE
    /\ \/ PushMayRead /\ Ask(r, "push")
       \/ ~PushMayRead /\ UNCHANGED <<read, overtaken>>
    /\ UNCHANGED <<cloud, allowed, cooling, rested, shown, writing, written>>

\* The button and the action read in any case.
UserReads(r) ==
    /\ allowed
    /\ Ask(r, "user")
    /\ UNCHANGED <<cloud, allowed, cooling, rested, quiet, shown, writing, written>>

\* The answer replaces what is shown, also over a write of the meantime.
Answered(r) ==
    /\ read[r].stage = "served"
    /\ shown' = read[r].got
    /\ read' = [read EXCEPT ![r] = Idle]
    /\ rested' = FALSE
    /\ UNCHANGED <<cloud, allowed, cooling, quiet, writing, overtaken, written>>

\* A refused login ends the domain; any other failure only waits for the next poll.
ReadFails(r) ==
    /\ read[r].stage # "idle"
    /\ read' = [read EXCEPT ![r] = Idle]
    /\ allowed' \in {allowed, FALSE}
    /\ rested' = IF read[r].cause = "poll" THEN FALSE ELSE rested
    /\ UNCHANGED <<cloud, cooling, quiet, shown, writing, overtaken, written>>

-------------------------------------------------------------------------------
(* Writes *)

\* async_set_staros_setting(): the PUT is served.
Write(s) ==
    /\ allowed /\ writing[s] = 0 /\ value[s] < MaxValue
    /\ value' = [value EXCEPT ![s] = @ + 1]
    /\ writing' = [writing EXCEPT ![s] = value[s] + 1]
    /\ UNCHANGED <<readable, allowed, cooling, rested, quiet, shown, read, overtaken, written>>

\* Its answer: the pause begins, and the value is shown.
Written(s) ==
    /\ writing[s] # 0
    /\ cooling' = TRUE
    /\ shown' = [shown EXCEPT ![s] = writing[s]]
    /\ writing' = [writing EXCEPT ![s] = 0]
    /\ written' = [written EXCEPT ![s] = writing[s]]
    /\ overtaken' = overtaken \cup {r \in Reads : read[r].stage # "idle"}
    /\ UNCHANGED <<cloud, allowed, rested, quiet, read>>

WriteFails(s) ==
    /\ writing[s] # 0
    /\ writing' = [writing EXCEPT ![s] = 0]
    /\ UNCHANGED <<cloud, allowed, cooling, rested, quiet, shown, read, overtaken, written>>

\* STAROS_WRITE_COOLDOWN_SEC is chosen so that the cloud has caught up by then.
CooldownEnds ==
    /\ cooling /\ \A s \in Settings : written[s] <= readable[s]
    /\ cooling' = FALSE
    /\ UNCHANGED <<cloud, allowed, rested, quiet, shown, read, writing, overtaken, written>>

TimePasses ==
    /\ ~rested \/ ~quiet
    /\ rested' = TRUE /\ quiet' = TRUE
    /\ UNCHANGED <<cloud, allowed, cooling, shown, read, writing, overtaken, written>>

Next ==
    \/ \E s \in Settings : \/ ChangedInApp(s) \/ CatchesUp(s)
                           \/ Write(s) \/ Written(s) \/ WriteFails(s)
    \/ \E r \in Reads : \/ Serve(r) \/ Poll(r) \/ Triggered(r) \/ UserReads(r)
                        \/ Answered(r) \/ ReadFails(r)
    \/ CooldownEnds \/ TimePasses

Spec == Init /\ [][Next]_vars

-------------------------------------------------------------------------------
(* Properties *)

\* What was written stays shown: a read that the integration started by itself,
\* after the write, does not bring back a value from before the write.
StaysShown ==
    \A r \in Reads, s \in Settings :
        Answered(r) /\ shown'[s] < written[s]
        => r \in overtaken \/ read[r].cause = "user"

WriteStaysShown == [][StaysShown]_vars
===============================================================================
