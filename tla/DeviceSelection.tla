-------------------------- MODULE DeviceSelection --------------------------
(***************************************************************************)
(* Which devices the user wants in Home Assistant, and what that choice    *)
(* does to the device registry: identity.py, selection_migration.py,       *)
(* registry_maintenance.py, the selection handlers of coordinator.py and   *)
(* their callers in __init__.py and websocket_api/enabled.py.              *)
(*                                                                         *)
(* A unit is a piece of hardware, and stands for its serial number.  The   *)
(* cloud knows it by records; a record is its id, and pairing a unit again *)
(* gives it a new one, the old one being deleted before, after or never.   *)
(* Ids are numbers in the order they are issued, so the larger id of two   *)
(* records of a unit is the fresher.  Every unit has a serial number and a *)
(* supported category.  A version of the integration from before the       *)
(* stable key, which the user may go back to for a while, is external.     *)
(***************************************************************************)
EXTENDS Naturals, FiniteSets, FiniteSetsExt

CONSTANTS
    Units,      \* the hardware, by serial number
    Near,       \* units of the default home, all that a degraded answer holds
    MaxId,      \* bound on the ids the cloud issues
    MissLimit,  \* PRUNE_MIN_CONSECUTIVE_MISSES
    Unset       \* an option that is not there

Ids == 1 .. MaxId
Keys == Units \cup Ids

ASSUME UnitsAssumption == Near \subseteq Units /\ Units \cap Nat = {} /\ IsFiniteSet(Units)
ASSUME LimitsAssumption ==
    MaxId \in Nat /\ Cardinality(Units) <= MaxId /\ MissLimit \in Nat \ {0}
ASSUME UnsetAssumption == \A S \in SUBSET Keys : Unset # S

VARIABLES
    unit,       \* the unit of every id issued so far, in order
    records,    \* ids the cloud has now
    cache,      \* ids in the StateCache of the loaded entry
    uids, legacy, mirror, \* the three options that hold the selection
    loaded,     \* the entry is set up
    pending,    \* selection_migration_pending
    registry,   \* units with an entry in the device registry
    misses,     \* consecutive misses counted per unit, in hass.data
    chosen,     \* history: units the user wants
    elsewhere,  \* history: units chosen in the older version since, or Unset
    secured,    \* history: units of chosen that a save saw as one record
    absent      \* history: full answers in a row without the unit

cloud == <<unit, records>>
options == <<uids, legacy, mirror>>
history == <<chosen, elsewhere, secured>>
vars == <<cloud, cache, options, loaded, pending, registry, misses, history, absent>>

TypeOK ==
    /\ unit \in UNION {[1 .. n -> Units] : n \in 0 .. MaxId}
    /\ records \subseteq DOMAIN unit /\ cache \subseteq DOMAIN unit
    /\ loaded \in BOOLEAN /\ pending \in BOOLEAN
    /\ \A option \in {uids, legacy, mirror} : option = Unset \/ option \subseteq Keys
    /\ registry \subseteq Units
    /\ misses \in [Units -> 0 .. MissLimit - 1]
    /\ secured \subseteq chosen /\ chosen \subseteq Units
    /\ elsewhere = Unset \/ elsewhere \subseteq Units
    /\ absent \in [Units -> 0 .. MissLimit]

-----------------------------------------------------------------------------
(* identity.py: pure functions of the cache C and of stored keys S. *)

MatchKeys(i) == {i, unit[i]}
Of(C, u) == {i \in C : unit[i] = u}
Ambiguous(C, u) == Cardinality(Of(C, u)) > 1
UnitsOf(S) == {unit[i] : i \in S \cap DOMAIN unit}

\* One record of an ambiguous unit: an id the user chose, else any; the freshest.
PickOne(C, u, S) == LET explicit == Of(C, u) \cap S
                    IN  Max(IF explicit = {} THEN Of(C, u) ELSE explicit)

Resolve(C, S) ==
    {PickOne(C, u, S) : u \in {v \in UnitsOf(C) : (Of(C, v) \cup {v}) \cap S # {}}}

\* The stable form of a key.  Of the records of an ambiguous serial number the
\* first one listed lends its id; the cloud's order is left open.
ToUid(C, k) ==
    LET matches == {i \in C : k \in MatchKeys(i)}
        u == IF k \in C THEN unit[k] ELSE k
    IN  IF matches = {} THEN k
        ELSE IF ~ Ambiguous(C, u) THEN u
        ELSE IF k \in C THEN k
        ELSE CHOOSE i \in matches : TRUE
ToUids(C, S) == {ToUid(C, k) : k \in S}

Stored(up, leg) == IF up # Unset THEN up ELSE leg
Enabled(C, up, leg) == IF Stored(up, leg) = Unset THEN C ELSE Resolve(C, Stored(up, leg))

Shown == Enabled(cache, uids, legacy)

-----------------------------------------------------------------------------
(* registry_maintenance.py, as a poll with the answer C finds it. *)

Seen(C) == UnitsOf(Enabled(C, uids, legacy))
OptedOut(C) == UnitsOf(C) \ Seen(C)
\* Mutant: an incomplete answer counts as well.
MissingAnyway(C, lean) == registry \ UnitsOf(C)
Missing(C, lean) == IF lean THEN {} ELSE registry \ UnitsOf(C)
Overdue(C, lean, counted) == {u \in Missing(C, lean) : counted[u] + 1 >= MissLimit}

Doomed(C, lean, counted) == (registry \cap OptedOut(C)) \cup Overdue(C, lean, counted)

Counted(C, lean, counted) ==
    [u \in Units |-> IF u \in (registry \cap Seen(C)) \cup Overdue(C, lean, counted) THEN 0
                     ELSE IF u \in Missing(C, lean) THEN counted[u] + 1
                     ELSE counted[u]]

NoteAnswer(C, lean) ==
    absent' = [u \in Units |-> IF u \in UnitsOf(C) THEN 0
                               ELSE IF lean \/ absent[u] = MissLimit THEN absent[u]
                               ELSE absent[u] + 1]

-----------------------------------------------------------------------------
(* selection_migration.py, with the answer C at hand. *)

\* Mutant: any answer will do.
UsableAnyway(C, lean) == TRUE
Usable(C, lean) == C # {} /\ ~ lean

\* The older key was written by somebody else since we wrote both.
Contested == /\ uids # Unset /\ legacy # Unset /\ mirror # Unset
             /\ legacy # mirror
Unmigrated == uids = Unset /\ legacy # Unset

\* The migration has something to write, and an answer it may use.
Owing == Contested \/ Unmigrated
MayWrite(C, lean) == Usable(C, lean) \/ (Unmigrated /\ legacy = {})

WriteSelection(C, stored) ==
    /\ uids' = stored
    /\ legacy' = Resolve(C, stored)
    /\ mirror' = legacy'

\* What the older key says is accepted as it is.
Adopt(C) ==
    /\ WriteSelection(C, ToUids(C, legacy))
    /\ chosen' = IF elsewhere = Unset THEN chosen ELSE elsewhere
    /\ secured' = {u \in chosen' : /\ Cardinality(Of(records, u)) = 1
                                   /\ Of(records, u) \subseteq legacy}
    /\ elsewhere' = Unset

-----------------------------------------------------------------------------
(* The coordinator, the entry and the panel. *)

Answer(lean) == IF lean THEN {i \in records : unit[i] \in Near} ELSE records

NoMisses == [u \in Units |-> 0]

\* The coordinator goes, and hass.data of the entry with it.
Unload ==
    /\ loaded /\ loaded' = FALSE
    /\ cache' = {} /\ pending' = FALSE /\ misses' = NoMisses

\* async_setup_entry: the first refresh prunes before the selection is migrated,
\* then the platforms create the entries of the devices that are enabled.
SetUp(lean) ==
    LET C == Answer(lean) IN
    /\ ~ loaded /\ loaded' = TRUE
    /\ cache' = C
    /\ NoteAnswer(C, lean)
    /\ misses' = Counted(C, lean, NoMisses)
    /\ IF Owing /\ MayWrite(C, lean) THEN Adopt(C)
       ELSE /\ elsewhere' = IF Owing THEN elsewhere ELSE Unset
            /\ UNCHANGED <<options, chosen, secured>>
    /\ pending' = (Owing /\ ~ MayWrite(C, lean))
    /\ registry' = (registry \ Doomed(C, lean, NoMisses))
                       \cup UnitsOf(Enabled(C, uids', legacy'))
    /\ UNCHANGED cloud

\* _async_update_data without a migration to make up for.
Poll(lean) ==
    LET C == Answer(lean) IN
    /\ loaded /\ ~ (pending /\ MayWrite(C, lean))
    /\ cache' = C
    /\ NoteAnswer(C, lean)
    /\ misses' = Counted(C, lean, misses)
    /\ registry' = registry \ Doomed(C, lean, misses)
    /\ UNCHANGED <<cloud, options, loaded, pending, history>>

\* With one: the options change, and the update listener reloads the entry.
PollMigrates(lean) ==
    LET C == Answer(lean) IN
    /\ pending /\ MayWrite(C, lean)
    /\ NoteAnswer(C, lean)
    /\ registry' = registry \ Doomed(C, lean, misses)
    /\ Adopt(C)
    /\ Unload
    /\ UNCHANGED cloud

\* Home Assistant stops, or the user reloads the integration.
Restart ==
    /\ Unload
    /\ UNCHANGED <<cloud, options, registry, history, absent>>

RemovedUnits(removed) == UnitsOf(removed \cap cache) \cup (removed \cap Units)

\* Units a save keeps track of: those the user ticks, sees ticked, or had
\* saved before, unless two records share the serial number or the list is
\* the first one and the unit is not in the cache.
Followed(ticked) ==
    {u \in Units : /\ ~ Ambiguous(cache, u)
                   /\ u \in ticked \cup UnitsOf(Shown)
                        \cup (IF Stored(uids, legacy) = Unset THEN {} ELSE secured)}

\* _async_persist_selection: the options, the registry, and a reload.
Persist(newStored, removed, wanted, ticked) ==
    /\ Unload
    /\ WriteSelection(cache, ToUids(cache, newStored))
    /\ registry' = registry \ RemovedUnits(removed)
    /\ chosen' = wanted /\ elsewhere' = Unset
    /\ secured' = wanted \cap Followed(ticked)
    /\ UNCHANGED <<cloud, absent>>

\* What enabling and disabling start from.
Base == IF Stored(uids, legacy) = Unset THEN cache ELSE Stored(uids, legacy)

Enable(i) == /\ i \in cache
             /\ Persist(Base \cup {i}, {}, chosen \cup {unit[i]}, {unit[i]})

\* A unit with another record ticked by its id stays chosen.
Without(i) == chosen \ ({unit[i]} \ UnitsOf((Base \cap cache) \ {i}))

\* Mutant: only the id is taken out.
DisableId(i) ==
    /\ i \in cache
    /\ Persist(Base \ {i}, Base \cap {i}, Without(i), {})
Disable(i) ==
    /\ i \in cache
    /\ Persist(Base \ MatchKeys(i), Base \cap MatchKeys(i), Without(i), {})

\* The list L of a panel that shows what is in the cache.
SetEnabled(L) ==
    LET stored == IF Stored(uids, legacy) = Unset THEN {} ELSE Stored(uids, legacy)
        shownNow == IF Stored(uids, legacy) = Unset THEN {} ELSE Shown
        unresolvable == {k \in stored : \A i \in cache : k \notin MatchKeys(i)}
        removed == stored \cap UNION {MatchKeys(i) : i \in shownNow \ L}
        outOfSight == {u \in chosen : u \notin UnitsOf(cache)}
    IN  Persist(L \cup unresolvable, removed, UnitsOf(L) \cup outOfSight, UnitsOf(L))

\* A configuration file with the serial numbers of K.
Import(K) ==
    LET current == IF Stored(uids, legacy) = Unset THEN {} ELSE Stored(uids, legacy)
    IN  Persist(K, current \ K, K, K)

-----------------------------------------------------------------------------
(* The account, and the older version. *)

Pair(u) ==
    /\ Cardinality(DOMAIN unit) < MaxId
    /\ LET new == Cardinality(DOMAIN unit) + 1
       IN  /\ unit' = [i \in 1 .. new |-> IF i = new THEN u ELSE unit[i]]
           /\ records' = records \cup {new}
    /\ UNCHANGED <<cache, options, loaded, pending, registry, misses, history, absent>>

Delete(i) ==
    /\ records' = records \ {i} /\ records' # records
    /\ UNCHANGED <<unit, cache, options, loaded, pending, registry, misses, history,
                   absent>>

\* The user goes back to the older version, ticks or unticks record i there,
\* and returns.  It knows ids only, and writes its own key only.
OlderVersion(i) ==
    /\ ~ loaded /\ i \in records
    /\ LET base == IF legacy = Unset THEN records ELSE legacy
       IN  \E L \in {base \cup {i}, base \ {i}} :
             /\ legacy' = L
             /\ IF uids = Unset THEN chosen' = UnitsOf(L) /\ secured' = {} /\ elsewhere' = Unset
                ELSE elsewhere' = UnitsOf(L) /\ UNCHANGED <<chosen, secured>>
    /\ UNCHANGED <<cloud, cache, uids, mirror, loaded, pending, registry, misses, absent>>

-----------------------------------------------------------------------------
\* An installation from before the selection, one with a list of ids, or a
\* new one, whose list is empty; every unit is paired once.
Init ==
    /\ unit = CHOOSE f \in [1 .. Cardinality(Units) -> Units] :
                \A u \in Units : \E i \in DOMAIN f : f[i] = u
    /\ records = DOMAIN unit
    /\ cache = {}
    /\ uids = Unset /\ mirror = Unset
    /\ legacy \in {Unset} \cup SUBSET records
    /\ loaded = FALSE /\ pending = FALSE
    /\ chosen = IF legacy = Unset THEN Units ELSE UnitsOf(legacy)
    /\ secured = IF legacy = Unset THEN Units ELSE {}
    /\ elsewhere = Unset
    /\ registry = chosen
    /\ misses = [u \in Units |-> 0] /\ absent = [u \in Units |-> 0]

Next ==
    \/ \E lean \in BOOLEAN : SetUp(lean) \/ Poll(lean) \/ PollMigrates(lean)
    \/ Restart
    \/ \E i \in Ids : Enable(i) \/ Disable(i) \/ Delete(i) \/ OlderVersion(i)
    \/ \E L \in SUBSET cache : SetEnabled(L)
    \/ \E K \in SUBSET Units : Import(K)
    \/ \E u \in Units : Pair(u)

Spec == Init /\ [][Next]_vars

-----------------------------------------------------------------------------
\* A unit the user chose, and that a save saw as one record, is shown whenever
\* an answer has it, however often it was paired since and whatever answers
\* came in between.  Before the first choice every unit is shown.
ChosenShown ==
    loaded => \A u \in secured : Of(cache, u) # {} => u \in UnitsOf(Shown)

\* Nothing is shown that the user did not choose, be it that records share a
\* serial number, that the choice waits to be migrated, or that it changed in
\* the older version.
NothingUnchosen == loaded => UnitsOf(Shown) \subseteq chosen

\* The registry entry of such a unit is removed only when MissLimit full
\* answers in a row did not have it; incomplete answers prove nothing.
RemovedForCause ==
    [][\A u \in registry \ registry' : u \in secured \cap secured' => absent'[u] = MissLimit]_vars
=============================================================================
