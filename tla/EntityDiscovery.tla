---------------------------- MODULE EntityDiscovery ----------------------------
(****************************************************************************)
(* The entities of the homes, scenarios and groups of the account           *)
(* (switch.py, button.py, switch_groups.py): unlike those of devices they   *)
(* are discovered while the entry runs, at every update the coordinator     *)
(* announces, and follow the names the cloud has.                           *)
(*                                                                          *)
(* A thing is a pair <<kind, id>>, an entity a pair <<role, thing>>.        *)
(****************************************************************************)
EXTENDS Integers, Sequences, FiniteSets

CONSTANTS
    Lists,          \* what the cloud may list: functions from things to [name, members],
                    \* the members being the devices of a group or a room, else {}
    MaxUpdates      \* bound of the model: updates and reloads

VARIABLES
    listed,         \* what the coordinator holds
    known,          \* the things the two platforms have made entities for
    entities,       \* the entities that exist: [label, cached], the name put together
                    \* last being cached
    refused,        \* how many entities Home Assistant refused as already there
    updates         \* updates and reloads so far

vars == <<listed, known, entities, refused, updates>>

SwitchRoles == [home |-> {"at_home"}, scenario |-> {"active"}, group |-> {"group"}, room |-> {}]
ButtonRoles(kind) == IF kind = "scenario" THEN {"run", "stop", "cancel"} ELSE {}

\* The entities whose name is put together from a translation and kept.
Translated == {"at_home", "stop", "cancel"}

GroupName(thing, list) ==
    IF list[thing].name # "" THEN list[thing].name ELSE "Sber group"
Name(thing, list) == IF thing[1] = "group" THEN GroupName(thing, list) ELSE list[thing].name

\* A scenario needs a name, a group a member; a room is no group.
Discovered(list) ==
    {thing \in DOMAIN list :
        CASE thing[1] = "scenario" -> list[thing].name # ""
          [] thing[1] = "group" -> list[thing].members # {}
          [] OTHER -> thing[1] = "home"}

Switches(things) == UNION {{<<role, t>> : role \in SwitchRoles[t[1]]} : t \in things}
Buttons(things) == UNION {{<<role, t>> : role \in ButtonRoles(t[1])} : t \in things}
Added(things) == Switches(things) \union Buttons(things)

New(entity, list) == [label |-> Name(entity[2], list), cached |-> ""]

\* Mutant: the name put together once is kept.
LabelOnly(entity, state, list) == [state EXCEPT !.label = Name(entity[2], list)]

\* An update gives a name that changed, and forgets the one put together before.
Relabelled(entity, state, list) ==
    IF state.label = Name(entity[2], list) THEN state ELSE New(entity, list)

HandleUpdate(entity, state, list) ==
    IF entity[2] \in DOMAIN list /\ list[entity[2]].name # ""
    THEN Relabelled(entity, state, list) ELSE state

\* Writing the state puts the name together unless it is kept.
WriteState(entity, state) ==
    IF entity[1] \in Translated /\ state.cached # "" THEN state
    ELSE [state EXCEPT !.cached = state.label]

\* Mutant: a thing the cloud no longer lists is forgotten.
OnlyListed(list) == (known \intersect DOMAIN list) \union Discovered(list)

Remembered(list) == known \union Discovered(list)

Announce(list) ==
    LET offered == Added(Discovered(list) \ known)
        now == [e \in DOMAIN entities \union offered |->
                   IF e \in DOMAIN entities THEN HandleUpdate(e, entities[e], list)
                   ELSE New(e, list)]
    IN  /\ known' = Remembered(list)
        /\ entities' = [e \in DOMAIN now |-> WriteState(e, now[e])]
        /\ refused' = refused + Cardinality(offered \intersect DOMAIN entities)

SetUp(list) ==
    LET offered == Added(Discovered(list))
    IN  [e \in offered |-> WriteState(e, New(e, list))]

Init ==
    /\ listed \in Lists
    /\ known = Discovered(listed) /\ entities = SetUp(listed)
    /\ refused = 0 /\ updates = 0

\* What a poll or a push put into the coordinator is announced; a failed poll announces
\* the lists there are.
Update(list) ==
    /\ updates < MaxUpdates /\ updates' = updates + 1
    /\ listed' = list
    /\ Announce(list)

Reload ==
    /\ updates < MaxUpdates /\ updates' = updates + 1
    /\ UNCHANGED <<listed, refused>>
    /\ known' = Discovered(listed) /\ entities' = SetUp(listed)

Next == Reload \/ \E list \in Lists : Update(list)

Spec == Init /\ [][Next]_vars

(****************************************************************************)
(* Properties.                                                              *)
(****************************************************************************)

\* Whatever vanished, came back, was renamed or got its first device in between, each
\* thing that can be used has each of its entities once, under the name the cloud has
\* for it now, and none is offered to Home Assistant a second time (switch.py:48).
EntitiesFollow ==
    /\ \A thing \in Discovered(listed) :
          \A e \in Added({thing}) :
              /\ e \in DOMAIN entities
              /\ listed[thing].name # "" => entities[e].cached = listed[thing].name
    /\ refused = 0
==============================================================================
