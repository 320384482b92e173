----------------------------- MODULE ButtonPresses -----------------------------
(***************************************************************************)
(* The event entity of one scenario button (SberSbermapEvent, event.py):   *)
(* Sber only tells the LAST press, the entity has to make events of it. It *)
(* compares a mark (the type of the press and, if Sber tells it, the time  *)
(* of its report) with the one it saw last.                                *)
(***************************************************************************)
EXTENDS Integers, Sequences

CONSTANTS
    MaxPresses,     \* bound on the presses
    MaxReloads      \* bound on the times the entity is made

VARIABLES
    stamped,    \* whether Sber tells the time of a press of this device, fixed
    server,     \* the last press at Sber: [type, id], id counts the presses
    cache,      \* the one the integration knows
    entity,     \* "none" | "live"
    lastSeen,   \* the mark seen last; an empty set for none
    due,        \* the listeners have not been told of the cache yet
    born,       \* history: the press known when the entity was made
    reloads,    \* the times it was made
    fired       \* history: the presses that became events, with what their entity was born with

vars == <<stamped, server, cache, entity, lastSeen, due, born, reloads, fired>>

EventTypes == {"click", "double_click", "long_press"}
Types == {"click", "long_press", "rotate"}
NoPress == [type |-> "none", id |-> 0]

\* Mutant: the type alone tells one press from another.
TypeAlone(press) == {<<press.type, 0>>}

\* The mark of a press; none for a device that was never pressed.
Mark(press) ==
    IF press = NoPress THEN {} ELSE {<<press.type, IF stamped THEN press.id ELSE 0>>}

Init ==
    /\ stamped \in BOOLEAN
    /\ server \in {NoPress} \cup [type : Types, id : {1}]
    /\ cache = server
    /\ entity = "none"
    /\ lastSeen = {}
    /\ due = FALSE
    /\ born = 0
    /\ reloads = 0
    /\ fired = <<>>

Press ==
    \E t \in Types :
        /\ server.id < MaxPresses
        /\ server' = [type |-> t, id |-> server.id + 1]
        /\ UNCHANGED <<stamped, cache, entity, lastSeen, due, born, reloads, fired>>

\* A poll or a push that no other overtakes: the copy is renewed, and the listeners are about
\* to be told, also when nothing is new.
Renew ==
    /\ cache' = server
    /\ due' = TRUE
    /\ UNCHANGED <<stamped, server, entity, lastSeen, born, reloads, fired>>

\* Mutant: the first update counts as news.
SeenNothing == {}

\* What a new entity counts as seen: the press that lies there already.
SeenAtFirst == Mark(cache)

\* Home Assistant makes the entity (at its start, after a choice of devices changed).
Create ==
    /\ entity = "none"
    /\ reloads < MaxReloads
    /\ entity' = "live"
    /\ lastSeen' = SeenAtFirst
    /\ born' = cache.id
    /\ reloads' = reloads + 1
    /\ UNCHANGED <<stamped, server, cache, due, fired>>

Remove ==
    /\ entity = "live"
    /\ entity' = "none"
    /\ UNCHANGED <<stamped, server, cache, lastSeen, due, born, reloads, fired>>

\* _handle_coordinator_update
Update ==
    /\ due
    /\ due' = FALSE
    /\ IF entity = "live" /\ Mark(cache) # {} /\ Mark(cache) # lastSeen
       THEN /\ lastSeen' = Mark(cache)
            /\ fired' = IF cache.type \in EventTypes
                        THEN Append(fired, [id |-> cache.id, born |-> born]) ELSE fired
       ELSE UNCHANGED <<lastSeen, fired>>
    /\ UNCHANGED <<stamped, server, cache, entity, born, reloads>>

Next == Press \/ Renew \/ Create \/ Remove \/ Update
Spec == Init /\ [][Next]_vars

-------------------------------------------------------------------------------
TypeOK ==
    /\ stamped \in BOOLEAN /\ due \in BOOLEAN
    /\ entity \in {"none", "live"}
    /\ cache.id <= server.id
    /\ fired \in Seq([id : 1..MaxPresses, born : 0..MaxPresses])

\* No press becomes an event twice, none that was there before its entity, and the events come
\* in the order of the presses, over any number of reloads.
FiresOnce ==
    /\ \A i \in 2..Len(fired) : fired[i - 1].id < fired[i].id
    /\ \A i \in 1..Len(fired) : fired[i].born < fired[i].id

\* Of a device that tells when it was pressed, no press the entity was told of is missed.
MissesNone ==
    entity = "live" /\ ~due /\ stamped /\ cache.id > born /\ cache.type \in EventTypes =>
        Len(fired) > 0 /\ fired[Len(fired)].id = cache.id
===============================================================================
