---------------------------- MODULE UniqueIdRepair ----------------------------
(****************************************************************************)
(* The unique ids of a device's entities after the cloud gave the device a  *)
(* new id (unique_id_repair.py): the records Home Assistant keeps are       *)
(* renamed before the entities are created, so that each entity finds its   *)
(* own record, with its history, again.                                     *)
(*                                                                          *)
(* An id is a word, a key a sequence of words: <<"power", "state">> is      *)
(* "power_state". A unique id is the id followed by the key, and a record   *)
(* is of one domain. The coordinator lists the entities that come of the    *)
(* features; the firmware (update.py) and the count of a hub's devices      *)
(* (sensor.py) are made beside that list.                                   *)
(****************************************************************************)
EXTENDS Integers, Sequences, SequencesExt

CONSTANTS
    GivenIds,       \* the ids the cloud gives the device, one after the other
    Entities,       \* the entities the device may have: [domain, key]; <<>> is the key
                    \* of the main one
    Unlisted,       \* those that the coordinator does not list
    MaxLoads        \* bound of the model: how often the entry is set up

VARIABLES
    turn,           \* which of the GivenIds the cloud uses now
    offered,        \* the entities the device has now
    records,        \* the records, in the order they are read: [uid, domain, of], where
                    \* of is history: the entity the record was made for
    loads           \* how often the entry was set up

vars == <<turn, offered, records, loads>>

Live == GivenIds[turn]
UniqueId(id, key) == <<id>> \o key
RecordOf(id, e) == [uid |-> UniqueId(id, e.key), domain |-> e.domain, of |-> e]

\* Mutant: the shortest key is tried first.
ShortestFirst(a, b) == Len(a) < Len(b)

Before(a, b) == Len(a) > Len(b)

KnownSuffixes == {e.key : e \in offered \ Unlisted} \ {<<>>}

EndsWith(uid, key) ==
    Len(uid) > Len(key) /\ SubSeq(uid, Len(uid) - Len(key) + 1, Len(uid)) = key

\* The suffix that is tried first. Two of one length are not both the end of one id.
First(keys) == CHOOSE key \in keys : \A other \in keys : ~Before(other, key)

\* The unique id a record left behind gets, as a set of at most one.
Retarget(uid, id) ==
    LET fits == {key \in KnownSuffixes : EndsWith(uid, key)}
    IN  IF fits # {} THEN {UniqueId(id, First(fits))}
        ELSE IF Len(uid) = 1 THEN {UniqueId(id, <<>>)} ELSE {}

\* async_get_entity_id() looks in the domain of the record.
Taken(list, uid, domain) ==
    \E i \in DOMAIN list : list[i].uid = uid /\ list[i].domain = domain

RepairOne(list, i, id) ==
    LET target == Retarget(list[i].uid, id)
    IN  IF \/ list[i].uid[1] = id \/ target = {}
           \/ \E uid \in target : Taken(list, uid, list[i].domain)
        THEN list
        ELSE [list EXCEPT ![i].uid = CHOOSE uid \in target : TRUE]

Repaired(list, id) ==
    LET done[n \in 0..Len(list)] ==
            IF n = 0 THEN list ELSE RepairOne(done[n - 1], n, id)
    IN  done[Len(list)]

\* An entity whose unique id has a record takes it, any other one gets a new record.
Created(list, id) ==
    LET missing == {e \in offered : ~Taken(list, UniqueId(id, e.key), e.domain)}
    IN  list \o SetToSeq({RecordOf(id, e) : e \in missing})

Init ==
    /\ turn = 1 /\ loads = 0
    /\ offered \in SUBSET Entities /\ offered # {}
    /\ records = <<>>

Load ==
    /\ loads < MaxLoads /\ loads' = loads + 1
    /\ records' = Created(Repaired(records, Live), Live)
    /\ UNCHANGED <<turn, offered>>

Rotate ==
    /\ turn < Len(GivenIds) /\ turn' = turn + 1
    /\ UNCHANGED <<offered, records, loads>>

\* A firmware adds entities; it is assumed to take none away.
Offer(e) ==
    /\ e \notin offered /\ offered' = offered \union {e}
    /\ UNCHANGED <<turn, records, loads>>

Next == Load \/ Rotate \/ \E e \in Entities : Offer(e)

Spec == Init /\ [][Next]_vars

(****************************************************************************)
(* Properties.                                                              *)
(****************************************************************************)

\* However often the cloud changes the id of a device and whatever entities it has by
\* then, no record passes to another entity, and every entity that the coordinator lists
\* keeps the one record it was given first (unique_id_repair.py:41): after each setup the
\* only one, under the live id and its own key. One that is not listed has one under the
\* live id as well, but may have left others behind, under the ids of before.
RecordsKeepTheirEntity ==
    records' # records =>
        /\ \A i \in DOMAIN records' : LET r == records'[i] IN
              /\ r.uid = UniqueId(r.uid[1], r.of.key)
              /\ r.of \notin Unlisted => r.uid[1] = Live
        /\ \A e \in offered : \E i \in DOMAIN records' : \A j \in DOMAIN records' :
              records'[j].of = e /\ records'[j].uid[1] = Live <=> j = i
==============================================================================
