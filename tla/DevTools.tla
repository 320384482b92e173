------------------------------- MODULE DevTools -------------------------------
(****************************************************************************)
(* What the panel's DevTools remember of the reported states: the collector *)
(* of differences (state_diff.py) and that of malformed attributes          *)
(* (schema_validator.py), fed by every poll and every push, each with a     *)
(* ring of its own that can be resized and cleared.                         *)
(*                                                                          *)
(* A snapshot maps keys to attributes; an attribute has a type, a value and *)
(* the mark whether the field its type calls for is there.                  *)
(****************************************************************************)
EXTENDS Integers, Sequences, FiniteSets, SequencesExt

CONSTANTS
    Devices,
    Snapshots,      \* the reported states that may arrive
    KnownKeys,      \* attribute keys the integration knows
    KnownTypes,     \* types of attributes it knows
    Sizes,          \* sizes of the rings a user may set; the first is the smallest
    MaxSeen         \* bound of the model: snapshots observed

VARIABLES
    diffs,          \* the ring of differences, oldest first
    last,           \* per device the snapshot the next one is compared with
    recent,         \* the ring of issues, oldest first
    byDevice,       \* per device the issues of its latest snapshot
    size,           \* the capacity of both rings
    start,          \* history: per device what its oldest kept difference applies to
    latest,         \* history: per device the snapshot observed last
    seen            \* how many snapshots were observed

vars == <<diffs, last, recent, byDevice, size, start, latest, seen>>

None == [none |-> [type |-> "", value |-> 0, field |-> FALSE]]

Ring(items, capacity) ==
    IF Len(items) <= capacity THEN items
    ELSE SubSeq(items, Len(items) - capacity + 1, Len(items))

(****************************************************************************)
(* Differences.                                                             *)
(****************************************************************************)
\* Mutant: an attribute that is gone is not recorded.
KeepsRemoved(device, prev, new) ==
    [device |-> device,
     added |-> Restrict(new, DOMAIN new \ DOMAIN prev),
     removed |-> <<>>,
     changed |-> [k \in {k \in DOMAIN new \cap DOMAIN prev : new[k] # prev[k]} |->
                     <<prev[k], new[k]>>]]

Diff(device, prev, new) ==
    [device |-> device,
     added |-> Restrict(new, DOMAIN new \ DOMAIN prev),
     removed |-> Restrict(prev, DOMAIN prev \ DOMAIN new),
     changed |-> [k \in {k \in DOMAIN new \cap DOMAIN prev : new[k] # prev[k]} |->
                     <<prev[k], new[k]>>]]

IsEmpty(diff) == diff.added = <<>> /\ diff.removed = <<>> /\ diff.changed = <<>>

Recorded(device, new) ==
    LET diff == Diff(device, last[device], new)
    IN  IF last[device] = None \/ IsEmpty(diff) THEN <<>> ELSE <<diff>>

(****************************************************************************)
(* Issues.                                                                  *)
(****************************************************************************)
IssuesOf(device, key, attr) ==
    {<<device, key, "unknown_attr_key">> : x \in {key} \ KnownKeys}
    \union (IF attr.type \notin KnownTypes THEN {<<device, key, "unknown_value_type">>}
            ELSE IF attr.field THEN {} ELSE {<<device, key, "missing_typed_value">>})

ValidateReportedState(device, snapshot) ==
    UNION {IssuesOf(device, key, snapshot[key]) : key \in DOMAIN snapshot}

(****************************************************************************)
(* The collectors.                                                          *)
(****************************************************************************)
\* What the oldest differences said, when the ring drops them, moves the start.
After(state, diff) ==
    [k \in (DOMAIN state \ DOMAIN diff.removed) \union DOMAIN diff.added |->
        IF k \in DOMAIN diff.added THEN diff.added[k]
        ELSE IF k \in DOMAIN diff.changed THEN diff.changed[k][2] ELSE state[k]]

Replayed(from, device, items) ==
    LET state[n \in 0..Len(items)] ==
            IF n = 0 THEN from
            ELSE IF items[n].device = device THEN After(state[n - 1], items[n])
            ELSE state[n - 1]
    IN  state[Len(items)]

Dropped(items, kept) == SubSeq(items, 1, Len(items) - Len(kept))
StartAfter(from, items, kept) ==
    [d \in Devices |-> IF from[d] = None THEN None
                       ELSE Replayed(from[d], d, Dropped(items, kept))]

Init ==
    /\ diffs = <<>> /\ recent = <<>>
    /\ last = [d \in Devices |-> None] /\ byDevice = [d \in Devices |-> {}]
    /\ size = CHOOSE n \in Sizes : \A m \in Sizes : m <= n
    /\ start = last /\ latest = last
    /\ seen = 0

Observe(device, snapshot) ==
    LET all == diffs \o Recorded(device, snapshot)
        from == IF last[device] = None THEN [start EXCEPT ![device] = snapshot] ELSE start
        issues == ValidateReportedState(device, snapshot)
    IN  /\ seen < MaxSeen /\ seen' = seen + 1
        /\ diffs' = Ring(all, size)
        /\ last' = [last EXCEPT ![device] = snapshot]
        /\ start' = StartAfter(from, all, diffs')
        /\ byDevice' = [byDevice EXCEPT ![device] = issues]
        /\ recent' = Ring(recent \o SetToSeq(issues), size)
        /\ latest' = [latest EXCEPT ![device] = snapshot]
        /\ UNCHANGED size

Resize(n) ==
    /\ n \in Sizes /\ size' = n
    /\ diffs' = Ring(diffs, n) /\ recent' = Ring(recent, n)
    /\ start' = StartAfter(start, diffs, diffs')
    /\ UNCHANGED <<last, byDevice, latest, seen>>

\* Mutant: the differences are dropped, what they are compared with is not.
ClearsRingOnly ==
    /\ diffs' = <<>>
    /\ UNCHANGED <<last, start, recent, byDevice, size, latest, seen>>

ClearDiffs ==
    /\ diffs' = <<>>
    /\ last' = [d \in Devices |-> None] /\ start' = last'
    /\ UNCHANGED <<recent, byDevice, size, latest, seen>>

ClearIssues ==
    /\ recent' = <<>> /\ byDevice' = [d \in Devices |-> {}]
    /\ latest' = [d \in Devices |-> None]
    /\ UNCHANGED <<diffs, last, size, start, seen>>

Next ==
    \/ \E d \in Devices, s \in Snapshots : Observe(d, s)
    \/ \E n \in Sizes : Resize(n)
    \/ ClearDiffs \/ ClearIssues

Spec == Init /\ [][Next]_vars

(****************************************************************************)
(* Properties.                                                              *)
(****************************************************************************)

\* Whatever the ring has dropped and however often it was resized or cleared in between,
\* the differences it keeps of a device, applied in order, lead to the snapshot the next
\* one is compared with: none is missing and none is doubled (state_diff.py:166).
DiffsAddUp ==
    \A d \in Devices : last[d] # None => Replayed(start[d], d, diffs) = last[d]

\* A device is shown as malformed exactly as long as its latest snapshot is
\* (schema_validator.py:252).
VerdictIsCurrent ==
    \A d \in Devices :
        byDevice[d] = IF latest[d] = None THEN {} ELSE ValidateReportedState(d, latest[d])
==============================================================================
