--------------------------------- MODULE Cover ---------------------------------
(***************************************************************************)
(* One curtain, blind, gate or valve (cover.py, covers.py, the COVER       *)
(* branch of build_primary_entity). The entity shows the state and the     *)
(* position the device reports; a command is a desired value that counts   *)
(* until the device reports later than it was given (mapper.py).           *)
(***************************************************************************)
EXTENDS Integers

CONSTANTS
    Positions,  \* positions the user may ask for
    MaxTime     \* bound on the instants at which something happens

VARIABLES
    kind,       \* the category of the device, fixed
    device,     \* the device itself: [pos, goal, moving]
    server,     \* Sber's record: [state, pos, told, toldAt, stateAt]
    cache,      \* the integration's copy of it
    now,        \* the last instant at which something happened
    halted      \* history: the last command was a stop the device has not answered

vars == <<kind, device, server, cache, now, halted>>

Never == -1

\* _COVER_CONFIGS: a valve takes neither a position nor a stop.
Full == {"curtain", "window_blind", "gate"}
Kinds == Full \cup {"valve"}

\* _OPEN_STATE_MAP; what it does not know is shown closed.
OpenState(raw) ==
    CASE raw \in {"open", "opened"}   -> "open"
      [] raw \in {"opening", "closing"} -> raw
      [] OTHER -> "closed"

\* Mutant: a command counts for ever.
StaysFresh(desired, reported) == desired # Never

IsFreshDesired(desired, reported) ==
    desired # Never /\ (reported = Never \/ desired >= reported)

\* The state and the position shown of a record.
Shown(record) ==
    [state |-> OpenState(IF IsFreshDesired(record.toldAt, record.stateAt)
                         THEN record.told ELSE record.state),
     pos |-> record.pos]

-------------------------------------------------------------------------------
Init ==
    /\ kind \in Kinds
    /\ device \in [pos : {0, 100}, goal : {0, 100}, moving : {FALSE}]
    /\ device.goal = device.pos
    /\ server = [state |-> IF device.pos = 0 THEN "close" ELSE "open", pos |-> device.pos,
                 told |-> "none", toldAt |-> Never, stateAt |-> 0]
    /\ cache = server
    /\ now = 0
    /\ halted = FALSE

Tick == now < MaxTime /\ now' = now + 1

\* open_set: the device gets a new goal.
MoveTo(goal) ==
    /\ Tick
    /\ device' = [device EXCEPT !.goal = goal]
    /\ UNCHANGED <<kind, server, cache, halted>>

OpenCover  == MoveTo(100)
CloseCover == MoveTo(0)
SetCoverPosition == kind \in Full /\ \E p \in Positions : MoveTo(p)

\* open_state = "stop", stamped by Sber; the copy has it without a stamp.
StopCover ==
    /\ kind \in Full
    /\ Tick
    /\ device' = [device EXCEPT !.goal = device.pos]
    /\ server' = [server EXCEPT !.told = "stop", !.toldAt = now']
    /\ cache' = [cache EXCEPT !.told = "stop", !.toldAt = Never]
    /\ halted' = TRUE
    /\ UNCHANGED kind

Reports(state, pos) == server' = [server EXCEPT !.state = state, !.pos = pos, !.stateAt = now']

Starts ==
    /\ Tick
    /\ ~device.moving /\ device.goal # device.pos
    /\ device' = [device EXCEPT !.moving = TRUE]
    /\ Reports(IF device.goal > device.pos THEN "opening" ELSE "closing", device.pos)
    /\ halted' = FALSE
    /\ UNCHANGED <<kind, cache>>

\* Half way the position changes without a report of the state.
Passes ==
    /\ device.moving /\ device.pos \in {0, 100} /\ device.goal # 50
    /\ device' = [device EXCEPT !.pos = 50]
    /\ server' = [server EXCEPT !.pos = 50]
    /\ UNCHANGED <<kind, cache, now, halted>>

\* The device comes to rest and says so, when it has arrived, was stopped or had nothing to do.
Rests ==
    /\ Tick
    /\ device.moving \/ halted
    /\ device' = [device EXCEPT !.pos = device.goal, !.moving = FALSE]
    /\ Reports(IF device.goal = 0 THEN "close" ELSE "opened", device.goal)
    /\ halted' = FALSE
    /\ UNCHANGED <<kind, cache>>

Refreshed ==
    /\ cache # server
    /\ cache' = server
    /\ UNCHANGED <<kind, device, server, now, halted>>

Next ==
    \/ OpenCover \/ CloseCover \/ SetCoverPosition \/ StopCover
    \/ Starts \/ Passes \/ Rests \/ Refreshed

Spec == Init /\ [][Next]_vars

-------------------------------------------------------------------------------
TypeOK ==
    /\ kind \in Kinds
    /\ device.pos \in 0..100 /\ device.goal \in 0..100
    /\ now \in 0..MaxTime /\ halted \in BOOLEAN

\* A cover that rests, has answered its last stop and is known as Sber knows it is shown where
\* it is, and closed exactly if it is: a stop given while it moved is no longer taken for its
\* state.
ShownWhereItIs ==
    cache = server /\ ~device.moving /\ ~halted =>
        /\ Shown(cache).pos = device.pos
        /\ (Shown(cache).state = "closed") = (device.pos = 0)

\* A cover on its way is shown on its way, until it is told to stop.
ShownOnItsWay ==
    cache = server /\ device.moving /\ ~halted => Shown(cache).state \in {"opening", "closing"}
===============================================================================
