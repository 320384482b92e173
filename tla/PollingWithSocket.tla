------------------------- MODULE PollingWithSocket -------------------------
(***************************************************************************)
(* The polling schedule and the WebSocket task together.  The task's state *)
(* is what Polling sees of it (Link); the steps that change it are steps   *)
(* of both: a handshake, a lost session, the end of the task with the      *)
(* refresh it asks for, and the start of a new one by a good poll.         *)
(***************************************************************************)
EXTENDS Polling

CONSTANTS MaxFailures, BackoffMax

ASSUME LoopAssumption == MaxFailures \in Nat \ {0} /\ BackoffMax \in Nat \ {0}

VARIABLES stage, failures, backoff, stable, unavailableLogged, naps

Loop == INSTANCE WebSocketLoop

loopVars == <<stage, failures, backoff, stable, unavailableLogged, naps>>

allVars == <<vars, loopVars>>

Both == Init /\ Loop!LoopInit

\* A step of the loop that polling does not see
LoopAlone ==
    /\ Loop!LoopNext
    /\ Loop!Link' = Loop!Link
    /\ UNCHANGED vars

\* A step of polling that leaves the WebSocket alone
PollingAlone ==
    /\ Next
    /\ ws' = ws
    /\ UNCHANGED loopVars

\* The steps of both
Connects == WsOpens /\ Loop!HandshakeDone
Disconnects == WsDrops /\ Loop!LoopNext /\ stage' = "sleeping"
TaskEnds == WsEnds /\ Loop!LoopNext /\ stage' = "off"
Restarts(p) == PollSucceeds(p) /\ ws' # ws /\ Loop!StartTask

CoupledNext ==
    \/ LoopAlone \/ PollingAlone
    \/ Connects \/ Disconnects \/ TaskEnds
    \/ \E p \in Polls : Restarts(p)

\* A poll ends, and with success it starts a task that has ended.
PollEnds(p) ==
    \/ Restarts(p)
    \/ /\ PollSucceeds(p) \/ PollLimited(p) \/ PollRefused(p) \/ PollFails(p)
       /\ ws' = ws
       /\ UNCHANGED loopVars

\* Time, planned polls and requests go on, and so do the loop's own requests
\* and pauses.
CoupledSpec ==
    /\ Both
    /\ [][CoupledNext]_allVars
    /\ WF_allVars(Tick /\ UNCHANGED loopVars)
    /\ WF_allVars((\E p \in Polls : PlannedPoll(p)) /\ UNCHANGED loopVars)
    /\ \A p \in Polls :
        /\ WF_allVars(Served(p) /\ UNCHANGED loopVars)
        /\ WF_allVars(PollEnds(p))
    /\ WF_allVars(stage = "token" /\ (LoopAlone \/ TaskEnds))
    /\ WF_allVars(stage = "handshake" /\ (LoopAlone \/ Connects \/ TaskEnds))
    /\ WF_allVars(Loop!Wakes /\ UNCHANGED vars)

-------------------------------------------------------------------------------

\* Polling sees the WebSocket as the loop has it.
SeenAsIs == ws = Loop!Link

\* After a closed session the pause before the next attempt starts again from
\* the shortest, and only sessions that break at once make it longer.
PaceFits == Loop!PaceFits

\* The loop implements the link that polling assumes.
ImplementsLink == Loop!ImplementsLink

\* Pushes come back: once the cloud serves every request (no poll, token or
\* handshake fails any more), a connection is open again and again, also when
\* the task had given up: the next good poll starts it.  Only after a poll that
\* was refused does everything wait for the new login.
NothingFails ==
    /\ <>[][ \A p \in Polls : ~ (ServeRefuses(p) \/ ServeBreaks(p) \/ ServeLimits(p)) ]_allVars
    /\ <>[][ ~ (Loop!TokenRefused \/ Loop!TokenFails \/ Loop!HandshakeFails) ]_allVars

Reconnects == NothingFails => []<>(stage = "open" \/ authFailed)
===============================================================================
