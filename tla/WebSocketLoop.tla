--------------------------- MODULE WebSocketLoop ---------------------------
(***************************************************************************)
(* The WebSocket task: WebSocketClient.run() with its exponential backoff, *)
(* the limit of failures in a row, the reset by a stable session           *)
(* (aiosber/transport/ws.py), the adapter that turns every close into      *)
(* ConnectionResetError (_ws_adapter.py), and the coordinator around it:   *)
(* _run_ws() and the one warning per outage of _on_ws_connection_change(). *)
(* The task is started again by the first poll that succeeds after its     *)
(* end; the messages themselves are in StateSync and IntentDispatch.       *)
(***************************************************************************)
EXTENDS Integers

CONSTANTS
    MaxFailures,    \* max_consecutive_failures
    BackoffMax      \* backoff_max, in units of backoff_initial

VARIABLES
    stage,      \* off, token, handshake, open, sleeping
    failures,   \* consecutive_failures, counted up to MaxFailures
    backoff,    \* backoff
    stable,     \* the session has lived WS_STABLE_SESSION_SEC
    unavailableLogged,  \* _ws_unavailable_logged
    \* history
    naps        \* pauses since the task began or since its last stable session,
                \* counted up to BackoffMax

loopVars == <<stage, failures, backoff, stable, unavailableLogged, naps>>

\* Mutant: every connection resets the backoff.
StableWhenOpen == stage = "open"

\* The session that ends has been stable.
WasStable == stage = "open" /\ stable

\* run() begins: the counters are local to it.
BeginRun ==
    /\ stage' = "token"
    /\ failures' = 0 /\ backoff' = 1 /\ stable' = FALSE
    /\ naps' = 0

LoopInit ==
    /\ stage = "token"
    /\ failures = 0 /\ backoff = 1 /\ stable = FALSE
    /\ unavailableLogged = FALSE
    /\ naps = 0

\* _on_ws_connection_change(False, err)
NotifyLost == unavailableLogged' = TRUE

\* Mutant: the task never gives up, so polling is never told that it is alone.
NeverGivesUp(n) == FALSE

\* max_consecutive_failures is reached.
GivesUp(n) == n >= MaxFailures

Doubled(b) == IF 2 * b > BackoffMax THEN BackoffMax ELSE 2 * b

\* The end of one turn of run() that counted n failures: a stable session resets
\* counter and backoff, too many failures end the task, else it sleeps.
TurnEnds(n) ==
    LET left == IF WasStable THEN 0 ELSE n
    IN  /\ failures' = IF left > MaxFailures THEN MaxFailures ELSE left
        /\ backoff' = IF WasStable THEN 1 ELSE backoff
        /\ stage' = IF GivesUp(left) THEN "off" ELSE "sleeping"
        /\ naps' = IF stage = "open" /\ stable THEN 1
                   ELSE IF naps < BackoffMax THEN naps + 1 ELSE naps
        /\ UNCHANGED stable

Quiet == UNCHANGED unavailableLogged

\* access_token() answers; an AuthError ends the task, which notifies twice, by
\* run() and by _run_ws(); any other error is a failure of the turn.
TokenGiven ==
    /\ stage = "token"
    /\ stage' = "handshake"
    /\ Quiet /\ UNCHANGED <<failures, backoff, stable, naps>>

TokenRefused ==
    /\ stage = "token"
    /\ stage' = "off"
    /\ NotifyLost
    /\ UNCHANGED <<failures, backoff, stable, naps>>

TokenFails ==
    /\ stage = "token"
    /\ TurnEnds(failures + 1)
    /\ NotifyLost

\* The handshake: whatever its error, 401 included, it is a NetworkError.
HandshakeDone ==
    /\ stage = "handshake"
    /\ stage' = "open"
    /\ unavailableLogged' = FALSE
    /\ UNCHANGED <<failures, backoff, stable, naps>>

HandshakeFails ==
    /\ stage = "handshake"
    /\ TurnEnds(failures + 1)
    /\ NotifyLost

\* The session lives WS_STABLE_SESSION_SEC.
Matures ==
    /\ stage = "open" /\ ~stable
    /\ stable' = TRUE
    /\ Quiet /\ UNCHANGED <<stage, failures, backoff, naps>>

\* Closed by the server, or by the missing pong: no failure, and nothing is logged.
SessionCloses ==
    /\ stage = "open"
    /\ TurnEnds(failures)
    /\ Quiet

\* recv() or the parser raises anything else.
SessionFails ==
    /\ stage = "open"
    /\ TurnEnds(failures + 1)
    /\ NotifyLost

\* The backoff has passed: it is doubled, and _connected_at forgotten.
Wakes ==
    /\ stage = "sleeping"
    /\ stage' = "token"
    /\ stable' = FALSE
    /\ backoff' = Doubled(backoff)
    /\ Quiet /\ UNCHANGED <<failures, naps>>

\* _start_ws_task(), by a poll that succeeds.
StartTask ==
    /\ stage = "off"
    /\ BeginRun
    /\ Quiet

LoopNext ==
    \/ TokenGiven \/ TokenRefused \/ TokenFails
    \/ HandshakeDone \/ HandshakeFails
    \/ Matures \/ SessionCloses \/ SessionFails
    \/ Wakes \/ StartTask

\* Requests end, by an answer or by a timeout, and the backoff passes.
LoopFair ==
    /\ WF_loopVars(TokenGiven \/ TokenRefused \/ TokenFails)
    /\ WF_loopVars(HandshakeDone \/ HandshakeFails)
    /\ WF_loopVars(Wakes)

-------------------------------------------------------------------------------

\* ws_connected, and whether a task runs, as the polls see it
Link == IF stage \in {"off", "open"} THEN stage ELSE "waiting"

Promised == INSTANCE PushLink WITH ws <- Link

\* 2^n, up to the cap
PaceAfter[n \in Nat] == IF n = 0 THEN 1 ELSE Doubled(PaceAfter[n - 1])

\* The pause before the next attempt fits what happened since the last stable
\* session: a session that lasted brings the first pause back (not sixty seconds
\* for good after a day of regular closes), one that breaks at once does not.
PaceFits ==
    stage = "sleeping" => backoff = PaceAfter[naps - 1]

\* The loop implements the link that polling assumes: it opens, drops, ends and
\* starts nothing else, and never hangs without a connection.
ImplementsLink == Promised!LinkSpec
===============================================================================
