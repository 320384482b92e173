-------------------------- MODULE CommandTracking --------------------------
(***************************************************************************)
(* Verdicts on commands: CommandTracker (command_tracker.py), fed by the   *)
(* entities that send a command (entity.py), by DEVICE_STATE pushes and by *)
(* polls (coordinator.py).  Sber gives no correlation id: a command is     *)
(* confirmed when its values turn up in the reported state of the device.  *)
(*                                                                         *)
(* One device; the tracker compares device ids, so other devices' reports  *)
(* change nothing here.  Attributes are applied and pushed one at a time.  *)
(* The ring of closed commands only forgets, so records are kept, less     *)
(* their age.  Time is in ticks; age and sweepIn stand for the differences *)
(* of time.time() that the code takes.                                     *)
(***************************************************************************)
EXTENDS Naturals, Sequences, FiniteSets

CONSTANTS
    Keys, Values,   \* attributes of the device and their values
    Commands,       \* service calls that may be made
    Timeout,        \* command_timeout
    SweepEvery,     \* COMMAND_SWEEP_INTERVAL
    MaxPushes       \* bound on the pushes on the way

ASSUME SetsAssumption == Keys # {} /\ Values # {}
ASSUME BoundsAssumption ==
    /\ Timeout \in Nat \ {0} /\ SweepEvery \in Nat \ {0} /\ MaxPushes \in Nat

VARIABLES
    pushes,     \* DEVICE_STATE messages on the way, in order
    call,       \* per command: the service call and the cloud's view of it
    record,     \* per command: its CommandRecord
    sweepIn,    \* left until the sweep timer fires
    heard       \* history, per command: the keys whose effect was pushed, and
                \* the push came, while the command was pending

vars == <<pushes, call, record, sweepIn, heard>>

States == [Keys -> Values]
Asks == UNION {[K -> Values] : K \in SUBSET Keys \ {{}}}
Verdicts == {"confirmed", "partial", "silent_rejection", "send_failed"}
NoRecord == [status |-> "none", confirmed |-> {}, age |-> 0]

TypeOK ==
    /\ pushes \in Seq([key : Keys, value : Values, of : SUBSET Commands])
    /\ call \in [Commands -> [at : {"new", "put", "done"}, asks : Asks \cup {<<>>},
                              taken : BOOLEAN, applied : SUBSET Keys]]
    /\ record \in [Commands -> [status : {"none", "pending", "cleared"} \cup Verdicts,
                                confirmed : SUBSET Keys, age : 0 .. Timeout + SweepEvery]]
    /\ sweepIn \in 0 .. SweepEvery
    /\ heard \in [Commands -> SUBSET Keys]

Init ==
    /\ pushes = <<>>
    /\ call = [c \in Commands |-> [at |-> "new", asks |-> <<>>, taken |-> FALSE, applied |-> {}]]
    /\ record = [c \in Commands |-> NoRecord]
    /\ sweepIn = SweepEvery
    /\ heard = [c \in Commands |-> {}]

Pending(c) == record[c].status = "pending"
Wanted(c) == DOMAIN call[c].asks

-------------------------------------------------------------------------------
(* The device and its pushes *)

\* The WebSocket brings an attribute's value later, or is down.  of is the
\* command whose effect it is, if any.
Report(k, v, of) ==
    \/ UNCHANGED pushes
    \/ /\ Len(pushes) < MaxPushes
       /\ pushes' = Append(pushes, [key |-> k, value |-> v, of |-> of])

\* The cloud has the PUT and the device applies one of its attributes.  It
\* need not: the cloud answers 200 either way.
Apply(c, k) ==
    /\ call[c].taken /\ k \in Wanted(c) \ call[c].applied
    /\ call' = [call EXCEPT ![c].applied = @ \cup {k}]
    /\ Report(k, call[c].asks[k], {c})
    /\ UNCHANGED <<record, sweepIn, heard>>

\* Somebody else changes the device: its button, the Salute app.
ChangedElsewhere(k, v) ==
    /\ Report(k, v, {})
    /\ UNCHANGED <<call, record, sweepIn, heard>>

-------------------------------------------------------------------------------
(* CommandTracker *)

\* Mutant: a report confirms only the commands it confirms as a whole.
ObserveWholeOnly(r, asks, seen) ==
    IF r.status = "pending" /\ DOMAIN asks \subseteq DOMAIN seen
                            /\ \A k \in DOMAIN asks : seen[k] = asks[k]
    THEN [r EXCEPT !.status = "confirmed", !.confirmed = DOMAIN asks] ELSE r

\* observe_reported_state(): the keys of a pending command that are seen with
\* the value asked for are confirmed; with the last of them the command is.
Observe(r, asks, seen) ==
    LET confirmed == r.confirmed \cup
            {k \in DOMAIN asks \cap DOMAIN seen : seen[k] = asks[k]}
    IN  IF r.status # "pending" THEN r
        ELSE [r EXCEPT !.confirmed = confirmed,
                       !.status = IF confirmed = DOMAIN asks THEN "confirmed" ELSE @,
                       !.age = IF confirmed = DOMAIN asks THEN 0 ELSE @]

\* Mutant: a command is given one tick more than the timeout.
SweepAfter(r) ==
    IF r.status = "pending" /\ r.age > Timeout
    THEN [r EXCEPT !.status = IF r.confirmed = {} THEN "silent_rejection" ELSE "partial",
                   !.age = 0]
    ELSE r

\* sweep(), for one command
Sweep(r) ==
    IF r.status = "pending" /\ r.age >= Timeout
    THEN [r EXCEPT !.status = IF r.confirmed = {} THEN "silent_rejection" ELSE "partial",
                   !.age = 0]
    ELSE r

\* _on_ws_device_state()
Pushed ==
    /\ pushes # <<>>
    /\ LET p == Head(pushes)
           seen == [k \in {p.key} |-> p.value]
       IN  /\ record' = [c \in Commands |-> Observe(record[c], call[c].asks, seen)]
           /\ heard' = [c \in Commands |-> IF c \in p.of /\ Pending(c)
                                             THEN heard[c] \cup {p.key} ELSE heard[c]]
    /\ pushes' = Tail(pushes)
    /\ UNCHANGED <<call, sweepIn>>

\* The timer of async_start_command_sweep()
SweepTimer ==
    /\ sweepIn = 0
    /\ sweepIn' = SweepEvery
    /\ record' = [c \in Commands |-> Sweep(record[c])]
    /\ UNCHANGED <<pushes, call, heard>>

\* The panel's "clear"
Clear ==
    /\ \E c \in Commands : Pending(c)
    /\ record' = [c \in Commands |-> IF record[c].status = "none" THEN record[c]
                    ELSE [NoRecord EXCEPT !.status = "cleared"]]
    /\ heard' = [c \in Commands |-> {}]
    /\ UNCHANGED <<pushes, call, sweepIn>>

-------------------------------------------------------------------------------
(* A service call: _async_send_attrs() *)

Call(c) ==
    /\ call[c].at = "new"
    /\ \E asks \in Asks : call' = [call EXCEPT ![c].at = "put", ![c].asks = asks]
    /\ UNCHANGED <<pushes, record, sweepIn, heard>>

\* The PUT reaches the cloud: at once, or as the retry after a NetworkError.
CloudTakes(c) ==
    /\ call[c].at = "put" /\ ~call[c].taken
    /\ call' = [call EXCEPT ![c].taken = TRUE]
    /\ UNCHANGED <<pushes, record, sweepIn, heard>>

\* The PUT returns and the command is recorded.
Sent(c) ==
    /\ call[c].at = "put" /\ call[c].taken
    /\ call' = [call EXCEPT ![c].at = "done"]
    /\ record' = [record EXCEPT ![c].status = "pending"]
    /\ UNCHANGED <<pushes, sweepIn, heard>>

\* The cloud refused the command, or both PUTs broke off: the cloud may have
\* taken one all the same.
SendFails(c) ==
    /\ call[c].at = "put"
    /\ call' = [call EXCEPT ![c].at = "done"]
    /\ record' = [record EXCEPT ![c].status = "send_failed"]
    /\ UNCHANGED <<pushes, sweepIn, heard>>

-------------------------------------------------------------------------------
\* The end of a poll in _async_update_data(): the tracker is shown the state
\* that StateCache holds, the cloud's answer or its own newer one, and sweeps.
Polled(state) ==
    /\ record' = [c \in Commands |-> Sweep(Observe(record[c], call[c].asks, state))]
    /\ UNCHANGED <<pushes, call, sweepIn, heard>>

Tick ==
    /\ sweepIn > 0
    /\ sweepIn' = sweepIn - 1
    /\ record' = [c \in Commands |-> IF Pending(c)
                    THEN [record[c] EXCEPT !.age = @ + 1] ELSE record[c]]
    /\ UNCHANGED <<pushes, call, heard>>

Next ==
    \/ \E c \in Commands : Call(c) \/ CloudTakes(c) \/ Sent(c) \/ SendFails(c)
    \/ \E c \in Commands, k \in Keys : Apply(c, k)
    \/ \E k \in Keys, v \in Values : ChangedElsewhere(k, v)
    \/ \E state \in States : Polled(state)
    \/ Pushed \/ SweepTimer \/ Clear \/ Tick

Spec == Init /\ [][Next]_vars

-------------------------------------------------------------------------------
(* Properties *)

\* Every recorded command gets its verdict on the timer alone, polls or not:
\* no later than the timeout and one sweep interval.
VerdictInTime ==
    \A c \in Commands : Pending(c) => record[c].age < Timeout + SweepEvery

\* A push with the effect of a command that comes while the command waits
\* counts: the verdict never calls that key unconfirmed, whatever other
\* commands wait for the same key and however the effect is split into pushes.
HeardIsConfirmed == \A c \in Commands : heard[c] \subseteq record[c].confirmed
===============================================================================
