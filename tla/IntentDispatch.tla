--------------------------- MODULE IntentDispatch ---------------------------
(***************************************************************************)
(* Voice commands and other scenario runs turned into Home Assistant       *)
(* events: IntentDispatcher (intent_dispatcher.py).                        *)
(*                                                                         *)
(* A push says only that some scenario ran; which one is read from the     *)
(* event log of each home.  A worker reads the homes one after another and *)
(* runs again when a push came meanwhile; a poller asks for a pass when no *)
(* push has come for a while.  A cursor per home and a bounded memory of   *)
(* event ids decide which events of an answer are fired.                   *)
(*                                                                         *)
(* Events are numbered in the order they happen, so the number of an event *)
(* is its event_time, and clock, the number of events so far, is the time. *)
(* The log may list an event in several homes, and may list it late.       *)
(***************************************************************************)
EXTENDS Integers, FiniteSets

CONSTANTS
    Homes,          \* home ids of StateCache.get_homes()
    NoHome,         \* no home: the worker is not running
    MaxEvents,      \* bound on the scenario runs
    PushCopies,     \* pushes per scenario run (Sber sends them in pairs)
    FetchLimit,     \* INTENT_FETCH_LIMIT
    DedupHistory,   \* INTENT_DEDUP_HISTORY
    LogInOrder,     \* whether a home's log never lists an older event later
    MaxRestarts     \* bound on the restarts of the integration

ASSUME HomesAssumption == Homes # {} /\ NoHome \notin Homes /\ IsFiniteSet(Homes)
ASSUME BoundsAssumption ==
    /\ MaxEvents \in Nat /\ PushCopies \in Nat /\ MaxRestarts \in Nat
    /\ LogInOrder \in BOOLEAN
ASSUME LimitsAssumption ==
    /\ FetchLimit \in Nat \ {0} /\ DedupHistory \in Nat
    /\ FetchLimit <= DedupHistory

VARIABLES
    \* the cloud and the WebSocket
    clock,      \* events so far
    lists,      \* per event: the homes whose log lists it, sooner or later
    log,        \* per home: the events its log lists
    connected,  \* the WebSocket is up
    pushes,     \* per event: UPDATE_WIDGETS pushes on the way
    \* the dispatcher
    cursor,     \* _last_event_time per home
    order,      \* per event: its latest position in _fired_event_ids, or 0
    fires,      \* ids ever appended to _fired_event_ids
    pending,    \* _pending
    at,         \* home the worker is reading, NoHome when there is no worker
    todo,       \* homes left of the worker's pass
    reply,      \* answer to the worker's request
    healthy,    \* _last_push_at is within PUSH_HEALTHY_WINDOW_SEC
    \* history, for the properties
    fired,      \* per event: how often it was fired
    startedAt,  \* clock when the integration started
    restarts,   \* restarts of the integration
    due,        \* <<home, event>> listed in order, after the home's cursor
    heard       \* <<home, event>> listed, then announced by a push

world   == <<clock, lists, log, connected, pushes>>
memory  == <<cursor, order, fires, fired>>
worker  == <<pending, at, todo, reply>>
history == <<startedAt, restarts, due, heard>>
vars    == <<world, memory, worker, healthy, history>>

EventIds == 1 .. MaxEvents
Listings == Homes \X EventIds
None     == -1      \* no cursor yet
Unserved == [served |-> FALSE, events |-> {}]
Replies  == [served : BOOLEAN, events : SUBSET EventIds]

TypeOK ==
    /\ clock \in 0 .. MaxEvents
    /\ lists \in [EventIds -> SUBSET Homes]
    /\ log \in [Homes -> SUBSET (1 .. clock)]
    /\ connected \in BOOLEAN
    /\ pushes \in [EventIds -> 0 .. PushCopies]
    /\ cursor \in [Homes -> (0 .. clock) \cup {None}]
    /\ order \in [EventIds -> Nat]
    /\ fires \in Nat
    /\ pending \in BOOLEAN
    /\ at \in Homes \cup {NoHome}
    /\ todo \subseteq Homes
    /\ reply \in Replies
    /\ healthy \in BOOLEAN
    /\ fired \in [EventIds -> Nat]
    /\ startedAt \in 0 .. clock
    /\ restarts \in 0 .. MaxRestarts
    /\ due \subseteq Listings
    /\ heard \subseteq Listings
    \* no worker, no work: the wake-up of a request is never lost
    /\ at = NoHome => ~pending /\ todo = {} /\ reply = Unserved

Init ==
    /\ clock = 0
    /\ lists = [n \in EventIds |-> {}]
    /\ log = [h \in Homes |-> {}]
    /\ connected = FALSE
    /\ pushes = [n \in EventIds |-> 0]
    /\ cursor = [h \in Homes |-> None]
    /\ order = [n \in EventIds |-> 0]
    /\ fires = 0
    /\ pending = FALSE /\ at = NoHome /\ todo = {} /\ reply = Unserved
    /\ healthy = FALSE
    /\ fired = [n \in EventIds |-> 0]
    /\ startedAt = 0 /\ restarts = 0
    /\ due = {} /\ heard = {}

-------------------------------------------------------------------------------
(* The cloud *)

\* A scenario runs; the connected clients get their pushes.
ScenarioRuns(H) ==
    /\ clock < MaxEvents
    /\ clock' = clock + 1
    /\ lists' = [lists EXCEPT ![clock + 1] = H]
    /\ pushes' = IF connected THEN [pushes EXCEPT ![clock + 1] = PushCopies] ELSE pushes
    /\ UNCHANGED <<log, connected, memory, worker, healthy, history>>

\* The log of a home lists an event, maybe long after its push.
Listed(h, n) ==
    /\ n <= clock /\ h \in lists[n] /\ n \notin log[h]
    /\ LogInOrder => \A m \in 1 .. n - 1 : h \in lists[m] => m \in log[h]
    /\ log' = [log EXCEPT ![h] = @ \cup {n}]
    /\ due' = IF cursor[h] # None /\ cursor[h] < n /\ \A m \in log[h] : m < n
              THEN due \cup {<<h, n>>} ELSE due
    /\ UNCHANGED <<clock, lists, connected, pushes, memory, worker, healthy,
                   startedAt, restarts, heard>>

Connect ==
    /\ ~connected
    /\ connected' = TRUE
    /\ UNCHANGED <<clock, lists, log, pushes, memory, worker, healthy, history>>

\* Pushes on the way are lost with the connection.
Disconnect ==
    /\ connected
    /\ connected' = FALSE
    /\ pushes' = [n \in EventIds |-> 0]
    /\ UNCHANGED <<clock, lists, log, memory, worker, healthy, history>>

-------------------------------------------------------------------------------
(* The worker *)

Read(h, rest) == at' = h /\ todo' = rest /\ reply' = Unserved

BeginPass == pending' = FALSE /\ \E h \in Homes : Read(h, Homes \ {h})

\* Mutant: a request that finds the worker running is dropped.
RequestDropped ==
    \/ at = NoHome /\ BeginPass
    \/ at # NoHome /\ UNCHANGED worker

\* request_dispatch(): without a worker its first pass begins at once.
RequestDispatch ==
    \/ at = NoHome /\ BeginPass
    \/ at # NoHome /\ pending' = TRUE /\ UNCHANGED <<at, todo, reply>>

\* The worker after a home: the next one, another pass, or its end.
NextHome ==
    \/ \E h \in todo : Read(h, todo \ {h}) /\ UNCHANGED pending
    \/ todo = {} /\ pending /\ BeginPass
    \/ todo = {} /\ ~pending /\ at' = NoHome /\ reply' = Unserved
         /\ UNCHANGED <<pending, todo>>

\* GET /scenario/v2/event: the newest events of the home.
Newest(S) == {n \in S : Cardinality({m \in S : n < m}) < FetchLimit}

Serve(h) ==
    /\ at = h /\ h # NoHome /\ ~reply.served
    /\ reply' = [served |-> TRUE, events |-> Newest(log[h])]
    /\ UNCHANGED <<world, memory, pending, at, todo, healthy, history>>

\* The request fails: the home is left out of this pass.
FetchFails ==
    /\ at # NoHome
    /\ NextHome
    /\ heard' = IF pending THEN heard ELSE {p \in heard : p[1] # at}
    /\ UNCHANGED <<world, memory, healthy, startedAt, restarts, due>>

\* Mutant: the events listed before the integration started are new.
NewFromTheStart(h, events) == {n \in events : n > cursor[h]}

\* _select_new_events(): an answer before there is a cursor brings nothing.
NewEvents(h, events) ==
    IF cursor[h] = None THEN {} ELSE {n \in events : n > cursor[h]}

\* Mutant: the memory holds one id.
RemembersOne(n) == order[n] > 0 /\ order[n] = fires

\* _fired_event_ids holds the last ids appended to it.
Remembered(n) == order[n] > 0 /\ order[n] > fires - DedupHistory

\* Mutant: the cursor is moved to now with every batch.
CursorToNow(h, batch) ==
    IF cursor[h] = None \/ batch # {} THEN clock ELSE cursor[h]

\* Where the cursor of a home stands after firing the batch.
CursorAfter(h, batch) ==
    IF cursor[h] = None THEN clock
    ELSE IF batch = {} THEN cursor[h]
    ELSE CHOOSE n \in batch : \A m \in batch : m <= n

\* _dispatch_home(): the answer is filtered and fired, newest event first.
Dispatch ==
    /\ at # NoHome /\ reply.served
    /\ LET batch == {n \in NewEvents(at, reply.events) : ~Remembered(n)}
       IN  /\ fired' = [n \in EventIds |-> fired[n] + IF n \in batch THEN 1 ELSE 0]
           /\ order' = [n \in EventIds |->
                            IF n \in batch
                            THEN fires + Cardinality({m \in batch : n <= m})
                            ELSE order[n]]
           /\ fires' = fires + Cardinality(batch)
           /\ cursor' = [cursor EXCEPT ![at] = CursorAfter(at, batch)]
    /\ NextHome
    /\ UNCHANGED <<world, healthy, history>>

-------------------------------------------------------------------------------
(* Requests *)

\* _on_ws_scenario_widgets()
DeliverPush(n) ==
    /\ connected /\ pushes[n] > 0
    /\ pushes' = [pushes EXCEPT ![n] = @ - 1]
    /\ healthy' = TRUE
    /\ RequestDispatch
    /\ heard' = heard \cup ({h \in Homes : n \in log[h]} \X {n})
    /\ UNCHANGED <<clock, lists, log, connected, memory, startedAt, restarts, due>>

PushSilence ==
    /\ healthy
    /\ healthy' = FALSE
    /\ UNCHANGED <<world, memory, worker, history>>

\* The newest events have pushed this one out of what a request returns.
Buried(h, n) == Cardinality({m \in log[h] : n < m}) >= FetchLimit

\* Mutant: the poller is for the time without a WebSocket only.
PollerBacksOffOnline == connected

PollerBacksOff == healthy

\* A tick of _poller_loop()
PollerAsks ==
    /\ ~PollerBacksOff
    /\ RequestDispatch
    /\ UNCHANGED <<world, memory, healthy, history>>

\* The entry is reloaded, or Home Assistant restarts.
Restart ==
    /\ restarts < MaxRestarts
    /\ restarts' = restarts + 1
    /\ startedAt' = clock
    /\ connected' = FALSE
    /\ pushes' = [n \in EventIds |-> 0]
    /\ cursor' = [h \in Homes |-> None]
    /\ order' = [n \in EventIds |-> 0]
    /\ fires' = 0
    /\ pending' = FALSE /\ at' = NoHome /\ todo' = {} /\ reply' = Unserved
    /\ healthy' = FALSE
    /\ due' = {} /\ heard' = {}
    /\ UNCHANGED <<clock, lists, log, fired>>

Next ==
    \/ \E H \in SUBSET Homes \ {{}} : ScenarioRuns(H)
    \/ \E h \in Homes, n \in EventIds : Listed(h, n)
    \/ Connect \/ Disconnect
    \/ \E h \in Homes : Serve(h)
    \/ FetchFails \/ Dispatch
    \/ \E n \in EventIds : DeliverPush(n)
    \/ PushSilence \/ PollerAsks \/ Restart

Spec == Init /\ [][Next]_vars

\* The poller ticks for ever, answers are processed, and the event log of no
\* home fails every request.  Nothing is assumed of the WebSocket.
FairSpec ==
    /\ Spec
    /\ WF_vars(PushSilence)
    /\ WF_vars(PollerAsks)
    /\ WF_vars(Dispatch \/ FetchFails)
    /\ \A h \in Homes : SF_vars(Serve(h)) /\ SF_vars(at = h /\ Dispatch)

-------------------------------------------------------------------------------
(* Properties *)

\* An event is fired at most once, although pushes come in pairs, pushes and
\* the poller ask at the same time, and restarts forget everything - if one
\* home lists it, or the memory of ids is never full.
AtMostOnce ==
    \A n \in EventIds :
        (Cardinality(lists[n]) <= 1 \/ MaxEvents <= DedupHistory) => fired[n] <= 1

\* Firing never passes over an event: when the cursor of a home is at or after
\* an event that was listed in order, the event was fired, or newer events had
\* pushed it out of the answer.
NonePassedOver ==
    \A h \in Homes, n \in EventIds :
        <<h, n>> \in due => fired[n] > 0 \/ cursor[h] < n \/ Buried(h, n)

\* Pushes that come while a pass is under way are not lost: when the worker
\* ends, every listed event that was announced is fired, unless the request
\* that would have brought it failed.
PushesAreServed ==
    at = NoHome =>
        \A h \in Homes, n \in EventIds :
            <<h, n>> \in heard \cap due => fired[n] > 0 \/ Buried(h, n)

\* A restart, which forgets the cursors, fires nothing that happened before it.
NothingHistorical ==
    [][ \A n \in EventIds : fired'[n] > fired[n] => n > startedAt ]_vars

\* Without any push, with pushes for other events and after failed requests,
\* every event that was listed in order is fired in the end.
Delivered ==
    \A h \in Homes, n \in EventIds :
        <<h, n>> \in due ~> fired[n] > 0 \/ Buried(h, n) \/ <<h, n>> \notin due
===============================================================================
