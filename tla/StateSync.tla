------------------------------ MODULE StateSync ------------------------------
(***************************************************************************)
(* What Home Assistant shows of a Sber device: StateCache                  *)
(* (aiosber/service/state_cache.py) and its three writers, which run       *)
(* concurrently on one event loop - full refreshes over HTTP               *)
(* (DeviceService.refresh), WebSocket pushes                               *)
(* (SberHomeCoordinator._on_ws_device_state) and optimistic patches after  *)
(* commands (DeviceService.set_state).                                     *)
(*                                                                         *)
(* A refresh remembers when it started and keeps the local state of the    *)
(* devices that were patched since.  Polls of the coordinator run one at a *)
(* time, but the service sberhome.refresh calls async_refresh() directly,  *)
(* so several refreshes may be under way.                                  *)
(*                                                                         *)
(* A value is the number of the change that brought it: the cloud numbers  *)
(* the changes of each attribute.  A process starts with an empty cache,   *)
(* whatever the cloud holds, so a restart is an initial state.             *)
(***************************************************************************)
EXTENDS Naturals, Sequences, FiniteSets

CONSTANTS
    Devices,        \* device ids of the account
    Keys,           \* attribute keys of a device
    DefaultHome,    \* the devices that /device_groups/tree returns
    Refreshers,     \* refreshes that may be under way at the same time
    Commands,       \* service calls that may be under way at the same time
    MaxVersion      \* bound on the changes of one attribute

ASSUME DefaultHomeAssumption == DefaultHome \subseteq Devices
ASSUME MaxVersionAssumption == MaxVersion \in Nat
ASSUME NonEmptyAssumption == Devices # {} /\ Keys # {}

VARIABLES
    \* the cloud
    account,    \* the devices of the account
    cloud,      \* per device and key: the device's reported, the wanted value
    \* the WebSocket
    connected,  \* WebSocketClient.is_connected
    channel,    \* DEVICE_STATE pushes on the way, in order
    \* the integration
    known,      \* StateCache._devices: its keys
    cache,      \* StateCache._devices: the state of each
    fetch,      \* per refresh: where it is, and the devices it was answered
    patched,    \* per refresh: devices with _last_local_write_at > fetch_started_at
    started,    \* the WebSocket task was started
    command,    \* per service call: where it is
    \* history, for the properties
    missed,     \* attributes with a push that was lost or found no device
    overtaken   \* refreshes during which another one was applied

vars == <<account, cloud, connected, channel, known, cache, fetch, patched, started,
          command, missed, overtaken>>

Versions   == 0 .. MaxVersion
Attributes == Devices \X Keys
States     == [Keys -> [reported : Versions, desired : Versions]]
Messages   == [device : Devices, key : Keys, version : Versions]
Fetches    == [pc   : {"idle", "flat", "flatAnswered", "tree", "treeAnswered"},
               seen : SUBSET Devices,
               snap : [Devices -> States]]
Calls      == [pc : {"idle", "put", "served"}, device : Devices, key : Keys,
               version : Versions, retry : BOOLEAN]

Blank     == [k \in Keys |-> [reported |-> 0, desired |-> 0]]
NoFetch   == [pc |-> "idle", seen |-> {}, snap |-> [d \in Devices |-> Blank]]
NoCall    == [pc |-> "idle", device |-> CHOOSE d \in Devices : TRUE,
              key |-> CHOOSE k \in Keys : TRUE, version |-> 0, retry |-> FALSE]

TypeOK ==
    /\ account \subseteq Devices /\ cloud \in [Devices -> States]
    /\ connected \in BOOLEAN /\ channel \in Seq(Messages)
    /\ known \subseteq Devices /\ cache \in [Devices -> States]
    /\ \A d \in Devices \ known : cache[d] = Blank
    /\ fetch \in [Refreshers -> Fetches]
    /\ \A r \in Refreshers : \A d \in Devices \ fetch[r].seen : fetch[r].snap[d] = Blank
    /\ patched \in [Refreshers -> SUBSET Devices] /\ started \in BOOLEAN
    /\ command \in [Commands -> Calls]
    /\ missed \subseteq Attributes /\ overtaken \subseteq Refreshers

Init ==
    /\ account = Devices /\ cloud = [d \in Devices |-> Blank]
    /\ connected = FALSE /\ channel = <<>>
    /\ known = {} /\ cache = [d \in Devices |-> Blank]
    /\ fetch = [r \in Refreshers |-> NoFetch]
    /\ patched = [r \in Refreshers |-> {}] /\ started = FALSE
    /\ command = [c \in Commands |-> NoCall]
    /\ missed = {} /\ overtaken = {}

net      == <<connected, channel>>
store    == <<known, cache, patched, started>>
history  == <<missed, overtaken>>

\* Of the attributes in S, those whose cached value still is not the cloud's.
StillStale(S) ==
    {a \in S : cache'[a[1]][a[2]].reported # cloud'[a[1]][a[2]].reported}

-------------------------------------------------------------------------------
(* The cloud and the WebSocket *)

\* The device has the value it should have.
Settled(version) == [reported |-> version, desired |-> version]

\* The device reports a value; a connected client is sent it, another is not.
Report(d, k, version) ==
    /\ cloud' = [cloud EXCEPT ![d][k] = Settled(version)]
    /\ IF connected
       THEN /\ channel' = Append(channel, [device |-> d, key |-> k, version |-> version])
            /\ UNCHANGED missed
       ELSE /\ missed' = missed \cup {<<d, k>>}
            /\ UNCHANGED channel

\* A change made outside Home Assistant: by hand, or in Sber's application.
OutsideChange(d, k) ==
    /\ d \in account /\ cloud[d][k].desired < MaxVersion
    /\ Report(d, k, cloud[d][k].desired + 1)
    /\ UNCHANGED <<account, connected, store, fetch, command, overtaken>>

\* The device applies the wanted value; one that rejects it silently never does.
DeviceApplies(d, k) ==
    /\ d \in account /\ cloud[d][k].reported # cloud[d][k].desired
    /\ Report(d, k, cloud[d][k].desired)
    /\ UNCHANGED <<account, connected, store, fetch, command, overtaken>>

Unpair(d) ==
    /\ d \in account
    /\ account' = account \ {d}
    /\ UNCHANGED <<cloud, net, store, fetch, command, history>>

\* The task of the WebSocket connects, again and again, once it was started.
Connect ==
    /\ started /\ ~connected
    /\ connected' = TRUE
    /\ UNCHANGED <<account, cloud, channel, store, fetch, command, history>>

\* The pushes on the way are lost with the connection.
Disconnect ==
    /\ connected
    /\ connected' = FALSE /\ channel' = <<>>
    /\ missed' = missed \cup
                 {<<channel[i].device, channel[i].key>> : i \in 1 .. Len(channel)}
    /\ UNCHANGED <<account, cloud, store, fetch, command, overtaken>>

-------------------------------------------------------------------------------
(* Patches of the cache *)

\* _last_local_write_at[device_id] = time.monotonic()
Touch(d) ==
    patched' = [r \in Refreshers |->
        IF fetch[r].pc = "idle" THEN patched[r] ELSE patched[r] \cup {d}]

\* patch_device_state(): the value becomes both the reported and the desired
\* one.  A device not in the cache is not patched (the caller asks for a refresh).
PatchState(m) ==
    IF m.device \in known
    THEN /\ cache' = [cache EXCEPT ![m.device][m.key] = Settled(m.version)]
         /\ Touch(m.device)
         /\ missed' = StillStale(missed)
    ELSE /\ missed' = missed \cup {<<m.device, m.key>>}
         /\ UNCHANGED <<cache, patched>>

\* _on_ws_device_state(), which does not await between its reads and writes.
Deliver ==
    /\ channel # <<>>
    /\ channel' = Tail(channel)
    /\ UNCHANGED <<account, cloud, connected, known, fetch, started, command, overtaken>>
    /\ PatchState(Head(channel))

\* The wanted value changes, the reported one stays.
Wanted(old, version) == [reported |-> old.reported, desired |-> version]

Call(place, d, k, version, retry) ==
    [pc |-> place, device |-> d, key |-> k, version |-> version, retry |-> retry]

\* async_send_device_state() -> set_state(): the PUT is sent.
Send(c, d, k) ==
    /\ command[c].pc = "idle" /\ d \in known
    /\ command' = [command EXCEPT ![c] = Call("put", d, k, 0, FALSE)]
    /\ UNCHANGED <<account, cloud, net, store, fetch, history>>

\* The cloud takes the value; whether the device will is another matter.
ServePut(c) ==
    LET d == command[c].device
        k == command[c].key
    IN  /\ command[c].pc = "put"
        /\ d \in account /\ cloud[d][k].desired < MaxVersion
        /\ cloud' = [cloud EXCEPT ![d][k] = Wanted(@, cloud[d][k].desired + 1)]
        /\ command' = [command EXCEPT ![c] =
              Call("served", d, k, cloud[d][k].desired + 1, command[c].retry)]
        /\ UNCHANGED <<account, net, store, fetch, history>>

\* The PUT returns, and patch_device_desired() shows the value at once.
PutReturns(c) ==
    LET d == command[c].device
        k == command[c].key
    IN  /\ command[c].pc = "served"
        /\ IF d \in known
           THEN /\ cache' = [cache EXCEPT ![d][k] = Wanted(@, command[c].version)]
                /\ Touch(d)
           ELSE UNCHANGED <<cache, patched>>
        /\ command' = [command EXCEPT ![c] = NoCall]
        /\ UNCHANGED <<account, cloud, net, known, fetch, started, history>>

\* The PUT fails, before or after the cloud has served it.  A NetworkError is
\* retried once; the second one, and every other error, ends the command.
PutFails(c) ==
    /\ command[c].pc \in {"put", "served"}
    /\ \/ /\ ~command[c].retry
          /\ command' = [command EXCEPT ![c] =
                Call("put", command[c].device, command[c].key, 0, TRUE)]
       \/ command' = [command EXCEPT ![c] = NoCall]
    /\ UNCHANGED <<account, cloud, net, store, fetch, history>>

-------------------------------------------------------------------------------
(* DeviceService.refresh() *)

Goto(r, place) == fetch' = [fetch EXCEPT ![r] = [NoFetch EXCEPT !.pc = place]]

\* fetch_started_at = time.monotonic(), then the four lists are requested.
StartRefresh(r) ==
    /\ fetch[r].pc = "idle"
    /\ Goto(r, "flat")
    /\ UNCHANGED <<account, cloud, net, store, command, history>>

Answer(r, place, seen) ==
    fetch' = [fetch EXCEPT ![r] =
        [pc |-> place, seen |-> seen,
         snap |-> [d \in Devices |-> IF d \in seen THEN cloud[d] ELSE Blank]]]

\* The cloud reads the devices at some moment of the request.  A body that is
\* not a list counts as an empty one.
ServeFlat(r, seen) ==
    /\ fetch[r].pc = "flat"
    /\ seen \in {account, {}}
    /\ Answer(r, "flatAnswered", seen)
    /\ UNCHANGED <<account, cloud, net, store, command, history>>

ServeTree(r) ==
    /\ fetch[r].pc = "tree"
    /\ Answer(r, "treeAnswered", account \cap DefaultHome)
    /\ UNCHANGED <<account, cloud, net, store, command, history>>

\* One of the four requests fails: _refresh_via_tree() with the same start time.
FlatFails(r) ==
    /\ fetch[r].pc \in {"flat", "flatAnswered"}
    /\ Goto(r, "tree")
    /\ UNCHANGED <<account, cloud, net, store, command, history>>

\* The refresh is over; patched is only meaningful while it runs.
Ended(r) ==
    /\ fetch' = [fetch EXCEPT ![r] = NoFetch]
    /\ overtaken' = overtaken \ {r}

\* 429, a failing tree request or an unreadable tree: the cache stays.
RefreshFails(r) ==
    /\ fetch[r].pc # "idle"
    /\ Ended(r)
    /\ patched' = [patched EXCEPT ![r] = {}]
    /\ UNCHANGED <<account, cloud, net, known, cache, started, command, missed>>

\* Mutant: a device patched at any time is protected.
ProtectedAlways(r, d) == d \in known /\ d \in fetch[r].seen

\* Mutant: nothing is protected.
ProtectedNever(r, d) == FALSE

\* _protect_fresh_local_state(): the local state of a device patched since the
\* refresh started is kept.
Protected(r, d) == d \in patched[r] /\ d \in known /\ d \in fetch[r].seen

\* update_from_flat() and update_from_tree(): the snapshot replaces the cache, and
\* write times of devices that are gone are dropped.  The first refresh that succeeds
\* starts the WebSocket.
ApplyRefresh(r) ==
    /\ fetch[r].pc \in {"flatAnswered", "treeAnswered"}
    /\ known' = fetch[r].seen
    /\ cache' = [d \in Devices |-> IF Protected(r, d) THEN cache[d] ELSE fetch[r].snap[d]]
    /\ patched' = [q \in Refreshers |->
                      IF q = r THEN {} ELSE patched[q] \cap fetch[r].seen]
    /\ fetch' = [fetch EXCEPT ![r] = NoFetch]
    /\ overtaken' = (overtaken \cup {q \in Refreshers : fetch[q].pc # "idle"}) \ {r}
    /\ started' = TRUE
    /\ UNCHANGED <<account, cloud, net, command>>
    /\ missed' = StillStale(IF r \in overtaken THEN Attributes ELSE missed)

-------------------------------------------------------------------------------
Cloud ==
    \/ \E d \in Devices, k \in Keys : OutsideChange(d, k) \/ DeviceApplies(d, k)
    \/ \E d \in Devices : Unpair(d)

Command(c) ==
    \/ \E d \in Devices, k \in Keys : Send(c, d, k)
    \/ ServePut(c) \/ PutReturns(c) \/ PutFails(c)

Refresh(r) ==
    \/ StartRefresh(r) \/ ServeFlat(r, account) \/ ServeFlat(r, {}) \/ ServeTree(r)
    \/ FlatFails(r) \/ RefreshFails(r) \/ ApplyRefresh(r)

Next ==
    \/ Cloud \/ Connect \/ Disconnect \/ Deliver
    \/ \E c \in Commands : Command(c)
    \/ \E r \in Refreshers : Refresh(r)

Spec == Init /\ [][Next]_vars

\* HTTP requests time out, the poll timer is always armed again, pushes on a
\* live connection arrive, and the cloud does not fail every refresh for ever.
Fairness ==
    /\ WF_vars(Deliver)
    /\ \A c \in Commands : WF_vars(PutReturns(c) \/ PutFails(c))
    /\ \A r \in Refreshers :
        /\ WF_vars(StartRefresh(r))
        /\ WF_vars(RefreshFails(r) \/ ApplyRefresh(r))
        /\ SF_vars(ServeFlat(r, account))
        /\ SF_vars(fetch[r].pc = "flatAnswered" /\ fetch[r].seen = account /\ ApplyRefresh(r))

FairSpec == Spec /\ Fairness

-------------------------------------------------------------------------------
(* Properties *)

Applied(r) == fetch[r].pc \in {"flatAnswered", "treeAnswered"} /\ fetch'[r].pc = "idle"
                /\ known' = fetch[r].seen

\* The refresh brings an attribute back to an older value than was shown.
RollsBack(d, k) ==
    /\ d \in known /\ d \in known'
    /\ \/ cache'[d][k].reported < cache[d][k].reported
       \/ cache'[d][k].desired < cache[d][k].desired

\* A refresh never takes back what a push or a command has shown since it
\* started, nor anything older, unless another refresh was applied meanwhile.
NoRollback ==
    [][ \A r \in Refreshers : Applied(r) /\ r \notin overtaken =>
            \A d \in Devices, k \in Keys : ~RollsBack(d, k) ]_vars

\* The cache is behind the cloud only while the push that corrects it is on the
\* way, or after the push was lost, came for an unknown device or was undone by
\* an overtaken refresh: no order of pushes, patches and refreshes loses one.
StalenessExplained ==
    \A d \in known \cap account, k \in Keys :
        \/ cache[d][k].reported = cloud[d][k].reported
        \/ \E i \in 1 .. Len(channel) :
              channel[i] = [device |-> d, key |-> k, version |-> cloud[d][k].reported]
        \/ <<d, k>> \in missed

InSync == known = account /\ \A d \in account : cache[d] = cloud[d]

\* However many pushes are lost and refreshes overtaken or degraded, Home
\* Assistant shows the cloud's state again.
InSyncAgain == []<>InSync
===============================================================================
