------------------------------- MODULE Polling -------------------------------
(***************************************************************************)
(* When the coordinator polls the cloud: SberHomeCoordinator               *)
(* _async_update_data() with the pause after HTTP 429, the interval that   *)
(* depends on the WebSocket, the publication of pushes, the records of     *)
(* lost and regained availability, and the start of the WebSocket task     *)
(* (coordinator.py).  The schedule itself is Home Assistant's              *)
(* DataUpdateCoordinator, modelled from its use.                           *)
(*                                                                         *)
(* Time is counted in ticks; window, timer and owed are the ticks left.    *)
(* Polls by the timer and by debounced requests run one at a time, but the *)
(* service sberhome.refresh calls async_refresh() itself, so polls may     *)
(* overlap.  The model begins after the first refresh of a loaded entry,   *)
(* whose entities listen to the coordinator.                               *)
(***************************************************************************)
EXTENDS Integers, FiniteSets

CONSTANTS
    Polls,                  \* polls that may be under way at the same time
    UserInterval,           \* _user_update_interval
    PushInterval,           \* WS_CONNECTED_SCAN_INTERVAL
    MaxRetryAfter,          \* RATE_LIMIT_MAX_BACKOFF_SEC
    RetryAfterSupported     \* _UPDATE_FAILED_SUPPORTS_RETRY_AFTER

ASSUME PollsAssumption == Polls # {} /\ RetryAfterSupported \in BOOLEAN
ASSUME IntervalsAssumption ==
    /\ UserInterval \in Nat \ {0} /\ PushInterval \in Nat \ {0}
    /\ MaxRetryAfter \in Nat

VARIABLES
    poll,       \* per poll: idle, asked, or the answer on its way
    window,     \* left of the pause: _rate_limited_until
    interval,   \* update_interval
    timer,      \* left until the planned poll, Off when there is none
    requested,  \* a debounced async_request_refresh() waits
    ws,         \* the WebSocket task: off, waiting to reconnect, or open
    success,    \* last_update_success
    logged,     \* _poll_unavailable_logged
    \* history, for the properties
    owed,       \* left of the longest pause the cloud has asked for since it
                \* last served a poll
    cutShort,   \* an overlapping poll ended that pause, or shortened it
    warnings,   \* warnings of lost availability since the last good poll
    authFailed  \* the latest finished poll was refused the login

vars == <<poll, window, interval, timer, requested, ws, success, logged,
          owed, cutShort, warnings, authFailed>>

Off     == -1      \* no planned poll
Idle    == [pc |-> "idle", after |-> 0]
Asked   == [pc |-> "asked", after |-> 0]
Answers == [pc : {"ok", "limited", "refused", "broken"}, after : 0 .. MaxRetryAfter]

Larger(m, n) == IF m < n THEN n ELSE m

TypeOK ==
    /\ poll \in [Polls -> {Idle, Asked} \cup Answers]
    /\ window \in 0 .. MaxRetryAfter
    /\ interval \in Nat \ {0}
    /\ timer \in Nat \cup {Off}
    /\ requested \in BOOLEAN
    /\ ws \in {"off", "waiting", "open"}
    /\ success \in BOOLEAN
    /\ logged \in BOOLEAN
    /\ owed \in 0 .. MaxRetryAfter /\ cutShort \in BOOLEAN
    /\ warnings \in Nat
    /\ authFailed \in BOOLEAN

Init ==
    /\ poll = [p \in Polls |-> Idle]
    /\ window = 0
    /\ interval = UserInterval
    /\ timer = UserInterval
    /\ requested = FALSE
    /\ ws = "waiting"
    /\ success = TRUE
    /\ logged = FALSE
    /\ owed = 0 /\ cutShort = FALSE /\ warnings = 0 /\ authFailed = FALSE

\* _desired_update_interval()
Desired == IF ws = "open" THEN PushInterval ELSE UserInterval

Less(n) == IF n > 0 THEN n - 1 ELSE n

\* A planned poll starts before time goes on.
Tick ==
    /\ timer # 0
    /\ window' = Less(window) /\ timer' = Less(timer) /\ owed' = Less(owed)
    /\ UNCHANGED <<poll, interval, requested, ws, success, logged, cutShort, warnings, authFailed>>

-------------------------------------------------------------------------------
(* Polls *)

\* Mutant: availability is taken for regained when a push comes.
WarnedBySuccess ==
    /\ success' = FALSE /\ logged' = TRUE
    /\ warnings' = IF success THEN warnings + 1 ELSE warnings

\* _mark_poll_unavailable(): one warning per period without availability.
MarkUnavailable ==
    /\ success' = FALSE /\ logged' = TRUE
    /\ warnings' = IF logged THEN warnings ELSE warnings + 1

\* Mutant: the poll that fails inside the pause plans no other one.
PutOffUnplanned(wait) == timer' = Off /\ UNCHANGED interval

\* _rate_limited_failure(): the next planned poll is put off.
PutOff(wait) ==
    /\ timer' = wait
    /\ interval' = IF RetryAfterSupported THEN interval ELSE wait

\* Mutant: the interval is put right after a good answer only.
AskAtOldInterval(p) ==
    /\ poll' = [poll EXCEPT ![p] = Asked]
    /\ timer' = Off
    /\ UNCHANGED <<interval, success, logged, warnings>>

\* The poll goes to the cloud.
Ask(p) ==
    /\ poll' = [poll EXCEPT ![p] = Asked]
    /\ timer' = Off
    /\ interval' = Desired
    /\ UNCHANGED <<success, logged, warnings>>

\* Mutant: a poll on request goes to the cloud inside the pause.
PausedUnlessRequested == window > 0 /\ ~requested

\* A rest of the window below RATE_LIMIT_SCHEDULE_SLACK_SEC, one second, is no pause; a
\* tick is longer.
Paused == window > 0

\* A refresh cancels the timer and the debounced request.  Inside the pause it
\* fails at once, without a request.
StartPoll(p) ==
    /\ poll[p] = Idle
    /\ requested' = FALSE
    /\ \/ ~Paused /\ Ask(p)
       \/ Paused /\ PutOff(window) /\ MarkUnavailable /\ UNCHANGED poll
    /\ UNCHANGED <<window, ws, owed, cutShort, authFailed>>

PlannedPoll(p)   == timer = 0 /\ StartPoll(p)
RequestedPoll(p) == requested /\ StartPoll(p)
ServicePoll(p)   == StartPoll(p)    \* the service sberhome.refresh

\* async_request_refresh(): a GROUP_STATE push, a push of an unknown device, the
\* panel, the end of the WebSocket task.
RequestRefresh ==
    /\ ~requested
    /\ requested' = TRUE
    /\ UNCHANGED <<poll, window, interval, timer, ws, success, logged, owed, cutShort, warnings, authFailed>>

Serve(p, pc, after) ==
    /\ poll[p] = Asked
    /\ poll' = [poll EXCEPT ![p] = [pc |-> pc, after |-> after]]
    /\ owed' = IF pc = "ok" THEN 0 ELSE owed
    /\ UNCHANGED <<window, interval, timer, requested, ws, success, logged, cutShort, warnings,
                   authFailed>>

ServeWell(p)   == Serve(p, "ok", 0)
ServeRefuses(p) == Serve(p, "refused", 0)
ServeBreaks(p) == Serve(p, "broken", 0)
ServeLimits(p) == \E n \in 0 .. MaxRetryAfter : Serve(p, "limited", n)

Served(p) == ServeWell(p) \/ ServeRefuses(p) \/ ServeBreaks(p) \/ ServeLimits(p)

Finish(p) == poll' = [poll EXCEPT ![p] = Idle]

\* Mutant: the task is asked whether it exists, not whether it is done.
StartedOnce == ws

\* A WebSocket task that is done is started again.
Started == IF ws = "off" THEN "waiting" ELSE ws

\* The answer is good: the pause ends.
PollSucceeds(p) ==
    /\ poll[p].pc = "ok"
    /\ Finish(p)
    /\ window' = 0
    /\ interval' = Desired /\ timer' = Desired
    /\ ws' = Started
    /\ success' = TRUE /\ logged' = FALSE /\ warnings' = 0
    /\ authFailed' = FALSE
    /\ cutShort' = (cutShort \/ owed > 0)
    /\ UNCHANGED <<requested, owed>>

\* RateLimitError: a pause begins; a short one does not hasten the next poll.
PollLimited(p) ==
    /\ poll[p].pc = "limited"
    /\ window' = poll[p].after
    /\ PutOff(Larger(poll[p].after, Desired))
    /\ Finish(p)
    /\ MarkUnavailable
    /\ authFailed' = FALSE
    /\ owed' = IF owed < poll[p].after THEN poll[p].after ELSE owed
    /\ cutShort' = (poll[p].after < owed)
    /\ UNCHANGED <<requested, ws>>

\* AuthError: Home Assistant asks for a new login and plans no further poll.
PollRefused(p) ==
    /\ poll[p].pc = "refused"
    /\ Finish(p)
    /\ MarkUnavailable
    /\ authFailed' = TRUE
    /\ UNCHANGED <<window, interval, timer, requested, ws, owed, cutShort>>

\* Any other SberError
PollFails(p) ==
    /\ poll[p].pc = "broken"
    /\ Finish(p)
    /\ timer' = interval
    /\ MarkUnavailable
    /\ authFailed' = FALSE
    /\ UNCHANGED <<window, interval, requested, ws, owed, cutShort>>

-------------------------------------------------------------------------------
(* The WebSocket *)

\* Mutant: every push moves the timer, as async_set_updated_data() does.
Rearmed == interval

\* A timer that is off is armed, one that is armed is not moved.
Armed == IF timer = Off THEN interval ELSE timer

\* _async_apply_push_data(): also after commands and single reads.
ApplyPush ==
    /\ success' = TRUE
    /\ timer' = Armed
    /\ UNCHANGED <<poll, window, interval, requested, ws, logged, owed, cutShort, warnings, authFailed>>

WsOpens ==
    /\ ws = "waiting"
    /\ ws' = "open"
    /\ UNCHANGED <<poll, window, interval, timer, requested, success, logged, owed, cutShort, warnings,
                   authFailed>>

WsDrops ==
    /\ ws = "open"
    /\ ws' = "waiting"
    /\ UNCHANGED <<poll, window, interval, timer, requested, success, logged, owed, cutShort, warnings,
                   authFailed>>

\* The end of _run_ws()
WsEnds ==
    /\ ws # "off"
    /\ ws' = "off"
    /\ interval' = UserInterval
    /\ requested' = TRUE
    /\ UNCHANGED <<poll, window, timer, success, logged, owed, cutShort, warnings, authFailed>>

Next ==
    \/ Tick \/ RequestRefresh \/ ApplyPush \/ WsOpens \/ WsDrops \/ WsEnds
    \/ \E p \in Polls :
        \/ PlannedPoll(p) \/ RequestedPoll(p) \/ ServicePoll(p)
        \/ Served(p)
        \/ PollSucceeds(p) \/ PollLimited(p) \/ PollRefused(p) \/ PollFails(p)

Spec == Init /\ [][Next]_vars

\* Time passes, planned polls start and requests end, by an answer or by the
\* timeout of the HTTP client.  Nothing is assumed of the WebSocket.
FairSpec ==
    /\ Spec
    /\ WF_vars(Tick)
    /\ WF_vars(\E p \in Polls : PlannedPoll(p))
    /\ \A p \in Polls :
        /\ WF_vars(Served(p))
        /\ WF_vars(PollSucceeds(p) \/ PollLimited(p) \/ PollRefused(p) \/ PollFails(p))

-------------------------------------------------------------------------------
(* Properties *)

Asking == \E p \in Polls : poll[p] # Idle

\* Polling never falls asleep: without a planned poll one is under way, or Home
\* Assistant waits for a new login.
NeverAsleep == timer = Off => Asking \/ authFailed

Goes(p) == poll[p] = Idle /\ poll'[p] = Asked

\* No poll, planned or on request, goes to the cloud before the pause that the
\* cloud asked for has passed, unless a poll that overlapped cut it short.
PauseRespected == [][ \A p \in Polls : Goes(p) => owed = 0 \/ cutShort ]_vars

\* Of one outage the log warns once, however many polls fail and whatever pushes
\* come in between.
OneWarning == warnings <= 1

\* Polls one at a time: an interval that a pause stretched does not outlive the
\* pause, whatever poll, push or end of the WebSocket plans the next poll.
SteadyPace ==
    [][ window' = 0 /\ timer' > timer => timer' \in {UserInterval, PushInterval} ]_vars

\* The cloud is asked again and again, or Home Assistant waits for a new login;
\* no stream of pushes, requests or pauses that end prevents it.
PolledAgain == []<>(Asking \/ authFailed)
===============================================================================
