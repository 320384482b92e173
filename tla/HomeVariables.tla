---------------------------- MODULE HomeVariables ----------------------------
(***************************************************************************)
(* Scenarios and the variable "somebody is at home" of every home: the     *)
(* throttled poll, the manual refresh and the coalesced refresh that a     *)
(* push asks for (coordinator.py).                                         *)
(*                                                                         *)
(* A refresh asks for the homes, then for the scenarios, then for the      *)
(* variable of one home after another, and replaces what is known at the   *)
(* end.  A push names no home; it only says that some variable changed.    *)
(*                                                                         *)
(* The values of a variable are numbered in the order they are set.        *)
(***************************************************************************)
EXTENDS Integers

CONSTANTS
    Homes,      \* homes the account may have
    MaxValue,   \* bound on the values of a variable
    MaxPushes   \* bound on the pushes on the way

VARIABLES
    \* the cloud
    account,    \* homes of the account
    value,      \* per home: the value of its variable
    pushes,     \* pushes on the way
    \* the integration
    homes,      \* coordinator.homes
    atHome,     \* coordinator.at_home, Unknown for a home it has no entry of
    throttle,   \* ThrottledPoll: disabled, and whether interval and 429 pause are over
    pending,    \* _home_variable_refresh_pending
    task,       \* stage of _home_variable_refresh_task, "none" without a task
    refresh,    \* per cause: stage, homes left, values read
    setting,    \* per home: the value of a PUT under way, or Unknown
    stopped,    \* _home_variable_refresh_shutdown
    \* history, for the properties
    heard,      \* per home: its value when the last push was delivered
    excused     \* homes of which a request failed, or something older ended later

cloud == <<account, value, pushes>>
vars  == <<cloud, homes, atHome, throttle, pending, task, refresh, setting, stopped,
           heard, excused>>

Unknown == -1
Values  == 0 .. MaxValue
Causes  == {"poll", "push", "manual"}
Idle    == [stage |-> "idle", left |-> {}, got |-> [h \in Homes |-> Unknown]]

Init ==
    /\ account = Homes /\ value = [h \in Homes |-> 0] /\ pushes = 0
    /\ homes = {} /\ atHome = [h \in Homes |-> Unknown]
    /\ throttle = [disabled |-> FALSE, over |-> TRUE]
    /\ pending = FALSE /\ task = "none"
    /\ refresh = [c \in Causes |-> Idle]
    /\ setting = [h \in Homes |-> Unknown]
    /\ stopped = FALSE
    /\ heard = [h \in Homes |-> Unknown] /\ excused = {}

-------------------------------------------------------------------------------
(* The cloud *)

\* Somebody comes or leaves: the clients hear that some variable changed.
Changed(h) ==
    /\ value[h] < MaxValue
    /\ value' = [value EXCEPT ![h] = @ + 1]
    /\ pushes' = IF pushes < MaxPushes THEN pushes + 1 ELSE pushes
    /\ UNCHANGED <<account, homes, atHome, throttle, pending, task, refresh, setting, stopped,
                   heard, excused>>

HomeDeleted(h) ==
    /\ h \in account
    /\ account' = account \ {h}
    /\ UNCHANGED <<value, pushes, homes, atHome, throttle, pending, task, refresh, setting,
                   stopped, heard, excused>>

-------------------------------------------------------------------------------
(* _refresh_scenarios() *)

Begins(c) ==
    /\ refresh[c].stage = "idle"
    /\ refresh' = [refresh EXCEPT ![c] = [Idle EXCEPT !.stage = "homes"]]

\* _throttled_poll() of a coordinator update
PollDue ==
    /\ ~stopped /\ ~throttle.disabled /\ throttle.over
    /\ Begins("poll")
    /\ UNCHANGED <<cloud, homes, atHome, throttle, pending, task, setting, stopped, heard, excused>>

\* async_refresh_scenarios(): the button first clears the disable flag.
ManualRefresh ==
    /\ ~stopped
    /\ Begins("manual")
    /\ throttle' = [throttle EXCEPT !.disabled = FALSE]
    /\ UNCHANGED <<cloud, homes, atHome, pending, task, setting, stopped, heard, excused>>

\* _ensure_homes(): a home that is gone loses its variable at once.
HomesAnswered(c) ==
    /\ refresh[c].stage = "homes"
    /\ homes' = account
    /\ atHome' = [h \in Homes |-> IF h \in account THEN atHome[h] ELSE Unknown]
    /\ refresh' = [refresh EXCEPT ![c].stage = "scenarios"]
    /\ UNCHANGED <<cloud, throttle, pending, task, setting, stopped, heard, excused>>

\* Without an answer the homes known before are kept.
HomesFail(c) ==
    /\ refresh[c].stage = "homes"
    /\ refresh' = [refresh EXCEPT ![c].stage = "scenarios"]
    /\ excused' = excused \cup (account \ homes)
    /\ UNCHANGED <<cloud, homes, atHome, throttle, pending, task, setting, stopped, heard>>

ScenariosAnswered(c) ==
    /\ refresh[c].stage = "scenarios"
    /\ refresh' = [refresh EXCEPT ![c].stage = "values", ![c].left = homes]
    /\ UNCHANGED <<cloud, homes, atHome, throttle, pending, task, setting, stopped, heard, excused>>

\* The variable of one home; a failure leaves the home out.
ValueRead(c, h) ==
    /\ h \in refresh[c].left
    /\ \E v \in {value[h], Unknown} :
          /\ v = Unknown \/ h \in account
          /\ refresh' = [refresh EXCEPT ![c].left = @ \ {h}, ![c].got[h] = v]
          /\ excused' = IF v = Unknown THEN excused \cup {h} ELSE excused
    /\ UNCHANGED <<cloud, homes, atHome, throttle, pending, task, setting, stopped, heard>>

\* _async_home_variable_refresh(): another round if a push came meanwhile.
RoundEnds(c) == task' = IF c # "push" THEN task ELSE IF pending THEN "round" ELSE "none"

\* What is known is replaced, whatever was learned since the refresh began.
Ends(c) ==
    /\ refresh[c].stage = "values" /\ refresh[c].left = {}
    /\ atHome' = refresh[c].got
    /\ refresh' = [refresh EXCEPT ![c] = Idle]
    /\ throttle' = [throttle EXCEPT !.over = FALSE]
    /\ RoundEnds(c)
    /\ excused' = IF c = "push" THEN excused
                  ELSE excused \cup {h \in Homes : refresh[c].got[h] < heard[h]}
    /\ UNCHANGED <<cloud, homes, pending, setting, stopped, heard>>

\* The scenarios fail.  The poll is put off after 429 and else disabled; the
\* others report the error.
Fails(c) ==
    /\ refresh[c].stage = "scenarios"
    /\ refresh' = [refresh EXCEPT ![c] = Idle]
    /\ \/ c = "poll" /\ throttle' \in {[throttle EXCEPT !.over = FALSE],
                                       [disabled |-> TRUE, over |-> FALSE]}
       \/ c # "poll" /\ UNCHANGED throttle
    /\ RoundEnds(c)
    /\ excused' = IF c = "push" THEN Homes ELSE excused
    /\ UNCHANGED <<cloud, homes, atHome, pending, setting, stopped, heard>>

IntervalPasses ==
    /\ ~throttle.over
    /\ throttle' = [throttle EXCEPT !.over = TRUE]
    /\ UNCHANGED <<cloud, homes, atHome, pending, task, refresh, setting, stopped, heard, excused>>

-------------------------------------------------------------------------------
(* Pushes *)

\* Mutant: a push during a round is thought to be served by that round.
HeardOnlyWithoutTask == IF task = "none" THEN TRUE ELSE pending

\* The flag that _on_ws_home_variable() leaves.
PendingAfterPush == TRUE

\* _on_ws_home_variable(): the first push starts the task, later ones only mark.
Pushed ==
    /\ pushes > 0 /\ pushes' = pushes - 1
    /\ IF stopped
       THEN UNCHANGED <<pending, task, heard, excused>>
       ELSE /\ pending' = PendingAfterPush
            /\ task' = IF task = "none" THEN "round" ELSE task
            /\ heard' = [h \in Homes |-> IF h \in account THEN value[h] ELSE Unknown]
            /\ excused' = {h \in excused : heard[h] = value[h]}
    /\ UNCHANGED <<account, value, homes, atHome, throttle, refresh, setting, stopped>>

PushLost ==
    /\ pushes > 0 /\ pushes' = pushes - 1
    /\ UNCHANGED <<account, value, homes, atHome, throttle, pending, task, refresh, setting,
                   stopped, heard, excused>>

\* The task takes the flag back, then reads.
Round ==
    /\ task = "round" /\ pending
    /\ task' = "reading" /\ pending' = FALSE
    /\ Begins("push")
    /\ throttle' = [throttle EXCEPT !.disabled = FALSE]
    /\ UNCHANGED <<cloud, homes, atHome, setting, stopped, heard, excused>>

-------------------------------------------------------------------------------
(* Writes *)

\* async_set_at_home(): the PUT is served, then answered and shown.
Set(h) ==
    /\ ~stopped /\ h \in account \cap homes /\ setting[h] = Unknown /\ value[h] < MaxValue
    /\ value' = [value EXCEPT ![h] = @ + 1]
    /\ setting' = [setting EXCEPT ![h] = value[h] + 1]
    /\ UNCHANGED <<account, pushes, homes, atHome, throttle, pending, task, refresh, stopped,
                   heard, excused>>

SetAnswered(h) ==
    /\ setting[h] # Unknown
    /\ atHome' = [atHome EXCEPT ![h] = setting[h]]
    /\ setting' = [setting EXCEPT ![h] = Unknown]
    /\ excused' = IF setting[h] < heard[h] THEN excused \cup {h} ELSE excused
    /\ UNCHANGED <<cloud, homes, throttle, pending, task, refresh, stopped, heard>>

\* async_shutdown(): the task is cancelled, and no push starts another one.
Shutdown ==
    /\ ~stopped
    /\ stopped' = TRUE
    /\ pending' = FALSE /\ task' = "none"
    /\ refresh' = [refresh EXCEPT !["push"] = Idle]
    /\ UNCHANGED <<cloud, homes, atHome, throttle, setting, heard, excused>>

Next ==
    \/ \E h \in Homes : Changed(h) \/ HomeDeleted(h) \/ Set(h) \/ SetAnswered(h)
    \/ \E c \in Causes : \/ HomesAnswered(c) \/ HomesFail(c) \/ ScenariosAnswered(c)
                         \/ Ends(c) \/ Fails(c) \/ \E h \in Homes : ValueRead(c, h)
    \/ PollDue \/ ManualRefresh \/ IntervalPasses
    \/ Pushed \/ PushLost \/ Round \/ Shutdown

Spec == Init /\ [][Next]_vars

-------------------------------------------------------------------------------
(* Properties *)

\* A push during a refresh is not taken for served by that refresh: when the
\* task is gone, every home of the account shows what it had when the last push
\* came, or something newer.  Excused are homes of which a request failed, and
\* polls, buttons and writes that began before the push and ended after its refresh.
PushesAreRead ==
    task = "none" /\ ~stopped =>
        \A h \in (account \cap homes) \ excused : heard[h] <= atHome[h]
===============================================================================
