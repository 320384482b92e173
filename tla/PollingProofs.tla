----------------------------- MODULE PollingProofs -----------------------------
(***************************************************************************)
(* Proofs about Polling for any number of overlapping polls: the types,    *)
(* that polling never falls asleep, that an outage is warned of once, and  *)
(* that no poll leaves inside a pause the cloud has asked for; and about   *)
(* PollingWithSocket: the composition implements Polling, so what is shown *)
(* for any behaviour of the WebSocket holds for this one, polling sees the *)
(* WebSocket as it is, the task takes no step PushLink does not promise,   *)
(* and its pauses and those of the polls keep their pace.                  *)
(***************************************************************************)
EXTENDS PollingWithSocket, WellFoundedInduction, TLAPS

\* The pause that is kept covers the one that is owed, unless a poll that
\* overlapped ended or shortened it.
PauseInv == cutShort \/ window >= owed

\* The flag that keeps the log quiet is up once the warning was written.
WarnInv == warnings = IF logged THEN 1 ELSE 0

IInv == TypeOK /\ NeverAsleep /\ WarnInv /\ PauseInv

-------------------------------------------------------------------------------
\* What the helpers return.
LEMMA DesiredType == Desired \in Nat \ {0}
BY IntervalsAssumption DEF Desired

LEMMA LessType ==
    ASSUME NEW n \in 0 .. MaxRetryAfter
    PROVE  Less(n) \in 0 .. MaxRetryAfter
BY IntervalsAssumption DEF Less

LEMMA InitIInv == Init => IInv
<1> SUFFICES ASSUME Init PROVE IInv
  OBVIOUS
<1> USE PollsAssumption, IntervalsAssumption DEF Init
<1>1. TypeOK
  <2>1. poll \in [Polls -> {Idle, Asked} \cup Answers]
    OBVIOUS
  <2>2. timer \in Nat \cup {Off} /\ interval \in Nat \ {0}
    OBVIOUS
  <2>3. window \in 0 .. MaxRetryAfter /\ owed \in 0 .. MaxRetryAfter
    OBVIOUS
  <2> QED
    BY <2>1, <2>2, <2>3 DEF TypeOK
<1>2. NeverAsleep
  BY DEF NeverAsleep, Off
<1>3. WarnInv /\ PauseInv
  BY DEF WarnInv, PauseInv
<1> QED
  BY <1>1, <1>2, <1>3 DEF IInv

-------------------------------------------------------------------------------
\* A refresh that starts: it goes to the cloud, or fails inside the pause.
LEMMA StartPollIInv ==
    ASSUME IInv, NEW p \in Polls, StartPoll(p)
    PROVE  IInv'
<1> USE PollsAssumption, IntervalsAssumption DEF IInv
<1>1. CASE ~Paused /\ Ask(p)
  <2>1. TypeOK'
    BY <1>1, DesiredType DEF StartPoll, Ask, TypeOK, Off
  <2>2. poll'[p] # Idle
    BY <1>1 DEF Ask, TypeOK, Asked, Idle
  <2>3. NeverAsleep'
    BY <2>2 DEF NeverAsleep, Asking
  <2>4. WarnInv' /\ PauseInv'
    BY <1>1 DEF StartPoll, Ask, WarnInv, PauseInv
  <2> QED
    BY <2>1, <2>3, <2>4
<1>2. CASE Paused /\ PutOff(window) /\ MarkUnavailable /\ UNCHANGED poll
  <2>1. window \in Nat \ {0}
    BY <1>2 DEF Paused, TypeOK
  <2>2. timer' = window /\ interval' \in Nat \ {0}
    BY <1>2, <2>1 DEF PutOff, TypeOK
  <2>3. warnings' \in Nat /\ WarnInv'
    BY <1>2 DEF MarkUnavailable, TypeOK, WarnInv
  <2>4. TypeOK'
    BY <1>2, <2>1, <2>2, <2>3 DEF StartPoll, MarkUnavailable, TypeOK
  <2>5. NeverAsleep'
    BY <2>1, <2>2 DEF NeverAsleep, Off
  <2>6. PauseInv'
    BY DEF StartPoll, PauseInv
  <2> QED
    BY <2>3, <2>4, <2>5, <2>6
<1> QED
  BY <1>1, <1>2 DEF StartPoll

\* The cloud's answer changes no timer; a poll that was asked stays under way.
LEMMA ServeIInv ==
    ASSUME IInv, NEW p \in Polls, NEW pc \in {"ok", "limited", "refused", "broken"},
           NEW after \in 0 .. MaxRetryAfter, Serve(p, pc, after)
    PROVE  IInv'
<1> USE PollsAssumption, IntervalsAssumption DEF IInv
<1>1. [pc |-> pc, after |-> after] \in Answers
  BY DEF Answers
<1>2. TypeOK'
  BY <1>1 DEF Serve, TypeOK
<1>3. poll'[p] # Idle
  BY DEF Serve, TypeOK, Idle
<1>4. NeverAsleep'
  BY <1>3 DEF NeverAsleep, Asking
<1>5. WarnInv' /\ PauseInv'
  BY DEF Serve, WarnInv, PauseInv, TypeOK
<1> QED
  BY <1>2, <1>4, <1>5

LEMMA ServedIInv ==
    ASSUME IInv, NEW p \in Polls, Served(p)
    PROVE  IInv'
<1>1. 0 \in 0 .. MaxRetryAfter
  BY IntervalsAssumption
<1>2. ASSUME ServeWell(p) PROVE IInv'
  BY <1>1, <1>2, ServeIInv DEF ServeWell
<1>3. ASSUME ServeRefuses(p) PROVE IInv'
  BY <1>1, <1>3, ServeIInv DEF ServeRefuses
<1>4. ASSUME ServeBreaks(p) PROVE IInv'
  BY <1>1, <1>4, ServeIInv DEF ServeBreaks
<1>5. ASSUME ServeLimits(p) PROVE IInv'
  BY <1>5, ServeIInv DEF ServeLimits
<1> QED
  BY <1>2, <1>3, <1>4, <1>5 DEF Served

\* A good answer ends the pause: if one was still owed, this poll cut it short.
LEMMA SucceedsIInv ==
    ASSUME IInv, NEW p \in Polls, PollSucceeds(p)
    PROVE  IInv'
<1> USE PollsAssumption, IntervalsAssumption DEF IInv
<1>1. poll' \in [Polls -> {Idle, Asked} \cup Answers]
  BY DEF PollSucceeds, Finish, TypeOK
<1>2. interval' \in Nat \ {0} /\ timer' \in Nat \ {0}
  BY DesiredType DEF PollSucceeds
<1>3. /\ cutShort' \in BOOLEAN /\ success' \in BOOLEAN
      /\ logged' \in BOOLEAN /\ authFailed' \in BOOLEAN
  BY DEF PollSucceeds, Started, TypeOK
<1>4. ws' \in {"off", "waiting", "open"} /\ requested' \in BOOLEAN
  BY DEF PollSucceeds, Started, TypeOK
<1>5. window' \in 0 .. MaxRetryAfter /\ owed' \in 0 .. MaxRetryAfter /\ warnings' \in Nat
  BY DEF PollSucceeds, Started, TypeOK
<1>6. TypeOK'
  BY <1>1, <1>2, <1>3, <1>4, <1>5 DEF TypeOK
<1>7. NeverAsleep'
  BY <1>2 DEF NeverAsleep, Off
<1>8. WarnInv'
  BY DEF PollSucceeds, WarnInv
<1>9. PauseInv'
  <2>1. CASE owed > 0
    <3>1. cutShort' = TRUE
      BY <2>1 DEF PollSucceeds
    <3> QED
      BY <3>1 DEF PauseInv
  <2>2. CASE ~ owed > 0
    <3>1. window' >= owed'
      BY <2>2 DEF PollSucceeds, TypeOK
    <3> QED
      BY <3>1 DEF PauseInv
  <2> QED
    BY <2>1, <2>2
<1> QED
  BY <1>6, <1>7, <1>8, <1>9

\* A new pause replaces the old one: it is at least as long, or it cuts it short.
LEMMA LimitedIInv ==
    ASSUME IInv, NEW p \in Polls, PollLimited(p)
    PROVE  IInv'
<1> USE PollsAssumption, IntervalsAssumption DEF IInv
<1>1. poll[p].after \in 0 .. MaxRetryAfter
  BY DEF TypeOK, PollLimited, Answers, Idle, Asked
<1>2. Larger(poll[p].after, Desired) \in Nat \ {0}
  BY <1>1, DesiredType DEF Larger
<1>3. timer' \in Nat \ {0} /\ interval' \in Nat \ {0}
  BY <1>2 DEF PollLimited, PutOff, TypeOK
<1>4. poll' \in [Polls -> {Idle, Asked} \cup Answers]
  BY DEF PollLimited, Finish, TypeOK
<1>5. warnings' \in Nat /\ WarnInv'
  BY DEF PollLimited, MarkUnavailable, TypeOK, WarnInv
<1>6. owed' \in 0 .. MaxRetryAfter /\ cutShort' \in BOOLEAN
  BY <1>1 DEF PollLimited, TypeOK
<1>7. TypeOK'
  BY <1>1, <1>3, <1>4, <1>5, <1>6 DEF PollLimited, MarkUnavailable, TypeOK
<1>8. NeverAsleep'
  BY <1>3 DEF NeverAsleep, Off
<1>9. PauseInv'
  <2>1. CASE poll[p].after < owed
    <3>1. cutShort' = TRUE
      BY <2>1 DEF PollLimited
    <3> QED
      BY <3>1 DEF PauseInv
  <2>2. CASE ~ poll[p].after < owed
    <3>1. window' >= owed'
      BY <1>1, <2>2 DEF PollLimited, TypeOK
    <3> QED
      BY <3>1 DEF PauseInv
  <2> QED
    BY <2>1, <2>2
<1> QED
  BY <1>5, <1>7, <1>8, <1>9

\* A refused login leaves no plan, and says so.
LEMMA RefusedIInv ==
    ASSUME IInv, NEW p \in Polls, PollRefused(p)
    PROVE  IInv'
<1> USE PollsAssumption, IntervalsAssumption DEF IInv
<1>1. warnings' \in Nat /\ WarnInv'
  BY DEF PollRefused, MarkUnavailable, TypeOK, WarnInv
<1>2. TypeOK'
  BY <1>1 DEF PollRefused, Finish, MarkUnavailable, TypeOK
<1>3. NeverAsleep' /\ PauseInv'
  BY DEF PollRefused, NeverAsleep, PauseInv
<1> QED
  BY <1>1, <1>2, <1>3

\* Any other failure plans the next poll.
LEMMA FailsIInv ==
    ASSUME IInv, NEW p \in Polls, PollFails(p)
    PROVE  IInv'
<1> USE PollsAssumption, IntervalsAssumption DEF IInv
<1>1. warnings' \in Nat /\ WarnInv'
  BY DEF PollFails, MarkUnavailable, TypeOK, WarnInv
<1>2. TypeOK'
  BY <1>1 DEF PollFails, Finish, MarkUnavailable, TypeOK
<1>3. NeverAsleep' /\ PauseInv'
  BY DEF PollFails, NeverAsleep, PauseInv, TypeOK, Off
<1> QED
  BY <1>1, <1>2, <1>3

\* Time passes for both pauses alike.
LEMMA TickIInv ==
    ASSUME IInv, Tick
    PROVE  IInv'
<1> USE PollsAssumption, IntervalsAssumption DEF IInv
<1>1. window' \in 0 .. MaxRetryAfter /\ owed' \in 0 .. MaxRetryAfter
  BY LessType DEF Tick, TypeOK
<1>2. timer' \in Nat \cup {Off} /\ (timer' = Off => timer = Off)
  BY DEF Tick, TypeOK, Less, Off
<1>3. TypeOK'
  BY <1>1, <1>2 DEF Tick, TypeOK
<1>4. NeverAsleep'
  BY <1>2 DEF Tick, NeverAsleep, Asking
<1>5. WarnInv' /\ PauseInv'
  BY DEF Tick, WarnInv, PauseInv, TypeOK, Less
<1> QED
  BY <1>3, <1>4, <1>5

\* What runs beside the polls takes no plan away.
LEMMA BesideIInv ==
    ASSUME IInv, RequestRefresh \/ ApplyPush \/ WsOpens \/ WsDrops \/ WsEnds
    PROVE  IInv'
<1> USE PollsAssumption, IntervalsAssumption DEF IInv
<1>1. TypeOK'
  BY DEF TypeOK, RequestRefresh, ApplyPush, Armed, WsOpens, WsDrops, WsEnds
<1>2. NeverAsleep'
  BY DEF TypeOK, NeverAsleep, Asking, Off, RequestRefresh, ApplyPush, Armed, WsOpens, WsDrops,
         WsEnds
<1>3. WarnInv' /\ PauseInv'
  BY DEF WarnInv, PauseInv, RequestRefresh, ApplyPush, WsOpens, WsDrops, WsEnds
<1> QED
  BY <1>1, <1>2, <1>3

LEMMA NextIInv == IInv /\ [Next]_vars => IInv'
<1> SUFFICES ASSUME IInv, [Next]_vars PROVE IInv'
  OBVIOUS
<1>1. CASE UNCHANGED vars
  BY <1>1 DEF IInv, vars, TypeOK, NeverAsleep, Asking, WarnInv, PauseInv
<1>2. ASSUME NEW p \in Polls, PlannedPoll(p) \/ RequestedPoll(p) \/ ServicePoll(p)
      PROVE  IInv'
  BY <1>2, StartPollIInv DEF PlannedPoll, RequestedPoll, ServicePoll
<1>3. ASSUME NEW p \in Polls, Served(p) PROVE IInv'
  BY <1>3, ServedIInv
<1>4. ASSUME NEW p \in Polls,
             PollSucceeds(p) \/ PollLimited(p) \/ PollRefused(p) \/ PollFails(p)
      PROVE  IInv'
  BY <1>4, SucceedsIInv, LimitedIInv, RefusedIInv, FailsIInv
<1> QED
  BY <1>1, <1>2, <1>3, <1>4, TickIInv, BesideIInv DEF Next

\* The invariant of every behaviour, from which the theorems follow.
LEMMA Invariant == Spec => []IInv
BY InitIInv, NextIInv, PTL DEF Spec

-------------------------------------------------------------------------------
\* A poll leaves only by _async_update_data() outside the kept pause.
LEMMA GoesOutside ==
    ASSUME IInv, Next, NEW p \in Polls, Goes(p)
    PROVE  window = 0
<1> USE DEF IInv
<1>1. poll[p] = Idle /\ poll'[p] # poll[p] /\ poll'[p] = Asked
  BY DEF Goes, Idle, Asked
<1>2. ASSUME NEW q \in Polls, PlannedPoll(q) \/ RequestedPoll(q) \/ ServicePoll(q)
      PROVE  window = 0
  BY <1>1, <1>2, IntervalsAssumption
     DEF PlannedPoll, RequestedPoll, ServicePoll, StartPoll, Paused, TypeOK
<1>3. ASSUME NEW q \in Polls, NEW pc, NEW after, Serve(q, pc, after) PROVE FALSE
  BY <1>1, <1>3 DEF Serve, TypeOK, Idle, Asked
<1>4. ASSUME NEW q \in Polls, Finish(q) PROVE FALSE
  BY <1>1, <1>4 DEF Finish, TypeOK
<1>5. CASE \E q \in Polls : PlannedPoll(q) \/ RequestedPoll(q) \/ ServicePoll(q)
  BY <1>2, <1>5
<1>6. CASE \E q \in Polls : Served(q)
  BY <1>3, <1>6 DEF Served, ServeWell, ServeRefuses, ServeBreaks, ServeLimits
<1>7. CASE \E q \in Polls : PollSucceeds(q) \/ PollLimited(q) \/ PollRefused(q) \/ PollFails(q)
  BY <1>4, <1>7 DEF PollSucceeds, PollLimited, PollRefused, PollFails
<1>8. CASE Tick \/ RequestRefresh \/ ApplyPush \/ WsOpens \/ WsDrops \/ WsEnds
  BY <1>1, <1>8 DEF Tick, RequestRefresh, ApplyPush, WsOpens, WsDrops, WsEnds
<1> QED
  BY <1>5, <1>6, <1>7, <1>8 DEF Next

\* Every variable of the schedule keeps its type.
THEOREM TypeCorrect == Spec => []TypeOK
BY Invariant, PTL DEF IInv

\* Polling never falls asleep: whatever polls overlap and however they end,
\* _async_update_data() leaves a planned poll, one under way, or a new login.
THEOREM NeverFallsAsleep == Spec => []NeverAsleep
BY Invariant, PTL DEF IInv

\* An outage is warned of once, by _mark_poll_unavailable().
THEOREM OneWarningEach == Spec => []OneWarning
<1>1. IInv => OneWarning
  BY DEF IInv, WarnInv, OneWarning
<1> QED
  BY <1>1, Invariant, PTL

\* The guard at the top of _async_update_data() keeps every poll out of the
\* pause that the cloud asked for.
THEOREM PausesKept == Spec => PauseRespected
<1>1. ASSUME IInv, [Next]_vars
      PROVE  [\A p \in Polls : Goes(p) => owed = 0 \/ cutShort]_vars
  <2>1. CASE UNCHANGED vars
    BY <2>1
  <2>2. ASSUME Next, NEW p \in Polls, Goes(p) PROVE owed = 0 \/ cutShort
    BY <1>1, <2>2, GoesOutside, IntervalsAssumption DEF IInv, PauseInv, TypeOK
  <2> QED
    BY <1>1, <2>1, <2>2
<1> QED
  BY <1>1, Invariant, PTL DEF Spec, PauseRespected

-------------------------------------------------------------------------------
(* The composition with the WebSocket *)

LEMMA StepImplementsPolling == [CoupledNext]_allVars => [Next]_vars
<1> SUFFICES ASSUME [CoupledNext]_allVars PROVE [Next]_vars
  OBVIOUS
<1>1. CASE LoopAlone
  BY <1>1 DEF LoopAlone
<1>2. CASE PollingAlone
  BY <1>2 DEF PollingAlone
<1>3. CASE Connects \/ Disconnects \/ TaskEnds
  BY <1>3 DEF Connects, Disconnects, TaskEnds, Next
<1>4. CASE \E p \in Polls : Restarts(p)
  BY <1>4 DEF Restarts, Next
<1>5. CASE UNCHANGED allVars
  BY <1>5 DEF allVars
<1> QED
  BY <1>1, <1>2, <1>3, <1>4, <1>5 DEF CoupledNext

\* With the WebSocket task as it is, the coordinator's polls are still those of Polling:
\* the task adds no step to them (_run_ws() and _start_ws_task() in coordinator.py).
THEOREM ImplementsPolling == CoupledSpec => Spec
<1>1. Both => Init
  BY DEF Both
<1> QED
  BY <1>1, StepImplementsPolling, PTL DEF CoupledSpec, Spec

\* No end of the WebSocket task, and no restart of it by a poll, lets polling sleep.
THEOREM CoupledNeverAsleep == CoupledSpec => []NeverAsleep
BY ImplementsPolling, NeverFallsAsleep, PTL

\* An outage of both the polls and the WebSocket is still warned of once by the polls.
THEOREM CoupledOneWarning == CoupledSpec => []OneWarning
BY ImplementsPolling, OneWarningEach, PTL

\* The refresh that the end of the WebSocket task asks for waits for the cloud's pause.
THEOREM CoupledPauses == CoupledSpec => PauseRespected
BY ImplementsPolling, PausesKept, PTL

-----------------------------------------------------------------------------

LEMMA SeenInit == Both => SeenAsIs
BY DEF Both, Init, Loop!LoopInit, SeenAsIs, Loop!Link

LEMMA SeenNext == SeenAsIs /\ [CoupledNext]_allVars => SeenAsIs'
<1> SUFFICES ASSUME SeenAsIs, [CoupledNext]_allVars PROVE SeenAsIs'
  OBVIOUS
<1> USE DEF SeenAsIs, Loop!Link
<1>1. CASE LoopAlone
  BY <1>1 DEF LoopAlone, vars
<1>2. CASE PollingAlone
  BY <1>2 DEF PollingAlone, loopVars
<1>3. CASE Connects
  BY <1>3 DEF Connects, WsOpens, Loop!HandshakeDone
<1>4. CASE Disconnects
  BY <1>4 DEF Disconnects, WsDrops
<1>5. CASE TaskEnds
  BY <1>5 DEF TaskEnds, WsEnds
<1>6. CASE \E p \in Polls : Restarts(p)
  BY <1>6 DEF Restarts, PollSucceeds, Started, Loop!StartTask, Loop!BeginRun
<1>7. CASE UNCHANGED allVars
  BY <1>7 DEF allVars, vars, loopVars
<1> QED
  BY <1>1, <1>2, <1>3, <1>4, <1>5, <1>6, <1>7 DEF CoupledNext

\* What the polls go by, _ws_connected and whether the task is done, is never a state
\* the task has left (_on_ws_connection_change() in coordinator.py).
THEOREM LinkSeen == CoupledSpec => []SeenAsIs
BY SeenInit, SeenNext, PTL DEF CoupledSpec

\* The task connects, loses its session, ends and is started again, and does nothing else
\* that the polls could see: the safety half of ImplementsLink (WebSocketClient.run()).
THEOREM LinkPromised ==
    CoupledSpec => Loop!Promised!LinkInit /\ [][Loop!Promised!LinkNext]_(Loop!Link)
<1>1. Both => Loop!Promised!LinkInit
  BY DEF Both, Loop!LoopInit, Loop!Promised!LinkInit, Loop!Link
<1>2. SeenAsIs /\ SeenAsIs' /\ [CoupledNext]_allVars =>
          [Loop!Promised!LinkNext]_(Loop!Link)
  <2> SUFFICES ASSUME ws = Loop!Link, ws' = Loop!Link', [CoupledNext]_allVars
               PROVE  \/ ws = "waiting" /\ ws' = "open"
                      \/ ws = "open" /\ ws' = "waiting"
                      \/ ws # "off" /\ ws' = "off"
                      \/ ws = "off" /\ ws' = "waiting"
                      \/ ws' = ws
    BY DEF SeenAsIs, Loop!Promised!LinkNext, Loop!Promised!Opens, Loop!Promised!Drops,
       Loop!Promised!Ends, Loop!Promised!Starts
  <2>1. CASE LoopAlone \/ PollingAlone
    BY <2>1 DEF LoopAlone, PollingAlone, vars
  <2>2. CASE Connects \/ Disconnects \/ TaskEnds
    BY <2>2 DEF Connects, Disconnects, TaskEnds, WsOpens, WsDrops, WsEnds
  <2>3. CASE \E p \in Polls : Restarts(p)
    BY <2>3 DEF Restarts, PollSucceeds, Started
  <2>4. CASE UNCHANGED allVars
    BY <2>4 DEF allVars, vars
  <2> QED
    BY <2>1, <2>2, <2>3, <2>4 DEF CoupledNext
<1> QED
  BY <1>1, <1>2, LinkSeen, PTL DEF CoupledSpec

-------------------------------------------------------------------------------
(* The pace of the WebSocket's attempts *)

\* Every set of natural numbers has a least one: induction over the pauses.
LEMMA LeastOf ==
    ASSUME NEW T \in SUBSET Nat, T # {}
    PROVE  \E x \in T : \A y \in T : x <= y
<1>1. \E R : IsWellFoundedOn(R, Nat) /\ \A x, y \in Nat : y < x => <<y, x>> \in R
  <2>1. \A x, y \in Nat : y < x => <<y, x>> \in OpToRel(<, Nat)
    BY DEF OpToRel
  <2> QED
    BY <2>1, NatLessThanWellFounded, Zenon
<1>2. PICK R : IsWellFoundedOn(R, Nat) /\ \A x, y \in Nat : y < x => <<y, x>> \in R
  BY <1>1
<1>3. PICK x \in T : \A y \in T : ~ (<<y, x>> \in R)
  BY <1>2, WFMin
<1>4. ASSUME NEW y \in T PROVE x <= y
  <2>1. x \in Nat /\ y \in Nat
    OBVIOUS
  <2>2. ~ (y < x)
    BY <1>2, <1>3, <2>1
  <2> QED
    BY <2>1, <2>2
<1> QED
  BY <1>4

Paces == 1 .. BackoffMax

LEMMA DoubledType ==
    ASSUME NEW b \in Paces
    PROVE  /\ Loop!Doubled(b) \in Paces
           /\ Loop!Doubled(b) > b \/ Loop!Doubled(b) = BackoffMax
BY LoopAssumption DEF Paces, Loop!Doubled

\* The first n pauses of a run, as they must be.
FirstPaces(n, g) ==
    /\ g \in [0 .. n -> Paces]
    /\ g[0] = 1
    /\ \A i \in 1 .. n : g[i] = Loop!Doubled(g[i - 1])

LEMMA FirstPacesExist == \A n \in Nat : \E g : FirstPaces(n, g)
<1> DEFINE T == {n \in Nat : ~ \E g : FirstPaces(n, g)}
<1> SUFFICES ASSUME T # {} PROVE FALSE
  OBVIOUS
<1>1. T \in SUBSET Nat
  OBVIOUS
<1>2. PICK m \in T : \A k \in T : m <= k
  <2> HIDE DEF T
  <2> QED
    BY <1>1, LeastOf
<1>3. m \in Nat
  BY <1>1
<1>4. m # 0
  <2>1. FirstPaces(0, [i \in 0 .. 0 |-> 1])
    BY LoopAssumption DEF FirstPaces, Paces
  <2> QED
    BY <2>1
<1>5. PICK g : FirstPaces(m - 1, g)
  <2>1. m - 1 \in Nat /\ ~ (m <= m - 1)
    BY <1>3, <1>4
  <2>2. m - 1 \notin T
    BY <1>2, <2>1
  <2> QED
    BY <2>1, <2>2
<1> DEFINE h == [i \in 0 .. m |-> IF i = m THEN Loop!Doubled(g[m - 1]) ELSE g[i]]
<1>6. FirstPaces(m, h)
  <2>1. m - 1 \in 0 .. m - 1 /\ g[m - 1] \in Paces
    BY <1>3, <1>4, <1>5 DEF FirstPaces
  <2>2. \A i \in 0 .. m : i # m => i \in 0 .. m - 1
    BY <1>3
  <2>3. h \in [0 .. m -> Paces]
    BY <1>5, <2>1, <2>2, DoubledType DEF FirstPaces
  <2>4. h[0] = 1
    BY <1>3, <1>4, <1>5 DEF FirstPaces
  <2>5. ASSUME NEW i \in 1 .. m PROVE h[i] = Loop!Doubled(h[i - 1])
    <3>1. i - 1 \in 0 .. m /\ i - 1 # m /\ i \in 0 .. m
      BY <1>3
    <3>2. h[i - 1] = g[i - 1]
      BY <3>1
    <3>3. CASE i = m
      BY <3>1, <3>2, <3>3
    <3>4. CASE i # m
      <4>1. i \in 1 .. m - 1
        BY <1>3, <3>4
      <4> QED
        BY <1>5, <3>1, <3>2, <3>4, <4>1 DEF FirstPaces
    <3> QED
      BY <3>3, <3>4
  <2> QED
    BY <2>3, <2>4, <2>5 DEF FirstPaces
<1> QED
  BY <1>2, <1>6

LEMMA FirstPacesAgree ==
    ASSUME NEW n \in Nat, NEW m \in Nat, n <= m,
           NEW g, FirstPaces(n, g), NEW h, FirstPaces(m, h)
    PROVE  g[n] = h[n]
<1> DEFINE T == {i \in 0 .. n : g[i] # h[i]}
<1>1. T \in SUBSET Nat
  OBVIOUS
<1> SUFFICES ASSUME T # {} PROVE FALSE
  <2>1. n \in 0 .. n
    OBVIOUS
  <2> QED
    BY <2>1
<1>2. PICK i \in T : \A k \in T : i <= k
  <2> HIDE DEF T
  <2> QED
    BY <1>1, LeastOf
<1>3. i \in 0 .. n /\ g[i] # h[i]
  OBVIOUS
<1>4. i # 0
  BY <1>3 DEF FirstPaces
<1>5. i \in 1 .. n /\ i \in 1 .. m /\ i - 1 \in 0 .. n /\ ~ (i <= i - 1)
  BY <1>3, <1>4
<1>6. g[i - 1] = h[i - 1]
  BY <1>2, <1>5
<1> QED
  BY <1>3, <1>5, <1>6 DEF FirstPaces

\* PaceAfter is the function that its recursion describes.
LEMMA PaceAfterIs ==
    Loop!PaceAfter = [n \in Nat |-> IF n = 0 THEN 1 ELSE Loop!Doubled(Loop!PaceAfter[n - 1])]
<1> DEFINE G(n) == CHOOSE g : FirstPaces(n, g)
           f == [n \in Nat |-> G(n)[n]]
<1>1. \A n \in Nat : FirstPaces(n, G(n))
  BY FirstPacesExist
<1> HIDE DEF G
<1>2. f[0] = 1
  BY <1>1 DEF FirstPaces
<1>3. ASSUME NEW n \in Nat \ {0} PROVE f[n] = Loop!Doubled(f[n - 1])
  <2>1. n - 1 \in Nat /\ n - 1 <= n /\ n \in 1 .. n
    OBVIOUS
  <2>2. G(n - 1)[n - 1] = G(n)[n - 1]
    BY <1>1, <2>1, FirstPacesAgree
  <2>3. G(n)[n] = Loop!Doubled(G(n)[n - 1])
    BY <1>1, <2>1 DEF FirstPaces
  <2> QED
    BY <2>1, <2>2, <2>3
<1>4. f = [n \in Nat |-> IF n = 0 THEN 1 ELSE Loop!Doubled(f[n - 1])]
  BY <1>2, <1>3
<1>5. \E p : p = [n \in Nat |-> IF n = 0 THEN 1 ELSE Loop!Doubled(p[n - 1])]
  BY <1>4
<1> QED
  BY <1>5 DEF Loop!PaceAfter

LEMMA PaceSteps ==
    /\ Loop!PaceAfter[0] = 1
    /\ \A n \in Nat : Loop!PaceAfter[n + 1] = Loop!Doubled(Loop!PaceAfter[n])
<1>1. ASSUME NEW n \in Nat PROVE Loop!PaceAfter[n + 1] = Loop!Doubled(Loop!PaceAfter[n])
  <2>1. n + 1 \in Nat /\ n + 1 # 0 /\ (n + 1) - 1 = n
    OBVIOUS
  <2> QED
    BY <2>1, PaceAfterIs
<1> QED
  BY <1>1, PaceAfterIs

\* The pauses grow, by one or more, until they reach the cap.
LEMMA PaceGrows ==
    \A n \in Nat : /\ Loop!PaceAfter[n] \in Paces
                   /\ Loop!PaceAfter[n] > n \/ Loop!PaceAfter[n] = BackoffMax
<1> DEFINE p == Loop!PaceAfter
           Grown(n) == p[n] \in Paces /\ (p[n] > n \/ p[n] = BackoffMax)
           T == {n \in Nat : ~ Grown(n)}
<1>1. T \in SUBSET Nat
  OBVIOUS
<1>2. p[0] = 1 /\ \A n \in Nat \ {0} : p[n] = Loop!Doubled(p[n - 1])
  BY PaceAfterIs
<1> HIDE DEF p
<1> SUFFICES ASSUME T # {} PROVE FALSE
  BY DEF p
<1>3. PICK m \in T : \A k \in T : m <= k
  <2> HIDE DEF T
  <2> QED
    BY <1>1, LeastOf
<1>4. m # 0
  BY <1>2, LoopAssumption DEF Paces
<1>5. m \in Nat /\ m - 1 \in Nat /\ ~ (m <= m - 1)
  BY <1>4
<1>6. Grown(m - 1)
  BY <1>3, <1>5
<1>7. p[m] = Loop!Doubled(p[m - 1])
  BY <1>2, <1>5, <1>4
<1>8. p[m] \in Paces /\ (p[m] > p[m - 1] \/ p[m] = BackoffMax)
  BY <1>6, <1>7, DoubledType
<1>9. Grown(m)
  BY <1>5, <1>6, <1>8, LoopAssumption DEF Paces
<1> QED
  BY <1>9

\* The pause that belongs to the pauses taken so far, before and after the next one.
PaceInv ==
    /\ stage \in {"off", "token", "handshake", "open", "sleeping"}
    /\ stable \in BOOLEAN
    /\ stage \in {"token", "handshake"} => ~stable
    /\ naps \in 0 .. BackoffMax
    /\ stage \in {"token", "handshake", "open"} => backoff = Loop!PaceAfter[naps]
    /\ stage = "sleeping" => naps > 0 /\ backoff = Loop!PaceAfter[naps - 1]

LEMMA PaceInit == Loop!LoopInit => PaceInv
<1> SUFFICES ASSUME Loop!LoopInit PROVE PaceInv
  OBVIOUS
<1>1. stage = "token" /\ stable = FALSE /\ naps = 0 /\ backoff = 1
  BY DEF Loop!LoopInit
<1>2. naps \in 0 .. BackoffMax /\ backoff = Loop!PaceAfter[naps]
  BY <1>1, PaceSteps, LoopAssumption
<1> QED
  BY <1>1, <1>2 DEF PaceInv

\* A turn that ends leaves the pause of the attempts so far, or after a stable session the
\* first one; a count that has reached its bound changes nothing.
LEMMA TurnPace ==
    ASSUME PaceInv, stage \in {"token", "handshake", "open"}, NEW n, Loop!TurnEnds(n)
    PROVE  PaceInv'
<1> USE LoopAssumption
<1>1. /\ stage' \in {"off", "sleeping"}
      /\ stable' = stable
  BY DEF Loop!TurnEnds
<1>2. CASE stage = "open" /\ stable
  <2>1. naps' = 1 /\ backoff' = 1
    BY <1>2 DEF Loop!TurnEnds, Loop!WasStable
  <2> QED
    BY <1>1, <2>1, PaceAfterIs DEF PaceInv
<1>3. CASE ~ (stage = "open" /\ stable)
  <2>1. backoff' = backoff /\ naps' = IF naps < BackoffMax THEN naps + 1 ELSE naps
    BY <1>3 DEF Loop!TurnEnds, Loop!WasStable
  <2>2. CASE naps < BackoffMax
    BY <1>1, <2>1, <2>2 DEF PaceInv
  <2>3. CASE naps = BackoffMax
    <3>1. /\ Loop!PaceAfter[BackoffMax] = BackoffMax
          /\ Loop!PaceAfter[BackoffMax - 1] = BackoffMax
      BY PaceGrows DEF Paces
    <3> QED
      BY <1>1, <2>1, <2>3, <3>1 DEF PaceInv
  <2> QED
    BY <2>2, <2>3 DEF PaceInv
<1> QED
  BY <1>2, <1>3

LEMMA PaceNext == PaceInv /\ [CoupledNext]_allVars => PaceInv'
<1> SUFFICES ASSUME PaceInv, [CoupledNext]_allVars PROVE PaceInv'
  OBVIOUS
<1>1. ASSUME Loop!LoopNext PROVE PaceInv'
  <2>1. CASE Loop!TokenFails \/ Loop!HandshakeFails \/ Loop!SessionCloses \/ Loop!SessionFails
    BY <2>1, TurnPace DEF Loop!TokenFails, Loop!HandshakeFails, Loop!SessionCloses,
       Loop!SessionFails
  <2>2. CASE Loop!TokenGiven \/ Loop!HandshakeDone
    <3>1. /\ stage \in {"token", "handshake"} /\ stage' \in {"handshake", "open"}
          /\ UNCHANGED <<backoff, stable, naps>>
      BY <2>2 DEF Loop!TokenGiven, Loop!HandshakeDone
    <3> QED
      BY <3>1 DEF PaceInv
  <2>3. CASE Loop!TokenRefused
    <3>1. stage' = "off" /\ UNCHANGED <<backoff, stable, naps>>
      BY <2>3 DEF Loop!TokenRefused
    <3> QED
      BY <3>1 DEF PaceInv
  <2>4. CASE Loop!Matures
    <3>1. stage = "open" /\ stable' = TRUE /\ UNCHANGED <<stage, backoff, naps>>
      BY <2>4 DEF Loop!Matures
    <3> QED
      BY <3>1 DEF PaceInv
  <2>5. CASE Loop!Wakes
    <3>1. /\ stage = "sleeping" /\ stage' = "token" /\ stable' = FALSE
          /\ backoff' = Loop!Doubled(backoff) /\ naps' = naps
      BY <2>5 DEF Loop!Wakes
    <3>2. naps - 1 \in Nat /\ naps = (naps - 1) + 1 /\ backoff = Loop!PaceAfter[naps - 1]
      BY <3>1 DEF PaceInv
    <3>3. backoff' = Loop!PaceAfter[naps]
      BY <3>1, <3>2, PaceSteps
    <3> QED
      BY <3>1, <3>3 DEF PaceInv
  <2>6. CASE Loop!StartTask
    <3>1. stage' = "token" /\ stable' = FALSE /\ naps' = 0 /\ backoff' = 1
      BY <2>6 DEF Loop!StartTask, Loop!BeginRun
    <3>2. naps' \in 0 .. BackoffMax /\ backoff' = Loop!PaceAfter[naps']
      BY <3>1, PaceSteps, LoopAssumption
    <3> QED
      BY <3>1, <3>2 DEF PaceInv
  <2> QED
    BY <1>1, <2>1, <2>2, <2>3, <2>4, <2>5, <2>6 DEF Loop!LoopNext
<1>2. ASSUME NEW p \in Polls, Restarts(p) PROVE PaceInv'
  BY <1>1, <1>2 DEF Restarts, Loop!LoopNext
<1>3. ASSUME Connects \/ Disconnects \/ TaskEnds \/ LoopAlone PROVE PaceInv'
  BY <1>1, <1>3 DEF Connects, Disconnects, TaskEnds, LoopAlone, Loop!LoopNext
<1>4. ASSUME UNCHANGED loopVars PROVE PaceInv'
  BY <1>4 DEF PaceInv, loopVars
<1> QED
  BY <1>2, <1>3, <1>4 DEF CoupledNext, PollingAlone, allVars

\* The pause before the next attempt is 2^n times the first one after n pauses without a
\* stable session, up to the cap, and the first one again after a stable session, whatever
\* the limits are and however the sessions end (WebSocketClient.run()).
THEOREM PaceAlwaysFits == CoupledSpec => []PaceFits
<1>1. Both => PaceInv
  BY PaceInit DEF Both
<1>2. PaceInv => PaceFits
  BY DEF PaceInv, PaceFits, Loop!PaceFits
<1> QED
  BY <1>1, <1>2, PaceNext, PTL DEF CoupledSpec

-------------------------------------------------------------------------------
(* The pace of the polls *)

\* While its only poll is under way, or no poll is planned, the interval is not one that a
\* pause has stretched.
SteadyInv(p) ==
    /\ poll[p] # Idle => interval \in {UserInterval, PushInterval}
    /\ timer = Off => interval \in {UserInterval, PushInterval}

LEMMA SteadyNext ==
    ASSUME NEW p, Polls = {p}, IInv, SteadyInv(p), [Next]_vars
    PROVE  /\ SteadyInv(p)'
           /\ window' = 0 /\ timer' > timer => timer' \in {UserInterval, PushInterval}
<1> USE IntervalsAssumption DEF IInv, SteadyInv
<1>1. CASE StartPoll(p)
  <2>1. CASE Paused
    <3>1. timer' = window /\ window' = window /\ window \in Nat \ {0} /\ poll' = poll
      BY <1>1, <2>1 DEF StartPoll, PutOff, Paused, TypeOK
    <3>2. poll[p] = Idle
      BY <1>1 DEF StartPoll
    <3> QED
      BY <3>1, <3>2 DEF Off
  <2>2. CASE ~Paused
    BY <1>1, <2>2 DEF StartPoll, Ask, Desired, TypeOK, Off
  <2> QED
    BY <2>1, <2>2
<1>2. ASSUME NEW pc, NEW after, Serve(p, pc, after)
      PROVE  /\ SteadyInv(p)'
             /\ window' = 0 /\ timer' > timer => timer' \in {UserInterval, PushInterval}
  <2>1. poll[p] # Idle /\ UNCHANGED <<timer, interval>>
    BY <1>2 DEF Serve, Asked, Idle
  <2> QED
    BY <2>1 DEF TypeOK, Off
<1>3. CASE PollSucceeds(p)
  BY <1>3, DesiredType DEF PollSucceeds, Desired, Off
<1>4. CASE PollLimited(p)
  <2>1. poll[p].after \in 0 .. MaxRetryAfter
    BY <1>4 DEF TypeOK, PollLimited, Answers, Idle, Asked
  <2>2. poll'[p] = Idle
    BY <1>4 DEF PollLimited, Finish, TypeOK
  <2>3. timer' = Larger(poll[p].after, Desired) /\ timer' \in Nat \ {0}
    BY <1>4, <2>1, DesiredType DEF PollLimited, PutOff, Larger
  <2>4. window' = 0 => timer' = Desired
    BY <1>4, <2>1, <2>3, DesiredType DEF PollLimited, Larger
  <2> QED
    BY <2>2, <2>3, <2>4 DEF Desired, Off
<1>5. CASE PollRefused(p) \/ PollFails(p)
  <2>1. poll[p] # Idle /\ interval' = interval /\ (timer' = timer \/ timer' = interval)
    BY <1>5 DEF PollRefused, PollFails, Idle
  <2> QED
    BY <2>1 DEF TypeOK, Off
<1>6. CASE Tick
  BY <1>6 DEF Tick, Less, TypeOK, Off
<1>7. CASE ApplyPush \/ RequestRefresh \/ WsOpens \/ WsDrops \/ WsEnds \/ UNCHANGED vars
  BY <1>7 DEF ApplyPush, Armed, RequestRefresh, WsOpens, WsDrops, WsEnds, vars, TypeOK, Off
<1>8. CASE Served(p)
  BY <1>2, <1>8 DEF Served, ServeWell, ServeRefuses, ServeBreaks, ServeLimits
<1>9. CASE \E q \in Polls : PlannedPoll(q) \/ RequestedPoll(q) \/ ServicePoll(q) \/ Served(q)
                \/ PollSucceeds(q) \/ PollLimited(q) \/ PollRefused(q) \/ PollFails(q)
  <2>1. \/ PlannedPoll(p) \/ RequestedPoll(p) \/ ServicePoll(p) \/ Served(p)
        \/ PollSucceeds(p) \/ PollLimited(p) \/ PollRefused(p) \/ PollFails(p)
    BY <1>9
  <2> QED
    BY <1>1, <1>3, <1>4, <1>5, <1>8, <2>1 DEF PlannedPoll, RequestedPoll, ServicePoll
<1> QED
  BY <1>6, <1>7, <1>9 DEF Next

\* While polls come one at a time, an interval that a pause of the cloud stretched does not
\* outlive the pause (_async_update_data() and _rate_limited_failure() in coordinator.py).
\* Two that overlap, by the service sberhome.refresh, can carry it over.
THEOREM SteadyOneByOne ==
    ASSUME NEW p, Polls = {p}
    PROVE  Spec => SteadyPace
<1>1. Init => SteadyInv(p)
  BY DEF Init, SteadyInv, Off
<1>2. IInv /\ SteadyInv(p) /\ [Next]_vars => SteadyInv(p)'
  BY SteadyNext
<1>3. IInv /\ SteadyInv(p) /\ [Next]_vars =>
          [window' = 0 /\ timer' > timer => timer' \in {UserInterval, PushInterval}]_vars
  BY SteadyNext
<1> QED
  BY <1>1, <1>2, <1>3, Invariant, PTL DEF Spec, SteadyPace

\* So it is with the WebSocket as it is.
THEOREM CoupledSteady ==
    ASSUME NEW p, Polls = {p}
    PROVE  CoupledSpec => SteadyPace
BY SteadyOneByOne, ImplementsPolling, PTL
=============================================================================
