----------------------------- MODULE Surrogates -----------------------------
(***************************************************************************)
(* Announcements through a scenario of the home: TtsSurrogateService and   *)
(* TtcSurrogateService edit one surrogate scenario, then run it, under a   *)
(* lock per home; the status command of the panel corrects the cached id   *)
(* without the lock (websocket_api/tts_surrogate.py, ttc_surrogate.py).    *)
(* One home, where a surrogate of the other kind may exist already.  The   *)
(* kinds share the cloud's list and nothing else.                          *)
(***************************************************************************)
EXTENDS Integers, Sequences

CONSTANTS
    Callers,    \* notify entities, panel and scripts
    Kind,       \* which service a caller uses: "tts" or "ttc"
    NoCaller,
    Blank,      \* the text of the boilerplate
    MaxId       \* scenarios the cloud creates

VARIABLES
    cloud,      \* per scenario id: its kind and text, or Deleted
    cache,      \* tts_surrogates, ttc_surrogates of the home: an id or 0
    lock,       \* _home_locks: who holds it
    pc,         \* per caller: the await it stands at
    job,        \* send() or get_surrogate_id()
    sid,        \* scenario_id
    again,      \* the second attempt after "gone"
    look,       \* the panel's list request: none, asked, or its answer
    stray,      \* PUTs given up by the client that the cloud may still serve: one at a time
    mixed       \* history: such a PUT was served

surrogateVars == <<cloud, cache, lock, pc, job, sid, again, look, stray, mixed>>

Kinds   == {Kind[c] : c \in Callers}
Ids     == 1 .. MaxId
Deleted == [kind |-> "none", text |-> Blank]
NotAsked == -2
Asked   == -1

Init ==
    /\ cloud \in {<<>>, <<[kind |-> "ttc", text |-> Blank]>>}
    /\ cache = [k \in Kinds |-> 0]
    /\ lock = [k \in Kinds |-> NoCaller]
    /\ pc = [c \in Callers |-> "idle"]
    /\ job = [c \in Callers |-> "send"]
    /\ sid = [c \in Callers |-> 0]
    /\ again = [c \in Callers |-> FALSE]
    /\ look = [k \in Kinds |-> NotAsked]
    /\ stray = {} /\ mixed = FALSE

\* Mutant: the home's mark alone is looked for, which both kinds bear.
MatchesMark(i, k) == cloud[i].kind # "none"

\* match_surrogate(): the name has the kind's prefix and the home's mark.
Matches(i, k) == cloud[i].kind = k

\* scenarios.list(), then the first match; 0 for none
Found(k) ==
    LET matching == {i \in DOMAIN cloud : Matches(i, k)}
    IN  IF matching = {} THEN 0 ELSE CHOOSE i \in matching : \A j \in matching : i <= j

Goto(c, place) == pc' = [pc EXCEPT ![c] = place]

\* Mutant: the lock is given back before the run.
LeavesEarly(c) ==
    lock' = [lock EXCEPT ![Kind[c]] = IF pc[c] = "updated" THEN NoCaller ELSE @]

\* The lock spans PUT and RUN.
KeepsLock(c) == UNCHANGED lock

\* The end of the call, by return or exception, gives the lock back.
Leave(c) ==
    /\ Goto(c, "idle")
    /\ again' = [again EXCEPT ![c] = FALSE]
    /\ lock' = [k \in Kinds |-> IF lock[k] = c THEN NoCaller ELSE lock[k]]

\* With the id at hand: send() edits, get_surrogate_id() returns.
Ready(c, id) ==
    /\ sid' = [sid EXCEPT ![c] = id]
    /\ IF job[c] = "send" THEN Goto(c, "update") /\ UNCHANGED <<lock, again>> ELSE Leave(c)

\* get_surrogate_id() returns a cached id without the lock.
Call(c) ==
    /\ pc[c] = "idle"
    /\ \E j \in {"send", "ensure"} :
        /\ j = "ensure" => cache[Kind[c]] = 0
        /\ job' = [job EXCEPT ![c] = j]
    /\ Goto(c, "wait")
    /\ UNCHANGED <<cloud, cache, lock, sid, again, look, stray, mixed>>

\* _get_or_create_surrogate_locked(), once the lock is free
Acquire(c) ==
    /\ pc[c] = "wait" /\ lock[Kind[c]] = NoCaller
    /\ LET id == cache[Kind[c]] IN
        IF id # 0 /\ job[c] = "ensure" THEN Leave(c) /\ UNCHANGED sid
        ELSE /\ lock' = [lock EXCEPT ![Kind[c]] = c]
             /\ IF id # 0 THEN Goto(c, "update") /\ sid' = [sid EXCEPT ![c] = id]
                ELSE Goto(c, "list") /\ UNCHANGED sid
             /\ UNCHANGED again
    /\ UNCHANGED <<cloud, cache, job, look, stray, mixed>>

ServeList(c) ==
    /\ pc[c] = "list"
    /\ sid' = [sid EXCEPT ![c] = Found(Kind[c])]
    /\ Goto(c, "listed")
    /\ UNCHANGED <<cloud, cache, lock, job, again, look, stray, mixed>>

Listed(c) ==
    /\ pc[c] = "listed"
    /\ IF sid[c] = 0
       THEN Goto(c, "create") /\ UNCHANGED <<cache, lock, sid, again>>
       ELSE cache' = [cache EXCEPT ![Kind[c]] = sid[c]] /\ Ready(c, sid[c])
    /\ UNCHANGED <<cloud, job, look, stray, mixed>>

ServeCreate(c) ==
    /\ pc[c] = "create" /\ Len(cloud) < MaxId
    /\ cloud' = Append(cloud, [kind |-> Kind[c], text |-> Blank])
    /\ sid' = [sid EXCEPT ![c] = Len(cloud) + 1]
    /\ Goto(c, "created")
    /\ UNCHANGED <<cache, lock, job, again, look, stray, mixed>>

Created(c) ==
    /\ pc[c] = "created"
    /\ cache' = [cache EXCEPT ![Kind[c]] = sid[c]]
    /\ Ready(c, sid[c])
    /\ UNCHANGED <<cloud, job, look, stray, mixed>>

\* scenarios.update(): a scenario that is gone is refused with 401, 403 or 404,
\* and so may be one that exists when the login fails.
ServeUpdate(c) ==
    /\ pc[c] = "update"
    /\ \/ /\ cloud[sid[c]] # Deleted
          /\ cloud' = [cloud EXCEPT ![sid[c]].text = c]
          /\ Goto(c, "updated")
       \/ Goto(c, "gone") /\ UNCHANGED cloud
    /\ UNCHANGED <<cache, lock, job, sid, again, look, stray, mixed>>

Updated(c) ==
    /\ pc[c] = "updated"
    /\ Goto(c, "run")
    /\ KeepsLock(c)
    /\ UNCHANGED <<cloud, cache, job, sid, again, look, stray, mixed>>

\* The id is forgotten and everything is tried once more.
Gone(c) ==
    /\ pc[c] = "gone"
    /\ IF again[c] THEN Leave(c) /\ UNCHANGED cache
       ELSE /\ cache' = [cache EXCEPT ![Kind[c]] = 0]
            /\ again' = [again EXCEPT ![c] = TRUE]
            /\ Goto(c, "list")
            /\ UNCHANGED lock
    /\ UNCHANGED <<cloud, job, sid, look, stray, mixed>>

\* POST /run: the speakers say the text of the scenario, if it still exists.
ServeRun(c) ==
    /\ pc[c] = "run"
    /\ Goto(c, "ran")
    /\ UNCHANGED <<cloud, cache, lock, job, sid, again, look, stray, mixed>>

Ran(c) ==
    /\ pc[c] = "ran"
    /\ Leave(c)
    /\ UNCHANGED <<cloud, cache, job, sid, look, stray, mixed>>

\* A request fails, unserved or with its answer lost.  A PUT that the client has
\* given up may yet be served; a POST is served before the client gives it up, or never.
Fails(c) ==
    /\ pc[c] \notin {"idle", "wait", "gone"}
    /\ Leave(c)
    /\ stray' = IF pc[c] = "update" /\ stray = {} THEN {<<c, sid[c]>>} ELSE stray
    /\ UNCHANGED <<cloud, cache, job, sid, look, mixed>>

LateUpdate ==
    /\ \E s \in stray :
        /\ stray' = stray \ {s}
        /\ cloud' = IF cloud[s[2]] = Deleted THEN cloud
                    ELSE [cloud EXCEPT ![s[2]].text = s[1]]
    /\ mixed' = TRUE
    /\ UNCHANGED <<cache, lock, pc, job, sid, again, look>>

\* The user deletes a surrogate in the Sber app.
UserDeletes ==
    /\ \E i \in DOMAIN cloud : cloud[i] # Deleted /\ cloud' = [cloud EXCEPT ![i] = Deleted]
    /\ UNCHANGED <<cache, lock, pc, job, sid, again, look, stray, mixed>>

\* sberhome/tts_surrogate/status: the answer replaces the cached id, without the
\* lock; when the list fails, the cache stays.
Look(k) ==
    /\ look[k] = NotAsked
    /\ look' = [look EXCEPT ![k] = Asked]
    /\ UNCHANGED <<cloud, cache, lock, pc, job, sid, again, stray, mixed>>

ServeLook(k) ==
    /\ look[k] = Asked
    /\ look' = [look EXCEPT ![k] = Found(k)]
    /\ UNCHANGED <<cloud, cache, lock, pc, job, sid, again, stray, mixed>>

Looked(k) ==
    /\ look[k] >= 0
    /\ cache' = [cache EXCEPT ![k] = look[k]]
    /\ look' = [look EXCEPT ![k] = NotAsked]
    /\ UNCHANGED <<cloud, lock, pc, job, sid, again, stray, mixed>>

LookFails(k) ==
    /\ look[k] = Asked
    /\ look' = [look EXCEPT ![k] = NotAsked]
    /\ UNCHANGED <<cloud, cache, lock, pc, job, sid, again, stray, mixed>>

Next ==
    \/ \E c \in Callers :
        \/ Call(c) \/ Acquire(c)
        \/ ServeList(c) \/ Listed(c) \/ ServeCreate(c) \/ Created(c)
        \/ ServeUpdate(c) \/ Updated(c) \/ Gone(c) \/ ServeRun(c) \/ Ran(c)
        \/ Fails(c)
    \/ LateUpdate \/ UserDeletes
    \/ \E k \in Kinds : Look(k) \/ ServeLook(k) \/ Looked(k) \/ LookFails(k)

Spec == Init /\ [][Next]_surrogateVars

-------------------------------------------------------------------------------

\* What a caller's run makes the speakers do is the caller's own text, not that
\* of another announcement between its PUT and its run, nor a text of the other
\* kind (an announcement executed as a command), unless a PUT that was given up
\* came late.
SpeaksItsOwn ==
    \A c \in Callers :
        pc[c] = "run" /\ ~mixed /\ cloud[sid[c]] # Deleted
        => cloud[sid[c]] = [kind |-> Kind[c], text |-> c]

\* However calls, failures, refusals, deletions and the panel's look meet, the
\* account never collects two surrogates of one kind for the home.
OneSurrogate ==
    \A k \in Kinds, i, j \in DOMAIN cloud : Matches(i, k) /\ Matches(j, k) => i = j
===============================================================================
