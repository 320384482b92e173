-------------------------- MODULE IntentDispatchProofs --------------------------
(***************************************************************************)
(* Proofs about IntentDispatch for any finite number of homes, any number  *)
(* of events and any limits: the types, that nothing historical fires,     *)
(* that an event fires at most once, that no cursor passes over an event,  *)
(* and that a push during a pass is served.                                *)
(***************************************************************************)
EXTENDS IntentDispatch, FiniteSetTheorems, WellFoundedInduction, TLAPS

\* What a home lists is listed there by the cloud.
LogInv == \A h \in Homes : \A n \in log[h] : h \in lists[n]

\* An answer holds listed events only.
ReplyInv == at # NoHome => reply.events \subseteq log[at]

\* Only what has happened was fired, and only what was fired is in the memory.
FiredInv ==
    \A n \in EventIds : /\ fired[n] > 0 => n <= clock
                        /\ order[n] > 0 => fired[n] > 0

\* A cursor is never before the start of the integration.
CursorInv == \A h \in Homes : cursor[h] = None \/ startedAt <= cursor[h]

InMemory == {n \in EventIds : order[n] > 0}

\* The memory was appended every event fired since the start and, while it is
\* never full, each of them once.
MemoryInv ==
    /\ \A n \in EventIds : fired[n] > 0 /\ startedAt < n => order[n] > 0
    /\ MaxEvents <= DedupHistory => fires = Cardinality(InMemory)

\* An event of one home was fired by the pass that moved that home's cursor.
SingleInv ==
    \A n \in EventIds : \A h \in lists[n] :
        fired[n] > 0 /\ Cardinality(lists[n]) <= 1 => n <= startedAt \/ n <= cursor[h]

\* An event listed in order is in the log, of a home that has a cursor.
DueInv ==
    \A h \in Homes, n \in EventIds :
        <<h, n>> \in due => n \in log[h] /\ cursor[h] # None

\* An answer with a newer event has the one that is due, unless it is buried.
OrderInv ==
    at # NoHome =>
        \A n \in EventIds : <<at, n>> \in due =>
            \A m \in reply.events : n < m => n \in reply.events \/ Buried(at, n)

\* A push is heard for events that are listed.
HeardInv == \A h \in Homes, n \in EventIds : <<h, n>> \in heard => n \in log[h]

\* What the worker still has to bring was announced by a push: its home is
\* ahead in this pass, or being read, or another pass follows.
Underway(h, n) ==
    /\ at # NoHome
    /\ \/ pending
       \/ h \in todo
       \/ at = h /\ (reply.served => n \in reply.events)

WorkInv ==
    \A h \in Homes, n \in EventIds :
        <<h, n>> \in heard \cap due => fired[n] > 0 \/ Buried(h, n) \/ Underway(h, n)

FiringInv == FiredInv /\ CursorInv /\ MemoryInv /\ SingleInv /\ AtMostOnce
ReadingInv == LogInv /\ ReplyInv /\ DueInv /\ OrderInv /\ NonePassedOver /\ HeardInv /\ WorkInv

IInv == TypeOK /\ FiringInv /\ ReadingInv

-------------------------------------------------------------------------------
(* Finite sets *)

\* A set of at most one element has no two.
LEMMA AtMostOneElement ==
    ASSUME NEW S, IsFiniteSet(S), Cardinality(S) <= 1, NEW x \in S, NEW y \in S
    PROVE  x = y
<1>1. Cardinality(S \ {x}) = Cardinality(S) - 1 /\ IsFiniteSet(S \ {x})
  BY FS_RemoveElement
<1>2. Cardinality(S) \in Nat /\ Cardinality(S \ {x}) \in Nat
  BY <1>1, FS_CardinalityType
<1>3. Cardinality(S \ {x}) = 0
  BY <1>1, <1>2
<1>4. S \ {x} = {}
  BY <1>1, <1>3, FS_EmptySet
<1> QED
  BY <1>4

\* A finite set of numbers that is not empty has a largest one: the number with
\* the fewest above it.
LEMMA LargestExists ==
    ASSUME NEW S, S \subseteq Int, IsFiniteSet(S), S # {}
    PROVE  \E n \in S : \A m \in S : m <= n
<1> DEFINE Above(n) == {m \in S : n < m}
           T == {Above(n) : n \in S}
<1>1. IsWellFoundedOn(StrictSubsetOrdering(S), FiniteSubsetsOf(S))
  BY FS_StrictSubsetOrderingWellFounded
<1>2. \A n \in S : Above(n) \in FiniteSubsetsOf(S)
  <2> SUFFICES ASSUME NEW n \in S PROVE Above(n) \in FiniteSubsetsOf(S)
    OBVIOUS
  <2>1. Above(n) \in SUBSET S
    OBVIOUS
  <2>2. IsFiniteSet(Above(n))
    BY <2>1, FS_Subset
  <2> QED
    BY <2>1, <2>2 DEF FiniteSubsetsOf
<1>3. T \subseteq FiniteSubsetsOf(S) /\ T # {}
  BY <1>2
<1>4. PICK x \in T : \A y \in T : ~ (<<y, x>> \in StrictSubsetOrdering(S))
  <2> HIDE DEF T
  <2> QED
    BY <1>1, <1>3, WFMin
<1>5. PICK n \in S : x = Above(n)
  BY <1>4
<1>6. ASSUME NEW m \in S, n < m PROVE FALSE
  <2>1. Above(m) \subseteq Above(n) /\ Above(m) # Above(n)
    <3>1. m \in Above(n) /\ m \notin Above(m)
      BY <1>6
    <3>2. \A k \in Above(m) : k \in Above(n)
      BY <1>6
    <3> QED
      BY <3>1, <3>2
  <2>2. <<Above(m), Above(n)>> \in StrictSubsetOrdering(S)
    BY <2>1 DEF StrictSubsetOrdering
  <2>3. Above(m) \in T
    OBVIOUS
  <2> QED
    BY <1>4, <1>5, <2>2, <2>3
<1> QED
  BY <1>6

\* The events of a log above one of them only become more.
LEMMA EventsFinite ==
    ASSUME NEW S, S \subseteq EventIds
    PROVE  IsFiniteSet(S) /\ Cardinality(S) \in Nat /\ Cardinality(S) <= MaxEvents
<1>1. IsFiniteSet(EventIds) /\ Cardinality(EventIds) = MaxEvents
  BY BoundsAssumption, FS_Interval DEF EventIds
<1>2. IsFiniteSet(S) /\ Cardinality(S) <= MaxEvents
  BY <1>1, FS_Subset
<1> QED
  BY <1>2, FS_CardinalityType

LEMMA CardinalityGrows ==
    ASSUME NEW S, NEW T, S \subseteq T, T \subseteq EventIds
    PROVE  Cardinality(S) <= Cardinality(T)
<1>1. IsFiniteSet(T)
  BY EventsFinite
<1> QED
  BY <1>1, FS_Subset

LEMMA LogEvents ==
    ASSUME TypeOK, NEW h \in Homes
    PROVE  log[h] \subseteq 1 .. clock /\ log[h] \subseteq EventIds /\ clock \in 0 .. MaxEvents
<1>1. clock \in 0 .. MaxEvents /\ log[h] \subseteq 1 .. clock
  BY DEF TypeOK
<1>2. 1 .. clock \subseteq 1 .. MaxEvents
  BY <1>1, BoundsAssumption
<1> QED
  BY <1>1, <1>2 DEF EventIds

\* What has buried an event keeps it buried while the log grows.
LEMMA BuriedStays ==
    ASSUME TypeOK, TypeOK', NEW h \in Homes, NEW n \in EventIds,
           log[h] \subseteq log'[h], Buried(h, n)
    PROVE  Buried(h, n)'
<1> DEFINE S == {m \in log[h] : n < m}
           T == {m \in log'[h] : n < m}
<1>1. S \subseteq T
  OBVIOUS
<1>2. clock' \in 0 .. MaxEvents /\ log'[h] \subseteq 1 .. clock'
  BY DEF TypeOK
<1>3. T \subseteq EventIds
  BY <1>2, BoundsAssumption DEF EventIds
<1>4. Cardinality(S) <= Cardinality(T)
  BY <1>1, <1>3, CardinalityGrows
<1>5. Cardinality(S) \in Nat /\ Cardinality(T) \in Nat
  BY <1>1, <1>3, EventsFinite
<1> QED
  BY <1>4, <1>5, LimitsAssumption DEF Buried

-------------------------------------------------------------------------------
(* The worker's moves *)

\* A request leaves a worker at a home, with nothing answered, or another pass.
LEMMA RequestMoves ==
    ASSUME TypeOK, RequestDispatch
    PROVE  /\ pending' \in BOOLEAN /\ at' \in Homes /\ todo' \subseteq Homes
           /\ reply' \in Replies
           /\ \/ at = NoHome /\ reply' = Unserved /\ \A h \in Homes : h = at' \/ h \in todo'
              \/ at # NoHome /\ pending' = TRUE /\ at' = at /\ reply' = reply
<1>1. Unserved \in Replies
  BY DEF Unserved, Replies
<1>2. CASE at = NoHome
  BY <1>1, <1>2 DEF RequestDispatch, BeginPass, Read
<1>3. CASE at # NoHome
  BY <1>3 DEF RequestDispatch, TypeOK
<1> QED
  BY <1>2, <1>3

\* After a home the worker has no answer; what was left to read is still ahead,
\* another pass reads every home, and it ends only with nothing left.
LEMMA NextHomeMoves ==
    ASSUME TypeOK, at # NoHome, NextHome
    PROVE  /\ pending' \in BOOLEAN /\ at' \in Homes \cup {NoHome} /\ todo' \subseteq Homes
           /\ reply' = Unserved
           /\ at' = NoHome => ~pending' /\ todo' = {} /\ ~pending /\ todo = {}
           /\ at' # NoHome => \/ pending' = pending /\ \A h \in todo : h = at' \/ h \in todo'
                              \/ \A h \in Homes : h = at' \/ h \in todo'
<1>1. CASE \E h \in todo : Read(h, todo \ {h}) /\ UNCHANGED pending
  BY <1>1, HomesAssumption DEF Read, TypeOK
<1>2. CASE todo = {} /\ pending /\ BeginPass
  BY <1>2, HomesAssumption DEF BeginPass, Read, TypeOK
<1>3. CASE todo = {} /\ ~pending /\ at' = NoHome /\ reply' = Unserved /\ UNCHANGED <<pending, todo>>
  BY <1>3 DEF TypeOK
<1> QED
  BY <1>1, <1>2, <1>3 DEF NextHome

LEMMA UnservedTypes == Unserved \in Replies /\ Unserved.events = {} /\ ~Unserved.served
  BY DEF Unserved, Replies

-------------------------------------------------------------------------------
(* The invariant *)

LEMMA InitIInv == Init => IInv
<1> SUFFICES ASSUME Init PROVE IInv
  OBVIOUS
<1> USE BoundsAssumption, LimitsAssumption, HomesAssumption
<1>1. TypeOK
  <2>1. cursor \in [Homes -> (0 .. clock) \cup {None}] /\ log \in [Homes -> SUBSET (1 .. clock)]
    BY DEF Init
  <2>2. /\ clock \in 0 .. MaxEvents /\ fires \in Nat
        /\ startedAt \in 0 .. clock /\ restarts \in 0 .. MaxRestarts
    BY DEF Init
  <2>3. /\ lists \in [EventIds -> SUBSET Homes] /\ pushes \in [EventIds -> 0 .. PushCopies]
        /\ order \in [EventIds -> Nat] /\ fired \in [EventIds -> Nat]
    BY DEF Init
  <2> QED
    BY <2>1, <2>2, <2>3, UnservedTypes DEF Init, TypeOK
<1>2. LogInv /\ ReplyInv /\ DueInv /\ OrderInv /\ NonePassedOver /\ HeardInv /\ WorkInv
  BY DEF Init, LogInv, ReplyInv, DueInv, OrderInv, NonePassedOver, HeardInv, WorkInv
<1>3. FiredInv /\ CursorInv /\ SingleInv /\ AtMostOnce
  BY DEF Init, FiredInv, CursorInv, SingleInv, AtMostOnce
<1>4. MemoryInv
  <2>1. InMemory = {}
    BY DEF Init, InMemory
  <2> QED
    BY <2>1, FS_EmptySet DEF Init, MemoryInv
<1> QED
  BY <1>1, <1>2, <1>3, <1>4 DEF IInv, FiringInv, ReadingInv

-------------------------------------------------------------------------------
(* Types *)

LEMMA ScenarioTypes ==
    ASSUME TypeOK, NEW H \in SUBSET Homes, ScenarioRuns(H)
    PROVE  TypeOK'
<1> USE BoundsAssumption DEF ScenarioRuns, memory, worker, history
<1>1. clock \in Nat /\ clock' = clock + 1 /\ clock' \in 0 .. MaxEvents /\ clock' \in EventIds
  BY DEF TypeOK, EventIds
<1>2. lists' \in [EventIds -> SUBSET Homes] /\ pushes' \in [EventIds -> 0 .. PushCopies]
  BY <1>1 DEF TypeOK
<1>3. log' \in [Homes -> SUBSET (1 .. clock')]
  <2>1. 1 .. clock \subseteq 1 .. clock'
    BY <1>1
  <2> QED
    BY <2>1 DEF TypeOK
<1>4. cursor' \in [Homes -> (0 .. clock') \cup {None}] /\ startedAt' \in 0 .. clock'
  <2>1. 0 .. clock \subseteq 0 .. clock'
    BY <1>1
  <2> QED
    BY <2>1 DEF TypeOK
<1> QED
  BY <1>1, <1>2, <1>3, <1>4 DEF TypeOK

LEMMA ListedTypes ==
    ASSUME TypeOK, NEW h \in Homes, NEW n \in EventIds, Listed(h, n)
    PROVE  TypeOK'
<1> USE DEF Listed, memory, worker
<1>1. n \in 1 .. clock
  BY BoundsAssumption DEF TypeOK, EventIds
<1>2. log' \in [Homes -> SUBSET (1 .. clock)]
  BY <1>1 DEF TypeOK
<1>3. due' \subseteq Listings
  BY DEF TypeOK, Listings
<1> QED
  BY <1>2, <1>3 DEF TypeOK

LEMMA RestartTypes ==
    ASSUME TypeOK, Restart
    PROVE  TypeOK'
<1> USE BoundsAssumption DEF Restart
<1>1. restarts' \in 0 .. MaxRestarts /\ startedAt' \in 0 .. clock' /\ fires' \in Nat
  BY DEF TypeOK
<1>2. /\ pushes' \in [EventIds -> 0 .. PushCopies] /\ order' \in [EventIds -> Nat]
      /\ cursor' \in [Homes -> (0 .. clock') \cup {None}]
  BY DEF TypeOK
<1> QED
  BY <1>1, <1>2, UnservedTypes DEF TypeOK

\* What the connection, the clock of the poller and the cloud's answer change.
LEMMA QuietTypes ==
    ASSUME TypeOK, \/ Connect \/ Disconnect \/ PushSilence \/ \E h \in Homes : Serve(h)
    PROVE  TypeOK'
<1> USE BoundsAssumption DEF world, memory, worker, history
<1>1. CASE Connect
  BY <1>1 DEF Connect, TypeOK
<1>2. CASE Disconnect
  <2>1. pushes' \in [EventIds -> 0 .. PushCopies]
    BY <1>2 DEF Disconnect
  <2> QED
    BY <1>2, <2>1 DEF Disconnect, TypeOK
<1>3. CASE PushSilence
  BY <1>3 DEF PushSilence, TypeOK
<1>4. ASSUME NEW h \in Homes, Serve(h) PROVE TypeOK'
  <2>1. Newest(log[h]) \subseteq EventIds
    BY LogEvents DEF Newest
  <2>2. reply' \in Replies
    BY <1>4, <2>1 DEF Serve, Replies
  <2>3. at' = h /\ h # NoHome
    BY <1>4 DEF Serve
  <2> QED
    BY <1>4, <2>2, <2>3 DEF Serve, TypeOK
<1> QED
  BY <1>1, <1>2, <1>3, <1>4

LEMMA RequestTypes ==
    ASSUME TypeOK, PollerAsks \/ \E n \in EventIds : DeliverPush(n)
    PROVE  TypeOK'
<1> USE DEF world, memory, worker, history
<1>1. CASE PollerAsks
  BY <1>1, RequestMoves, HomesAssumption DEF PollerAsks, TypeOK
<1>2. ASSUME NEW n \in EventIds, DeliverPush(n) PROVE TypeOK'
  <2>1. pushes' \in [EventIds -> 0 .. PushCopies]
    <3>1. pushes[n] - 1 \in 0 .. PushCopies
      BY <1>2, BoundsAssumption DEF DeliverPush, TypeOK
    <3> QED
      BY <1>2, <3>1 DEF DeliverPush, TypeOK
  <2>2. heard' \subseteq Listings
    BY <1>2 DEF DeliverPush, TypeOK, Listings
  <2>3. RequestDispatch
    BY <1>2 DEF DeliverPush
  <2>4. at' # NoHome
    BY <2>3, RequestMoves, HomesAssumption
  <2> QED
    BY <1>2, <2>1, <2>2, <2>3, <2>4, RequestMoves DEF DeliverPush, TypeOK
<1> QED
  BY <1>1, <1>2

LEMMA FetchFailsTypes ==
    ASSUME TypeOK, FetchFails
    PROVE  TypeOK'
<1>1. heard' \subseteq Listings
  BY DEF FetchFails, TypeOK
<1>2. /\ pending' \in BOOLEAN /\ at' \in Homes \cup {NoHome} /\ todo' \subseteq Homes
      /\ reply' = Unserved /\ (at' = NoHome => ~pending' /\ todo' = {})
  BY NextHomeMoves DEF FetchFails
<1> QED
  BY <1>1, <1>2, UnservedTypes DEF FetchFails, TypeOK, world, memory

-------------------------------------------------------------------------------
(* One answer fired *)

\* The events of the answer that are fired.
Batch == {n \in NewEvents(at, reply.events) : ~Remembered(n)}

LEMMA DispatchSteps ==
    ASSUME Dispatch
    PROVE  /\ at # NoHome /\ reply.served /\ NextHome
           /\ fired' = [n \in EventIds |-> fired[n] + IF n \in Batch THEN 1 ELSE 0]
           /\ order' = [n \in EventIds |->
                            IF n \in Batch
                            THEN fires + Cardinality({m \in Batch : n <= m})
                            ELSE order[n]]
           /\ fires' = fires + Cardinality(Batch)
           /\ cursor' = [cursor EXCEPT ![at] = CursorAfter(at, Batch)]
           /\ UNCHANGED <<world, healthy, history>>
  BY DEF Dispatch, Batch

\* The batch holds events of the home's log that are after its cursor.
LEMMA BatchFacts ==
    ASSUME TypeOK, ReplyInv, at # NoHome
    PROVE  /\ at \in Homes /\ IsFiniteSet(Batch)
           /\ Batch \subseteq EventIds /\ Batch \subseteq reply.events
           /\ Batch \subseteq log[at] /\ Batch \subseteq 1 .. clock
           /\ cursor[at] = None => Batch = {}
           /\ cursor[at] # None => \A n \in Batch : cursor[at] < n
           /\ \A n \in Batch : ~Remembered(n)
           /\ cursor[at] # None =>
                \A n \in reply.events : cursor[at] < n => n \in Batch \/ Remembered(n)
<1>1. at \in Homes
  BY DEF TypeOK
<1>2. Batch \subseteq reply.events /\ reply.events \subseteq log[at]
  BY DEF Batch, NewEvents, ReplyInv
<1>3. log[at] \subseteq 1 .. clock /\ log[at] \subseteq EventIds
  BY <1>1, LogEvents
<1>4. IsFiniteSet(Batch)
  BY <1>2, <1>3, EventsFinite
<1> QED
  BY <1>1, <1>2, <1>3, <1>4 DEF Batch, NewEvents

\* The cursor moves to the newest event of the batch, and never back.
LEMMA CursorMoves ==
    ASSUME TypeOK, ReplyInv, Dispatch
    PROVE  /\ CursorAfter(at, Batch) \in 0 .. clock
           /\ \A n \in Batch : n <= CursorAfter(at, Batch)
           /\ cursor[at] = None => CursorAfter(at, Batch) = clock
           /\ cursor[at] # None => /\ cursor[at] <= CursorAfter(at, Batch)
                                   /\ \/ CursorAfter(at, Batch) = cursor[at]
                                      \/ CursorAfter(at, Batch) \in Batch
<1>1. at # NoHome
  BY DEF Dispatch
<1>2. cursor[at] \in (0 .. clock) \cup {None} /\ clock \in Nat
  BY <1>1, BoundsAssumption DEF TypeOK
<1>3. CASE cursor[at] = None
  BY <1>1, <1>2, <1>3, BatchFacts DEF CursorAfter
<1>4. CASE cursor[at] # None /\ Batch = {}
  BY <1>2, <1>4 DEF CursorAfter
<1>5. CASE cursor[at] # None /\ Batch # {}
  <2>1. Batch \subseteq Int /\ IsFiniteSet(Batch)
    BY <1>1, <1>2, BatchFacts
  <2>2. \E n \in Batch : \A m \in Batch : m <= n
    BY <1>5, <2>1, LargestExists
  <2>3. CursorAfter(at, Batch) = CHOOSE n \in Batch : \A m \in Batch : m <= n
    BY <1>5 DEF CursorAfter
  <2>4. CursorAfter(at, Batch) \in Batch /\ \A m \in Batch : m <= CursorAfter(at, Batch)
    BY <2>2, <2>3
  <2>5. Batch \subseteq 1 .. clock /\ \A n \in Batch : cursor[at] < n
    BY <1>1, <1>5, BatchFacts
  <2>6. CursorAfter(at, Batch) \in 1 .. clock /\ cursor[at] < CursorAfter(at, Batch)
    BY <2>4, <2>5
  <2>7. CursorAfter(at, Batch) \in 0 .. clock /\ cursor[at] <= CursorAfter(at, Batch)
    BY <1>2, <1>5, <2>6
  <2> QED
    BY <1>5, <2>4, <2>7
<1> QED
  BY <1>3, <1>4, <1>5

LEMMA DispatchTypes ==
    ASSUME TypeOK, ReplyInv, Dispatch
    PROVE  TypeOK'
<1>1. at # NoHome /\ at \in Homes
  BY DispatchSteps DEF TypeOK
<1>2. Cardinality(Batch) \in Nat /\ \A n \in EventIds : Cardinality({m \in Batch : n <= m}) \in Nat
  BY <1>1, BatchFacts, EventsFinite
<1>3. fired' \in [EventIds -> Nat] /\ order' \in [EventIds -> Nat] /\ fires' \in Nat
  <2>1. fires' \in Nat
    BY <1>2, DispatchSteps DEF TypeOK
  <2>2. \A n \in EventIds : fired[n] + (IF n \in Batch THEN 1 ELSE 0) \in Nat
    BY DEF TypeOK
  <2>3. \A n \in EventIds : fires + Cardinality({m \in Batch : n <= m}) \in Nat /\ order[n] \in Nat
    BY <1>2 DEF TypeOK
  <2> QED
    BY <2>1, <2>2, <2>3, DispatchSteps
<1>4. cursor' \in [Homes -> (0 .. clock) \cup {None}]
  BY <1>1, CursorMoves, DispatchSteps DEF TypeOK
<1>5. /\ pending' \in BOOLEAN /\ at' \in Homes \cup {NoHome} /\ todo' \subseteq Homes
      /\ reply' = Unserved /\ (at' = NoHome => ~pending' /\ todo' = {})
  BY <1>1, NextHomeMoves, DispatchSteps
<1> QED
  BY <1>3, <1>4, <1>5, UnservedTypes, DispatchSteps DEF TypeOK, world, history

\* What is fired was fired for the first time, if one home lists it or the
\* memory of ids is never full.
LEMMA FreshEvents ==
    ASSUME TypeOK, FiringInv, LogInv, ReplyInv, at # NoHome, NEW n \in Batch
    PROVE  /\ startedAt < n
           /\ MaxEvents <= DedupHistory => order[n] = 0
           /\ Cardinality(lists[n]) <= 1 \/ MaxEvents <= DedupHistory => fired[n] = 0
<1>1. /\ n \in EventIds /\ n \in log[at] /\ at \in Homes /\ cursor[at] # None
      /\ cursor[at] < n /\ ~Remembered(n)
  BY BatchFacts
<1>2. n \in Nat /\ cursor[at] \in Nat /\ startedAt \in Nat /\ clock \in Nat
  BY <1>1, BoundsAssumption DEF TypeOK, EventIds
<1>3. order[n] \in Nat /\ fired[n] \in Nat /\ fires \in Nat
  BY <1>1 DEF TypeOK
<1>4. startedAt < n
  BY <1>1, <1>2 DEF FiringInv, CursorInv
<1>5. fired[n] > 0 => order[n] > 0
  BY <1>1, <1>4 DEF FiringInv, MemoryInv
<1>6. MaxEvents <= DedupHistory => order[n] = 0
  <2> SUFFICES ASSUME MaxEvents <= DedupHistory, order[n] > 0 PROVE FALSE
    BY <1>3
  <2>1. fires = Cardinality(InMemory)
    BY DEF FiringInv, MemoryInv
  <2>2. Cardinality(InMemory) <= MaxEvents
    BY EventsFinite DEF InMemory
  <2>3. fires - DedupHistory <= 0
    BY <1>3, <2>1, <2>2, BoundsAssumption, LimitsAssumption
  <2>4. order[n] > fires - DedupHistory
    BY <1>3, <2>3, LimitsAssumption
  <2> QED
    BY <1>1, <2>4 DEF Remembered
<1>7. Cardinality(lists[n]) <= 1 => fired[n] = 0
  <2> SUFFICES ASSUME Cardinality(lists[n]) <= 1, fired[n] > 0 PROVE FALSE
    BY <1>3
  <2>1. at \in lists[n]
    BY <1>1 DEF LogInv
  <2>2. n <= startedAt \/ n <= cursor[at]
    BY <1>1, <2>1 DEF FiringInv, SingleInv
  <2> QED
    BY <1>1, <1>2, <1>4, <2>2
<1> QED
  BY <1>3, <1>4, <1>5, <1>6, <1>7

-------------------------------------------------------------------------------
(* What was fired, and what the memory knows of it *)

LEMMA FiringFrame ==
    ASSUME FiringInv, UNCHANGED <<clock, lists, cursor, order, fires, fired, startedAt>>
    PROVE  FiringInv'
BY DEF FiringInv, FiredInv, CursorInv, MemoryInv, InMemory, SingleInv, AtMostOnce

LEMMA ScenarioFiring ==
    ASSUME TypeOK, FiringInv, NEW H \in SUBSET Homes, ScenarioRuns(H)
    PROVE  FiringInv'
<1> USE DEF FiringInv
<1>1. /\ clock' = clock + 1 /\ clock \in Nat
      /\ lists' = [lists EXCEPT ![clock + 1] = H]
      /\ UNCHANGED <<cursor, order, fires, fired, startedAt>>
  BY BoundsAssumption DEF ScenarioRuns, memory, history, TypeOK
<1>2. \A n \in EventIds : fired[n] > 0 => n <= clock /\ n # clock + 1
  BY <1>1 DEF FiredInv, EventIds
<1>3. \A n \in EventIds : n # clock + 1 => lists'[n] = lists[n]
  BY <1>1 DEF TypeOK
<1>4. \A n \in EventIds : fired[n] \in Nat
  BY DEF TypeOK
<1>5. FiredInv'
  BY <1>1, <1>2 DEF FiredInv, EventIds
<1>6. CursorInv' /\ MemoryInv'
  BY <1>1 DEF CursorInv, MemoryInv, InMemory
<1>7. SingleInv'
  BY <1>1, <1>2, <1>3 DEF SingleInv
<1>8. AtMostOnce'
  <2> SUFFICES ASSUME NEW n \in EventIds,
                      Cardinality(lists'[n]) <= 1 \/ MaxEvents <= DedupHistory
               PROVE  fired[n] <= 1
    BY <1>1 DEF AtMostOnce
  <2>1. CASE fired[n] = 0
    BY <2>1
  <2>2. CASE fired[n] > 0
    BY <1>2, <1>3, <2>2 DEF AtMostOnce
  <2> QED
    BY <1>4, <2>1, <2>2
<1> QED
  BY <1>5, <1>6, <1>7, <1>8

LEMMA RestartFiring ==
    ASSUME TypeOK, FiringInv, Restart
    PROVE  FiringInv'
<1> USE DEF FiringInv
<1>1. /\ UNCHANGED <<clock, lists, fired>> /\ startedAt' = clock /\ fires' = 0
      /\ cursor' = [h \in Homes |-> None] /\ order' = [n \in EventIds |-> 0]
  BY DEF Restart
<1>2. \A n \in EventIds : fired[n] > 0 => n <= clock
  BY DEF FiredInv
<1>3. clock \in Nat /\ EventIds \subseteq Nat
  BY BoundsAssumption DEF TypeOK, EventIds
<1>4. FiredInv' /\ CursorInv' /\ AtMostOnce'
  BY <1>1, <1>2 DEF FiredInv, CursorInv, AtMostOnce
<1>5. SingleInv'
  BY <1>1, <1>2 DEF SingleInv
<1>6. MemoryInv'
  <2>1. InMemory' = {}
    BY <1>1 DEF InMemory
  <2>2. Cardinality(InMemory') = 0
    BY <2>1, FS_EmptySet
  <2>3. \A n \in EventIds : ~ (fired'[n] > 0 /\ startedAt' < n)
    BY <1>1, <1>2, <1>3
  <2> QED
    BY <1>1, <2>2, <2>3 DEF MemoryInv
<1> QED
  BY <1>4, <1>5, <1>6

LEMMA DispatchFiring ==
    ASSUME TypeOK, FiringInv, LogInv, ReplyInv, Dispatch
    PROVE  FiringInv'
<1>1. /\ at # NoHome /\ at \in Homes
      /\ UNCHANGED <<clock, lists, startedAt>>
  BY DispatchSteps DEF TypeOK, world, history
<1>2. /\ Batch \subseteq EventIds /\ IsFiniteSet(Batch) /\ Batch \subseteq 1 .. clock
      /\ Batch \subseteq log[at]
  BY <1>1, BatchFacts
<1>3. /\ clock \in Nat /\ startedAt \in 0 .. clock /\ fires \in Nat /\ EventIds \subseteq Nat
      /\ \A n \in EventIds : fired[n] \in Nat /\ order[n] \in Nat
  BY BoundsAssumption DEF TypeOK, EventIds
<1>4. \A n \in EventIds : n \in Batch => fired'[n] = fired[n] + 1
  BY <1>3, DispatchSteps
<1>5. \A n \in EventIds : n \notin Batch => fired'[n] = fired[n] /\ order'[n] = order[n]
  <2>1. \A n \in EventIds : n \notin Batch => fired'[n] = fired[n]
    BY <1>3, DispatchSteps
  <2>2. \A n \in EventIds : n \notin Batch => order'[n] = order[n]
    BY DispatchSteps
  <2> QED
    BY <2>1, <2>2
<1>6. \A n \in Batch : order'[n] \in Nat /\ order'[n] > 0
  <2> SUFFICES ASSUME NEW n \in Batch PROVE order'[n] \in Nat /\ order'[n] > 0
    OBVIOUS
  <2> DEFINE Upto == {m \in Batch : n <= m}
  <2>1. n \in Upto
    BY <1>2, <1>3
  <2>2. IsFiniteSet(Upto) /\ Cardinality(Upto) \in Nat
    BY <1>2, EventsFinite
  <2>3. Cardinality(Upto) # 0
    BY <2>1, <2>2, FS_EmptySet
  <2>4. order'[n] = fires + Cardinality(Upto)
    BY <1>2, DispatchSteps
  <2> HIDE DEF Upto
  <2> QED
    BY <1>3, <2>2, <2>3, <2>4
<1>7. \A h \in Homes : h # at => cursor'[h] = cursor[h]
  BY DispatchSteps DEF TypeOK
<1>8. cursor'[at] = CursorAfter(at, Batch)
  BY <1>1, DispatchSteps DEF TypeOK
<1>9. FiredInv'
  <2> SUFFICES ASSUME NEW n \in EventIds
               PROVE  /\ fired'[n] > 0 => n <= clock
                      /\ order'[n] > 0 => fired'[n] > 0
    BY <1>1 DEF FiredInv
  <2>1. CASE n \in Batch
    BY <1>2, <1>3, <1>4, <2>1
  <2>2. CASE n \notin Batch
    BY <1>5, <2>2 DEF FiringInv, FiredInv
  <2> QED
    BY <2>1, <2>2
<1>10. CursorInv'
  <2> SUFFICES ASSUME NEW h \in Homes PROVE cursor'[h] = None \/ startedAt <= cursor'[h]
    BY <1>1 DEF CursorInv
  <2>1. CASE h # at
    BY <1>7, <2>1 DEF FiringInv, CursorInv
  <2>2. CASE h = at /\ cursor[at] = None
    BY <1>3, <1>8, <2>2, CursorMoves
  <2>3. CASE h = at /\ cursor[at] # None
    <3>1. startedAt <= cursor[at] /\ cursor[at] \in 0 .. clock
      BY <1>1, <2>3 DEF FiringInv, CursorInv, TypeOK
    <3>2. cursor[at] <= cursor'[at] /\ cursor'[at] \in 0 .. clock
      BY <1>8, <2>3, CursorMoves
    <3> QED
      BY <1>3, <2>3, <3>1, <3>2
  <2> QED
    BY <2>1, <2>2, <2>3
<1>11. MemoryInv'
  <2>1. \A n \in EventIds : fired'[n] > 0 /\ startedAt' < n => order'[n] > 0
    <3> SUFFICES ASSUME NEW n \in EventIds, fired'[n] > 0, startedAt < n PROVE order'[n] > 0
      BY <1>1
    <3>1. CASE n \in Batch
      BY <1>6, <3>1
    <3>2. CASE n \notin Batch
      BY <1>5, <3>2 DEF FiringInv, MemoryInv
    <3> QED
      BY <3>1, <3>2
  <2>2. ASSUME MaxEvents <= DedupHistory PROVE fires' = Cardinality(InMemory')
    <3>1. InMemory' = InMemory \cup Batch
      <4>1. ASSUME NEW n \in EventIds PROVE order'[n] > 0 <=> (order[n] > 0 \/ n \in Batch)
        BY <1>5, <1>6
      <4> QED
        BY <1>2, <4>1 DEF InMemory
    <3>2. InMemory \cap Batch = {}
      <4> SUFFICES ASSUME NEW n \in Batch PROVE n \notin InMemory
        OBVIOUS
      <4>1. order[n] = 0
        BY <1>1, <2>2, FreshEvents
      <4> QED
        BY <4>1 DEF InMemory
    <3>3. IsFiniteSet(InMemory) /\ Cardinality(InMemory) \in Nat /\ Cardinality(Batch) \in Nat
      BY <1>2, EventsFinite DEF InMemory
    <3>4. Cardinality(InMemory \cup Batch) = Cardinality(InMemory) + Cardinality(Batch)
      <4>1. Cardinality(InMemory \cup Batch)
              = Cardinality(InMemory) + Cardinality(Batch) - Cardinality(InMemory \cap Batch)
        BY <1>2, <3>3, FS_Union
      <4>2. Cardinality(InMemory \cap Batch) = 0
        BY <3>2, FS_EmptySet
      <4> QED
        BY <3>3, <4>1, <4>2
    <3>5. fires = Cardinality(InMemory)
      BY <2>2 DEF FiringInv, MemoryInv
    <3> QED
      BY <3>1, <3>4, <3>5, DispatchSteps
  <2> QED
    BY <2>1, <2>2 DEF MemoryInv
<1>12. SingleInv'
  <2> SUFFICES ASSUME NEW n \in EventIds, NEW h \in lists[n],
                      fired'[n] > 0, Cardinality(lists[n]) <= 1
               PROVE  n <= startedAt \/ n <= cursor'[h]
    BY <1>1 DEF SingleInv
  <2>1. h \in Homes /\ IsFiniteSet(lists[n])
    BY HomesAssumption, FS_Subset DEF TypeOK
  <2>2. CASE n \in Batch
    <3>1. at \in lists[n]
      BY <1>1, <1>2, <2>2 DEF LogInv
    <3>2. h = at
      BY <2>1, <3>1, AtMostOneElement
    <3> QED
      BY <1>8, <2>2, <3>2, CursorMoves
  <2>3. CASE n \notin Batch
    <3>1. n <= startedAt \/ n <= cursor[h]
      BY <1>5, <2>3 DEF FiringInv, SingleInv
    <3>2. CASE h # at
      BY <1>7, <2>1, <3>1, <3>2
    <3>3. CASE h = at /\ n <= cursor[at]
      <4>1. cursor[at] # None /\ cursor[at] \in 0 .. clock
        BY <1>1, <1>3, <3>3 DEF None, TypeOK, EventIds
      <4>2. cursor[at] <= cursor'[at] /\ cursor'[at] \in 0 .. clock
        BY <1>8, <4>1, CursorMoves
      <4> QED
        BY <1>3, <3>3, <4>1, <4>2
    <3> QED
      BY <3>1, <3>2, <3>3
  <2> QED
    BY <2>2, <2>3
<1>13. AtMostOnce'
  <2> SUFFICES ASSUME NEW n \in EventIds,
                      Cardinality(lists[n]) <= 1 \/ MaxEvents <= DedupHistory
               PROVE  fired'[n] <= 1
    BY <1>1 DEF AtMostOnce
  <2>1. CASE n \in Batch
    BY <1>1, <1>4, <2>1, FreshEvents
  <2>2. CASE n \notin Batch
    BY <1>5, <2>2 DEF FiringInv, AtMostOnce
  <2> QED
    BY <2>1, <2>2
<1> QED
  BY <1>9, <1>10, <1>11, <1>12, <1>13 DEF FiringInv

-------------------------------------------------------------------------------
(* What is listed, announced, read and passed *)

LEMMA QuietReading ==
    ASSUME ReadingInv, UNCHANGED <<lists, log, due, heard, cursor, fired, worker>>
    PROVE  ReadingInv'
BY DEF ReadingInv, LogInv, ReplyInv, DueInv, OrderInv, NonePassedOver, HeardInv, WorkInv,
       Underway, Buried, worker

LEMMA ScenarioReading ==
    ASSUME TypeOK, ReadingInv, NEW H \in SUBSET Homes, ScenarioRuns(H)
    PROVE  ReadingInv'
<1>1. LogInv'
  <2>1. ASSUME NEW h \in Homes, NEW n \in log[h] PROVE h \in lists'[n]
    <3>1. n \in EventIds /\ n # clock + 1
      BY LogEvents
    <3>2. lists'[n] = lists[n]
      BY <3>1 DEF ScenarioRuns, TypeOK
    <3> QED
      BY <3>2 DEF ReadingInv, LogInv
  <2> QED
    BY <2>1 DEF LogInv, ScenarioRuns
<1>2. UNCHANGED <<log, due, heard, cursor, fired, worker>>
  BY DEF ScenarioRuns, memory, history
<1> QED
  BY <1>1, <1>2 DEF ReadingInv, ReplyInv, DueInv, OrderInv, NonePassedOver, HeardInv, WorkInv,
                    Underway, Buried, worker

LEMMA RestartReading ==
    ASSUME TypeOK, ReadingInv, Restart
    PROVE  ReadingInv'
BY DEF Restart, ReadingInv, LogInv, ReplyInv, DueInv, OrderInv, NonePassedOver, HeardInv, WorkInv

LEMMA ListedReading ==
    ASSUME TypeOK, TypeOK', ReadingInv, NEW h \in Homes, NEW n \in EventIds, Listed(h, n)
    PROVE  ReadingInv'
<1>1. UNCHANGED <<clock, lists, heard, cursor, fired, pending, at, todo, reply>>
  BY DEF Listed, memory, worker
<1>2. /\ log' = [log EXCEPT ![h] = @ \cup {n}] /\ n \notin log[h] /\ h \in lists[n]
      /\ \A g \in Homes : log[g] \subseteq log'[g]
  BY DEF Listed, TypeOK
<1>3. /\ due \subseteq due'
      /\ \A g \in Homes, k \in EventIds : <<g, k>> \in due' =>
           \/ <<g, k>> \in due
           \/ g = h /\ k = n /\ cursor[h] # None /\ cursor[h] < n /\ \A m \in log[h] : m < n
  BY DEF Listed
<1>4. \A g \in Homes, k \in EventIds : Buried(g, k) => Buried(g, k)'
  BY <1>2, BuriedStays
<1>5. LogInv'
  BY <1>1, <1>2 DEF ReadingInv, LogInv, TypeOK
<1>6. ReplyInv'
  BY <1>1, <1>2 DEF ReadingInv, ReplyInv, TypeOK
<1>7. DueInv'
  <2> SUFFICES ASSUME NEW g \in Homes, NEW k \in EventIds, <<g, k>> \in due'
               PROVE  k \in log'[g] /\ cursor[g] # None
    BY <1>1 DEF DueInv
  <2>1. CASE <<g, k>> \in due
    BY <1>2, <2>1 DEF ReadingInv, DueInv
  <2>2. CASE g = h /\ k = n /\ cursor[h] # None
    BY <1>2, <2>2 DEF TypeOK
  <2> QED
    BY <1>3, <2>1, <2>2
<1>8. OrderInv'
  <2> SUFFICES ASSUME at # NoHome, NEW k \in EventIds, <<at, k>> \in due',
                      NEW m \in reply.events, k < m
               PROVE  k \in reply.events \/ Buried(at, k)'
    BY <1>1 DEF OrderInv
  <2>1. at \in Homes
    BY DEF TypeOK
  <2>2. CASE <<at, k>> \in due
    BY <1>1, <1>4, <2>1, <2>2 DEF ReadingInv, OrderInv
  <2>3. CASE at = h /\ k = n /\ \A i \in log[h] : i < n
    <3>1. m \in log[h] /\ m \in EventIds
      BY <2>3, LogEvents DEF ReadingInv, ReplyInv
    <3>2. m < n /\ n < m /\ m \in Int /\ n \in Int
      BY <2>3, <3>1 DEF EventIds
    <3> QED
      BY <3>2
  <2> QED
    BY <1>3, <2>1, <2>2, <2>3
<1>9. NonePassedOver'
  <2> SUFFICES ASSUME NEW g \in Homes, NEW k \in EventIds, <<g, k>> \in due'
               PROVE  fired[k] > 0 \/ cursor[g] < k \/ Buried(g, k)'
    BY <1>1 DEF NonePassedOver
  <2>1. CASE <<g, k>> \in due
    BY <1>4, <2>1 DEF ReadingInv, NonePassedOver
  <2> QED
    BY <1>3, <2>1
<1>10. HeardInv'
  BY <1>1, <1>2 DEF ReadingInv, HeardInv
<1>11. WorkInv'
  <2> SUFFICES ASSUME NEW g \in Homes, NEW k \in EventIds, <<g, k>> \in heard, <<g, k>> \in due'
               PROVE  fired[k] > 0 \/ Buried(g, k)' \/ Underway(g, k)
    BY <1>1 DEF WorkInv, Underway
  <2>1. <<g, k>> \in due
    BY <1>2, <1>3 DEF ReadingInv, HeardInv
  <2> QED
    BY <1>4, <2>1 DEF ReadingInv, WorkInv
<1> QED
  BY <1>5, <1>6, <1>7, <1>8, <1>9, <1>10, <1>11 DEF ReadingInv

LEMMA ServeReading ==
    ASSUME TypeOK, ReadingInv, NEW h \in Homes, Serve(h)
    PROVE  ReadingInv'
<1>1. /\ UNCHANGED <<lists, log, due, heard, cursor, fired, pending, at, todo>>
      /\ at = h /\ h # NoHome
      /\ reply'.served /\ reply'.events = Newest(log[h])
  BY DEF Serve, world, memory, history
<1>2. log[h] \subseteq EventIds /\ Newest(log[h]) \subseteq log[h]
  BY LogEvents DEF Newest
<1>3. \A n \in log[h] : n \in Newest(log[h]) \/ Buried(h, n)
  <2> SUFFICES ASSUME NEW n \in log[h], n \notin Newest(log[h]) PROVE Buried(h, n)
    OBVIOUS
  <2>1. ~ (Cardinality({m \in log[h] : n < m}) < FetchLimit)
    BY DEF Newest
  <2>2. Cardinality({m \in log[h] : n < m}) \in Nat
    BY <1>2, EventsFinite
  <2> QED
    BY <2>1, <2>2, LimitsAssumption DEF Buried
<1>4. \A g \in Homes, n \in EventIds : Buried(g, n)' <=> Buried(g, n)
  BY <1>1 DEF Buried
<1>5. LogInv' /\ DueInv' /\ HeardInv' /\ NonePassedOver'
  BY <1>1, <1>4 DEF ReadingInv, LogInv, DueInv, HeardInv, NonePassedOver
<1>6. ReplyInv'
  BY <1>1, <1>2 DEF ReplyInv
<1>7. OrderInv'
  <2> SUFFICES ASSUME NEW n \in EventIds, <<h, n>> \in due
               PROVE  n \in reply'.events \/ Buried(h, n)
    BY <1>1, <1>4 DEF OrderInv
  <2> QED
    BY <1>1, <1>3 DEF ReadingInv, DueInv
<1>8. WorkInv'
  <2> SUFFICES ASSUME NEW g \in Homes, NEW n \in EventIds, <<g, n>> \in heard \cap due
               PROVE  fired[n] > 0 \/ Buried(g, n) \/ Underway(g, n)'
    BY <1>1, <1>4 DEF WorkInv
  <2>1. n \in log[g]
    BY DEF ReadingInv, HeardInv
  <2>2. fired[n] > 0 \/ Buried(g, n) \/ Underway(g, n)
    BY DEF ReadingInv, WorkInv
  <2>3. ASSUME Underway(g, n) PROVE Buried(g, n) \/ Underway(g, n)'
    BY <1>1, <1>3, <2>1, <2>3 DEF Underway
  <2> QED
    BY <2>2, <2>3
<1> QED
  BY <1>5, <1>6, <1>7, <1>8 DEF ReadingInv

\* A request: from a push, which is heard for what is listed, or the poller.
LEMMA RequestReading ==
    ASSUME TypeOK, TypeOK', ReadingInv, PollerAsks \/ \E n \in EventIds : DeliverPush(n)
    PROVE  ReadingInv'
<1>1. RequestDispatch /\ UNCHANGED <<lists, log, due, cursor, fired>>
  BY DEF PollerAsks, DeliverPush, world, memory, history
<1>2. \A h \in Homes, n \in EventIds : <<h, n>> \in heard' => <<h, n>> \in heard \/ n \in log[h]
  BY DEF PollerAsks, DeliverPush, history
<1>3. /\ at' \in Homes /\ at' # NoHome
      /\ \/ at = NoHome /\ reply' = Unserved /\ \A h \in Homes : h = at' \/ h \in todo'
         \/ at # NoHome /\ pending' = TRUE /\ at' = at /\ reply' = reply
  BY <1>1, RequestMoves, HomesAssumption
<1>4. \A h \in Homes, n \in EventIds : Buried(h, n)' <=> Buried(h, n)
  BY <1>1 DEF Buried
<1>5. LogInv' /\ DueInv' /\ NonePassedOver'
  BY <1>1, <1>4 DEF ReadingInv, LogInv, DueInv, NonePassedOver
<1>6. HeardInv'
  BY <1>1, <1>2 DEF ReadingInv, HeardInv
<1>7. ReplyInv'
  BY <1>1, <1>3, UnservedTypes DEF ReadingInv, ReplyInv
<1>8. OrderInv'
  <2>1. CASE reply' = Unserved
    BY <2>1, UnservedTypes DEF OrderInv
  <2>2. CASE at # NoHome /\ at' = at /\ reply' = reply
    BY <1>1, <1>3, <1>4, <2>2 DEF ReadingInv, OrderInv
  <2> QED
    BY <1>3, <2>1, <2>2
<1>9. WorkInv'
  <2> SUFFICES ASSUME NEW h \in Homes, NEW n \in EventIds PROVE Underway(h, n)'
    BY DEF WorkInv
  <2>1. CASE reply' = Unserved /\ (h = at' \/ h \in todo')
    BY <1>3, <2>1, UnservedTypes DEF Underway
  <2>2. CASE pending' = TRUE
    BY <1>3, <2>2 DEF Underway
  <2> QED
    BY <1>3, <2>1, <2>2
<1> QED
  BY <1>5, <1>6, <1>7, <1>8, <1>9 DEF ReadingInv

\* After a home, what was ahead of the worker is still ahead of it.
LEMMA StillUnderway ==
    ASSUME TypeOK, at # NoHome, NextHome, NEW h \in Homes, NEW n \in EventIds,
           pending \/ h \in todo
    PROVE  Underway(h, n)'
<1>1. /\ reply' = Unserved
      /\ at' # NoHome
      /\ \/ pending' = pending /\ \A g \in todo : g = at' \/ g \in todo'
         \/ \A g \in Homes : g = at' \/ g \in todo'
  BY NextHomeMoves
<1>2. ~reply'.served
  BY <1>1, UnservedTypes
<1> QED
  BY <1>1, <1>2 DEF Underway

LEMMA FetchFailsReading ==
    ASSUME TypeOK, ReadingInv, FetchFails
    PROVE  ReadingInv'
<1>1. /\ at # NoHome /\ NextHome /\ reply' = Unserved
      /\ UNCHANGED <<lists, log, due, cursor, fired>>
  BY NextHomeMoves DEF FetchFails, world, memory
<1>2. /\ heard' \subseteq heard
      /\ ~pending => \A n \in EventIds : <<at, n>> \notin heard'
  BY DEF FetchFails
<1>3. \A h \in Homes, n \in EventIds : Buried(h, n)' <=> Buried(h, n)
  BY <1>1 DEF Buried
<1>4. LogInv' /\ DueInv' /\ NonePassedOver' /\ HeardInv'
  BY <1>1, <1>2, <1>3 DEF ReadingInv, LogInv, DueInv, NonePassedOver, HeardInv
<1>5. ReplyInv' /\ OrderInv'
  BY <1>1, UnservedTypes DEF ReplyInv, OrderInv
<1>6. WorkInv'
  <2> SUFFICES ASSUME NEW h \in Homes, NEW n \in EventIds, <<h, n>> \in heard' \cap due
               PROVE  fired[n] > 0 \/ Buried(h, n) \/ Underway(h, n)'
    BY <1>1, <1>3 DEF WorkInv
  <2>1. fired[n] > 0 \/ Buried(h, n) \/ Underway(h, n)
    BY <1>2 DEF ReadingInv, WorkInv
  <2>2. ASSUME Underway(h, n) PROVE pending \/ h \in todo
    BY <1>2, <2>2 DEF Underway
  <2> QED
    BY <1>1, <2>1, <2>2, StillUnderway
<1> QED
  BY <1>4, <1>5, <1>6 DEF ReadingInv

LEMMA DispatchReading ==
    ASSUME TypeOK, FiringInv, ReadingInv, Dispatch
    PROVE  ReadingInv'
<1>1. /\ at # NoHome /\ at \in Homes /\ NextHome /\ reply.served /\ reply' = Unserved
      /\ UNCHANGED <<lists, log, due, heard>>
  BY NextHomeMoves, DispatchSteps DEF TypeOK, world, history
<1>2. ReplyInv
  BY DEF ReadingInv
<1>3. /\ clock \in Nat /\ EventIds \subseteq Nat
      /\ \A n \in EventIds : fired[n] \in Nat /\ order[n] \in Nat
  BY BoundsAssumption DEF TypeOK, EventIds
<1>4. \A n \in EventIds : fired[n] > 0 \/ n \in Batch => fired'[n] > 0
  BY <1>3, DispatchSteps
<1>5. \A h \in Homes, n \in EventIds : Buried(h, n)' <=> Buried(h, n)
  BY <1>1 DEF Buried
<1>6. \A h \in Homes : h # at => cursor'[h] = cursor[h]
  BY DispatchSteps DEF TypeOK
<1>7. cursor'[at] = CursorAfter(at, Batch) /\ cursor'[at] \in 0 .. clock
  BY <1>1, <1>2, CursorMoves, DispatchSteps DEF TypeOK
<1>8. ASSUME NEW n \in reply.events, cursor[at] # None, cursor[at] < n
      PROVE  fired'[n] > 0
  <2>1. n \in EventIds
    BY DEF TypeOK, Replies
  <2>2. CASE n \in Batch
    BY <1>4, <2>1, <2>2
  <2>3. CASE Remembered(n)
    BY <1>4, <2>1, <2>3 DEF FiringInv, FiredInv, Remembered
  <2> QED
    BY <1>1, <1>2, <1>8, <2>2, <2>3, BatchFacts
<1>9. LogInv' /\ HeardInv'
  BY <1>1 DEF ReadingInv, LogInv, HeardInv
<1>10. ReplyInv' /\ OrderInv'
  BY <1>1, UnservedTypes DEF ReplyInv, OrderInv
<1>11. DueInv'
  <2> SUFFICES ASSUME NEW h \in Homes, NEW n \in EventIds, <<h, n>> \in due
               PROVE  n \in log[h] /\ cursor'[h] # None
    BY <1>1 DEF DueInv
  <2>1. n \in log[h] /\ cursor[h] # None
    BY DEF ReadingInv, DueInv
  <2> QED
    BY <1>3, <1>6, <1>7, <2>1 DEF None
<1>12. NonePassedOver'
  <2> SUFFICES ASSUME NEW h \in Homes, NEW n \in EventIds, <<h, n>> \in due
               PROVE  fired'[n] > 0 \/ cursor'[h] < n \/ Buried(h, n)
    BY <1>1, <1>5 DEF NonePassedOver
  <2>1. fired[n] > 0 \/ cursor[h] < n \/ Buried(h, n)
    BY DEF ReadingInv, NonePassedOver
  <2>2. CASE fired[n] > 0 \/ Buried(h, n)
    BY <1>4, <2>2
  <2>3. CASE cursor[h] < n /\ h # at
    BY <1>6, <2>3
  <2>4. CASE cursor[h] < n /\ h = at
    <3>1. cursor[at] # None /\ cursor[at] < n
      BY <2>4 DEF ReadingInv, DueInv
    <3>2. \/ CursorAfter(at, Batch) = cursor[at]
          \/ CursorAfter(at, Batch) \in Batch
      BY <1>2, <3>1, CursorMoves
    <3>3. CASE CursorAfter(at, Batch) = cursor[at]
      BY <1>7, <2>4, <3>3
    <3>4. CASE CursorAfter(at, Batch) \in Batch
      <4> DEFINE last == CursorAfter(at, Batch)
      <4>1. last \in reply.events /\ last \in EventIds /\ last \in Nat /\ n \in Nat
        BY <1>1, <1>2, <1>3, <3>4, BatchFacts
      <4>2. CASE last < n
        BY <1>7, <2>4, <4>2
      <4>3. CASE last = n
        BY <1>4, <3>4, <4>3
      <4>4. CASE n < last
        <5>1. n \in reply.events \/ Buried(at, n)
          BY <1>1, <2>4, <4>1, <4>4 DEF ReadingInv, OrderInv
        <5> QED
          BY <1>8, <2>4, <3>1, <5>1
      <4> HIDE DEF last
      <4> QED
        BY <4>1, <4>2, <4>3, <4>4
    <3> QED
      BY <3>2, <3>3, <3>4
  <2> QED
    BY <2>1, <2>2, <2>3, <2>4
<1>13. WorkInv'
  <2> SUFFICES ASSUME NEW h \in Homes, NEW n \in EventIds, <<h, n>> \in heard \cap due
               PROVE  fired'[n] > 0 \/ Buried(h, n) \/ Underway(h, n)'
    BY <1>1, <1>5 DEF WorkInv
  <2>1. fired[n] > 0 \/ Buried(h, n) \/ Underway(h, n)
    BY DEF ReadingInv, WorkInv
  <2>2. CASE fired[n] > 0
    BY <1>4, <2>2
  <2>3. CASE pending \/ h \in todo
    BY <1>1, <2>3, StillUnderway
  <2>4. CASE at = h /\ n \in reply.events
    <3>1. cursor[at] # None
      BY <2>4 DEF ReadingInv, DueInv
    <3>2. fired[n] > 0 \/ cursor[at] < n \/ Buried(h, n)
      BY <2>4 DEF ReadingInv, NonePassedOver
    <3> QED
      BY <1>4, <1>8, <2>4, <3>1, <3>2
  <2> QED
    BY <1>1, <2>1, <2>2, <2>3, <2>4 DEF Underway
<1> QED
  BY <1>9, <1>10, <1>11, <1>12, <1>13 DEF ReadingInv

-------------------------------------------------------------------------------
(* Theorems *)

LEMMA NextIInv == IInv /\ [Next]_vars => IInv'
<1> SUFFICES ASSUME IInv, [Next]_vars PROVE IInv'
  OBVIOUS
<1> USE DEF IInv
<1>1. LogInv /\ ReplyInv
  BY DEF ReadingInv
<1>2. ASSUME NEW H \in SUBSET Homes, ScenarioRuns(H) PROVE IInv'
  BY <1>2, ScenarioTypes, ScenarioFiring, ScenarioReading
<1>3. ASSUME NEW h \in Homes, NEW n \in EventIds, Listed(h, n) PROVE IInv'
  <2>1. TypeOK'
    BY <1>3, ListedTypes
  <2>2. FiringInv'
    BY <1>3, FiringFrame DEF Listed, memory
  <2> QED
    BY <1>3, <2>1, <2>2, ListedReading
<1>4. CASE Connect \/ Disconnect \/ PushSilence
  <2>1. TypeOK'
    BY <1>4, QuietTypes
  <2>2. UNCHANGED <<clock, lists, log, memory, worker, history>>
    BY <1>4 DEF Connect, Disconnect, PushSilence, world
  <2>3. FiringInv' /\ ReadingInv'
    BY <2>2, FiringFrame, QuietReading DEF memory, history
  <2> QED
    BY <2>1, <2>3
<1>5. ASSUME NEW h \in Homes, Serve(h) PROVE IInv'
  <2>1. TypeOK'
    BY <1>5, QuietTypes
  <2>2. FiringInv'
    BY <1>5, FiringFrame DEF Serve, world, memory, history
  <2> QED
    BY <1>5, <2>1, <2>2, ServeReading
<1>6. CASE FetchFails
  <2>1. FiringInv'
    BY <1>6, FiringFrame DEF FetchFails, world, memory
  <2> QED
    BY <1>6, <2>1, FetchFailsTypes, FetchFailsReading
<1>7. CASE Dispatch
  BY <1>1, <1>7, DispatchTypes, DispatchFiring, DispatchReading
<1>8. CASE PollerAsks \/ \E n \in EventIds : DeliverPush(n)
  <2>1. TypeOK'
    BY <1>8, RequestTypes
  <2>2. FiringInv'
    BY <1>8, FiringFrame DEF PollerAsks, DeliverPush, world, memory, history
  <2> QED
    BY <1>8, <2>1, <2>2, RequestReading
<1>9. CASE Restart
  BY <1>9, RestartTypes, RestartFiring, RestartReading
<1>10. CASE UNCHANGED vars
  <2>1. UNCHANGED <<world, memory, worker, healthy, history>>
    BY <1>10 DEF vars
  <2>2. TypeOK'
    BY <2>1 DEF TypeOK, world, memory, worker, history
  <2>3. FiringInv' /\ ReadingInv'
    BY <2>1, FiringFrame, QuietReading DEF world, memory, history
  <2> QED
    BY <2>2, <2>3
<1> QED
  BY <1>2, <1>3, <1>4, <1>5, <1>6, <1>7, <1>8, <1>9, <1>10 DEF Next

LEMMA Invariant == Spec => []IInv
BY InitIInv, NextIInv, PTL DEF Spec

\* The types, and that a worker that ended has no work left: the wake-up of a
\* request_dispatch() during a pass is never lost.
THEOREM TypeCorrect == Spec => []TypeOK
<1>1. IInv => TypeOK
  BY DEF IInv
<1> QED
  BY <1>1, Invariant, PTL

\* An event is fired at most once, whatever pushes, polls, failed requests and
\* restarts come, if one home lists it or _fired_event_ids is never full.
THEOREM FiresAtMostOnce == Spec => []AtMostOnce
<1>1. IInv => AtMostOnce
  BY DEF IInv, FiringInv
<1> QED
  BY <1>1, Invariant, PTL

\* _last_event_time never passes over an event that was listed in order.
THEOREM CursorsPassNothing == Spec => []NonePassedOver
<1>1. IInv => NonePassedOver
  BY DEF IInv, ReadingInv
<1> QED
  BY <1>1, Invariant, PTL

\* When the worker of _worker() ends, every event that a push announced is
\* fired, unless newer events had buried it or its request failed.
THEOREM PushesServed == Spec => []PushesAreServed
<1>1. IInv => PushesAreServed
  BY DEF IInv, ReadingInv, WorkInv, Underway, PushesAreServed
<1> QED
  BY <1>1, Invariant, PTL

\* A restart forgets the cursors, and still nothing from before it is fired.
THEOREM FiresNothingHistorical == Spec => NothingHistorical
<1>1. IInv /\ [Next]_vars => [\A n \in EventIds : fired'[n] > fired[n] => n > startedAt]_vars
  <2> SUFFICES ASSUME IInv, Next, NEW n \in EventIds, fired'[n] > fired[n]
               PROVE  n > startedAt
    OBVIOUS
  <2>1. fired[n] \in Nat
    BY DEF IInv, TypeOK
  <2>2. CASE Dispatch
    <3>1. at # NoHome /\ (n \notin Batch => fired'[n] = fired[n])
      BY <2>1, <2>2, DispatchSteps
    <3>2. n \in Batch
      BY <2>1, <3>1
    <3>3. startedAt < n
      BY <3>1, <3>2, FreshEvents DEF IInv, ReadingInv
    <3> QED
      BY <3>3
  <2>3. CASE ~Dispatch
    <3>1. fired' = fired
      BY <2>3 DEF Next, ScenarioRuns, Listed, Connect, Disconnect, Serve, FetchFails,
                  DeliverPush, PushSilence, PollerAsks, Restart, memory
    <3> QED
      BY <2>1, <3>1
  <2> QED
    BY <2>2, <2>3
<1> QED
  BY <1>1, Invariant, PTL DEF Spec, NothingHistorical

===============================================================================
