---------------------------- MODULE EntitiesProofs ----------------------------
(***************************************************************************)
(* Proofs about the entities of a device and the verdicts on its commands, *)
(* for any number of commands, any ranges a lamp describes, any numbers a  *)
(* device reports and any bound: the verdicts come in time and no effect   *)
(* is forgotten, lamps and rings shine as they were asked to, and every    *)
(* attribute, air conditioner and cover is shown as it is.  A part has an  *)
(* invariant of its own, and the last section puts them together.          *)
(***************************************************************************)
EXTENDS MCEntities, TLAPS

-------------------------------------------------------------------------------
(* Commands *)

Calls == [at : {"new", "put", "done"}, asks : Asks \cup {<<>>},
          taken : BOOLEAN, applied : SUBSET Keys]
Records == [status : {"none", "pending", "cleared"} \cup Verdicts,
            confirmed : SUBSET Keys, age : 0 .. Timeout + SweepEvery]
Pushes == [key : Keys, value : Values, of : SUBSET Commands]

\* The next sweep comes before a waiting command is too old.
AgeInv ==
    \A c \in Commands : Pending(c) => record[c].age + sweepIn < Timeout + SweepEvery

\* Before the PUT has returned there is neither record nor history; the cloud
\* has taken nothing before it was sent.
UnsentInv ==
    \A c \in Commands :
        /\ call[c].at # "done" => record[c] = NoRecord /\ heard[c] = {}
        /\ call[c].at = "new" => ~ call[c].taken

\* A push that carries a command's effect carries a value it asked for.
EffectInv ==
    \A i \in 1 .. Len(pushes) : \A c \in pushes[i].of :
        /\ call[c].taken
        /\ pushes[i].key \in Wanted(c)
        /\ pushes[i].value = call[c].asks[pushes[i].key]

IInv == TypeOK /\ AgeInv /\ UnsentInv /\ EffectInv /\ HeardIsConfirmed

-------------------------------------------------------------------------------
\* observe_reported_state() never loses a confirmed key and never opens a
\* closed record; it leaves the age of one that stays open.
LEMMA ObserveKeeps ==
    ASSUME NEW r \in Records, NEW asks, NEW seen, DOMAIN seen \subseteq Keys
    PROVE  /\ Observe(r, asks, seen) \in Records
           /\ r.confirmed \subseteq Observe(r, asks, seen).confirmed
           /\ Observe(r, asks, seen).status = "pending" =>
                r.status = "pending" /\ Observe(r, asks, seen).age = r.age
           /\ r.status = "none" => Observe(r, asks, seen) = r
<1> DEFINE confirmed == r.confirmed \cup {k \in DOMAIN asks \cap DOMAIN seen : seen[k] = asks[k]}
<1>1. CASE r.status # "pending"
  BY <1>1 DEF Observe
<1>2. CASE r.status = "pending" /\ confirmed = DOMAIN asks
  <2>1. Observe(r, asks, seen) = [status |-> "confirmed", confirmed |-> confirmed, age |-> 0]
    BY <1>2 DEF Observe, Records
  <2>2. 0 \in 0 .. Timeout + SweepEvery
    BY BoundsAssumption
  <2>3. confirmed \in SUBSET Keys
    BY DEF Records
  <2> QED
    BY <1>2, <2>1, <2>2, <2>3 DEF Records, Verdicts
<1>3. CASE r.status = "pending" /\ confirmed # DOMAIN asks
  <2>1. Observe(r, asks, seen) = [status |-> "pending", confirmed |-> confirmed, age |-> r.age]
    BY <1>3 DEF Observe, Records
  <2>2. confirmed \in SUBSET Keys
    BY DEF Records
  <2> QED
    BY <1>3, <2>1, <2>2 DEF Records
<1> QED
  BY <1>1, <1>2, <1>3

\* observe_reported_state() confirms a key that a waiting command sees fulfilled.
LEMMA ObserveConfirms ==
    ASSUME NEW r \in Records, NEW asks, NEW seen, r.status = "pending",
           NEW k \in DOMAIN asks \cap DOMAIN seen, seen[k] = asks[k]
    PROVE  k \in Observe(r, asks, seen).confirmed
<1> DEFINE confirmed == r.confirmed \cup {j \in DOMAIN asks \cap DOMAIN seen : seen[j] = asks[j]}
<1>1. Observe(r, asks, seen).confirmed = confirmed
  BY DEF Observe, Records
<1> QED
  BY <1>1

\* sweep() closes what is over the timeout and touches nothing else.
LEMMA SweepKeeps ==
    ASSUME NEW r \in Records
    PROVE  /\ Sweep(r) \in Records
           /\ Sweep(r).confirmed = r.confirmed
           /\ Sweep(r).status = "pending" =>
                r.status = "pending" /\ Sweep(r).age = r.age /\ r.age < Timeout
           /\ r.status = "none" => Sweep(r) = r
<1>1. CASE r.status = "pending" /\ r.age >= Timeout
  <2>1. PICK v \in Verdicts \ {"pending"} : Sweep(r) = [status |-> v, confirmed |-> r.confirmed, age |-> 0]
    BY <1>1 DEF Sweep, Records, Verdicts
  <2>2. 0 \in 0 .. Timeout + SweepEvery
    BY BoundsAssumption
  <2> QED
    BY <1>1, <2>1, <2>2 DEF Records
<1>2. CASE r.status # "pending"
  BY <1>2 DEF Sweep
<1>3. CASE r.status = "pending" /\ ~ r.age >= Timeout
  <2>1. Sweep(r) = r /\ r.age < Timeout
    BY <1>3, BoundsAssumption DEF Sweep, Records
  <2> QED
    BY <1>3, <2>1
<1> QED
  BY <1>1, <1>2, <1>3

LEMMA NoRecordType == NoRecord \in Records
BY BoundsAssumption DEF NoRecord, Records

LEMMA TypeParts ==
    TypeOK <=> /\ pushes \in Seq(Pushes)
               /\ call \in [Commands -> Calls]
               /\ record \in [Commands -> Records]
               /\ sweepIn \in 0 .. SweepEvery
               /\ heard \in [Commands -> SUBSET Keys]
BY DEF TypeOK, Pushes, Calls, Records

LEMMA TypePartsNext ==
    TypeOK' <=> /\ pushes' \in Seq(Pushes)
                /\ call' \in [Commands -> Calls]
                /\ record' \in [Commands -> Records]
                /\ sweepIn' \in 0 .. SweepEvery
                /\ heard' \in [Commands -> SUBSET Keys]
BY DEF TypeOK, Pushes, Calls, Records

LEMMA InitIInv == Init => IInv
<1> SUFFICES ASSUME Init PROVE IInv
  OBVIOUS
<1>1. TypeOK
  <2>1. [at |-> "new", asks |-> <<>>, taken |-> FALSE, applied |-> {}] \in Calls
    BY DEF Calls
  <2>2. pushes \in Seq(Pushes)
    BY DEF Init
  <2>3. sweepIn \in 0 .. SweepEvery
    BY BoundsAssumption DEF Init
  <2>4. call \in [Commands -> Calls]
    BY <2>1 DEF Init
  <2>5. record \in [Commands -> Records] /\ heard \in [Commands -> SUBSET Keys]
    BY NoRecordType DEF Init
  <2> QED
    BY <2>2, <2>3, <2>4, <2>5, TypeParts
<1>2. AgeInv /\ UnsentInv /\ HeardIsConfirmed
  BY DEF Init, AgeInv, UnsentInv, HeardIsConfirmed, Pending, NoRecord
<1>3. EffectInv
  BY DEF Init, EffectInv
<1> QED
  BY <1>1, <1>2, <1>3 DEF IInv

-------------------------------------------------------------------------------
\* A push on the way keeps its effect while the calls keep what they asked for.
LEMMA EffectKept ==
    ASSUME EffectInv, TypeOK, UNCHANGED pushes,
           \A c \in Commands : call[c].taken =>
               call'[c].taken /\ call'[c].asks = call[c].asks
    PROVE  EffectInv'
<1> SUFFICES ASSUME NEW i \in 1 .. Len(pushes), NEW c \in pushes[i].of
             PROVE  /\ call'[c].taken
                    /\ pushes[i].key \in DOMAIN call'[c].asks
                    /\ pushes[i].value = call'[c].asks[pushes[i].key]
  BY DEF EffectInv, Wanted
<1>1. c \in Commands
  <2>1. pushes[i] \in Pushes
    BY TypeParts
  <2> QED
    BY <2>1 DEF Pushes
<1> QED
  BY <1>1 DEF EffectInv, Wanted

\* A new push carries the effect of those it names.
LEMMA ReportKeeps ==
    ASSUME EffectInv, TypeOK, NEW k \in Keys, NEW v \in Values, NEW of \in SUBSET Commands,
           Report(k, v, of),
           \A c \in Commands : call'[c].taken = call[c].taken /\ call'[c].asks = call[c].asks,
           \A c \in of : call[c].taken /\ k \in Wanted(c) /\ v = call[c].asks[k]
    PROVE  EffectInv' /\ pushes' \in Seq(Pushes)
<1>1. CASE UNCHANGED pushes
  BY <1>1, EffectKept, TypeParts
<1>2. CASE pushes' = Append(pushes, [key |-> k, value |-> v, of |-> of])
  <2> DEFINE p == [key |-> k, value |-> v, of |-> of]
  <2>1. pushes \in Seq(Pushes) /\ p \in Pushes
    BY TypeParts DEF Pushes
  <2>2. pushes' \in Seq(Pushes) /\ Len(pushes') = Len(pushes) + 1
    BY <1>2, <2>1
  <2>3. SUFFICES ASSUME NEW i \in 1 .. Len(pushes'), NEW c \in pushes'[i].of
                 PROVE  /\ call'[c].taken
                        /\ pushes'[i].key \in DOMAIN call'[c].asks
                        /\ pushes'[i].value = call'[c].asks[pushes'[i].key]
    BY <2>2 DEF EffectInv, Wanted
  <2>4. c \in Commands
    <3>1. pushes'[i] \in Pushes
      BY <2>2
    <3> QED
      BY <2>3, <3>1 DEF Pushes
  <2>5. CASE i \in 1 .. Len(pushes)
    <3>1. pushes'[i] = pushes[i]
      BY <1>2, <2>1, <2>5
    <3> QED
      BY <2>4, <2>5, <3>1 DEF EffectInv, Wanted
  <2>6. CASE i = Len(pushes) + 1
    <3>1. pushes'[i] = p
      BY <1>2, <2>1, <2>6
    <3> QED
      BY <2>4, <3>1 DEF Wanted
  <2> QED
    BY <2>1, <2>2, <2>5, <2>6
<1> QED
  BY <1>1, <1>2 DEF Report

LEMMA ApplyIInv ==
    ASSUME IInv, NEW c \in Commands, NEW k \in Keys, Apply(c, k)
    PROVE  IInv'
<1> USE DEF IInv
<1>1. call' = [call EXCEPT ![c].applied = @ \cup {k}] /\ call \in [Commands -> Calls]
  BY TypeParts DEF Apply
<1>2. \A d \in Commands : /\ call'[d].taken = call[d].taken /\ call'[d].asks = call[d].asks
                          /\ call'[d].at = call[d].at
  BY <1>1 DEF Calls
<1>3. call' \in [Commands -> Calls]
  BY <1>1 DEF Calls
<1>4. call[c].asks[k] \in Values
  <2>1. call[c].asks \in Asks \cup {<<>>} /\ k \in DOMAIN call[c].asks
    BY <1>1 DEF Apply, Wanted, Calls
  <2>2. call[c].asks \in Asks
    BY <2>1
  <2> QED
    BY <2>1, <2>2 DEF Asks
<1>5. EffectInv' /\ pushes' \in Seq(Pushes)
  <2>1. call[c].taken /\ k \in Wanted(c) /\ Report(k, call[c].asks[k], {c})
    BY DEF Apply
  <2> QED
    BY <1>2, <1>4, <2>1, ReportKeeps
<1>6. TypeOK'
  BY <1>3, <1>5, TypeParts, TypePartsNext DEF Apply
<1>7. AgeInv' /\ HeardIsConfirmed'
  BY DEF Apply, AgeInv, HeardIsConfirmed, Pending
<1>8. UnsentInv'
  BY <1>2 DEF Apply, UnsentInv
<1> QED
  BY <1>5, <1>6, <1>7, <1>8

LEMMA ChangedElsewhereIInv ==
    ASSUME IInv, NEW k \in Keys, NEW v \in Values, ChangedElsewhere(k, v)
    PROVE  IInv'
<1> USE DEF IInv
<1>1. EffectInv' /\ pushes' \in Seq(Pushes)
  BY ReportKeeps DEF ChangedElsewhere
<1>2. TypeOK'
  BY <1>1, TypeParts, TypePartsNext DEF ChangedElsewhere
<1>3. AgeInv' /\ UnsentInv' /\ HeardIsConfirmed'
  BY DEF ChangedElsewhere, AgeInv, UnsentInv, HeardIsConfirmed, Pending
<1> QED
  BY <1>1, <1>2, <1>3

-------------------------------------------------------------------------------
\* The steps of the service call

LEMMA CallIInv ==
    ASSUME IInv, NEW c \in Commands, Call(c)
    PROVE  IInv'
<1> USE DEF IInv
<1>1. PICK asks \in Asks : call' = [call EXCEPT ![c].at = "put", ![c].asks = asks]
  BY DEF Call
<1>2. call \in [Commands -> Calls] /\ call[c].at = "new" /\ ~ call[c].taken
  BY TypeParts DEF Call, UnsentInv
<1>3. call' \in [Commands -> Calls]
  BY <1>1, <1>2 DEF Calls
<1>4. \A d \in Commands : call[d].taken => call'[d].taken /\ call'[d].asks = call[d].asks
  BY <1>1, <1>2
<1>5. EffectInv'
  BY <1>4, EffectKept DEF Call
<1>6. TypeOK'
  BY <1>3, TypeParts, TypePartsNext DEF Call
<1>7. AgeInv' /\ HeardIsConfirmed'
  BY DEF Call, AgeInv, HeardIsConfirmed, Pending
<1>8. UnsentInv'
  BY <1>1, <1>2 DEF Call, UnsentInv, Calls
<1> QED
  BY <1>5, <1>6, <1>7, <1>8

LEMMA CloudTakesIInv ==
    ASSUME IInv, NEW c \in Commands, CloudTakes(c)
    PROVE  IInv'
<1> USE DEF IInv
<1>1. /\ call' = [call EXCEPT ![c].taken = TRUE] /\ call \in [Commands -> Calls]
      /\ call[c].at = "put"
  BY TypeParts DEF CloudTakes
<1>2. call' \in [Commands -> Calls]
  BY <1>1 DEF Calls
<1>3. \A d \in Commands : call[d].taken => call'[d].taken /\ call'[d].asks = call[d].asks
  BY <1>1 DEF Calls
<1>4. EffectInv'
  BY <1>3, EffectKept DEF CloudTakes
<1>5. TypeOK'
  BY <1>2, TypeParts, TypePartsNext DEF CloudTakes
<1>6. AgeInv' /\ HeardIsConfirmed'
  BY DEF CloudTakes, AgeInv, HeardIsConfirmed, Pending
<1>7. UnsentInv'
  BY <1>1 DEF CloudTakes, UnsentInv, Calls
<1> QED
  BY <1>4, <1>5, <1>6, <1>7

\* The call ends with a record of no age, waiting or failed.
LEMMA EndsIInv ==
    ASSUME IInv, NEW c \in Commands, Sent(c) \/ SendFails(c)
    PROVE  IInv'
<1> USE DEF IInv
<1>1. /\ call' = [call EXCEPT ![c].at = "done"] /\ call \in [Commands -> Calls]
      /\ call[c].at = "put" /\ UNCHANGED <<pushes, sweepIn, heard>>
  BY TypeParts DEF Sent, SendFails
<1>2. PICK status \in {"pending", "send_failed"} : record' = [record EXCEPT ![c].status = status]
  BY DEF Sent, SendFails
<1>3. record[c] = NoRecord /\ heard[c] = {} /\ record \in [Commands -> Records]
  BY <1>1, TypeParts DEF UnsentInv
<1>4. call' \in [Commands -> Calls]
  BY <1>1 DEF Calls
<1>5. record'[c] = [status |-> status, confirmed |-> {}, age |-> 0]
  BY <1>2, <1>3 DEF NoRecord
<1>6. record'[c] \in Records
  BY <1>5, BoundsAssumption DEF Records, Verdicts
<1>7. \A d \in Commands \ {c} : record'[d] = record[d] /\ call'[d] = call[d]
  BY <1>1, <1>2, <1>3
<1>8. record' \in [Commands -> Records]
  BY <1>2, <1>3, <1>6, <1>7
<1>9. TypeOK'
  BY <1>1, <1>4, <1>8, TypeParts, TypePartsNext
<1>10. EffectInv'
  <2>1. \A d \in Commands : call[d].taken => call'[d].taken /\ call'[d].asks = call[d].asks
    BY <1>1 DEF Calls
  <2> QED
    BY <1>1, <2>1, EffectKept
<1>11. AgeInv'
  <2>1. sweepIn' \in 0 .. SweepEvery /\ 0 + sweepIn' < Timeout + SweepEvery
    BY <1>1, TypeParts, BoundsAssumption
  <2>2. record'[c].age + sweepIn' < Timeout + SweepEvery
    BY <1>5, <2>1
  <2> QED
    BY <1>1, <1>7, <2>2 DEF AgeInv, Pending
<1>12. UnsentInv'
  BY <1>1, <1>7 DEF UnsentInv, Calls
<1>13. HeardIsConfirmed'
  BY <1>1, <1>3, <1>7 DEF HeardIsConfirmed
<1> QED
  BY <1>9, <1>10, <1>11, <1>12, <1>13

-------------------------------------------------------------------------------
\* The steps of the tracker

\* What a report may do to the records: it keeps what they know, opens none,
\* and adds no time.
RecordsKept(old, new) ==
    \A c \in Commands :
        /\ new[c] \in Records
        /\ old[c].confirmed \subseteq new[c].confirmed
        /\ new[c].status = "pending" => old[c].status = "pending" /\ new[c].age = old[c].age
        /\ old[c].status = "none" => new[c] = old[c]

LEMMA RecordsKeptIInv ==
    ASSUME AgeInv, UnsentInv, RecordsKept(record, record'),
           UNCHANGED <<call, sweepIn>>,
           \A c \in Commands : heard'[c] = {} \/ heard'[c] = heard[c] \/ Pending(c)
    PROVE  AgeInv' /\ UnsentInv'
<1>1. AgeInv'
  BY DEF AgeInv, Pending, RecordsKept
<1>2. UnsentInv'
  BY DEF UnsentInv, RecordsKept, NoRecord, Pending
<1> QED
  BY <1>1, <1>2

LEMMA PushedIInv ==
    ASSUME IInv, Pushed
    PROVE  IInv'
<1> USE DEF IInv
<1> DEFINE p == Head(pushes)
           seen == [k \in {p.key} |-> p.value]
<1>1. /\ pushes # <<>> /\ pushes \in Seq(Pushes) /\ record \in [Commands -> Records]
      /\ heard \in [Commands -> SUBSET Keys]
  BY TypeParts DEF Pushed
<1>2. p \in Pushes /\ p = pushes[1] /\ 1 \in 1 .. Len(pushes)
  BY <1>1
<1>3. /\ record' = [c \in Commands |-> Observe(record[c], call[c].asks, seen)]
      /\ heard' = [c \in Commands |-> IF c \in p.of /\ Pending(c)
                                        THEN heard[c] \cup {p.key} ELSE heard[c]]
      /\ pushes' = Tail(pushes) /\ UNCHANGED <<call, sweepIn>>
  BY DEF Pushed
<1>4. DOMAIN seen \subseteq Keys
  BY <1>2 DEF Pushes
<1>5. RecordsKept(record, record')
  BY <1>1, <1>3, <1>4, ObserveKeeps DEF RecordsKept
<1>6. AgeInv' /\ UnsentInv'
  BY <1>3, <1>5, RecordsKeptIInv
<1>7. EffectInv'
  <2>1. pushes' \in Seq(Pushes) /\ Len(pushes') = Len(pushes) - 1
    BY <1>1, <1>3
  <2>2. \A i \in 1 .. Len(pushes') : pushes'[i] = pushes[i + 1] /\ i + 1 \in 1 .. Len(pushes)
    BY <1>1, <1>3, <2>1
  <2> QED
    BY <1>3, <2>2 DEF EffectInv, Wanted
<1>8. HeardIsConfirmed'
  <2> SUFFICES ASSUME NEW c \in Commands PROVE heard'[c] \subseteq record'[c].confirmed
    BY DEF HeardIsConfirmed
  <2>1. heard[c] \subseteq record'[c].confirmed
    BY <1>5 DEF HeardIsConfirmed, RecordsKept
  <2>2. CASE c \in p.of /\ Pending(c)
    <3>1. p.key \in DOMAIN call[c].asks /\ p.value = call[c].asks[p.key]
      BY <1>2, <2>2 DEF EffectInv, Wanted
    <3>2. p.key \in DOMAIN seen /\ seen[p.key] = p.value
      OBVIOUS
    <3>3. p.key \in Observe(record[c], call[c].asks, seen).confirmed
      BY <1>1, <2>2, <3>1, <3>2, ObserveConfirms DEF Pending
    <3> QED
      BY <1>3, <2>1, <2>2, <3>3
  <2>3. CASE ~ (c \in p.of /\ Pending(c))
    BY <1>3, <2>1, <2>3
  <2> QED
    BY <2>2, <2>3
<1>9. TypeOK'
  <2>1. pushes' \in Seq(Pushes)
    BY <1>1, <1>3
  <2>2. record' \in [Commands -> Records]
    BY <1>3, <1>5 DEF RecordsKept
  <2>3. heard' \in [Commands -> SUBSET Keys]
    BY <1>1, <1>2, <1>3 DEF Pushes
  <2>4. call' \in [Commands -> Calls] /\ sweepIn' \in 0 .. SweepEvery
    BY <1>3, TypeParts, TypePartsNext
  <2> QED
    BY <2>1, <2>2, <2>3, <2>4, TypeParts, TypePartsNext
<1> QED
  BY <1>6, <1>7, <1>8, <1>9

\* A poll observes and sweeps.
LEMMA PolledIInv ==
    ASSUME IInv, NEW state \in States, Polled(state)
    PROVE  IInv'
<1> USE DEF IInv
<1>1. record \in [Commands -> Records] /\ DOMAIN state \subseteq Keys
  BY TypeParts DEF States
<1>2. /\ record' = [c \in Commands |-> Sweep(Observe(record[c], call[c].asks, state))]
      /\ UNCHANGED <<pushes, call, sweepIn, heard>>
  BY DEF Polled
<1>3. RecordsKept(record, record')
  <2> SUFFICES ASSUME NEW c \in Commands
               PROVE  /\ record'[c] \in Records
                      /\ record[c].confirmed \subseteq record'[c].confirmed
                      /\ record'[c].status = "pending" =>
                           record[c].status = "pending" /\ record'[c].age = record[c].age
                      /\ record[c].status = "none" => record'[c] = record[c]
    BY DEF RecordsKept
  <2> DEFINE r == Observe(record[c], call[c].asks, state)
  <2>1. /\ r \in Records /\ record[c].confirmed \subseteq r.confirmed
        /\ r.status = "pending" => record[c].status = "pending" /\ r.age = record[c].age
        /\ record[c].status = "none" => r = record[c]
    BY <1>1, ObserveKeeps
  <2>2. record'[c] = Sweep(r)
    BY <1>2
  <2> HIDE DEF r
  <2> QED
    BY <2>1, <2>2, SweepKeeps
<1>4. AgeInv' /\ UnsentInv'
  BY <1>2, <1>3, RecordsKeptIInv
<1>5. EffectInv'
  BY <1>2, EffectKept
<1>6. HeardIsConfirmed'
  BY <1>2, <1>3 DEF HeardIsConfirmed, RecordsKept
<1>7. TypeOK'
  <2>1. record' \in [Commands -> Records]
    BY <1>2, <1>3 DEF RecordsKept
  <2> QED
    BY <1>2, <2>1, TypeParts, TypePartsNext
<1> QED
  BY <1>4, <1>5, <1>6, <1>7

\* After the timer's sweep every waiting command is below the timeout, so it
\* will be below it and one interval at the next sweep.
LEMMA SweepTimerIInv ==
    ASSUME IInv, SweepTimer
    PROVE  IInv'
<1> USE DEF IInv
<1>1. /\ record \in [Commands -> Records] /\ record' = [c \in Commands |-> Sweep(record[c])]
      /\ sweepIn' = SweepEvery /\ UNCHANGED <<pushes, call, heard>>
  BY TypeParts DEF SweepTimer
<1>2. \A c \in Commands :
          /\ record'[c] \in Records /\ record'[c].confirmed = record[c].confirmed
          /\ record'[c].status = "pending" => record'[c].age < Timeout
          /\ record[c].status = "none" => record'[c] = record[c]
  BY <1>1, SweepKeeps
<1>3. AgeInv'
  <2> SUFFICES ASSUME NEW c \in Commands, record'[c].status = "pending"
               PROVE  record'[c].age + sweepIn' < Timeout + SweepEvery
    BY DEF AgeInv, Pending
  <2>1. record'[c].age \in Nat /\ record'[c].age < Timeout
    BY <1>2 DEF Records
  <2> QED
    BY <1>1, <2>1, BoundsAssumption
<1>4. UnsentInv'
  BY <1>1, <1>2 DEF UnsentInv, NoRecord
<1>5. EffectInv'
  BY <1>1, EffectKept
<1>6. HeardIsConfirmed'
  BY <1>1, <1>2 DEF HeardIsConfirmed
<1>7. TypeOK'
  <2>1. record' \in [Commands -> Records]
    BY <1>1, <1>2
  <2>2. sweepIn' \in 0 .. SweepEvery
    BY <1>1, BoundsAssumption
  <2> QED
    BY <1>1, <2>1, <2>2, TypeParts, TypePartsNext
<1> QED
  BY <1>3, <1>4, <1>5, <1>6, <1>7

\* The panel's "clear" forgets the records and with them what they had heard.
LEMMA ClearIInv ==
    ASSUME IInv, Clear
    PROVE  IInv'
<1> USE DEF IInv
<1> DEFINE cleared == [NoRecord EXCEPT !.status = "cleared"]
<1>1. /\ record \in [Commands -> Records]
      /\ record' = [c \in Commands |-> IF record[c].status = "none" THEN record[c] ELSE cleared]
      /\ heard' = [c \in Commands |-> {}] /\ UNCHANGED <<pushes, call, sweepIn>>
  BY TypeParts DEF Clear
<1>2. cleared = [status |-> "cleared", confirmed |-> {}, age |-> 0] /\ cleared \in Records
  <2>1. cleared = [status |-> "cleared", confirmed |-> {}, age |-> 0]
    BY DEF NoRecord
  <2>2. [status |-> "cleared", confirmed |-> {}, age |-> 0] \in Records
    BY BoundsAssumption DEF Records
  <2> QED
    BY <2>1, <2>2
<1> HIDE DEF cleared
<1>3. record' \in [Commands -> Records]
  BY <1>1, <1>2
<1>4. TypeOK'
  BY <1>1, <1>3, TypeParts, TypePartsNext
<1>5. AgeInv'
  BY <1>1, <1>2 DEF AgeInv, Pending
<1>6. UnsentInv'
  <2>1. ASSUME NEW c \in Commands, record[c] = NoRecord PROVE record'[c] = NoRecord
    <3>1. record[c].status = "none"
      BY <2>1 DEF NoRecord
    <3> QED
      BY <1>1, <2>1, <3>1
  <2> QED
    BY <1>1, <2>1 DEF UnsentInv
<1>7. EffectInv'
  BY <1>1, EffectKept
<1>8. HeardIsConfirmed'
  BY <1>1 DEF HeardIsConfirmed
<1> QED
  BY <1>4, <1>5, <1>6, <1>7, <1>8

\* Time passes for the records and for the timer alike.
LEMMA TickIInv ==
    ASSUME IInv, Tick
    PROVE  IInv'
<1> USE DEF IInv
<1>1. /\ record \in [Commands -> Records] /\ sweepIn \in 0 .. SweepEvery /\ sweepIn > 0
      /\ sweepIn' = sweepIn - 1 /\ UNCHANGED <<pushes, call, heard>>
      /\ record' = [c \in Commands |-> IF Pending(c)
                      THEN [record[c] EXCEPT !.age = @ + 1] ELSE record[c]]
  BY TypeParts DEF Tick
<1>2. ASSUME NEW c \in Commands, Pending(c)
      PROVE  /\ record'[c] = [status |-> "pending", confirmed |-> record[c].confirmed,
                              age |-> record[c].age + 1]
             /\ record[c].age + 1 \in 0 .. Timeout + SweepEvery
             /\ record[c].age + 1 + sweepIn' < Timeout + SweepEvery
  <2>1. record'[c] = [record[c] EXCEPT !.age = @ + 1] /\ record[c] \in Records
    BY <1>1, <1>2
  <2>2. record'[c] = [status |-> "pending", confirmed |-> record[c].confirmed,
                      age |-> record[c].age + 1]
    BY <1>2, <2>1 DEF Records, Pending
  <2>3. record[c].age \in Nat /\ record[c].age + sweepIn < Timeout + SweepEvery
    BY <1>2, <2>1, BoundsAssumption DEF AgeInv, Records
  <2>4. sweepIn \in Nat /\ sweepIn > 0 /\ sweepIn' = sweepIn - 1
    BY <1>1, BoundsAssumption
  <2> QED
    BY <2>2, <2>3, <2>4, BoundsAssumption
<1>3. \A c \in Commands : ~ Pending(c) => record'[c] = record[c]
  BY <1>1
<1>4. \A c \in Commands : /\ record'[c] \in Records /\ record'[c].confirmed = record[c].confirmed
                          /\ record'[c].status = record[c].status
  BY <1>1, <1>2, <1>3 DEF Records, Pending
<1>5. AgeInv'
  <2> SUFFICES ASSUME NEW c \in Commands, record'[c].status = "pending"
               PROVE  record'[c].age + sweepIn' < Timeout + SweepEvery
    BY DEF AgeInv, Pending
  <2>1. Pending(c)
    BY <1>4 DEF Pending
  <2>2. /\ record'[c] = [status |-> "pending", confirmed |-> record[c].confirmed,
                          age |-> record[c].age + 1]
        /\ record[c].age + 1 + sweepIn' < Timeout + SweepEvery
    BY <1>2, <2>1
  <2>3. record'[c].age = record[c].age + 1
    BY ONLY <2>2
  <2> QED
    BY <2>2, <2>3
<1>6. UnsentInv'
  <2>1. ASSUME NEW c \in Commands, record[c] = NoRecord PROVE record'[c] = NoRecord
    <3>1. ~ Pending(c)
      BY <2>1 DEF NoRecord, Pending
    <3> QED
      BY <1>3, <2>1, <3>1
  <2> QED
    BY <1>1, <2>1 DEF UnsentInv
<1>7. EffectInv'
  BY <1>1, EffectKept
<1>8. HeardIsConfirmed'
  BY <1>1, <1>4 DEF HeardIsConfirmed
<1>9. TypeOK'
  <2>1. record' \in [Commands -> Records]
    BY <1>1, <1>4
  <2>2. sweepIn' \in 0 .. SweepEvery
    BY <1>1, BoundsAssumption
  <2> QED
    BY <1>1, <2>1, <2>2, TypeParts, TypePartsNext
<1> QED
  BY <1>5, <1>6, <1>7, <1>8, <1>9

LEMMA NextIInv == IInv /\ [Next]_vars => IInv'
<1> SUFFICES ASSUME IInv, [Next]_vars PROVE IInv'
  OBVIOUS
<1>1. CASE UNCHANGED vars
  BY <1>1 DEF IInv, vars, TypeOK, AgeInv, UnsentInv, EffectInv, HeardIsConfirmed, Pending, Wanted
<1>2. CASE \E c \in Commands : Call(c) \/ CloudTakes(c) \/ Sent(c) \/ SendFails(c)
  BY <1>2, CallIInv, CloudTakesIInv, EndsIInv
<1>3. CASE \E c \in Commands, k \in Keys : Apply(c, k)
  BY <1>3, ApplyIInv
<1>4. CASE \E k \in Keys, v \in Values : ChangedElsewhere(k, v)
  BY <1>4, ChangedElsewhereIInv
<1>5. CASE \E state \in States : Polled(state)
  BY <1>5, PolledIInv
<1>6. CASE Pushed \/ SweepTimer \/ Clear \/ Tick
  BY <1>6, PushedIInv, SweepTimerIInv, ClearIInv, TickIInv
<1> QED
  BY <1>1, <1>2, <1>3, <1>4, <1>5, <1>6 DEF Next

\* The invariant of every behaviour, from which the theorems follow.
LEMMA Invariant == Spec => []IInv
BY InitIInv, NextIInv, PTL DEF Spec

\* The records of CommandTracker keep their types, ages included: an age is
\* bounded only because the sweeps close old records.
THEOREM TypeCorrect == Spec => []TypeOK
BY Invariant, PTL DEF IInv

\* The timer of async_start_command_sweep() alone gives every command its
\* verdict within the timeout and one interval, polls or not.
THEOREM VerdictsInTime == Spec => []VerdictInTime
<1>1. IInv => VerdictInTime
  <2> SUFFICES ASSUME IInv, NEW c \in Commands, Pending(c)
               PROVE  record[c].age < Timeout + SweepEvery
    BY DEF VerdictInTime
  <2>1. record[c].age \in Nat /\ sweepIn \in Nat
    BY TypeParts DEF IInv, Records
  <2>2. record[c].age + sweepIn < Timeout + SweepEvery
    BY DEF IInv, AgeInv
  <2> QED
    BY <2>1, <2>2, BoundsAssumption
<1> QED
  BY <1>1, Invariant, PTL

\* observe_reported_state() counts every effect that is pushed to a waiting
\* command, and no later step takes it back.
THEOREM HeardIsKept == Spec => []HeardIsConfirmed
BY Invariant, PTL DEF IInv

-------------------------------------------------------------------------------
(* Scales of lamps *)

LEMMA DivBounds ==
    ASSUME NEW a \in Int, NEW n \in Nat, n > 0
    PROVE  /\ a \div n \in Int
           /\ n * (a \div n) <= a
           /\ a < n * (a \div n) + n
  OBVIOUS

LEMMA ProductGrows ==
    ASSUME NEW n \in Nat, NEW i \in Int, NEW j \in Int, i <= j
    PROVE  n * i \in Int /\ n * j \in Int /\ n * i <= n * j
<1>1. j - i \in Nat
  OBVIOUS
<1>2. n * (j - i) \in Nat
  BY <1>1
<1>3. n * (j - i) = n * j - n * i
  OBVIOUS
<1>. QED
  BY <1>2, <1>3

LEMMA DivUnique ==
    ASSUME NEW a \in Int, NEW n \in Nat, n > 0, NEW q \in Int, n * q <= a, a < n * q + n
    PROVE  a \div n = q
<1>. DEFINE r == a \div n
<1>1. r \in Int /\ n * r <= a /\ a < n * r + n
  BY DivBounds
<1>2. CASE q < r
  <2>1. n * (q + 1) <= n * r
    BY <1>1, <1>2, q + 1 <= r, ProductGrows
  <2>2. n * (q + 1) = n * q + n
    BY ONLY q \in Int, n \in Nat
  <2>. QED
    BY <1>1, <2>1, <2>2, n * q \in Int, n * r \in Int
<1>3. CASE r < q
  <2>1. n * (r + 1) <= n * q
    BY <1>1, <1>3, r + 1 <= q, ProductGrows
  <2>2. n * (r + 1) = n * r + n
    BY ONLY r \in Int, n \in Nat, <1>1
  <2>. QED
    BY <1>1, <2>1, <2>2, n * q \in Int, n * r \in Int
<1>. QED
  BY <1>1, <1>2, <1>3

\* How many of the 255 brightnesses fit below y of the n values of a lamp, and the least of
\* the n values that brightness b is not above.
Fits(n, y) == (255 * y) \div n
Least(n, b) == -((-b * n) \div 255)

LEMMA LeastBounds ==
    ASSUME NEW n \in Nat, n > 0, NEW b \in 1 .. 255
    PROVE  /\ Least(n, b) \in 1 .. n
           /\ b * n <= 255 * Least(n, b)
           /\ 255 * Least(n, b) < b * n + 255
<1>. DEFINE p == b * n
<1>1. p \in Int /\ 1 <= p /\ p <= 255 * n
  <2>1. n * 1 <= n * b /\ n * b <= n * 255
    BY ProductGrows
  <2>. QED
    BY <2>1, b * n = n * b, n * 255 = 255 * n
<1>2. -b * n = -p
  OBVIOUS
<1>3. Least(n, b) = -((-p) \div 255)
  BY <1>2 DEF Least
<1>. HIDE DEF p
<1>. QED
  BY <1>1, <1>3 DEF p

\* A brightness shown, sent back and shown again is the same.
LEMMA ThereAndBack ==
    ASSUME NEW n \in Nat, n > 0, NEW y \in 1 .. n,
           NEW b \in 1 .. 255, b = Lamps!Clamped(Lamps!Bright, Fits(n, y))
    PROVE  Fits(n, Least(n, b)) = b
<1>. DEFINE q == Fits(n, y)  f == Least(n, b)
<1>1. q \in Int /\ n * q <= 255 * y /\ 255 * y < n * q + n
  BY DivBounds DEF Fits
<1>2. f \in 1 .. n /\ b * n <= 255 * f /\ 255 * f < b * n + 255
  BY LeastBounds
<1>3. q <= 255
  <2>. SUFFICES ASSUME q >= 256 PROVE FALSE
    BY <1>1
  <2>1. n * 256 <= n * q
    BY <1>1, ProductGrows
  <2>. QED
    BY <1>1, <2>1, n * q \in Int
<1>4. q >= 0
  <2>. SUFFICES ASSUME q <= -1 PROVE FALSE
    BY <1>1
  <2>1. n * q <= n * (-1)
    BY <1>1, ProductGrows
  <2>. QED
    BY <1>1, <2>1, n * q \in Int
<1>5. n * b <= 255 * f /\ 255 * f < n * b + n
  <2>1. CASE q >= 1
    <3>1. b = q
      BY <1>1, <1>3, <2>1 DEF Lamps!Clamped, Lamps!Bright
    <3>2. b * n = n * q
      BY <3>1
    <3>. HIDE DEF q, f
    <3>3. 255 * f < 255 * y + 255
      BY <1>1, <1>2, <3>2, n * q \in Int
    <3>4. f <= y
      BY <3>3, <1>2
    <3>. QED
      BY <1>1, <1>2, <3>2, <3>4, n * q \in Int, n * b = b * n
  <2>2. CASE q = 0
    <3>1. b = 1
      BY <2>2 DEF Lamps!Clamped, Lamps!Bright
    <3>2. 255 * y < n
      BY <1>1, <2>2
    <3>. HIDE DEF q, f
    <3>. QED
      BY <1>2, <3>1, <3>2
  <2>. QED
    BY <1>1, <1>4, <2>1, <2>2
<1>. QED
  BY <1>2, <1>5, DivUnique DEF Fits

LEMMA RangeFacts ==
    ASSUME NEW range \in Ranges
    PROVE  /\ range[1] \in Nat /\ range[2] \in Nat /\ range[1] <= range[2]
           /\ Lamps!States(range) \in Nat /\ Lamps!States(range) > 0
           /\ \A x \in Lamps!In(range) : x \in Nat /\ x - range[1] + 1 \in 1 .. Lamps!States(range)
  BY DEF Ranges, Lamps!States, Lamps!In

\* A scale leads from one below the range it reads to one below the range it writes at least.
LEMMA ScaledBelow ==
    ASSUME NEW from \in Ranges, NEW to \in Ranges, NEW x \in Lamps!Below(from)
    PROVE  Lamps!Scaled(from, to, x) \in Lamps!Below(to)
<1>. DEFINE m == Lamps!States(from)  n == Lamps!States(to)  k == x - from[1] + 1  a == k * n
            q == a \div m
<1>1. m \in Nat /\ m > 0 /\ n \in Nat /\ n > 0
  BY RangeFacts
<1>2. k \in 0 .. m
  BY RangeFacts DEF Lamps!Below, Lamps!States
<1>3. a \in Int /\ 0 <= a /\ a <= m * n
  <2>1. n * 0 <= n * k /\ n * k <= n * m
    BY <1>1, <1>2, ProductGrows
  <2>. QED
    BY <1>1, <1>2, <2>1, a = n * k, n * m = m * n, n * 0 = 0
<1>4. q \in Int /\ m * q <= a /\ a < m * q + m
  BY <1>1, <1>3, DivBounds
<1>5. 0 <= q
  <2>. SUFFICES ASSUME q <= -1 PROVE FALSE
    BY <1>4
  <2>1. m * q <= m * (-1)
    BY <1>1, <1>4, ProductGrows
  <2>. HIDE DEF q, m, a
  <2>. QED
    BY <1>1, <1>3, <1>4, <2>1, m * q \in Int
<1>6. q <= n
  <2>. SUFFICES ASSUME n + 1 <= q PROVE FALSE
    BY <1>1, <1>4
  <2>1. m * (n + 1) <= m * q
    BY <1>1, <1>4, ProductGrows
  <2>2. m * (n + 1) = m * n + m
    BY <1>1
  <2>. HIDE DEF q, m, a, n
  <2>. QED
    BY <1>1, <1>3, <1>4, <2>1, <2>2, m * q \in Int, m * n \in Int
<1>7. Lamps!Scaled(from, to, x) = q + to[1] - 1
  BY DEF Lamps!Scaled
<1>8. to[1] \in Nat /\ to[2] \in Nat /\ n = to[2] - to[1] + 1
  BY RangeFacts DEF Lamps!States
<1>. HIDE DEF q, n
<1>. QED
  BY <1>1, <1>4, <1>5, <1>6, <1>7, <1>8 DEF Lamps!Below

LEMMA ScalesOfBrightness ==
    ASSUME NEW range \in Ranges
    PROVE  /\ \A b \in 1 .. 255 :
                 /\ Lamps!FromBrightness(range, b) = range[1] - 1 + Least(Lamps!States(range), b)
                 /\ Lamps!FromBrightness(range, b) \in Lamps!In(range)
           /\ \A x \in Lamps!In(range) :
                 /\ Lamps!ToBrightness(range, x)
                       = Lamps!Clamped(Lamps!Bright, Fits(Lamps!States(range), x - range[1] + 1))
                 /\ Lamps!ToBrightness(range, x) \in 1 .. 255
<1>. DEFINE n == Lamps!States(range)
<1>0. Lamps!States(Lamps!Bright) = 255 /\ Lamps!Bright[1] = 1 /\ Lamps!Bright[2] = 255
  BY DEF Lamps!States, Lamps!Bright
<1>1. n \in Nat /\ n > 0 /\ range[1] \in Nat /\ range[2] \in Nat /\ n = range[2] - range[1] + 1
  BY RangeFacts DEF Lamps!States
<1>2. ASSUME NEW b \in 1 .. 255
      PROVE  /\ Lamps!FromBrightness(range, b) = range[1] - 1 + Least(n, b)
             /\ Lamps!FromBrightness(range, b) \in Lamps!In(range)
  <2>1. Least(n, b) \in 1 .. n
    BY <1>1, LeastBounds
  <2>2. Lamps!FromBrightness(range, b) = range[1] - 1 - ((-b * n) \div 255)
    BY <1>0 DEF Lamps!FromBrightness
  <2>3. (-b * n) \div 255 \in Int
    BY <1>1
  <2>4. Lamps!FromBrightness(range, b) = range[1] - 1 + Least(n, b)
    BY <1>1, <2>2, <2>3 DEF Least
  <2>. HIDE DEF n
  <2>. QED
    BY <1>1, <2>1, <2>4 DEF Lamps!In
<1>3. ASSUME NEW x \in Lamps!In(range)
      PROVE  /\ Lamps!ToBrightness(range, x)
                   = Lamps!Clamped(Lamps!Bright, Fits(n, x - range[1] + 1))
             /\ Lamps!ToBrightness(range, x) \in 1 .. 255
  <2>. DEFINE y == x - range[1] + 1
  <2>1. y \in 1 .. n
    BY RangeFacts
  <2>2. y * 255 = 255 * y /\ Fits(n, y) \in Int
    BY <1>1, <2>1, DivBounds DEF Fits
  <2>3. Lamps!Scaled(range, Lamps!Bright, x) = ((y * 255) \div n) + 1 - 1
    BY <1>0 DEF Lamps!Scaled
  <2>4. Lamps!Scaled(range, Lamps!Bright, x) = Fits(n, y)
    BY <2>2, <2>3 DEF Fits
  <2>5. Lamps!ToBrightness(range, x) = Lamps!Clamped(Lamps!Bright, Fits(n, y))
    BY <2>4 DEF Lamps!ToBrightness
  <2>6. Lamps!Clamped(Lamps!Bright, Fits(n, y)) \in 1 .. 255
    BY <1>0, <2>2 DEF Lamps!Clamped
  <2>. QED
    BY <2>5, <2>6
<1>. QED
  BY <1>2, <1>3

\* What a lamp shows after it was told what it showed is what it showed.
LEMMA ShownStays ==
    ASSUME NEW range \in Ranges, NEW x \in Lamps!In(range)
    PROVE  LET b == Lamps!ToBrightness(range, x)
           IN  Lamps!ToBrightness(range, Lamps!FromBrightness(range, b)) = b
<1>. DEFINE n == Lamps!States(range)  b == Lamps!ToBrightness(range, x)  y == x - range[1] + 1
            z == Lamps!FromBrightness(range, b)
<1>1. n \in Nat /\ n > 0 /\ y \in 1 .. n
  BY RangeFacts
<1>2. b \in 1 .. 255 /\ b = Lamps!Clamped(Lamps!Bright, Fits(n, y))
  BY ScalesOfBrightness
<1>3. Fits(n, Least(n, b)) = b
  BY <1>1, <1>2, ThereAndBack
<1>4. z = range[1] - 1 + Least(n, b) /\ z \in Lamps!In(range)
  BY <1>2, ScalesOfBrightness
<1>5. Least(n, b) \in 1 .. n /\ range[1] \in Nat
  BY <1>1, <1>2, LeastBounds, RangeFacts
<1>6. z - range[1] + 1 = Least(n, b)
  BY <1>4, <1>5
<1>7. Lamps!ToBrightness(range, z) = Lamps!Clamped(Lamps!Bright, Fits(n, Least(n, b)))
  BY <1>4, <1>6, ScalesOfBrightness
<1>8. Lamps!Clamped(Lamps!Bright, b) = b
  BY <1>2 DEF Lamps!Clamped, Lamps!Bright
<1>. QED
  BY <1>3, <1>7, <1>8

LEMMA PlacesInRange ==
    ASSUME NEW range \in Ranges, NEW p \in 0 .. 100
    PROVE  Lamps!At(range, p) \in Lamps!In(range)
<1>. DEFINE d == range[2] - range[1]  a == d * p
<1>1. d \in Nat /\ range[1] \in Nat /\ range[2] \in Nat
  BY RangeFacts
<1>2. a \in Nat /\ a <= 100 * d
  <2>1. d * 0 <= d * p /\ d * p <= d * 100
    BY <1>1, ProductGrows
  <2>. QED
    BY <1>1, <2>1
<1>. HIDE DEF a
<1>3. a \div 100 \in 0 .. d
  BY <1>1, <1>2
<1>4. Lamps!At(range, p) = range[1] + a \div 100
  BY DEF Lamps!At, a
<1>. QED
  BY <1>1, <1>3, <1>4 DEF Lamps!In

-------------------------------------------------------------------------------
(* Lamps *)

\* The brightness asked for last outlives the modes a coloured lamp goes through, not only
\* while it is shown.
Lasting ==
    asked # Lamps!None /\ server.colour.v > 0 =>
        Lamps!ToBrightness(Lamps!ValueRange, server.colour.v)
            = Lamps!ToBrightness(Lamps!ValueRange, Lamps!FromBrightness(Lamps!ValueRange, asked))
LampInv == Lamps!TypeOK /\ Lasting

LEMMA RangesOfLamp ==
    ASSUME thing \in Configs
    PROVE  /\ Lamps!BrightRange \in Ranges /\ Lamps!TempRange \in Ranges
           /\ Lamps!RealTemp \in Ranges /\ Lamps!ValueRange \in Ranges
           /\ Lamps!HueRange \in Ranges /\ Lamps!SatRange \in Ranges
           /\ Lamps!Hue \in Ranges /\ Lamps!Percent \in Ranges /\ Lamps!Bright \in Ranges
<1>1. /\ thing.bright \in Ranges \cup {<<>>} /\ thing.temp \in Ranges \cup {<<>>}
      /\ thing.colour \in (Ranges \X Ranges \X Ranges) \cup {<<>>} /\ thing.strip \in BOOLEAN
  BY EntityAssumptions DEF LampAssumption
<1>2. /\ <<0, 360>> \in Ranges /\ <<0, 100>> \in Ranges /\ <<1, 255>> \in Ranges
      /\ <<1, 100>> \in Ranges /\ <<2000, 6500>> \in Ranges /\ <<2700, 6500>> \in Ranges
  BY DEF Ranges
<1>3. Lamps!BrightRange \in Ranges /\ Lamps!TempRange \in Ranges
  BY <1>1, <1>2 DEF Lamps!BrightRange, Lamps!TempRange, Lamps!Or, Lamps!Bright, Lamps!Percent
<1>4. Lamps!ValueRange \in Ranges /\ Lamps!HueRange \in Ranges /\ Lamps!SatRange \in Ranges
  BY <1>1, <1>2 DEF Lamps!ValueRange, Lamps!HueRange, Lamps!SatRange, Lamps!Hue, Lamps!Percent
<1>. QED
  BY <1>1, <1>2, <1>3, <1>4 DEF Lamps!RealTemp, Lamps!Hue, Lamps!Percent, Lamps!Bright

LEMMA LampStarts == ASSUME Lamps!Init PROVE LampInv
  BY DEF Lamps!Init, Lamps!TypeOK, Lamps!NoColour, Lamps!None, LampInv, Lasting

\* What is shown of a lamp, and what is sent to it, keeps to its ranges.
LEMMA ShownOfLamp ==
    ASSUME Lamps!TypeOK
    PROVE  /\ Lamps!ShownBrightness \in {Lamps!None} \cup 1 .. 255
           /\ Lamps!InColour => Lamps!ShownBrightness # Lamps!None
           /\ Lamps!ShownColour[1] \in Lamps!Below(Lamps!Hue)
           /\ Lamps!ShownColour[2] \in Lamps!Below(Lamps!Percent)
           /\ server.colour.v > 0 => server.colour.v \in Lamps!In(Lamps!ValueRange)
<1>. DEFINE c == server.colour
<1>0. /\ c \in {Lamps!NoColour} \cup
            [h : Lamps!Below(Lamps!HueRange), s : Lamps!Below(Lamps!SatRange),
             v : Lamps!In(Lamps!ValueRange)]
      /\ server.bright \in {Lamps!None} \cup Lamps!In(Lamps!BrightRange)
      /\ thing \in Configs
  BY DEF Lamps!TypeOK
<1>1. server.colour.v > 0 => server.colour.v \in Lamps!In(Lamps!ValueRange)
  BY <1>0 DEF Lamps!None, Lamps!NoColour
<1>2. /\ Lamps!ShownBrightness \in {Lamps!None} \cup 1 .. 255
      /\ Lamps!InColour => Lamps!ShownBrightness # Lamps!None
  BY <1>0, <1>1, ScalesOfBrightness, RangesOfLamp
     DEF Lamps!ShownBrightness, Lamps!InColour, Lamps!None
<1>3. CASE c = Lamps!NoColour
  BY <1>1, <1>2, <1>3 DEF Lamps!ShownColour, Lamps!Below, Lamps!Hue, Lamps!Percent
<1>4. CASE c # Lamps!NoColour
  <2>1. c.h \in Lamps!Below(Lamps!HueRange) /\ c.s \in Lamps!Below(Lamps!SatRange)
    BY <1>0, <1>4
  <2>2. /\ Lamps!Scaled(Lamps!HueRange, Lamps!Hue, c.h) \in Lamps!Below(Lamps!Hue)
        /\ Lamps!Scaled(Lamps!SatRange, Lamps!Percent, c.s) \in Lamps!Below(Lamps!Percent)
    BY <1>0, <2>1, ScaledBelow, RangesOfLamp
  <2>. QED
    BY <1>1, <1>2, <1>4, <2>2 DEF Lamps!ShownColour
<1>. QED
  BY <1>3, <1>4

LEMMA LampPainted ==
    ASSUME thing \in Configs, NEW hs, hs[1] \in Lamps!Below(Lamps!Hue),
           hs[2] \in Lamps!Below(Lamps!Percent), NEW b \in 1 .. 255
    PROVE  Lamps!Painted(hs, b) \in
             [h : Lamps!Below(Lamps!HueRange), s : Lamps!Below(Lamps!SatRange),
              v : Lamps!In(Lamps!ValueRange)]
<1>1. /\ Lamps!Scaled(Lamps!Hue, Lamps!HueRange, hs[1]) \in Lamps!Below(Lamps!HueRange)
      /\ Lamps!Scaled(Lamps!Percent, Lamps!SatRange, hs[2]) \in Lamps!Below(Lamps!SatRange)
  BY ScaledBelow, RangesOfLamp
<1>2. Lamps!FromBrightness(Lamps!ValueRange, b) \in Lamps!In(Lamps!ValueRange)
  BY ScalesOfBrightness, RangesOfLamp
<1>. QED
  BY <1>1, <1>2 DEF Lamps!Painted

LEMMA LampRaised ==
    ASSUME Lamps!TypeOK, NEW b \in {Lamps!None} \cup 1 .. 255
    PROVE  /\ Lamps!Raised(b) = [server EXCEPT !.on = TRUE, !.bright = Lamps!Raised(b).bright]
           /\ Lamps!Raised(b).bright \in {Lamps!None} \cup Lamps!In(Lamps!BrightRange)
<1>1. b # Lamps!None => Lamps!FromBrightness(Lamps!BrightRange, b) \in Lamps!In(Lamps!BrightRange)
  BY ScalesOfBrightness, RangesOfLamp DEF Lamps!TypeOK
<1>. QED
  BY <1>1 DEF Lamps!TypeOK, Lamps!Raised

\* The type of a lamp, for one with the same configuration.
LampRecords ==
    [on : BOOLEAN, mode : {"none", "white", "colour", "scene"},
     bright : {Lamps!None} \cup Lamps!In(Lamps!BrightRange), temp : {Lamps!None} \cup Nat,
     colour : {Lamps!NoColour} \cup
        [h : Lamps!Below(Lamps!HueRange), s : Lamps!Below(Lamps!SatRange),
         v : Lamps!In(Lamps!ValueRange)]]

\* A step that leaves the configuration alone keeps its ranges.
LEMMA LampFixed ==
    ASSUME thing' = thing
    PROVE  /\ Lamps!BrightRange' = Lamps!BrightRange /\ Lamps!ValueRange' = Lamps!ValueRange
           /\ Lamps!HueRange' = Lamps!HueRange /\ Lamps!SatRange' = Lamps!SatRange
           /\ LampRecords' = LampRecords
<1>1. /\ Lamps!BrightRange' = Lamps!BrightRange /\ Lamps!ValueRange' = Lamps!ValueRange
      /\ Lamps!HueRange' = Lamps!HueRange /\ Lamps!SatRange' = Lamps!SatRange
  BY DEF Lamps!BrightRange, Lamps!ValueRange, Lamps!HueRange, Lamps!SatRange
<1>. QED
  BY <1>1 DEF LampRecords

LEMMA LampColoured ==
    ASSUME LampInv, NEW hs \in Colours, NEW b \in Lamps!Given, Lamps!TurnOnColour(hs, b)
    PROVE  LampInv'
<1>. DEFINE kept == Lamps!Kept(b)
<1>1. thing \in Configs /\ b \in {Lamps!None} \cup 1 .. 255 /\ asked \in {Lamps!None} \cup 1 .. 255
      /\ server \in LampRecords
  BY EntityAssumptions DEF LampAssumption, LampInv, Lamps!TypeOK, Lamps!Given, LampRecords
<1>2. thing' = thing /\ server' = [Lamps!Raised(b) EXCEPT !.mode = "colour",
                                        !.colour = Lamps!Painted(hs, kept)]
      /\ asked' = IF b = Lamps!None /\ Lamps!InColour THEN asked ELSE kept
  BY DEF Lamps!TurnOnColour
<1>3. kept \in 1 .. 255
  BY <1>1, ShownOfLamp DEF LampInv, Lamps!Kept, Lamps!None
<1>4. hs[1] \in Lamps!Below(Lamps!Hue) /\ hs[2] \in Lamps!Below(Lamps!Percent)
  <2>1. hs[1] \in 0 .. 360 /\ hs[2] \in 0 .. 100
    BY EntityAssumptions DEF LampAssumption
  <2>. QED
    BY <2>1 DEF Lamps!Below, Lamps!Hue, Lamps!Percent
<1>5. server' \in LampRecords
  <2>. DEFINE bright == Lamps!Raised(b).bright  paint == Lamps!Painted(hs, kept)
  <2>1. bright \in {Lamps!None} \cup Lamps!In(Lamps!BrightRange)
        /\ Lamps!Raised(b) = [server EXCEPT !.on = TRUE, !.bright = bright]
    BY <1>1, LampRaised DEF LampInv
  <2>2. paint \in [h : Lamps!Below(Lamps!HueRange), s : Lamps!Below(Lamps!SatRange),
                   v : Lamps!In(Lamps!ValueRange)]
    BY <1>1, <1>3, <1>4, LampPainted
  <2>. HIDE DEF bright, paint
  <2>3. server' = [server EXCEPT !.on = TRUE, !.bright = bright, !.mode = "colour", !.colour = paint]
    BY <1>1, <1>2, <2>1 DEF LampRecords, paint
  <2>. QED
    BY <1>1, <2>1, <2>2, <2>3 DEF LampRecords
<1>6. Lamps!TypeOK'
  BY <1>1, <1>2, <1>3, <1>5, LampFixed DEF Lamps!TypeOK, LampRecords
<1>7. server'.colour.v = Lamps!FromBrightness(Lamps!ValueRange, kept)
  BY <1>1, <1>2, LampRaised DEF LampInv, Lamps!Painted, LampRecords
<1>8. CASE b = Lamps!None /\ Lamps!InColour
  <2>1. kept = Lamps!ToBrightness(Lamps!ValueRange, server.colour.v)
    BY <1>8, ShownOfLamp DEF LampInv, Lamps!Kept, Lamps!ShownBrightness
  <2>2. asked # Lamps!None => kept
          = Lamps!ToBrightness(Lamps!ValueRange, Lamps!FromBrightness(Lamps!ValueRange, asked))
    BY <1>8, <2>1 DEF LampInv, Lasting, Lamps!InColour
  <2>3. Lamps!ToBrightness(Lamps!ValueRange, Lamps!FromBrightness(Lamps!ValueRange, kept)) = kept
    BY <1>1, <1>8, <2>1, ShownStays, ShownOfLamp, RangesOfLamp DEF LampInv, Lamps!InColour
  <2>. QED
    BY <1>2, <1>6, <1>7, <1>8, <2>2, <2>3, LampFixed DEF LampInv, Lasting
<1>9. CASE ~(b = Lamps!None /\ Lamps!InColour)
  BY <1>2, <1>6, <1>7, <1>9, LampFixed DEF LampInv, Lasting
<1>. QED
  BY <1>8, <1>9

\* A step that leaves the colour alone, or forgets what was asked for.
LEMMA LampStep ==
    ASSUME LampInv, thing' = thing, server' \in LampRecords,
           (asked' = asked /\ server'.colour = server.colour) \/ asked' = Lamps!None
    PROVE  LampInv'
<1>1. thing \in Configs /\ asked \in {Lamps!None} \cup 1 .. 255
  BY DEF LampInv, Lamps!TypeOK
<1>2. Lamps!TypeOK'
  BY <1>1, LampFixed DEF Lamps!TypeOK, LampRecords
<1>3. Lasting'
  BY LampFixed DEF LampInv, Lasting
<1>. QED
  BY <1>2, <1>3 DEF LampInv

LEMMA LampRaisedTyped ==
    ASSUME LampInv, NEW b \in {Lamps!None} \cup 1 .. 255
    PROVE  /\ Lamps!Raised(b) \in LampRecords /\ Lamps!Raised(b).colour = server.colour
           /\ server \in LampRecords
<1>1. server \in LampRecords
  BY DEF LampInv, Lamps!TypeOK, LampRecords
<1>2. /\ Lamps!Raised(b) = [server EXCEPT !.on = TRUE, !.bright = Lamps!Raised(b).bright]
      /\ Lamps!Raised(b).bright \in {Lamps!None} \cup Lamps!In(Lamps!BrightRange)
  BY LampRaised DEF LampInv
<1>. QED
  BY <1>1, <1>2 DEF LampRecords

LEMMA LampWhite ==
    ASSUME LampInv, NEW kelvin \in Kelvins, NEW b \in Lamps!Given, Lamps!TurnOnWhite(kelvin, b)
    PROVE  LampInv'
<1>. DEFINE temp == Lamps!Scaled(Lamps!RealTemp, Lamps!TempRange, kelvin)
<1>1. b \in {Lamps!None} \cup 1 .. 255 /\ kelvin \in Nat /\ thing \in Configs
  BY EntityAssumptions DEF LampAssumption, Lamps!Given, LampInv, Lamps!TypeOK
<1>2. temp \in Int
  <2>1. Lamps!RealTemp \in Ranges /\ Lamps!TempRange \in Ranges
    BY <1>1, RangesOfLamp
  <2>2. /\ Lamps!States(Lamps!RealTemp) \in Nat /\ Lamps!States(Lamps!RealTemp) > 0
        /\ Lamps!States(Lamps!TempRange) \in Nat
        /\ Lamps!RealTemp[1] \in Nat /\ Lamps!TempRange[1] \in Nat
    BY <2>1, RangeFacts
  <2>3. (kelvin - Lamps!RealTemp[1] + 1) * Lamps!States(Lamps!TempRange) \in Int
    BY <1>1, <2>2
  <2>. QED
    BY <2>2, <2>3, DivBounds DEF Lamps!Scaled
<1>. DEFINE sent == IF temp < 0 THEN 0 ELSE temp
<1>3. sent \in Nat
  BY <1>2
<1>4. server' = [Lamps!Raised(b) EXCEPT !.mode = "white", !.temp = sent]
  BY DEF Lamps!TurnOnWhite
<1>5. server' \in LampRecords
  <2>. DEFINE raised == Lamps!Raised(b)
  <2>1. raised \in LampRecords
    BY <1>1, LampRaisedTyped
  <2>. HIDE DEF sent, raised
  <2>2. server' = [raised EXCEPT !.mode = "white", !.temp = sent]
    BY <1>4 DEF raised
  <2>. QED
    BY <1>3, <2>1, <2>2 DEF LampRecords
<1>. QED
  BY <1>5, LampStep DEF Lamps!TurnOnWhite

LEMMA LampBrightness ==
    ASSUME LampInv, NEW b \in Brightnesses, Lamps!TurnOnBrightness(b)
    PROVE  LampInv'
<1>1. b \in 1 .. 255 /\ thing \in Configs /\ b # Lamps!None
  BY EntityAssumptions DEF LampAssumption, LampInv, Lamps!TypeOK, Lamps!None
<1>2. CASE server.mode = "colour"
  <2>. DEFINE paint == Lamps!Painted(Lamps!ShownColour, b)
  <2>1. paint \in [h : Lamps!Below(Lamps!HueRange), s : Lamps!Below(Lamps!SatRange),
                   v : Lamps!In(Lamps!ValueRange)]
    BY <1>1, LampPainted, ShownOfLamp DEF LampInv
  <2>2. server' = [Lamps!Raised(Lamps!None) EXCEPT !.colour = paint] /\ asked' = b /\ thing' = thing
    BY <1>2 DEF Lamps!TurnOnBrightness
  <2>3. paint.v = Lamps!FromBrightness(Lamps!ValueRange, b)
    BY DEF Lamps!Painted
  <2>4. server' \in LampRecords /\ server'.colour = paint
    <3>. DEFINE raised == Lamps!Raised(Lamps!None)
    <3>1. raised \in LampRecords
      BY LampRaisedTyped
    <3>. HIDE DEF paint, raised
    <3>2. server' = [raised EXCEPT !.colour = paint]
      BY <2>2 DEF raised
    <3>. QED
      BY <2>1, <3>1, <3>2 DEF LampRecords
  <2>5. Lamps!TypeOK'
    BY <1>1, <2>2, <2>4, LampFixed DEF Lamps!TypeOK, LampRecords
  <2>. QED
    BY <2>2, <2>3, <2>4, <2>5, LampFixed DEF LampInv, Lasting
<1>3. CASE server.mode # "colour"
  BY <1>1, <1>3, LampRaisedTyped, LampStep DEF Lamps!TurnOnBrightness
<1>. QED
  BY <1>2, <1>3

LEMMA LampSwitched ==
    ASSUME LampInv,
           (\E effect \in {"candle", "unknown"} : Lamps!TurnOnEffect(effect))
               \/ Lamps!TurnOn \/ Lamps!TurnOff
    PROVE  LampInv'
<1>1. /\ Lamps!Raised(Lamps!None) \in LampRecords
      /\ Lamps!Raised(Lamps!None).colour = server.colour /\ server \in LampRecords
  BY LampRaisedTyped
<1>2. ASSUME NEW effect \in {"candle", "unknown"}, Lamps!TurnOnEffect(effect) PROVE LampInv'
  <2>1. CASE effect \in thing.scenes
    <3>1. server' = [Lamps!Raised(Lamps!None) EXCEPT !.mode = "scene"] /\ asked' = Lamps!None
          /\ thing' = thing
      BY <1>2, <2>1 DEF Lamps!TurnOnEffect
    <3>2. server' \in LampRecords
      BY <1>1, <3>1 DEF LampRecords
    <3>. QED
      BY <3>1, <3>2, LampStep
  <2>2. CASE effect \notin thing.scenes
    BY <1>1, <1>2, <2>2, LampStep DEF Lamps!TurnOnEffect
  <2>. QED
    BY <2>1, <2>2
<1>3. CASE Lamps!TurnOn
  BY <1>1, <1>3, LampStep DEF Lamps!TurnOn
<1>4. CASE Lamps!TurnOff
  <2>1. server' \in LampRecords /\ server'.colour = server.colour
    BY <1>1, <1>4 DEF Lamps!TurnOff, LampRecords
  <2>. QED
    BY <1>4, <2>1, LampStep DEF Lamps!TurnOff
<1>. QED
  BY <1>2, <1>3, <1>4

LEMMA LampApplication ==
    ASSUME LampInv, NEW p \in Raw, Lamps!Application(p)
    PROVE  LampInv'
<1>. DEFINE now_ == IF server'.mode = "colour" /\ server'.colour # server.colour
                       /\ server'.colour.v > 0
                    THEN Lamps!ToBrightness(Lamps!ValueRange, server'.colour.v) ELSE asked
<1>1. p \in 0 .. 100 /\ thing \in Configs /\ server \in LampRecords /\ thing' = thing
      /\ asked' = now_
  BY EntityAssumptions DEF LampAssumption, LampInv, Lamps!TypeOK, LampRecords, Lamps!Application
<1>2. /\ Lamps!At(Lamps!BrightRange, p) \in Lamps!In(Lamps!BrightRange)
      /\ Lamps!At(Lamps!HueRange, p) \in Lamps!In(Lamps!HueRange)
      /\ Lamps!At(Lamps!SatRange, p) \in Lamps!In(Lamps!SatRange)
      /\ Lamps!At(Lamps!ValueRange, p) \in Lamps!In(Lamps!ValueRange)
      /\ Lamps!At(Lamps!TempRange, p) \in Nat
  BY <1>1, RangesOfLamp, PlacesInRange, RangeFacts
<1>3. CASE server' = [server EXCEPT !.mode = "colour",
                          !.colour = [h |-> Lamps!At(Lamps!HueRange, p),
                                      s |-> Lamps!At(Lamps!SatRange, p),
                                      v |-> Lamps!At(Lamps!ValueRange, p)]]
  <2>. DEFINE c == [h |-> Lamps!At(Lamps!HueRange, p), s |-> Lamps!At(Lamps!SatRange, p),
                    v |-> Lamps!At(Lamps!ValueRange, p)]
  <2>1. c \in [h : Lamps!Below(Lamps!HueRange), s : Lamps!Below(Lamps!SatRange),
               v : Lamps!In(Lamps!ValueRange)]
    BY <1>1, <1>2, RangesOfLamp, RangeFacts DEF Lamps!In, Lamps!Below
  <2>2. c.v = Lamps!At(Lamps!ValueRange, p)
    OBVIOUS
  <2>. HIDE DEF c
  <2>3. server' \in LampRecords /\ server'.colour = c /\ server'.mode = "colour"
    BY <1>1, <1>3, <2>1 DEF LampRecords, c
  <2>4. CASE c # server.colour /\ c.v > 0
    <3>1. asked' = Lamps!ToBrightness(Lamps!ValueRange, c.v)
      BY <1>1, <2>3, <2>4
    <3>2. asked' \in 1 .. 255
      BY <1>1, <1>2, <2>2, <3>1, ScalesOfBrightness, RangesOfLamp
    <3>3. Lamps!ToBrightness(Lamps!ValueRange, Lamps!FromBrightness(Lamps!ValueRange, asked'))
             = asked'
      BY <1>1, <1>2, <2>2, <3>1, ShownStays, RangesOfLamp
    <3>4. Lamps!TypeOK'
      BY <1>1, <2>3, <3>2, LampFixed DEF Lamps!TypeOK, LampRecords
    <3>. QED
      BY <1>1, <2>3, <3>1, <3>3, <3>4, LampFixed DEF LampInv, Lasting
  <2>5. CASE c = server.colour
    BY <1>1, <2>3, <2>5, LampStep
  <2>6. CASE c # server.colour /\ ~(c.v > 0)
    <3>1. asked' = asked
      BY <1>1, <2>3, <2>6
    <3>2. Lamps!TypeOK'
      BY <1>1, <2>3, <3>1, LampFixed DEF LampInv, Lamps!TypeOK, LampRecords
    <3>. QED
      BY <2>3, <2>6, <3>2 DEF LampInv, Lasting
  <2>. QED
    BY <2>4, <2>5, <2>6
<1>4. CASE \/ server' = [server EXCEPT !.on = TRUE, !.bright = Lamps!At(Lamps!BrightRange, p)]
           \/ server' = [server EXCEPT !.mode = "white", !.temp = Lamps!At(Lamps!TempRange, p)]
           \/ server' = [server EXCEPT !.on = FALSE]
  <2>1. server' \in LampRecords /\ server'.colour = server.colour
    BY <1>1, <1>2, <1>4 DEF LampRecords
  <2>. QED
    BY <1>1, <2>1, LampStep
<1>. QED
  BY <1>3, <1>4 DEF Lamps!Application

LEMMA LampKept == ASSUME LampInv, Lamps!Next PROVE LampInv'
  BY LampColoured, LampWhite, LampBrightness, LampSwitched, LampApplication DEF Lamps!Next

LEMMA LampSound == ASSUME LampInv PROVE Lamps!TypeOK /\ Lamps!NoDrift /\ Lamps!ModeSupported
<1>1. Lamps!NoDrift
  BY ShownOfLamp DEF LampInv, Lasting, Lamps!NoDrift, Lamps!InColour, Lamps!ShownBrightness
<1>2. Lamps!SupportedModes # {}
  BY DEF Lamps!SupportedModes
<1>3. Lamps!ModeSupported
  BY <1>2 DEF Lamps!ModeSupported, Lamps!ColorModes
<1>. QED
  BY <1>1, <1>3 DEF LampInv

-------------------------------------------------------------------------------
(* The ring of the speakers *)

RingColours == [id : {"online", "error"}, hue : Nat, bright : 0 .. 100]
Apart(list) == \A i, j \in 1 .. Len(list) : list[i].id = list[j].id => i = j

\* A brightness on its way shows what it was sent for, and is off exactly if that was meant.
PutMeant(put) ==
    /\ put.colour \in RingColours /\ put.wish \in 0 .. 255
    /\ Rings!Shown(put.colour.bright) >= put.wish
    /\ put.colour.bright > 0 <=> put.wish > 0

RingInv ==
    /\ server \in Seq(RingColours) /\ Apart(server)
    /\ cache \in Seq(RingColours) /\ Apart(cache)
    /\ \A put \in sending : PutMeant(put)
    /\ Rings!RingShines

LEMMA ShownOfRing ==
    /\ \A raw \in 0 .. 100 : /\ Rings!Shown(raw) \in 0 .. 255
                             /\ raw > 0 <=> Rings!Shown(raw) > 0
    /\ \A b \in 1 .. 255 : Rings!Sent(b) \in 1 .. 100 /\ Rings!Shown(Rings!Sent(b)) >= b
<1>1. ASSUME NEW raw \in 0 .. 100
      PROVE  Rings!Shown(raw) \in 0 .. 255 /\ (raw > 0 <=> Rings!Shown(raw) > 0)
  BY DEF Rings!Shown, Rings!Clamped
<1>2. ASSUME NEW b \in 1 .. 255
      PROVE  Rings!Sent(b) \in 1 .. 100 /\ Rings!Shown(Rings!Sent(b)) >= b
  <2>. DEFINE s == (b * 100 + 254) \div 255
  <2>1. s \in 1 .. 100 /\ 255 * s >= 100 * b
    OBVIOUS
  <2>2. Rings!Sent(b) = s
    BY <2>1 DEF Rings!Sent, Rings!Clamped
  <2>. HIDE DEF s
  <2>3. Rings!Shown(s) >= b
    BY <2>1 DEF Rings!Shown, Rings!Clamped
  <2>. QED
    BY <2>1, <2>2, <2>3
<1>. QED
  BY <1>1, <1>2

\* A colour that is put into a list of unlike ones stands in it once.
LEMMA PutOnce ==
    ASSUME NEW list \in Seq(RingColours), Apart(list), NEW colour_ \in RingColours
    PROVE  LET after == Rings!Put(list, colour_)
           IN  /\ after \in Seq(RingColours) /\ Apart(after)
               /\ \E i \in 1 .. Len(after) : after[i].id = colour_.id
               /\ \A i \in 1 .. Len(after) : after[i].id = colour_.id => after[i] = colour_
<1>. DEFINE after == Rings!Put(list, colour_)
<1>1. CASE \E i \in 1 .. Len(list) : list[i].id = colour_.id
  <2>1. after = [i \in 1 .. Len(list) |-> IF list[i].id = colour_.id THEN colour_ ELSE list[i]]
    BY <1>1 DEF Rings!Put
  <2>. HIDE DEF after
  <2>2. after \in Seq(RingColours) /\ Len(after) = Len(list)
    BY <2>1
  <2>3. \A i \in 1 .. Len(list) : after[i].id = list[i].id
    BY <2>1
  <2>. QED
    BY <1>1, <2>1, <2>2, <2>3 DEF Apart, after
<1>2. CASE ~\E i \in 1 .. Len(list) : list[i].id = colour_.id
  <2>1. after = Append(list, colour_)
    BY <1>2 DEF Rings!Put
  <2>. HIDE DEF after
  <2>2. /\ after \in Seq(RingColours) /\ Len(after) = Len(list) + 1
        /\ \A i \in 1 .. Len(list) : after[i] = list[i]
        /\ after[Len(list) + 1] = colour_
    BY <2>1
  <2>. QED
    BY <1>2, <2>2 DEF Apart, after
<1>. QED
  BY <1>1, <1>2

LEMMA ShortLists ==
    ASSUME NEW a \in RingColours, NEW b \in RingColours, a.id # b.id
    PROVE  /\ <<a>> \in Seq(RingColours) /\ Apart(<<a>>)
           /\ <<a, b>> \in Seq(RingColours) /\ Apart(<<a, b>>)
<1>1. Apart(<<a>>)
  BY DEF Apart
<1>2. Apart(<<a, b>>)
  <2>. DEFINE list == <<a, b>>
  <2>1. Len(list) = 2 /\ list[1] = a /\ list[2] = b
    OBVIOUS
  <2>. HIDE DEF list
  <2>2. \A i, j \in {1, 2} : list[i].id = list[j].id => i = j
    BY <2>1
  <2>3. 1 .. Len(list) = {1, 2}
    BY <2>1
  <2>. QED
    BY <2>2, <2>3 DEF Apart, list
<1>. QED
  BY <1>1, <1>2

LEMMA RingStarts == ASSUME Rings!Init PROVE RingInv
<1>. DEFINE off == [id |-> "online", hue |-> 0, bright |-> 0]
            on_ == [id |-> "online", hue |-> 0, bright |-> 80]
            red == [id |-> "error", hue |-> 9, bright |-> 50]
<1>1. /\ off \in RingColours /\ off.id = "online"
      /\ on_ \in RingColours /\ on_.id = "online"
      /\ red \in RingColours /\ red.id = "error"
  BY DEF RingColours
<1>2. server \in {<<off>>, <<on_, red>>, <<red, on_>>}
  BY DEF Rings!Init, Rings!Known
<1>. HIDE DEF off, on_, red
<1>4. server \in Seq(RingColours) /\ Apart(server)
  BY <1>1, <1>2, ShortLists
<1>5. <<>> \in Seq(RingColours) /\ Apart(<<>>)
  BY DEF Apart
<1>. QED
  BY <1>4, <1>5 DEF Rings!Init, RingInv, Rings!RingShines

LEMMA RingKept == ASSUME RingInv, Rings!Next PROVE RingInv'
<1>1. CASE Rings!Refresh
  BY <1>1 DEF Rings!Refresh, RingInv, Rings!RingShines, Apart
<1>2. CASE Rings!Application
  <2>1. server' \in Seq(RingColours) /\ Apart(server')
    <3>0. server \in Seq(RingColours) /\ Len(server) = 2 /\ Apart(server)
      BY <1>2 DEF Rings!Application, RingInv
    <3>1. server[1] \in RingColours /\ server[2] \in RingColours /\ server[1].id # server[2].id
      <4>1. 1 \in 1 .. Len(server) /\ 2 \in 1 .. Len(server) /\ 1 # 2
        BY <3>0
      <4>2. server[1] \in RingColours /\ server[2] \in RingColours
        BY <3>0, <4>1, \A s \in Seq(RingColours) : \A i \in 1 .. Len(s) : s[i] \in RingColours
      <4>3. server[1].id = server[2].id => 1 = 2
        BY <3>0, <4>1 DEF Apart
      <4>. QED
        BY <4>2, <4>3
    <3>2. server' = <<server[2], server[1]>> \/ server' = <<server[2]>>
      BY <1>2 DEF Rings!Application
    <3>. QED
      BY <3>1, <3>2, ShortLists
  <2>. QED
    BY <1>2, <2>1 DEF Rings!Application, RingInv, Rings!RingShines, Apart
<1>3. ASSUME NEW b \in Levels \cup {Rings!None}, Rings!TurnOn(b) PROVE RingInv'
  <2>. DEFINE current == cache[1]
              raw == IF b # Rings!None THEN Rings!Sent(b)
                     ELSE IF current.bright # 0 THEN current.bright ELSE 100
              wish == IF b # Rings!None THEN b ELSE Rings!Shown(raw)
              put == [colour |-> [current EXCEPT !.bright = raw], wish |-> wish]
  <2>1. current \in RingColours
    BY <1>3 DEF Rings!TurnOn, RingInv
  <2>2. raw \in 1 .. 100 /\ wish \in 1 .. 255 /\ Rings!Shown(raw) >= wish
    <3>1. CASE b # Rings!None
      <4>1. b \in 1 .. 255
        BY <1>3, <3>1, EntityAssumptions DEF RingAssumption
      <4>. QED
        BY <3>1, <4>1, ShownOfRing
    <3>2. CASE b = Rings!None
      <4>1. raw \in 1 .. 100 /\ wish = Rings!Shown(raw)
        BY <2>1, <3>2 DEF RingColours
      <4>. HIDE DEF raw
      <4>2. Rings!Shown(raw) \in 1 .. 255
        <5>1. raw \in 0 .. 100 /\ raw > 0
          BY <4>1
        <5>2. Rings!Shown(raw) \in 0 .. 255 /\ Rings!Shown(raw) > 0
          BY <5>1, ShownOfRing
        <5>. QED
          BY <5>2
      <4>. QED
        BY <4>1, <4>2
    <3>. QED
      BY <3>1, <3>2
  <2>. HIDE DEF raw, wish, current
  <2>3. put.colour \in RingColours /\ put.colour.bright = raw /\ put.wish = wish
    BY <2>1, <2>2 DEF RingColours
  <2>4. PutMeant(put)
    BY <2>2, <2>3 DEF PutMeant
  <2>5. sending' = {put}
    BY <1>3 DEF Rings!TurnOn, raw, wish, current
  <2>. QED
    BY <1>3, <2>4, <2>5 DEF Rings!TurnOn, RingInv, Rings!RingShines, Apart
<1>4. CASE Rings!TurnOff
  <2>. DEFINE put == [colour |-> [cache[1] EXCEPT !.bright = 0], wish |-> 0]
  <2>1. cache[1] \in RingColours
    BY <1>4 DEF Rings!TurnOff, RingInv
  <2>2. put.colour \in RingColours /\ put.colour.bright = 0 /\ put.wish = 0
    BY <2>1 DEF RingColours
  <2>3. PutMeant(put)
    <3>1. Rings!Shown(0) \in 0 .. 255
      BY ShownOfRing
    <3>. QED
      BY <2>2, <3>1 DEF PutMeant
  <2>. QED
    BY <1>4, <2>3 DEF Rings!TurnOff, RingInv, Rings!RingShines, Apart
<1>5. ASSUME NEW put \in sending, Rings!Served(put) PROVE RingInv'
  <2>1. PutMeant(put)
    BY DEF RingInv
  <2>2. /\ server' = Rings!Put(server, put.colour) /\ cache' = Rings!Put(cache, put.colour)
        /\ asked' = [id |-> put.colour.id, wish |-> put.wish] /\ sending' = {}
    BY <1>5 DEF Rings!Served
  <2>3. /\ server' \in Seq(RingColours) /\ Apart(server')
        /\ cache' \in Seq(RingColours) /\ Apart(cache')
        /\ \E i \in 1 .. Len(cache') : cache'[i].id = put.colour.id
        /\ \A i \in 1 .. Len(cache') : cache'[i].id = put.colour.id => cache'[i] = put.colour
    <3>1. /\ server \in Seq(RingColours) /\ Apart(server) /\ cache \in Seq(RingColours)
          /\ Apart(cache) /\ put.colour \in RingColours
      BY <2>1 DEF PutMeant, RingInv
    <3>. QED
      BY <2>2, <3>1, PutOnce
  <2>. QED
    BY <2>1, <2>2, <2>3 DEF RingInv, PutMeant, Rings!RingShines, Apart
<1>6. CASE Rings!Refused
  BY <1>6 DEF Rings!Refused, RingInv, Rings!RingShines, Apart
<1>. QED
  BY <1>1, <1>2, <1>3, <1>4, <1>5, <1>6 DEF Rings!Next

-------------------------------------------------------------------------------
(* The attributes: what the tables say of a key and its row *)

BoolKeys == {"on_off", "mute", "online", "water_leak_state", "doorcontact_state",
             "motion_state", "pir", "smoke_state", "gas_leak_state"}
EnumKeys == {"hvac_air_flow_power", "source"}
IntKeys  == {"hvac_humidity_set"}

\* The codec goes with the platform and, where a primary entity shows the key, with the key.
RowFits(k, row) ==
    /\ row.platform \in {"binary_sensor", "switch", "select", "number", "sensor", "button",
                         "event", "none"}
    /\ row.platform = "binary_sensor" => row.codec \in {"bool", "presence"}
    /\ row.platform = "switch" => row.codec = "bool"
    /\ row.platform = "select" => row.codec = "enum"
    /\ row.platform = "number" => row.codec = "int"
    /\ row.platform = "sensor" => row.codec \in {"int", "enum", "temp", "float", "milli"}
    /\ k \in BoolKeys => row.codec = "bool"
    /\ k \in EnumKeys => row.codec = "enum"
    /\ k \in IntKeys => row.codec = "int"
    /\ k = "volume_int" => row.codec = "volume"

LEMMA RowsFit == \A row \in Attributes!FeatureRows : \A k \in row.keys : RowFits(k, row)
<1>. USE DEF RowFits, BoolKeys, EnumKeys, IntKeys, Attributes!Each
<1>1. \A row \in Attributes!SpeakerFeatures : \A k \in row.keys : RowFits(k, row)
  BY DEF Attributes!SpeakerFeatures
<1>2. \A row \in Attributes!CommonSensors : \A k \in row.keys : RowFits(k, row)
  BY DEF Attributes!CommonSensors
<1>3. \A row \in Attributes!Detectors : \A k \in row.keys : RowFits(k, row)
  BY DEF Attributes!Detectors
<1>4. \A row \in Attributes!Toggles : \A k \in row.keys : RowFits(k, row)
  BY DEF Attributes!Toggles
<1>5. \A row \in Attributes!Selects : \A k \in row.keys : RowFits(k, row)
  BY DEF Attributes!Selects
<1>6. \A row \in Attributes!Numbers : \A k \in row.keys : RowFits(k, row)
  BY DEF Attributes!Numbers
<1>7. \A row \in Attributes!Presses : \A k \in row.keys : RowFits(k, row)
  BY DEF Attributes!Presses
<1>8. \A row \in Attributes!OnlyPrimary : \A k \in row.keys : RowFits(k, row)
  BY DEF Attributes!OnlyPrimary
<1>9. \A row \in {Attributes!Each({"online"}, "binary_sensor", "bool", Attributes!Anywhere)} :
        \A k \in row.keys : RowFits(k, row)
  OBVIOUS
<1>. QED
  BY <1>1, <1>2, <1>3, <1>4, <1>5, <1>6, <1>7, <1>8, <1>9 DEF Attributes!FeatureRows

LEMMA SpecFits == ASSUME NEW k \in DOMAIN Attributes!Specs PROVE RowFits(k, Attributes!Specs[k])
<1>. DEFINE Rows == Attributes!FeatureRows  All == UNION {row.keys : row \in Rows}
            Chosen == [x \in All |-> CHOOSE row \in Rows : x \in row.keys]
<1>1. Attributes!Specs = Chosen
  BY DEF Attributes!Specs
<1>. HIDE DEF Rows
<1>2. k \in All
  BY <1>1
<1>3. PICK row \in Rows : k \in row.keys
  BY <1>2
<1>4. Attributes!Specs[k] \in Rows /\ k \in Attributes!Specs[k].keys
  BY <1>1, <1>2, <1>3
<1>. QED
  BY <1>4, RowsFit DEF Rows

\* What a primary entity shows.
PrimaryFits(row) ==
    /\ row.platform \in {"light", "switch", "climate", "cover", "fan", "humidifier",
                         "media_player", "vacuum", "binary_sensor"}
    /\ row.platform \in {"switch", "binary_sensor"} => row.consumed \subseteq BoolKeys
    /\ row.platform = "fan" => row.consumed = {"on_off", "hvac_air_flow_power"}
    /\ row.platform = "humidifier" =>
          row.consumed = {"on_off", "hvac_humidity_set", "humidity", "hvac_air_flow_power"}
    /\ row.platform = "media_player" =>
          row.consumed = {"on_off", "volume_int", "mute", "source", "channel_int"}

LEMMA CategoryFits ==
    ASSUME NEW c \in DOMAIN Attributes!Categories
    PROVE  PrimaryFits(Attributes!Categories[c])
<1>. DEFINE Rows == Attributes!CategoryRows  All == UNION {row.categories : row \in Rows}
            Chosen == [x \in All |-> CHOOSE row \in Rows : x \in row.categories]
<1>1. \A row \in Rows : PrimaryFits(row)
  BY DEF Attributes!CategoryRows, Attributes!LightLike, Attributes!SwitchLike,
         Attributes!Thermostat, Attributes!CoverLike, Attributes!Detects,
         Attributes!Primary, PrimaryFits, BoolKeys
<1>2. Attributes!Categories = Chosen
  BY DEF Attributes!Categories
<1>. HIDE DEF Rows
<1>3. c \in All
  BY <1>2
<1>4. PICK row \in Rows : c \in row.categories
  BY <1>3
<1>5. Attributes!Categories[c] \in Rows
  BY <1>2, <1>3, <1>4
<1>. QED
  BY <1>1, <1>5

\* The ways in which an attribute is shown.
Alone(platforms, codecs) ==
    /\ ~Attributes!Consumed(key, thing)
    /\ Attributes!Specs[key].platform \in platforms
    /\ Attributes!Codec \in codecs
ByPrimary(platforms, keys, codec) ==
    /\ Attributes!Consumed(key, thing)
    /\ Attributes!Categories[thing].platform \in platforms
    /\ key \in keys
    /\ Attributes!Codec = codec

WaysShown ==
    \/ Alone({"binary_sensor", "switch"}, {"bool"})
    \/ Alone({"binary_sensor"}, {"presence"})
    \/ Alone({"select"}, {"enum"})
    \/ Alone({"number"}, {"int"})
    \/ Alone({"sensor"}, {"int", "enum", "temp", "float", "milli"})
    \/ ByPrimary({"binary_sensor", "switch"}, BoolKeys, "bool")
    \/ ByPrimary({"fan", "humidifier", "media_player"}, {"on_off"}, "bool")
    \/ ByPrimary({"fan", "humidifier"}, {"hvac_air_flow_power"}, "enum")
    \/ ByPrimary({"humidifier"}, IntKeys, "int")
    \/ ByPrimary({"media_player"}, {"mute"}, "bool")
    \/ ByPrimary({"media_player"}, {"source"}, "enum")
    \/ ByPrimary({"media_player"}, {"volume_int"}, "volume")

LEMMA HowShown ==
    ASSUME thing \in DOMAIN Attributes!Categories, key \in DOMAIN Attributes!Specs,
           Attributes!Shows(key, thing)
    PROVE  WaysShown
<1>. DEFINE row == Attributes!Specs[key]  prime == Attributes!Categories[thing]
<1>1. RowFits(key, row) /\ PrimaryFits(prime)
  BY SpecFits, CategoryFits
<1>2. Attributes!Platform(key, thing) \in {"binary_sensor", "sensor", "switch", "select",
                                           "number", "fan", "humidifier", "media_player"}
      /\ key # "channel_int" /\ ~Attributes!Unseen(key, thing)
  BY DEF Attributes!Shows
<1>3. CASE Attributes!Consumed(key, thing)
  <2>1. key \in prime.consumed /\ Attributes!Platform(key, thing) = prime.platform
    BY <1>3 DEF Attributes!Consumed, Attributes!Platform
  <2>2. prime.platform \in {"binary_sensor", "switch", "fan", "humidifier", "media_player"}
    BY <1>1, <1>2, <2>1 DEF PrimaryFits
  <2>. HIDE DEF row, prime
  <2>3. CASE prime.platform \in {"binary_sensor", "switch"}
    <3>1. key \in BoolKeys /\ row.codec = "bool"
      BY <1>1, <2>1, <2>3 DEF RowFits, PrimaryFits
    <3>. QED
      BY <1>3, <2>3, <3>1 DEF WaysShown, ByPrimary, Attributes!Codec, row, prime
  <2>4. CASE prime.platform = "fan"
    BY <1>1, <1>3, <2>1, <2>4
       DEF RowFits, PrimaryFits, BoolKeys, EnumKeys, WaysShown, ByPrimary, Attributes!Codec, row,
           prime
  <2>5. CASE prime.platform = "humidifier"
    BY <1>1, <1>2, <1>3, <2>1, <2>5
       DEF Attributes!Unseen, RowFits, PrimaryFits, BoolKeys, EnumKeys, IntKeys, WaysShown, ByPrimary,
           Attributes!Codec, row, prime
  <2>6. CASE prime.platform = "media_player"
    BY <1>1, <1>2, <1>3, <2>1, <2>6
       DEF RowFits, PrimaryFits, BoolKeys, EnumKeys, WaysShown, ByPrimary, Attributes!Codec, row,
           prime
  <2>. QED
    BY <2>2, <2>3, <2>4, <2>5, <2>6
<1>4. CASE ~Attributes!Consumed(key, thing)
  <2>1. Attributes!Platform(key, thing) = row.platform
    BY <1>4 DEF Attributes!Platform
  <2>. QED
    BY <1>1, <1>2, <1>4, <2>1 DEF RowFits, WaysShown, Alone, Attributes!Codec
<1>. QED
  BY <1>3, <1>4

-------------------------------------------------------------------------------
(* Reading values *)

Number(v) == \E n \in Whole \cup Broken : v = Attributes!Num(n)
IsValue(v) ==
    v = Attributes!None \/ \E x : v \in {Attributes!Num(x), Attributes!Bool(x), Attributes!Enum(x)}

\* A number is declared as one of three types, anything else as none.
DeclaredAs ==
    /\ declared \in {"none", "FLOAT", "INTEGER"}
    /\ ~Attributes!Numeric => declared = "none"

\* What counts is what was wanted, but for the volume of a TV and a word for a number.
Means(v, want) ==
    \/ /\ want \in Attributes!Sayings
       /\ v = want \/ (Attributes!Codec = "volume" /\ v = Attributes!Num(want[2] - 2))
    \/ /\ Attributes!Numeric /\ want = Attributes!Enum("low")
       /\ v \in {Attributes!None, want}

LEMMA ValueKinds ==
    ASSUME WaysShown, NEW v \in Attributes!Sayings
    PROVE  /\ Attributes!Numeric => Number(v)
           /\ ~Attributes!Numeric =>
                 \/ Attributes!Codec = "bool" /\ \E b \in BOOLEAN : v = Attributes!Bool(b)
                 \/ Attributes!Codec = "presence"
                       /\ v \in {Attributes!Enum("any_motion"), Attributes!Enum("no_motion")}
                 \/ Attributes!Codec = "enum"
                       /\ v \in {Attributes!Enum("auto"), Attributes!Enum("low")}
<1>1. Attributes!Codec \in {"int", "temp", "float", "milli", "volume", "bool", "presence", "enum"}
  BY DEF WaysShown, Alone, ByPrimary
<1>2. CASE Attributes!Codec \in {"int", "temp", "float"}
  BY <1>2 DEF Attributes!Sayings, Attributes!Numeric, Number
<1>3. CASE Attributes!Codec \in {"milli", "volume"}
  BY <1>3 DEF Attributes!Sayings, Attributes!Numeric, Number
<1>4. CASE Attributes!Codec = "bool"
  BY <1>4 DEF Attributes!Sayings, Attributes!Numeric
<1>5. CASE Attributes!Codec = "presence"
  BY <1>5 DEF Attributes!Sayings, Attributes!Numeric
<1>6. CASE Attributes!Codec = "enum"
  BY <1>6 DEF Attributes!Sayings, Attributes!Numeric
<1>. QED
  BY <1>1, <1>2, <1>3, <1>4, <1>5, <1>6

LEMMA TheOnly == ASSUME NEW x PROVE Attributes!The({x}) = x /\ {x} # {}
BY DEF Attributes!The

LEMMA NumbersRead ==
    ASSUME NEW n, declared \in {"none", "FLOAT", "INTEGER"}
    PROVE  Attributes!NormalizeValue(Attributes!OfInt(n), declared) = Attributes!Num(n)
<1>. DEFINE raw == Attributes!OfInt(n)
<1>1. raw.type = "INTEGER" /\ raw.int = {n} /\ raw.float = {}
  BY DEF Attributes!OfInt, Attributes!Blank
<1>. HIDE DEF raw
<1>2. Attributes!Value(raw) = Attributes!Num(n)
  BY <1>1, TheOnly DEF Attributes!Value
<1>3. Attributes!NormalizeValue(raw, declared) = Attributes!Num(n)
  BY <1>1, <1>2, TheOnly DEF Attributes!NormalizeValue
<1>. QED
  BY <1>3 DEF raw

LEMMA FractionsRead ==
    ASSUME NEW n, NEW raw, raw.float = {n},
           \/ declared = "FLOAT"
           \/ declared = "none" /\ raw.type = "FLOAT" /\ raw.int = {}
           \/ declared = "INTEGER" /\ raw.int = {} /\ n = Attributes!Cut(n)
    PROVE  Attributes!NormalizeValue(raw, declared) = Attributes!Num(n)
<1>1. CASE declared = "FLOAT"
  BY <1>1, TheOnly DEF Attributes!NormalizeValue
<1>2. CASE declared = "none" /\ raw.type = "FLOAT" /\ raw.int = {}
  <2>1. Attributes!Value(raw) = Attributes!Num(n)
    BY <1>2, TheOnly DEF Attributes!Value
  <2>. QED
    BY <1>2, <2>1 DEF Attributes!NormalizeValue
<1>3. CASE declared = "INTEGER" /\ raw.int = {} /\ n = Attributes!Cut(n)
  BY <1>3, TheOnly DEF Attributes!NormalizeValue
<1>. QED
  BY <1>1, <1>2, <1>3

LEMMA WordsRead ==
    /\ \A b : Attributes!NormalizeValue(Attributes!OfBool(b), "none") = Attributes!Bool(b)
    /\ \A w : Attributes!NormalizeValue(Attributes!OfEnum(w), "none") = Attributes!Enum(w)
    /\ \A w : Attributes!NormalizeValue(Attributes!OfEnum(w), declared)
                \in {Attributes!None, Attributes!Enum(w)}
<1>1. ASSUME NEW b
      PROVE  Attributes!NormalizeValue(Attributes!OfBool(b), "none") = Attributes!Bool(b)
  <2>. DEFINE raw == Attributes!OfBool(b)
  <2>1. raw.type = "BOOL" /\ raw.bool = {b}
    BY DEF Attributes!OfBool, Attributes!Blank
  <2>. HIDE DEF raw
  <2>2. Attributes!NormalizeValue(raw, "none") = Attributes!Bool(b)
    BY <2>1, TheOnly DEF Attributes!Value, Attributes!NormalizeValue
  <2>. QED
    BY <2>2 DEF raw
<1>2. ASSUME NEW w
      PROVE  /\ Attributes!NormalizeValue(Attributes!OfEnum(w), "none") = Attributes!Enum(w)
             /\ Attributes!NormalizeValue(Attributes!OfEnum(w), declared)
                  \in {Attributes!None, Attributes!Enum(w)}
  <2>. DEFINE raw == Attributes!OfEnum(w)
  <2>1. raw.type = "ENUM" /\ raw.enum = {w} /\ raw.int = {} /\ raw.float = {}
    BY DEF Attributes!OfEnum, Attributes!Blank
  <2>. HIDE DEF raw
  <2>2. Attributes!Value(raw) = Attributes!Enum(w)
    BY <2>1, TheOnly DEF Attributes!Value
  <2>3. /\ Attributes!NormalizeValue(raw, "none") = Attributes!Enum(w)
        /\ Attributes!NormalizeValue(raw, declared) \in {Attributes!None, Attributes!Enum(w)}
    BY <2>1, <2>2 DEF Attributes!NormalizeValue
  <2>. QED
    BY <2>3 DEF raw
<1>. QED
  BY <1>1, <1>2

\* However a device says a value, it is read as that value.
LEMMA WireReads ==
    ASSUME WaysShown, DeclaredAs, NEW v \in Attributes!Sayings, NEW raw \in Attributes!Wire(v)
    PROVE  Attributes!NormalizeValue(raw, declared) = v
<1>1. CASE Attributes!Numeric
  <2>1. PICK n \in Whole \cup Broken : v = Attributes!Num(n)
    BY <1>1, ValueKinds DEF Number
  <2>2. v[1] = "number" /\ v[2] = n
    BY <2>1 DEF Attributes!Num
  <2>. DEFINE wrong == [Attributes!OfFloat(n) EXCEPT !.type = "INTEGER", !.int = {0}]
  <2>3. \/ raw = Attributes!OfFloat(n) /\ (declared = "INTEGER" => n = Attributes!Cut(n))
        \/ raw = Attributes!OfInt(n)
        \/ raw = wrong /\ declared = "FLOAT"
    BY <2>2 DEF Attributes!Wire
  <2>4. CASE raw = Attributes!OfFloat(n) /\ (declared = "INTEGER" => n = Attributes!Cut(n))
    <3>1. raw.float = {n} /\ raw.type = "FLOAT" /\ raw.int = {}
      BY <2>4 DEF Attributes!OfFloat, Attributes!Blank
    <3>. QED
      BY <2>1, <2>4, <3>1, FractionsRead DEF DeclaredAs
  <2>5. CASE raw = Attributes!OfInt(n)
    BY <2>1, <2>5, NumbersRead DEF DeclaredAs
  <2>6. CASE raw = wrong /\ declared = "FLOAT"
    <3>1. raw.float = {n}
      BY <2>6 DEF Attributes!OfFloat, Attributes!Blank
    <3>. QED
      BY <2>1, <2>6, <3>1, FractionsRead
  <2>. QED
    BY <2>3, <2>4, <2>5, <2>6
<1>2. CASE ~Attributes!Numeric
  <2>1. declared = "none"
    BY <1>2 DEF DeclaredAs
  <2>2. ASSUME NEW b, v = Attributes!Bool(b)
        PROVE  Attributes!NormalizeValue(raw, declared) = v
    <3>1. raw = Attributes!OfBool(b)
      BY <2>2 DEF Attributes!Wire, Attributes!Bool
    <3>. QED
      BY <2>1, <2>2, <3>1, WordsRead
  <2>3. ASSUME NEW w, v = Attributes!Enum(w)
        PROVE  Attributes!NormalizeValue(raw, declared) = v
    <3>1. raw = Attributes!OfEnum(w)
      BY <2>3 DEF Attributes!Wire, Attributes!Enum
    <3>. QED
      BY <2>1, <2>3, <3>1, WordsRead
  <2>. QED
    BY <1>2, <2>2, <2>3, ValueKinds
<1>. QED
  BY <1>1, <1>2

LEMMA WholeIsCut == \A n \in Whole : n \in Int /\ Attributes!Cut(n) = n
<1>. SUFFICES ASSUME NEW n \in Whole PROVE n \in Int /\ Attributes!Cut(n) = n
  OBVIOUS
<1>1. n \in Int /\ n % 2 = 0
  BY EntityAssumptions DEF FeatureAssumption
<1>2. Attributes!Cut(n) = n
  BY <1>1 DEF Attributes!Cut
<1>. QED
  BY <1>1, <1>2

\* What a command sends is read as what was asked for.
LEMMA SendReads ==
    ASSUME WaysShown, DeclaredAs, Attributes!Writable(key, thing), NEW v \in Attributes!Sayings,
           Attributes!IsNum(v) => v[2] \in Whole
    PROVE  Means(Attributes!NormalizeValue(Attributes!Sends(v), declared), v)
<1>1. Attributes!Platform(key, thing) \in
        {"switch", "select", "number", "fan", "humidifier", "media_player"}
  BY DEF Attributes!Writable
<1>2. CASE Attributes!Numeric
  <2>1. PICK n \in Whole \cup Broken : v = Attributes!Num(n)
    BY <1>2, ValueKinds DEF Number
  <2>2. v[1] = "number" /\ v[2] = n /\ n \in Whole /\ n \in Int /\ Attributes!Cut(n) = n
    BY <2>1, WholeIsCut DEF Attributes!Num, Attributes!IsNum
  <2>3. \/ Attributes!Sends(v) = Attributes!OfInt(n)
        \/ Attributes!Codec = "volume" /\ Attributes!Sends(v) = Attributes!OfInt(n - 2)
    <3>1. CASE ~Attributes!Consumed(key, thing)
      <4>1. Attributes!Platform(key, thing) = "number"
        BY <1>1, <1>2, <3>1
           DEF WaysShown, Alone, ByPrimary, Attributes!Numeric, Attributes!Platform
      <4>. QED
        BY <2>2, <4>1 DEF Attributes!Sends, Attributes!NumberSends
    <3>2. CASE ByPrimary({"humidifier"}, IntKeys, "int")
      <4>1. Attributes!Platform(key, thing) = "humidifier" /\ key = "hvac_humidity_set"
        BY <1>1, <3>2 DEF ByPrimary, IntKeys, Attributes!Platform
      <4>. QED
        BY <2>2, <4>1 DEF Attributes!Sends, Attributes!HumidifierSends
    <3>3. CASE ByPrimary({"media_player"}, {"volume_int"}, "volume")
      <4>1. Attributes!Platform(key, thing) = "media_player" /\ key = "volume_int"
            /\ Attributes!Codec = "volume"
        BY <3>3 DEF ByPrimary, Attributes!Platform
      <4>. QED
        BY <2>2, <4>1
           DEF Attributes!Sends, Attributes!MediaPlayerSends, Attributes!VolumeSends
    <3>. QED
      BY <1>2, <3>1, <3>2, <3>3 DEF WaysShown, Alone, ByPrimary, Attributes!Numeric
  <2>4. CASE Attributes!Sends(v) = Attributes!OfInt(n)
    BY <2>1, <2>4, NumbersRead DEF DeclaredAs, Means
  <2>5. CASE Attributes!Codec = "volume" /\ Attributes!Sends(v) = Attributes!OfInt(n - 2)
    BY <2>2, <2>5, NumbersRead DEF DeclaredAs, Means
  <2>. QED
    BY <2>3, <2>4, <2>5
<1>3. CASE ~Attributes!Numeric /\ Attributes!Codec = "bool"
  <2>1. PICK b \in BOOLEAN : v = Attributes!Bool(b)
    BY <1>3, ValueKinds
  <2>2. v[2] = b
    BY <2>1 DEF Attributes!Bool
  <2>3. Attributes!Sends(v) = Attributes!OfBool(b)
    <3>1. CASE ~Attributes!Consumed(key, thing)
      <4>1. Attributes!Platform(key, thing) = "switch"
        BY <1>1, <1>3, <3>1 DEF WaysShown, Alone, ByPrimary, Attributes!Platform
      <4>. QED
        BY <2>2, <4>1 DEF Attributes!Sends, Attributes!SwitchSends
    <3>2. CASE ByPrimary({"binary_sensor", "switch"}, BoolKeys, "bool")
      <4>1. Attributes!Platform(key, thing) = "switch"
        BY <1>1, <3>2 DEF ByPrimary, Attributes!Platform
      <4>. QED
        BY <2>2, <4>1 DEF Attributes!Sends, Attributes!SwitchSends
    <3>3. CASE ByPrimary({"fan", "humidifier", "media_player"}, {"on_off"}, "bool")
      <4>1. Attributes!Platform(key, thing) \in {"fan", "humidifier", "media_player"}
            /\ key = "on_off"
        BY <3>3 DEF ByPrimary, Attributes!Platform
      <4>. QED
        BY <2>2, <4>1
           DEF Attributes!Sends, Attributes!FanSends, Attributes!HumidifierSends,
               Attributes!MediaPlayerSends
    <3>4. CASE ByPrimary({"media_player"}, {"mute"}, "bool")
      <4>1. Attributes!Platform(key, thing) = "media_player" /\ key = "mute"
        BY <3>4 DEF ByPrimary, Attributes!Platform
      <4>. QED
        BY <2>2, <4>1 DEF Attributes!Sends, Attributes!MediaPlayerSends
    <3>. QED
      BY <1>3, <3>1, <3>2, <3>3, <3>4 DEF WaysShown, Alone, ByPrimary
  <2>. QED
    BY <1>3, <2>1, <2>3, WordsRead DEF DeclaredAs, Means
<1>4. CASE ~Attributes!Numeric /\ Attributes!Codec = "enum"
  <2>1. PICK w : v = Attributes!Enum(w)
    BY <1>4, ValueKinds
  <2>2. v[2] = w
    BY <2>1 DEF Attributes!Enum
  <2>3. Attributes!Sends(v) = Attributes!OfEnum(w)
    <3>1. CASE ~Attributes!Consumed(key, thing)
      <4>1. Attributes!Platform(key, thing) = "select"
        BY <1>1, <1>4, <3>1 DEF WaysShown, Alone, ByPrimary, Attributes!Platform
      <4>. QED
        BY <2>2, <4>1 DEF Attributes!Sends, Attributes!SelectSends
    <3>2. CASE ByPrimary({"fan", "humidifier"}, {"hvac_air_flow_power"}, "enum")
      <4>1. Attributes!Platform(key, thing) \in {"fan", "humidifier"}
            /\ key = "hvac_air_flow_power"
        BY <3>2 DEF ByPrimary, Attributes!Platform
      <4>. QED
        BY <2>2, <4>1
           DEF Attributes!Sends, Attributes!FanSends, Attributes!HumidifierSends
    <3>3. CASE ByPrimary({"media_player"}, {"source"}, "enum")
      <4>1. Attributes!Platform(key, thing) = "media_player" /\ key = "source"
        BY <3>3 DEF ByPrimary, Attributes!Platform
      <4>. QED
        BY <2>2, <4>1 DEF Attributes!Sends, Attributes!MediaPlayerSends
    <3>. QED
      BY <1>4, <3>1, <3>2, <3>3 DEF WaysShown, Alone, ByPrimary
  <2>. QED
    BY <1>4, <2>1, <2>3, WordsRead DEF DeclaredAs, Means
<1>5. Attributes!Codec # "presence"
  BY <1>1 DEF WaysShown, Alone, ByPrimary, Attributes!Platform
<1>. QED
  BY <1>2, <1>3, <1>4, <1>5, ValueKinds

-------------------------------------------------------------------------------
(* What is shown *)

LEMMA Normalized ==
    ASSUME NEW raw, NEW type PROVE IsValue(Attributes!NormalizeValue(raw, type))
<1>1. IsValue(Attributes!Value(raw))
  BY DEF Attributes!Value, IsValue
<1>. QED
  BY <1>1 DEF Attributes!NormalizeValue, IsValue

IsSelect == Attributes!Platform(key, thing) = "select"
OfWord(v)  == IF IsSelect THEN Attributes!Option(v) ELSE v
OfWhole(v) == IF Attributes!Platform(key, thing) = "humidifier"
              THEN Attributes!BareInt(v) ELSE Attributes!IntToHa(v)

\* The platform and the codec of a way say what is made of a value.
LEMMA ShownAs ==
    ASSUME WaysShown, NEW r
    PROVE  LET v == Attributes!Effective(r, declared)
               s == Attributes!Shown(r, declared)
           IN  \/ Attributes!Codec = "bool"
                     /\ s \in {Attributes!OnOff(Attributes!BoolToHa(v)), Attributes!OnOff(v), v}
               \/ Attributes!Codec = "presence"
                     /\ s = Attributes!OnOff(Attributes!PresenceToHa(v))
               \/ Attributes!Codec = "enum" /\ s = OfWord(v)
               \/ Attributes!Codec = "int" /\ s = OfWhole(v)
               \/ Attributes!Codec \in {"temp", "milli"} /\ s = Attributes!ExactToHa(v)
               \/ Attributes!Codec \in {"float", "volume"} /\ s = Attributes!FloatToHa(v)
<1>. DEFINE v == Attributes!Effective(r, declared)  s == Attributes!Shown(r, declared)
            Made == \/ Attributes!Codec = "bool"
                          /\ s \in {Attributes!OnOff(Attributes!BoolToHa(v)), Attributes!OnOff(v), v}
                    \/ Attributes!Codec = "presence"
                          /\ s = Attributes!OnOff(Attributes!PresenceToHa(v))
                    \/ Attributes!Codec = "enum" /\ s = OfWord(v)
                    \/ Attributes!Codec = "int" /\ s = OfWhole(v)
                    \/ Attributes!Codec \in {"temp", "milli"} /\ s = Attributes!ExactToHa(v)
                    \/ Attributes!Codec \in {"float", "volume"} /\ s = Attributes!FloatToHa(v)
<1>1. ASSUME Attributes!Consumed(key, thing) PROVE Made
  <2>1. s = Attributes!Primarily(v)
        /\ Attributes!Platform(key, thing) = Attributes!Categories[thing].platform
    BY <1>1 DEF Attributes!Shown, Attributes!Platform
  <2>. HIDE DEF v, s
  <2>. USE <2>1 DEF Attributes!Primarily, ByPrimary, IsSelect, OfWord, OfWhole
  <2>2. CASE ByPrimary({"binary_sensor", "switch"}, BoolKeys, "bool")
    BY <2>2
  <2>3. CASE ByPrimary({"fan", "humidifier", "media_player"}, {"on_off"}, "bool")
    BY <2>3
       DEF Attributes!FanShows, Attributes!HumidifierShows, Attributes!MediaPlayerShows
  <2>4. CASE ByPrimary({"fan", "humidifier"}, {"hvac_air_flow_power"}, "enum")
    BY <2>4 DEF Attributes!FanShows, Attributes!HumidifierShows
  <2>5. CASE ByPrimary({"humidifier"}, IntKeys, "int")
    BY <2>5 DEF Attributes!HumidifierShows, IntKeys
  <2>6. CASE ByPrimary({"media_player"}, {"mute"}, "bool")
    BY <2>6 DEF Attributes!MediaPlayerShows
  <2>7. CASE ByPrimary({"media_player"}, {"source"}, "enum")
    BY <2>7 DEF Attributes!MediaPlayerShows
  <2>8. CASE ByPrimary({"media_player"}, {"volume_int"}, "volume")
    BY <2>8 DEF Attributes!MediaPlayerShows
  <2>. QED
    BY <1>1, <2>2, <2>3, <2>4, <2>5, <2>6, <2>7, <2>8 DEF WaysShown, Alone
<1>2. ASSUME ~Attributes!Consumed(key, thing) PROVE Made
  <2>1. s = Attributes!Extra(v)
        /\ Attributes!Platform(key, thing) = Attributes!Specs[key].platform
    BY <1>2 DEF Attributes!Shown, Attributes!Platform
  <2>. HIDE DEF v, s
  <2>. USE <2>1 DEF Attributes!Extra, Alone, Attributes!Codec, Attributes!ToHa, IsSelect, OfWord,
                    OfWhole
  <2>2. CASE Alone({"binary_sensor", "switch"}, {"bool"})
    BY <2>2
  <2>3. CASE Alone({"binary_sensor"}, {"presence"})
    BY <2>3
  <2>4. CASE Alone({"select"}, {"enum"})
    BY <2>4 DEF Attributes!EnumToHa
  <2>5. CASE Alone({"number"}, {"int"})
    BY <2>5
  <2>6. CASE Alone({"sensor"}, {"int", "enum", "temp", "float", "milli"})
    BY <2>6 DEF Attributes!EnumToHa
  <2>. QED
    BY <1>2, <2>2, <2>3, <2>4, <2>5, <2>6 DEF WaysShown, ByPrimary
<1>. QED
  BY <1>1, <1>2

\* No value ends a refresh but where a plain float() or int() reads it.
LEMMA NothingRaised ==
    ASSUME WaysShown, NEW r, ~Attributes!Bare
    PROVE  Attributes!Shown(r, declared) # Attributes!Raises
<1>. DEFINE v == Attributes!Effective(r, declared)  s == Attributes!Shown(r, declared)
<1>1. IsValue(v)
  BY Normalized DEF Attributes!Effective
<1>2. \/ s \in {Attributes!OnOff(Attributes!BoolToHa(v)), Attributes!OnOff(v), v}
      \/ s = Attributes!OnOff(Attributes!PresenceToHa(v))
      \/ s \in {Attributes!IntToHa(v), Attributes!ExactToHa(v), Attributes!Option(v)}
  BY ShownAs DEF OfWord, OfWhole, Attributes!Bare, Attributes!Numeric
<1>. HIDE DEF v, s
<1>3. v # Attributes!Raises /\ Attributes!None # Attributes!Raises
  BY <1>1 DEF IsValue, Attributes!None, Attributes!Num, Attributes!Bool, Attributes!Enum,
              Attributes!Raises
<1>4. \A x : Attributes!Bool(x) # Attributes!Raises /\ Attributes!Num(x) # Attributes!Raises
  BY DEF Attributes!Bool, Attributes!Num, Attributes!Raises
<1>5. s # Attributes!Raises
  BY <1>2, <1>3, <1>4
     DEF Attributes!OnOff, Attributes!IntToHa, Attributes!ExactToHa, Attributes!Option
<1>. QED
  BY <1>5 DEF s

LEMMA ShownRight ==
    ASSUME WaysShown, NEW r, NEW want, Means(Attributes!Effective(r, declared), want)
    PROVE  LET s == Attributes!Shown(r, declared)
           IN  IF Attributes!Numeric /\ ~Attributes!IsNum(want)
               THEN s = Attributes!None \/ Attributes!Bare
               ELSE CASE IsSelect -> s = IF want[2] \in Selectable THEN want ELSE Attributes!None
                      [] Attributes!Codec = "int" -> s = Attributes!Num(Attributes!Cut(want[2]))
                      [] Attributes!Codec = "volume" ->
                           s \in {want, Attributes!Num(want[2] - 2)}
                      [] Attributes!Codec = "presence" ->
                           s = Attributes!Bool(want = Attributes!Enum("any_motion"))
                      [] OTHER -> s = want
<1>. DEFINE v == Attributes!Effective(r, declared)  s == Attributes!Shown(r, declared)
<1>0. Means(v, want)
  OBVIOUS
<1>1. \/ Attributes!Codec = "bool"
            /\ s \in {Attributes!OnOff(Attributes!BoolToHa(v)), Attributes!OnOff(v), v}
      \/ Attributes!Codec = "presence" /\ s = Attributes!OnOff(Attributes!PresenceToHa(v))
      \/ Attributes!Codec = "enum" /\ s = OfWord(v)
      \/ Attributes!Codec = "int" /\ s = OfWhole(v)
      \/ Attributes!Codec \in {"temp", "milli"} /\ s = Attributes!ExactToHa(v)
      \/ Attributes!Codec \in {"float", "volume"} /\ s = Attributes!FloatToHa(v)
  BY ShownAs
<1>. HIDE DEF v, s
<1>4. IsSelect => Attributes!Codec = "enum"
  BY DEF IsSelect, WaysShown, Alone, ByPrimary, Attributes!Platform
<1>2. CASE Attributes!Numeric /\ want = Attributes!Enum("low")
              /\ v \in {Attributes!None, want}
  <2>1. ~Attributes!IsNum(want) /\ ~Attributes!IsNum(v)
    BY <1>2 DEF Attributes!IsNum, Attributes!Enum, Attributes!None
  <2>2. s = Attributes!None \/ Attributes!Bare
    BY <1>1, <1>2, <2>1
       DEF Attributes!Numeric, Attributes!IntToHa, Attributes!ExactToHa, Attributes!Bare, OfWhole
  <2>. QED
    BY <1>2, <2>1, <2>2 DEF s
<1>3. CASE /\ want \in Attributes!Sayings
           /\ v = want \/ (Attributes!Codec = "volume" /\ v = Attributes!Num(want[2] - 2))
  <2>1. CASE Attributes!Numeric
    <3>1. Attributes!IsNum(want) /\ Attributes!IsNum(v)
      BY <1>3, <2>1, ValueKinds DEF Number, Attributes!IsNum, Attributes!Num
    <3>2. CASE Attributes!Codec = "int"
      <4>1. s = Attributes!Num(Attributes!Cut(want[2]))
        BY <1>1, <1>3, <3>1, <3>2
           DEF Attributes!IntToHa, Attributes!BareInt, OfWhole, Attributes!IsNum,
               Attributes!None
      <4>. QED
        BY <1>4, <3>1, <3>2, <4>1 DEF s
    <3>3. CASE Attributes!Codec = "volume"
      BY <1>4, <1>1, <1>3, <3>1, <3>3 DEF Attributes!FloatToHa, s
    <3>4. CASE Attributes!Codec \in {"temp", "milli", "float"}
      BY <1>4, <1>1, <1>3, <3>1, <3>4 DEF Attributes!FloatToHa, Attributes!ExactToHa, s
    <3>. QED
      BY <2>1, <3>2, <3>3, <3>4 DEF Attributes!Numeric
  <2>2. CASE ~Attributes!Numeric /\ Attributes!Codec = "bool"
    <3>1. PICK b \in BOOLEAN : v = Attributes!Bool(b) /\ want = v
      BY <1>3, <2>2, ValueKinds
    <3>2. Attributes!BoolToHa(v) = v
      BY <3>1 DEF Attributes!BoolToHa, Attributes!Bool
    <3>3. Attributes!OnOff(v) = v
      <4>1. v # Attributes!None
        BY <3>1 DEF Attributes!Bool, Attributes!None
      <4>2. CASE b = TRUE
        <5>1. v # Attributes!Bool(FALSE)
          BY <3>1, <4>2 DEF Attributes!Bool
        <5>. QED
          BY <3>1, <4>1, <4>2, <5>1 DEF Attributes!OnOff
      <4>3. CASE b = FALSE
        BY <3>1, <4>3 DEF Attributes!OnOff
      <4>. QED
        BY <4>2, <4>3
    <3>. QED
      BY <1>4, <1>1, <2>2, <3>1, <3>2, <3>3 DEF s
  <2>3. CASE ~Attributes!Numeric /\ Attributes!Codec = "presence"
    <3>. DEFINE seen == want = Attributes!Enum("any_motion")
    <3>1. v = want /\ v # Attributes!None
      BY <1>3, <2>3, ValueKinds DEF Attributes!Enum, Attributes!None
    <3>2. Attributes!PresenceToHa(v) = Attributes!Bool(seen)
      BY <3>1 DEF Attributes!PresenceToHa
    <3>3. Attributes!OnOff(Attributes!Bool(seen)) = Attributes!Bool(seen)
      <4>1. Attributes!Bool(seen) # Attributes!None
        BY DEF Attributes!Bool, Attributes!None
      <4>2. CASE seen = TRUE
        <5>1. Attributes!Bool(TRUE) # Attributes!Bool(FALSE)
          BY DEF Attributes!Bool
        <5>. HIDE DEF seen
        <5>. QED
          BY <4>1, <4>2, <5>1 DEF Attributes!OnOff
      <4>3. CASE seen = FALSE
        <5>. HIDE DEF seen
        <5>. QED
          BY <4>3 DEF Attributes!OnOff
      <4>. QED
        BY <4>2, <4>3
    <3>. QED
      BY <1>4, <1>1, <2>3, <3>2, <3>3 DEF s
  <2>4. CASE ~Attributes!Numeric /\ Attributes!Codec = "enum"
    <3>1. v = want /\ s = OfWord(want)
      BY <1>1, <1>3, <2>4
    <3>2. PICK w : want = Attributes!Enum(w)
      BY <1>3, <2>4, ValueKinds
    <3>3. want[2] = w /\ \A e : Attributes!Enum(e) = want <=> e = w
      BY <3>2 DEF Attributes!Enum
    <3>4. CASE IsSelect
      <4>1. s = IF want[2] \in Selectable THEN want ELSE Attributes!None
        BY <3>1, <3>3, <3>4 DEF OfWord, Attributes!Option
      <4>. QED
        BY <2>4, <3>4, <4>1 DEF s
    <3>5. CASE ~IsSelect
      BY <2>4, <3>1, <3>5 DEF OfWord, s
    <3>. QED
      BY <3>4, <3>5
  <2>. QED
    BY <2>1, <2>2, <2>3, <2>4, <1>3, ValueKinds
<1>. QED
  BY <1>0, <1>2, <1>3 DEF Means

-------------------------------------------------------------------------------
(* The attributes over time *)

\* No stamp is of the future, and the value that counts is the one wanted last.
FeatureInv ==
    /\ thing \in DOMAIN Attributes!Categories /\ key \in DOMAIN Attributes!Specs
    /\ Attributes!Shows(key, thing)
    /\ DeclaredAs
    /\ now \in 0 .. MaxTime
    /\ server = [reported |-> server.reported, desired |-> server.desired]
    /\ server.reported.at \in -1 .. now /\ server.desired.at \in -1 .. now
    /\ asked # Attributes!None => Means(Attributes!Effective(server, declared), asked)

LEMMA FeatureStarts == ASSUME Attributes!Init PROVE FeatureInv
<1>1. thing \in DOMAIN Attributes!Categories /\ key \in DOMAIN Attributes!Specs
      /\ Attributes!Shows(key, thing)
  BY DEF Attributes!Init
<1>2. DeclaredAs
  BY DEF Attributes!Init, DeclaredAs
<1>3. server = [reported |-> server.reported, desired |-> server.desired]
      /\ server.reported = Attributes!Nothing
      /\ server.desired \in {Attributes!Nothing, Attributes!Junk}
  BY DEF Attributes!Init
<1>4. Attributes!Nothing.at = -1 /\ Attributes!Junk.at = 0
  BY DEF Attributes!Nothing, Attributes!Junk, Attributes!Never, Attributes!Epoch
<1>5. now = 0 /\ MaxTime \in Nat
  BY EntityAssumptions DEF Attributes!Init, FeatureAssumption
<1>6. asked = Attributes!None
  BY DEF Attributes!Init
<1>. QED
  BY <1>1, <1>2, <1>3, <1>4, <1>5, <1>6 DEF FeatureInv

LEMMA FeatureReports ==
    ASSUME FeatureInv, NEW raw, NEW want, now < MaxTime, now' = now + 1,
           server' = [server EXCEPT !.reported = [raw |-> raw, at |-> now']], asked' = want,
           UNCHANGED <<thing, key, declared>>,
           Means(Attributes!NormalizeValue(raw, declared), want)
    PROVE  FeatureInv'
<1>1. now \in Int /\ MaxTime \in Int /\ now' \in 0 .. MaxTime
  BY EntityAssumptions DEF FeatureInv, FeatureAssumption
<1>2. server'.reported = [raw |-> raw, at |-> now'] /\ server'.desired = server.desired
      /\ server' = [reported |-> server'.reported, desired |-> server'.desired]
  BY DEF FeatureInv
<1>3. server'.reported.raw = raw /\ server'.reported.at = now'
  BY <1>2
<1>4. ~Attributes!IsFreshDesired(server'.desired.at, server'.reported.at)
  BY <1>1, <1>2, <1>3 DEF FeatureInv, Attributes!IsFreshDesired, Attributes!Never
<1>5. Attributes!Effective(server', declared) = Attributes!NormalizeValue(raw, declared)
  BY <1>3, <1>4 DEF Attributes!Effective
<1>6. Means(Attributes!Effective(server', declared), want)
  BY <1>5
<1>7. (DeclaredAs /\ Attributes!Shows(key, thing))'
  BY DEF FeatureInv, DeclaredAs, Attributes!Numeric, Attributes!Codec
<1>8. Means(Attributes!Effective(server, declared), asked)'
  BY <1>6 DEF Means, Attributes!Codec, Attributes!Numeric, Attributes!Sayings
<1>9. server'.reported.at \in -1 .. now' /\ server'.desired.at \in -1 .. now'
  BY <1>1, <1>2, <1>3 DEF FeatureInv
<1>. QED
  BY <1>1, <1>2, <1>7, <1>8, <1>9 DEF FeatureInv

LEMMA FeatureKept == ASSUME FeatureInv, Attributes!Next PROVE FeatureInv'
<1>0. WaysShown /\ DeclaredAs
  BY HowShown DEF FeatureInv
<1>1. CASE Attributes!Reports
  <2>0. PICK v \in Attributes!Sayings : \E raw \in Attributes!Wire(v) :
          /\ now < MaxTime
          /\ now' = now + 1
          /\ server' = [server EXCEPT !.reported = [raw |-> raw, at |-> now']]
          /\ asked' = v
          /\ UNCHANGED <<thing, key, declared>>
    BY <1>1 DEF Attributes!Reports, Attributes!fixed
  <2>1. PICK raw \in Attributes!Wire(v) :
          /\ now < MaxTime
          /\ now' = now + 1
          /\ server' = [server EXCEPT !.reported = [raw |-> raw, at |-> now']]
          /\ asked' = v
          /\ UNCHANGED <<thing, key, declared>>
    BY <2>0
  <2>2. Means(Attributes!NormalizeValue(raw, declared), v)
    BY <1>0, WireReads DEF Means
  <2>. QED
    BY <2>1, <2>2, FeatureReports
<1>2. CASE Attributes!Misreports
  <2>1. Attributes!Numeric
        /\ Attributes!NormalizeValue(Attributes!OfEnum("low"), declared)
              \in {Attributes!None, Attributes!Enum("low")}
    BY <1>2, WordsRead DEF Attributes!Misreports
  <2>2. Means(Attributes!NormalizeValue(Attributes!OfEnum("low"), declared),
              Attributes!Enum("low"))
    BY <2>1 DEF Means
  <2>. QED
    BY <1>2, <2>2, FeatureReports DEF Attributes!Misreports, Attributes!fixed
<1>3. CASE Attributes!Command
  <2>1. PICK v \in Attributes!Sayings :
          /\ Attributes!Writable(key, thing)
          /\ now < MaxTime
          /\ Attributes!IsNum(v) => v[2] \in Whole
          /\ now' = now + 1
          /\ server' = [server EXCEPT !.desired = [raw |-> Attributes!Sends(v), at |-> now']]
          /\ asked' = v
          /\ UNCHANGED <<thing, key, declared>>
    BY <1>3 DEF Attributes!Command, Attributes!fixed
  <2>. DEFINE raw == Attributes!Sends(v)
  <2>2. Means(Attributes!NormalizeValue(raw, declared), v)
    BY <1>0, <2>1, SendReads
  <2>3. now \in Int /\ MaxTime \in Int /\ now' \in 1 .. MaxTime
    BY <2>1, EntityAssumptions DEF FeatureInv, FeatureAssumption
  <2>. HIDE DEF raw
  <2>4. server'.desired = [raw |-> raw, at |-> now'] /\ server'.reported = server.reported
        /\ server' = [reported |-> server'.reported, desired |-> server'.desired]
    BY <2>1 DEF FeatureInv, raw
  <2>5. server'.desired.raw = raw /\ server'.desired.at = now'
    BY <2>4
  <2>6. Attributes!IsFreshDesired(server'.desired.at, server'.reported.at)
    BY <2>1, <2>3, <2>4, <2>5
       DEF FeatureInv, Attributes!IsFreshDesired, Attributes!Never, Attributes!Epoch
  <2>7. Attributes!Effective(server', declared) = Attributes!NormalizeValue(raw, declared)
    BY <2>5, <2>6 DEF Attributes!Effective
  <2>8. Means(Attributes!Effective(server', declared), v)
    BY <2>2, <2>7
  <2>9. (DeclaredAs /\ Attributes!Shows(key, thing))'
    BY <2>1 DEF FeatureInv, DeclaredAs, Attributes!Numeric, Attributes!Codec
  <2>10. Means(Attributes!Effective(server, declared), asked)'
    BY <2>1, <2>8 DEF Means, Attributes!Codec, Attributes!Numeric, Attributes!Sayings
  <2>11. server'.reported.at \in -1 .. now' /\ server'.desired.at \in -1 .. now'
    BY <2>1, <2>3, <2>4, <2>5 DEF FeatureInv
  <2>. QED
    BY <2>1, <2>3, <2>4, <2>9, <2>10, <2>11 DEF FeatureInv
<1>4. CASE Attributes!Polled \/ Attributes!Pushed
  <2>1. UNCHANGED <<thing, key, declared, server, now, asked>>
    BY <1>4 DEF Attributes!Polled, Attributes!Pushed, Attributes!fixed
  <2>2. Means(Attributes!Effective(server, declared), asked)
          <=> Means(Attributes!Effective(server, declared), asked)'
    BY <2>1 DEF Means, Attributes!Codec, Attributes!Numeric, Attributes!Sayings,
                Attributes!Effective
  <2>3. (DeclaredAs /\ Attributes!Shows(key, thing))'
    BY <2>1 DEF FeatureInv, DeclaredAs, Attributes!Numeric, Attributes!Codec
  <2>. QED
    BY <2>1, <2>2, <2>3 DEF FeatureInv
<1>. QED
  BY <1>1, <1>2, <1>3, <1>4 DEF Attributes!Next

LEMMA FeatureSound ==
    ASSUME FeatureInv
    PROVE  Attributes!TypeOK /\ Attributes!ShownIsLatest /\ Attributes!NeverFails
<1>1. WaysShown
  BY HowShown DEF FeatureInv
<1>2. Attributes!TypeOK
  BY DEF FeatureInv, DeclaredAs, Attributes!TypeOK
<1>3. Attributes!NeverFails
  BY <1>1, NothingRaised DEF Attributes!NeverFails
<1>4. Attributes!ShownIsLatest
  <2>. SUFFICES ASSUME cache = server, asked # Attributes!None
                PROVE  Attributes!ShownIsLatest
    BY DEF Attributes!ShownIsLatest
  <2>1. Means(Attributes!Effective(cache, declared), asked)
    BY DEF FeatureInv
  <2>. QED
    BY <1>1, <2>1, ShownRight DEF Attributes!ShownIsLatest, IsSelect
<1>. QED
  BY <1>2, <1>3, <1>4

-------------------------------------------------------------------------------
(* Air conditioners and heaters *)

Words   == {"auto", "cool", "heat", "dry", "fan", "fan_only", "quiet"}
HaModes == {"auto", "cool", "heat", "dry", "fan_only"}
Switched == {{}, {TRUE}, {FALSE}}
ClimateRecords == [on : Switched, mode : {{}} \cup {{m} : m \in Words}, target : SUBSET Int,
                   fan : SUBSET Climates!Speeds]
Wants == [on : BOOLEAN, mode : HaModes, target : SUBSET Int, fan : SUBSET Climates!Speeds]

\* What was wanted and what the copy has mean the same, in the words of either side.
Follows(want, record_) ==
    /\ want.on = (record_.on = {TRUE})
    /\ want.mode = Climates!MapHvacMode(record_.mode, TRUE)
    /\ want.fan = record_.fan
    /\ \A t \in want.target : \E s \in record_.target : s \in (t - 1) .. t

ClimateInv ==
    /\ thing \in Climates!Units /\ server \in ClimateRecords /\ cache \in ClimateRecords
    /\ asked \in Wants /\ Follows(asked, cache)

LEMMA SwitchMeans == \A b \in BOOLEAN : {b} \in Switched /\ b = ({b} = {TRUE})
<1>1. {FALSE} # {TRUE}
  OBVIOUS
<1>. QED
  BY <1>1 DEF Switched

\* A command changes the attributes it names.
LEMMA WithAttributes ==
    ASSUME NEW r \in ClimateRecords, NEW x
    PROVE  /\ Climates!With(r, [on |-> x]) = [r EXCEPT !.on = x]
           /\ Climates!With(r, [target |-> x]) = [r EXCEPT !.target = x]
           /\ Climates!With(r, [fan |-> x]) = [r EXCEPT !.fan = x]
<1>1. DOMAIN r = {"on", "mode", "target", "fan"} /\ r = [f \in DOMAIN r |-> r[f]]
  BY DEF ClimateRecords
<1>2. Climates!With(r, [on |-> x]) = [r EXCEPT !.on = x]
  <2>1. DOMAIN [on |-> x] = {"on"} /\ [on |-> x]["on"] = x
    OBVIOUS
  <2>. QED
    BY <1>1, <2>1 DEF Climates!With
<1>3. Climates!With(r, [target |-> x]) = [r EXCEPT !.target = x]
  <2>1. DOMAIN [target |-> x] = {"target"} /\ [target |-> x]["target"] = x
    OBVIOUS
  <2>. QED
    BY <1>1, <2>1 DEF Climates!With
<1>4. Climates!With(r, [fan |-> x]) = [r EXCEPT !.fan = x]
  <2>1. DOMAIN [fan |-> x] = {"fan"} /\ [fan |-> x]["fan"] = x
    OBVIOUS
  <2>. QED
    BY <1>1, <2>1 DEF Climates!With
<1>. QED
  BY <1>2, <1>3, <1>4

LEMMA WithBoth ==
    ASSUME NEW r \in ClimateRecords, NEW a, DOMAIN a = {"on", "mode"}
    PROVE  Climates!With(r, a) = [r EXCEPT !.on = a["on"], !.mode = a["mode"]]
<1>1. DOMAIN r = {"on", "mode", "target", "fan"} /\ r = [f \in DOMAIN r |-> r[f]]
  BY DEF ClimateRecords
<1>. QED
  BY <1>1 DEF Climates!With

LEMMA ModesMapped ==
    /\ \A m \in HaModes : Climates!MapHvacMode({m}, TRUE) = m
    /\ Climates!MapHvacMode({"fan"}, TRUE) = "fan_only"
    /\ Climates!MapHvacMode({"quiet"}, TRUE) = "auto"
    /\ Climates!MapHvacMode({}, TRUE) = "auto"
    /\ \A modes : Climates!MapHvacMode(modes, FALSE) = "off"
<1>1. \A m : (CHOOSE x \in {m} : TRUE) = m
  OBVIOUS
<1>. QED
  BY <1>1 DEF Climates!MapHvacMode, HaModes

LEMMA OffersOfUnits ==
    /\ Climates!Config["hvac_ac"].modes = HaModes
    /\ Climates!Offered("hvac_ac") = {"off"} \cup HaModes
    /\ \A u \in Climates!Units \ {"hvac_ac"} :
          Climates!Config[u].modes = {} /\ Climates!Offered(u) = {"off", "heat"}
<1>1. Climates!Config["hvac_ac"].modes = HaModes
  BY DEF Climates!Config, Climates!Units, HaModes
<1>2. \A u \in Climates!Units \ {"hvac_ac"} : Climates!Config[u].modes = {}
  BY DEF Climates!Config, Climates!Units
<1>3. {Climates!MapHvacMode({m}, TRUE) : m \in HaModes} = HaModes /\ HaModes # {}
  <2>1. \A m \in HaModes : Climates!MapHvacMode({m}, TRUE) = m
    BY ModesMapped
  <2>. QED
    BY <2>1 DEF HaModes
<1>4. Climates!Offered("hvac_ac") = {"off"} \cup HaModes
  BY <1>1, <1>3 DEF Climates!Offered
<1>5. \A u \in Climates!Units \ {"hvac_ac"} : Climates!Offered(u) = {"off", "heat"}
  BY <1>2 DEF Climates!Offered
<1>. QED
  BY <1>1, <1>2, <1>4, <1>5

LEMMA ClimateStarts == ASSUME Climates!Init PROVE ClimateInv
<1>1. {} # {TRUE}
  OBVIOUS
<1>2. server \in ClimateRecords /\ cache = server /\ server.on = {} /\ server.mode = {}
      /\ server.target = {} /\ server.fan = {}
  BY DEF Climates!Init, Climates!Blank, ClimateRecords, Switched
<1>3. asked \in Wants /\ asked.on = FALSE /\ asked.mode = "auto" /\ asked.target = {}
      /\ asked.fan = {}
  BY DEF Climates!Init, Wants, HaModes
<1>4. Follows(asked, cache)
  BY <1>1, <1>2, <1>3, ModesMapped DEF Follows
<1>. QED
  BY <1>2, <1>3, <1>4 DEF ClimateInv, Climates!Init

\* A command that leads from records to records, and to what it was meant for.
LEMMA ClimateSends ==
    ASSUME ClimateInv, NEW attrs, NEW told, Climates!Sends(attrs, told),
           \A r \in ClimateRecords : Climates!With(r, attrs) \in ClimateRecords,
           told \in Wants, Follows(told, Climates!With(cache, attrs))
    PROVE  ClimateInv'
<1>1. thing' = thing /\ server' = Climates!With(server, attrs)
  BY DEF Climates!Sends
<1>2. CASE cache' = Climates!With(cache, attrs) /\ asked' = told
  BY <1>1, <1>2 DEF ClimateInv
<1>3. CASE UNCHANGED <<cache, asked>>
  BY <1>1, <1>3 DEF ClimateInv
<1>. QED
  BY <1>2, <1>3 DEF Climates!Sends

LEMMA ClimateMode == ASSUME ClimateInv, Climates!SetHvacMode PROVE ClimateInv'
<1>1. PICK m \in Climates!Offered(thing) :
        Climates!Sends(Climates!ModeAttrs(m),
            IF m = "off" \/ Climates!Config[thing].modes = {} THEN [asked EXCEPT !.on = m # "off"]
            ELSE [asked EXCEPT !.on = TRUE, !.mode = m])
  BY DEF Climates!SetHvacMode
<1>2. CASE m = "off" \/ Climates!Config[thing].modes = {}
  <2>. DEFINE b == m # "off"  told == [asked EXCEPT !.on = b]  attrs == [on |-> {b}]
  <2>1. Climates!ModeAttrs(m) = [on |-> {b}]
    BY <1>2 DEF Climates!ModeAttrs
  <2>2. b \in BOOLEAN /\ {b} \in Switched /\ b = ({b} = {TRUE})
    BY SwitchMeans
  <2>. HIDE DEF b
  <2>3. \A r \in ClimateRecords :
          /\ Climates!With(r, [on |-> {b}]) = [r EXCEPT !.on = {b}]
          /\ [r EXCEPT !.on = {b}] \in ClimateRecords
    BY <2>2, WithAttributes DEF ClimateRecords
  <2>4. told \in Wants /\ Follows(told, [cache EXCEPT !.on = {b}])
    BY <2>2 DEF ClimateInv, Wants, ClimateRecords, Follows
  <2>5. Climates!Sends(attrs, told)
    BY <1>1, <1>2, <2>1 DEF b
  <2>6. /\ \A r \in ClimateRecords : Climates!With(r, attrs) \in ClimateRecords
        /\ Follows(told, Climates!With(cache, attrs))
    BY <2>3, <2>4 DEF ClimateInv
  <2>. HIDE DEF attrs, told
  <2>. QED
    BY <2>4, <2>5, <2>6, ClimateSends
<1>3. CASE ~(m = "off" \/ Climates!Config[thing].modes = {})
  <2>. DEFINE attrs == [on |-> {TRUE}, mode |-> {m}]
              told == [asked EXCEPT !.on = TRUE, !.mode = m]
  <2>1. m \in HaModes
    BY <1>3, OffersOfUnits DEF ClimateInv
  <2>2. Climates!ModeAttrs(m) = attrs
    BY <1>3 DEF Climates!ModeAttrs
  <2>3. \A r \in ClimateRecords :
          /\ Climates!With(r, attrs) = [r EXCEPT !.on = {TRUE}, !.mode = {m}]
          /\ [r EXCEPT !.on = {TRUE}, !.mode = {m}] \in ClimateRecords
    <3>1. {TRUE} \in Switched /\ m \in Words
      BY <2>1 DEF Switched, HaModes, Words
    <3>. TAKE r \in ClimateRecords
    <3>2. Climates!With(r, attrs) = [r EXCEPT !.on = {TRUE}, !.mode = {m}]
      <4>1. DOMAIN attrs = {"on", "mode"} /\ attrs["on"] = {TRUE} /\ attrs["mode"] = {m}
        OBVIOUS
      <4>. HIDE DEF attrs
      <4>2. Climates!With(r, attrs) = [r EXCEPT !.on = attrs["on"], !.mode = attrs["mode"]]
        BY <4>1, WithBoth
      <4>. QED
        BY <4>1, <4>2
    <3>3. [r EXCEPT !.on = {TRUE}, !.mode = {m}] \in ClimateRecords
      BY <3>1 DEF ClimateRecords
    <3>. QED
      BY <3>2, <3>3
  <2>4. told \in Wants /\ Follows(told, [cache EXCEPT !.on = {TRUE}, !.mode = {m}])
    BY <2>1, ModesMapped DEF ClimateInv, Wants, ClimateRecords, Follows
  <2>5. Climates!Sends(attrs, told)
    BY <1>1, <1>3, <2>2
  <2>6. /\ \A r \in ClimateRecords : Climates!With(r, attrs) \in ClimateRecords
        /\ Follows(told, Climates!With(cache, attrs))
    BY <2>3, <2>4 DEF ClimateInv
  <2>. HIDE DEF attrs, told
  <2>. QED
    BY <2>4, <2>5, <2>6, ClimateSends
<1>. QED
  BY <1>2, <1>3

LEMMA ClimateTarget == ASSUME ClimateInv, Climates!SetTemperature PROVE ClimateInv'
<1>1. PICK t \in Targets :
        Climates!Sends([target |-> {Climates!Cut(t)}], [asked EXCEPT !.target = {t}])
  BY DEF Climates!SetTemperature
<1>2. t \in Int /\ Climates!Cut(t) \in (t - 1) .. t
  BY EntityAssumptions DEF ClimateAssumption, Climates!Cut
<1>. DEFINE s == Climates!Cut(t)  told == [asked EXCEPT !.target = {t}]
            attrs == [target |-> {s}]
<1>3. s \in Int /\ s \in (t - 1) .. t
  BY <1>2
<1>4. Climates!Sends(attrs, told)
  BY <1>1
<1>. HIDE DEF s
<1>5. \A r \in ClimateRecords :
        /\ Climates!With(r, attrs) = [r EXCEPT !.target = {s}]
        /\ [r EXCEPT !.target = {s}] \in ClimateRecords
  BY <1>3, WithAttributes DEF ClimateRecords
<1>6. told \in Wants /\ Follows(told, [cache EXCEPT !.target = {s}])
  BY <1>2, <1>3 DEF ClimateInv, Wants, ClimateRecords, Follows
<1>7. /\ \A r \in ClimateRecords : Climates!With(r, attrs) \in ClimateRecords
      /\ Follows(told, Climates!With(cache, attrs))
  BY <1>5, <1>6 DEF ClimateInv
<1>. HIDE DEF attrs, told
<1>. QED
  BY <1>4, <1>6, <1>7, ClimateSends

LEMMA ClimateFan == ASSUME ClimateInv, Climates!SetFanMode PROVE ClimateInv'
<1>1. PICK f \in Climates!Config[thing].fan :
        Climates!Sends([fan |-> {f}], [asked EXCEPT !.fan = {f}])
  BY DEF Climates!SetFanMode
<1>2. f \in Climates!Speeds
  <2>1. \A u \in Climates!Units : Climates!Config[u].fan \in {Climates!Speeds, {}}
    BY DEF Climates!Config, Climates!Units
  <2>. QED
    BY <2>1 DEF ClimateInv
<1>. DEFINE told == [asked EXCEPT !.fan = {f}]  attrs == [fan |-> {f}]
<1>3. \A r \in ClimateRecords :
        /\ Climates!With(r, attrs) = [r EXCEPT !.fan = {f}]
        /\ [r EXCEPT !.fan = {f}] \in ClimateRecords
  BY <1>2, WithAttributes DEF ClimateRecords
<1>4. told \in Wants /\ Follows(told, [cache EXCEPT !.fan = {f}])
  BY <1>2 DEF ClimateInv, Wants, ClimateRecords, Follows
<1>5. /\ \A r \in ClimateRecords : Climates!With(r, attrs) \in ClimateRecords
      /\ Follows(told, Climates!With(cache, attrs))
  BY <1>3, <1>4 DEF ClimateInv
<1>6. Climates!Sends(attrs, told)
  BY <1>1
<1>. HIDE DEF attrs, told
<1>. QED
  BY <1>4, <1>5, <1>6, ClimateSends

LEMMA ClimateSwitch == ASSUME ClimateInv, Climates!TurnOnOff PROVE ClimateInv'
<1>1. PICK b \in BOOLEAN : Climates!Sends([on |-> {b}], [asked EXCEPT !.on = b])
  BY DEF Climates!TurnOnOff
<1>. DEFINE told == [asked EXCEPT !.on = b]  attrs == [on |-> {b}]
<1>2. {b} \in Switched /\ b = ({b} = {TRUE})
  BY SwitchMeans
<1>3. \A r \in ClimateRecords :
        /\ Climates!With(r, attrs) = [r EXCEPT !.on = {b}]
        /\ [r EXCEPT !.on = {b}] \in ClimateRecords
  BY <1>2, WithAttributes DEF ClimateRecords
<1>4. told \in Wants /\ Follows(told, [cache EXCEPT !.on = {b}])
  BY <1>2 DEF ClimateInv, Wants, ClimateRecords, Follows
<1>5. /\ \A r \in ClimateRecords : Climates!With(r, attrs) \in ClimateRecords
      /\ Follows(told, Climates!With(cache, attrs))
  BY <1>3, <1>4 DEF ClimateInv
<1>6. Climates!Sends(attrs, told)
  BY <1>1
<1>. HIDE DEF attrs, told
<1>. QED
  BY <1>4, <1>5, <1>6, ClimateSends

\* What Sber's words mean is what the entity shows of them.
LEMMA ClimateMeaning ==
    ASSUME NEW r \in ClimateRecords
    PROVE  Climates!Meaning(r) \in Wants /\ Follows(Climates!Meaning(r), r)
<1>. DEFINE mean == Climates!Meaning(r)
<1>2. /\ mean.on = (r.on = {TRUE}) /\ mean.target = r.target /\ mean.fan = r.fan
      /\ mean = [on |-> mean.on, mode |-> mean.mode, target |-> mean.target, fan |-> mean.fan]
  BY DEF Climates!Meaning
<1>3. mean.mode \in HaModes /\ mean.mode = Climates!MapHvacMode(r.mode, TRUE)
  <2>1. CASE r.mode = {}
    BY <2>1, ModesMapped DEF Climates!Meaning, HaModes
  <2>2. ASSUME NEW m \in Words, r.mode = {m}
        PROVE  mean.mode \in HaModes /\ mean.mode = Climates!MapHvacMode(r.mode, TRUE)
    <3>1. (CHOOSE x \in {m} : TRUE) = m
      OBVIOUS
    <3>2. CASE m \in HaModes
      <4>1. {m} # {} /\ {m} \cap {"quiet"} = {} /\ {m} # {"fan"}
        BY <3>2 DEF HaModes
      <4>2. mean.mode = m
        BY <2>2, <3>1, <4>1 DEF Climates!Meaning
      <4>. QED
        BY <2>2, <3>2, <4>2, ModesMapped
    <3>3. CASE m = "fan"
      BY <2>2, <3>3, ModesMapped DEF Climates!Meaning, HaModes
    <3>4. CASE m = "quiet"
      BY <2>2, <3>4, ModesMapped DEF Climates!Meaning, HaModes
    <3>. QED
      BY <3>2, <3>3, <3>4 DEF Words, HaModes
  <2>. QED
    BY <2>1, <2>2 DEF ClimateRecords
<1>4. mean \in Wants
  BY <1>2, <1>3 DEF Wants, ClimateRecords
<1>5. \A t \in r.target : t \in Int /\ t \in (t - 1) .. t
  BY DEF ClimateRecords
<1>. QED
  BY <1>2, <1>3, <1>4, <1>5 DEF Follows

LEMMA ClimateKept == ASSUME ClimateInv, Climates!Next PROVE ClimateInv'
<1>1. CASE Climates!AppSets
  <2>1. PICK b \in BOOLEAN, m \in {"auto", "cool", "fan", "quiet"} :
          server' = [server EXCEPT !.on = {b},
                        !.mode = IF Climates!Config[thing].modes = {} THEN @ ELSE {m}]
    BY <1>1 DEF Climates!AppSets
  <2>2. {b} \in Switched /\ m \in Words
    BY SwitchMeans DEF Words
  <2>3. server' \in ClimateRecords
    BY <2>1, <2>2 DEF ClimateInv, ClimateRecords
  <2>. QED
    BY <1>1, <2>3 DEF Climates!AppSets, ClimateInv
<1>2. CASE Climates!Refreshed
  BY <1>2, ClimateMeaning DEF Climates!Refreshed, ClimateInv
<1>. QED
  BY <1>1, <1>2, ClimateMode, ClimateTarget, ClimateFan, ClimateSwitch DEF Climates!Next

LEMMA ClimateSound ==
    ASSUME ClimateInv
    PROVE  /\ Climates!TypeOK /\ Climates!ShowsTheMode /\ Climates!ShowsTheTarget
           /\ Climates!ShowsAnOffer
<1>1. Climates!ShowsTheMode
  <2>1. CASE asked.on
    BY <2>1 DEF ClimateInv, Follows, Climates!ShowsTheMode, Climates!Shown
  <2>2. CASE ~asked.on
    BY <2>2, ModesMapped DEF ClimateInv, Follows, Climates!ShowsTheMode, Climates!Shown
  <2>. QED
    BY <2>1, <2>2
<1>2. Climates!ShowsTheTarget
  BY DEF ClimateInv, Follows, Climates!ShowsTheTarget, Climates!Shown
<1>3. Climates!Shown(cache).mode \in {"off"} \cup HaModes
  BY <1>1 DEF Climates!ShowsTheMode, ClimateInv, Wants
<1>4. Climates!ShowsAnOffer
  BY <1>3, OffersOfUnits DEF ClimateInv, Climates!ShowsAnOffer
<1>5. \E u \in Climates!Units : asked.mode \in Climates!Offered(u)
  <2>1. "hvac_ac" \in Climates!Units
    BY DEF Climates!Units
  <2>. QED
    BY <2>1, OffersOfUnits DEF ClimateInv, Wants
<1>6. \A r \in ClimateRecords : r.on \subseteq BOOLEAN /\ \A m, n \in r.mode : m = n
  <2>. SUFFICES ASSUME NEW r \in ClimateRecords
                PROVE  r.on \subseteq BOOLEAN /\ \A m, n \in r.mode : m = n
    OBVIOUS
  <2>1. r.on \in Switched /\ r.mode \in {{}} \cup {{m} : m \in Words}
    BY DEF ClimateRecords
  <2>2. r.on \subseteq BOOLEAN
    BY <2>1 DEF Switched
  <2>. QED
    BY <2>1, <2>2
<1>7. Climates!TypeOK
  <2>1. asked.on \in BOOLEAN /\ thing \in Climates!Units
    BY DEF ClimateInv, Wants
  <2>2. \A r \in {server, cache} : r \in ClimateRecords
    BY DEF ClimateInv
  <2>3. \A r \in {server, cache} : r.on \subseteq BOOLEAN /\ \A m, n \in r.mode : m = n
    BY <1>6, <2>2
  <2>. QED
    BY <1>5, <2>1, <2>3 DEF Climates!TypeOK
<1>. QED
  BY <1>1, <1>2, <1>4, <1>7

-------------------------------------------------------------------------------
(* Covers *)

CoverDevices == [pos : 0 .. 100, goal : 0 .. 100, moving : BOOLEAN]
OnItsWay == {"opening", "closing"}
CoverRecords == [state : {"open", "opened", "close"} \cup OnItsWay, pos : 0 .. 100,
                 told : {"none", "stop"}, toldAt : {Covers!Never} \cup Nat, stateAt : Nat]

\* Sber's record is the device's last report, the state of it a moment ago at most, and a
\* stop counts exactly until it is answered.
CoverInv ==
    /\ thing \in Covers!Kinds /\ device \in CoverDevices /\ server \in CoverRecords
    /\ now \in 0 .. Instants /\ asked \in BOOLEAN
    /\ server.toldAt <= now /\ server.stateAt <= now
    /\ server.pos = device.pos
    /\ device.moving <=> server.state \in OnItsWay
    /\ ~device.moving => (server.state = "close" <=> device.pos = 0)
    /\ asked <=> Covers!IsFreshDesired(server.toldAt, server.stateAt)

LEMMA CoverStarts == ASSUME Covers!Init PROVE CoverInv
<1>1. PICK p \in {0, 100} : device = [pos |-> p, goal |-> p, moving |-> FALSE]
  BY DEF Covers!Init
<1>2. server = [state |-> IF p = 0 THEN "close" ELSE "open", pos |-> p, told |-> "none",
                toldAt |-> Covers!Never, stateAt |-> 0]
  BY <1>1 DEF Covers!Init
<1>3. 0 \in 0 .. Instants
  BY EntityAssumptions DEF CoverAssumption
<1>4. device \in CoverDevices /\ server \in CoverRecords
  BY <1>1, <1>2 DEF CoverDevices, CoverRecords, Covers!Never
<1>5. ~Covers!IsFreshDesired(server.toldAt, server.stateAt)
  BY <1>2 DEF Covers!IsFreshDesired
<1>6. /\ server.toldAt <= now /\ server.stateAt <= now /\ server.pos = device.pos
      /\ ~device.moving /\ server.state \notin OnItsWay
      /\ (server.state = "close" <=> device.pos = 0) /\ asked = FALSE
      /\ thing \in Covers!Kinds /\ now = 0
  BY <1>1, <1>2 DEF Covers!Init, OnItsWay, Covers!Never
<1>. QED
  BY <1>3, <1>4, <1>5, <1>6 DEF CoverInv

LEMMA CoverMoved ==
    ASSUME CoverInv, NEW goal \in 0 .. 100, Covers!MoveTo(goal)
    PROVE  CoverInv'
  BY EntityAssumptions
     DEF CoverAssumption, CoverInv, Covers!MoveTo, Covers!Tick, CoverDevices, CoverRecords,
         Covers!IsFreshDesired, Covers!Never

LEMMA CoverStopped == ASSUME CoverInv, Covers!StopCover PROVE CoverInv'
<1>1. /\ device' = [device EXCEPT !.goal = device.pos]
      /\ server' = [server EXCEPT !.told = "stop", !.toldAt = now']
      /\ now < Instants /\ now' = now + 1 /\ asked' = TRUE /\ thing' = thing
  BY DEF Covers!StopCover, Covers!Tick
<1>2. now' \in 0 .. Instants /\ now \in Nat
  BY <1>1, EntityAssumptions DEF CoverAssumption, CoverInv
<1>3. /\ device' \in CoverDevices /\ server' \in CoverRecords
      /\ device'.pos = device.pos /\ device'.moving = device.moving
      /\ server'.pos = server.pos /\ server'.state = server.state
      /\ server'.stateAt = server.stateAt /\ server'.toldAt = now'
  <2>1. device \in CoverDevices /\ server \in CoverRecords /\ now' \in Nat
    BY <1>1, <1>2 DEF CoverInv
  <2>. QED
    BY <1>1, <2>1 DEF CoverDevices, CoverRecords
<1>4. Covers!IsFreshDesired(now', server.stateAt)
  BY <1>1, <1>2 DEF CoverInv, CoverRecords, Covers!IsFreshDesired, Covers!Never
<1>5. server.stateAt <= now' /\ server'.toldAt <= now'
  BY <1>1, <1>2, <1>3 DEF CoverInv, CoverRecords
<1>. QED
  BY <1>1, <1>2, <1>3, <1>4, <1>5 DEF CoverInv

\* A report of the state comes after every stop, and answers it.
LEMMA CoverReports ==
    ASSUME CoverInv, Covers!Tick, thing' = thing, asked' = FALSE,
           device' \in CoverDevices, NEW state, Covers!Reports(state, device'.pos),
           state \in {"open", "opened", "close"} \cup OnItsWay,
           device'.moving <=> state \in OnItsWay,
           ~device'.moving => (state = "close" <=> device'.pos = 0)
    PROVE  CoverInv'
<1>1. now' \in 0 .. Instants /\ now \in Nat /\ now' = now + 1
  BY EntityAssumptions DEF CoverAssumption, CoverInv, Covers!Tick
<1>2. /\ server' = [server EXCEPT !.state = state, !.pos = device'.pos, !.stateAt = now']
      /\ device'.pos \in 0 .. 100
  BY DEF Covers!Reports, CoverDevices
<1>3. /\ server' \in CoverRecords /\ server'.pos = device'.pos /\ server'.state = state
      /\ server'.stateAt = now' /\ server'.toldAt = server.toldAt
  <2>1. server \in CoverRecords /\ now' \in Nat
    BY <1>1 DEF CoverInv
  <2>. QED
    BY <1>2, <2>1 DEF CoverRecords
<1>4. server.toldAt <= now' /\ ~Covers!IsFreshDesired(server.toldAt, now')
  BY <1>1 DEF CoverInv, CoverRecords, Covers!IsFreshDesired, Covers!Never
<1>5. now' <= now'
  BY <1>1
<1>. QED
  BY <1>1, <1>3, <1>4, <1>5 DEF CoverInv

LEMMA CoverReported == ASSUME CoverInv, Covers!Starts \/ Covers!Passes \/ Covers!Rests PROVE CoverInv'
<1>1. CASE Covers!Starts
  <2>. DEFINE state == IF device.goal > device.pos THEN "opening" ELSE "closing"
  <2>1. /\ device' \in CoverDevices /\ device'.pos = device.pos /\ device'.moving
        /\ Covers!Reports(state, device'.pos) /\ state \in OnItsWay
    BY <1>1 DEF CoverInv, CoverDevices, Covers!Starts, OnItsWay
  <2>. HIDE DEF state
  <2>. QED
    BY <1>1, <2>1, CoverReports DEF Covers!Starts
<1>2. CASE Covers!Passes
  <2>1. /\ device' = [device EXCEPT !.pos = 50] /\ device.moving
        /\ server' = [server EXCEPT !.pos = 50]
        /\ UNCHANGED <<thing, cache, now, asked>>
    BY <1>2 DEF Covers!Passes
  <2>2. /\ device' \in CoverDevices /\ device'.pos = 50 /\ device'.moving
        /\ server' \in CoverRecords /\ server'.pos = 50 /\ server'.state = server.state
        /\ server'.toldAt = server.toldAt /\ server'.stateAt = server.stateAt
    BY <2>1 DEF CoverInv, CoverDevices, CoverRecords
  <2>. QED
    BY <2>1, <2>2 DEF CoverInv
<1>3. CASE Covers!Rests
  <2>. DEFINE state == IF device.goal = 0 THEN "close" ELSE "opened"
  <2>1. /\ device' \in CoverDevices /\ device'.pos = device.goal /\ ~device'.moving
        /\ Covers!Reports(state, device'.pos) /\ state \in {"open", "opened", "close"}
        /\ state \notin OnItsWay /\ (state = "close" <=> device'.pos = 0)
    BY <1>3 DEF CoverInv, CoverDevices, Covers!Rests, OnItsWay
  <2>. HIDE DEF state
  <2>. QED
    BY <1>3, <2>1, CoverReports DEF Covers!Rests
<1>. QED
  BY <1>1, <1>2, <1>3

LEMMA CoverKept == ASSUME CoverInv, Covers!Next PROVE CoverInv'
<1>1. CASE Covers!OpenCover \/ Covers!CloseCover
  BY <1>1, CoverMoved DEF Covers!OpenCover, Covers!CloseCover
<1>2. CASE Covers!SetCoverPosition
  <2>1. PICK p \in Positions : Covers!MoveTo(p)
    BY <1>2 DEF Covers!SetCoverPosition
  <2>2. p \in 0 .. 100
    BY EntityAssumptions DEF CoverAssumption
  <2>. QED
    BY <2>1, <2>2, CoverMoved
<1>3. CASE Covers!Refreshed
  BY <1>3 DEF Covers!Refreshed, CoverInv
<1>. QED
  BY <1>1, <1>2, <1>3, CoverStopped, CoverReported DEF Covers!Next

LEMMA CoverSound ==
    ASSUME CoverInv
    PROVE  Covers!TypeOK /\ Covers!ShownWhereItIs /\ Covers!ShownOnItsWay
<1>1. Covers!TypeOK
  BY DEF CoverInv, Covers!TypeOK, CoverDevices
<1>2. ASSUME cache = server, ~asked
      PROVE  /\ Covers!Shown(cache).pos = device.pos
             /\ Covers!Shown(cache).state = Covers!OpenState(server.state)
  BY <1>2 DEF CoverInv, Covers!Shown
<1>3. Covers!ShownWhereItIs
  <2>. SUFFICES ASSUME cache = server, ~device.moving, ~asked
                PROVE  /\ Covers!Shown(cache).pos = device.pos
                       /\ (Covers!Shown(cache).state = "closed") = (device.pos = 0)
    BY DEF Covers!ShownWhereItIs
  <2>1. server.state \in {"open", "opened", "close"} /\ (server.state = "close" <=> device.pos = 0)
    BY DEF CoverInv, CoverRecords
  <2>2. Covers!OpenState(server.state) = IF device.pos = 0 THEN "closed" ELSE "open"
    BY <2>1 DEF Covers!OpenState
  <2>. QED
    BY <1>2, <2>2
<1>4. Covers!ShownOnItsWay
  <2>. SUFFICES ASSUME cache = server, device.moving, ~asked
                PROVE  Covers!Shown(cache).state \in OnItsWay
    BY DEF Covers!ShownOnItsWay, OnItsWay
  <2>1. Covers!OpenState(server.state) = server.state /\ server.state \in OnItsWay
    BY DEF CoverInv, OnItsWay, Covers!OpenState
  <2>. QED
    BY <1>2, <2>1
<1>. QED
  BY <1>1, <1>3, <1>4

-------------------------------------------------------------------------------
(* The parts together *)

Parts == {"command", "lamp", "ring", "feature", "climate", "cover"}
EntitiesInv ==
    /\ part \in Parts
    /\ IInv
    /\ part = "lamp" => LampInv
    /\ part = "ring" => RingInv
    /\ part = "feature" => FeatureInv
    /\ part = "climate" => ClimateInv
    /\ part = "cover" => CoverInv

LEMMA EntitiesStart == EntitiesInit => EntitiesInv
<1>. SUFFICES ASSUME EntitiesInit PROVE EntitiesInv
  OBVIOUS
<1>1. IInv
  BY InitIInv DEF EntitiesInit
<1>2. CASE part = "command"
  BY <1>1, <1>2 DEF EntitiesInv, Parts
<1>3. CASE part = "lamp"
  BY <1>1, <1>3, LampStarts DEF EntitiesInit, EntitiesInv, Parts
<1>4. CASE part = "ring"
  BY <1>1, <1>4, RingStarts DEF EntitiesInit, EntitiesInv, Parts
<1>5. CASE part = "feature"
  BY <1>1, <1>5, FeatureStarts DEF EntitiesInit, EntitiesInv, Parts
<1>6. CASE part = "climate"
  BY <1>1, <1>6, ClimateStarts DEF EntitiesInit, EntitiesInv, Parts
<1>7. CASE part = "cover"
  BY <1>1, <1>7, CoverStarts DEF EntitiesInit, EntitiesInv, Parts
<1>. QED
  BY <1>2, <1>3, <1>4, <1>5, <1>6, <1>7 DEF EntitiesInit

\* A step of one part leaves what the others are about alone.
LEMMA LampIdle == ASSUME LampInv, UNCHANGED views PROVE LampInv'
<1>1. UNCHANGED <<thing, server, asked>>
  BY DEF views
<1>2. Lamps!TypeOK'
  BY <1>1 DEF LampInv, Lamps!TypeOK, Lamps!BrightRange, Lamps!ValueRange, Lamps!HueRange,
              Lamps!SatRange
<1>3. Lasting'
  BY <1>1 DEF LampInv, Lasting, Lamps!ValueRange
<1>. QED
  BY <1>2, <1>3 DEF LampInv

LEMMA RingIdle == ASSUME RingInv, UNCHANGED views PROVE RingInv'
<1>1. UNCHANGED <<server, cache, asked, sending>>
  BY DEF views
<1>. QED
  BY <1>1 DEF RingInv, Rings!RingShines

LEMMA FeatureIdle == ASSUME FeatureInv, UNCHANGED views PROVE FeatureInv'
<1>1. UNCHANGED <<thing, key, declared, server, now, asked>>
  BY DEF views
<1>2. Means(Attributes!Effective(server, declared), asked)
        <=> Means(Attributes!Effective(server, declared), asked)'
  BY <1>1 DEF Means, Attributes!Codec, Attributes!Numeric, Attributes!Sayings,
              Attributes!Effective
<1>3. (DeclaredAs /\ Attributes!Shows(key, thing))'
  BY <1>1 DEF FeatureInv, DeclaredAs, Attributes!Numeric, Attributes!Codec
<1>. QED
  BY <1>1, <1>2, <1>3 DEF FeatureInv

LEMMA ClimateIdle == ASSUME ClimateInv, UNCHANGED views PROVE ClimateInv'
BY DEF views, ClimateInv

LEMMA CoverIdle == ASSUME CoverInv, UNCHANGED views PROVE CoverInv'
BY DEF views, CoverInv

LEMMA EntitiesKept == EntitiesInv /\ [EntitiesNext]_entityVars => EntitiesInv'
<1>. SUFFICES ASSUME EntitiesInv, [EntitiesNext]_entityVars PROVE EntitiesInv'
  OBVIOUS
<1>1. part' = part /\ part \in Parts
  BY DEF EntitiesNext, entityVars, EntitiesInv
<1>2. IInv'
  <2>1. [Next]_vars
    BY DEF EntitiesNext, entityVars
  <2>. QED
    BY <2>1, NextIInv DEF EntitiesInv
<1>3. CASE UNCHANGED views
  BY <1>1, <1>2, <1>3, LampIdle, RingIdle, FeatureIdle, ClimateIdle, CoverIdle
     DEF EntitiesInv
<1>4. CASE part = "lamp" /\ Lamps!Next
  BY <1>1, <1>2, <1>4, LampKept DEF EntitiesInv
<1>5. CASE part = "ring" /\ Rings!Next
  BY <1>1, <1>2, <1>5, RingKept DEF EntitiesInv
<1>6. CASE part = "feature" /\ Attributes!Next
  BY <1>1, <1>2, <1>6, FeatureKept DEF EntitiesInv
<1>7. CASE part = "climate" /\ Climates!Next
  BY <1>1, <1>2, <1>7, ClimateKept DEF EntitiesInv
<1>8. CASE part = "cover" /\ Covers!Next
  BY <1>1, <1>2, <1>8, CoverKept DEF EntitiesInv
<1>. QED
  BY <1>3, <1>4, <1>5, <1>6, <1>7, <1>8 DEF EntitiesNext, entityVars

LEMMA EntitiesInvariant == EntitiesSpec => []EntitiesInv
<1>1. EntitiesInit => EntitiesInv
  BY EntitiesStart
<1>2. EntitiesInv /\ [EntitiesNext]_entityVars => EntitiesInv'
  BY EntitiesKept
<1>. QED
  BY <1>1, <1>2, PTL DEF EntitiesSpec

\* A light of Sber (light.py) shows the brightness it was asked for, however its colour and
\* its modes are changed between, and only a mode it supports: for every lamp whose ranges
\* have a least and a greatest value, every brightness, colour and temperature.  The ring
\* of a speaker (light_indicator.py) shines as told after any number of PUTs and refreshes.
THEOREM LightsAlwaysSound == EntitiesSpec => []LightsSound
<1>1. EntitiesInv => LightsSound
  BY LampSound DEF EntitiesInv, RingInv, LightsSound
<1>. QED
  BY <1>1, EntitiesInvariant, PTL

\* For every attribute of the tables, every category whose entity reads it, every type and
\* every numbers it may come with, every air conditioner and heater and every cover: the
\* entity shows what the device reported or a command set last, and a select what of that
\* it offers (mapper.py, the platforms, climate.py, cover.py).
THEOREM EntitiesAlwaysShowTheDevice == EntitiesSpec => []EntitiesShowTheDevice
<1>1. EntitiesInv => EntitiesShowTheDevice
  BY FeatureSound, ClimateSound, CoverSound DEF EntitiesInv, EntitiesShowTheDevice
<1>. QED
  BY <1>1, EntitiesInvariant, PTL

\* Put beside the entities, the command tracker still does nothing but what its own
\* specification says, so its theorems hold of the whole.
THEOREM CommandsAsSpecified == EntitiesSpec => Spec
<1>1. EntitiesInit => Init
  BY DEF EntitiesInit
<1>2. [EntitiesNext]_entityVars => [Next]_vars
  BY DEF EntitiesNext, entityVars
<1>. QED
  BY <1>1, <1>2, PTL DEF EntitiesSpec, Spec
===============================================================================
