------------------------ MODULE DeviceSelectionProofs ------------------------
(***************************************************************************)
(* Theorems about DeviceSelection, for any units, any number of ids the    *)
(* cloud issues and any number of misses an entry survives.                *)
(***************************************************************************)
EXTENDS DeviceSelection, FiniteSetTheorems, TLAPS

Chosen == Stored(uids, legacy)

\* Records a key may still find: those of the cloud, and those the cache holds.
Live == records \cup cache
KeyUnits(S, L) == {u \in Units : u \in S \/ \E j \in S \cap L : unit[j] = u}

KeysInv ==
    /\ legacy # Unset => legacy \subseteq DOMAIN unit
    /\ uids # Unset => uids \subseteq Units \cup DOMAIN unit /\ legacy # Unset /\ mirror # Unset

LoadInv ==
    /\ ~loaded => cache = {} /\ misses = NoMisses
    /\ pending => loaded /\ Owing

\* The cache has all records of a unit or none, but for those paired since.
WholeInv ==
    Chosen # Unset => \A i \in cache, j \in records \ cache : unit[i] = unit[j] => j \notin Chosen

\* A key that can still find a record stands for a chosen unit.
ChoiceInv ==
    /\ Chosen = Unset => chosen = Units
    /\ Chosen # Unset => KeyUnits(Chosen, Live) \subseteq chosen

\* The older key differs from its mirror only if the older version wrote it.
ElsewhereInv ==
    /\ elsewhere # Unset => uids # Unset /\ UnitsOf(legacy) \subseteq elsewhere
    /\ uids # Unset /\ elsewhere = Unset => legacy = mirror

\* A unit that a save saw as one record is stored by its serial number alone.
SecuredInv ==
    /\ uids # Unset => \A u \in secured : u \in uids /\ \A j \in uids \cap Live : unit[j] # u
    /\ uids = Unset /\ legacy # Unset => secured = {}

MissInv == \A u \in registry \cap secured : misses[u] <= absent[u]

IInv ==
    /\ TypeOK
    /\ KeysInv /\ LoadInv /\ WholeInv /\ ChoiceInv /\ ElsewhereInv /\ SecuredInv /\ MissInv

-----------------------------------------------------------------------------
(* The operators of identity.py *)

LEMMA UnitFacts ==
    ASSUME TypeOK
    PROVE  /\ DOMAIN unit \subseteq Nat /\ DOMAIN unit \subseteq Ids /\ IsFiniteSet(DOMAIN unit)
           /\ \A i \in DOMAIN unit : unit[i] \in Units
           /\ \A u \in Units : u \notin DOMAIN unit
           /\ records \subseteq DOMAIN unit /\ cache \subseteq DOMAIN unit
<1>1. PICK n \in 0 .. MaxId : unit \in [1 .. n -> Units]
  BY DEF TypeOK
<1>2. IsFiniteSet(1 .. n)
  BY FS_Interval
<1>3. DOMAIN unit = 1 .. n /\ \A i \in 1 .. n : unit[i] \in Units
  BY <1>1
<1>4. 1 .. n \subseteq Nat /\ 1 .. n \subseteq Ids
  BY LimitsAssumption DEF Ids
<1>5. \A u \in Units : u \notin 1 .. n
  BY <1>4, UnitsAssumption
<1> QED
  BY <1>2, <1>3, <1>4, <1>5 DEF TypeOK

\* The freshest of the records exists.
LEMMA MaxExists ==
    ASSUME NEW S, S \subseteq Nat, IsFiniteSet(S), S # {}
    PROVE  Max(S) \in S
<1> DEFINE Above(n) == {m \in S : n < m}
           T == {Above(n) : n \in S}
<1>1. IsWellFoundedOn(StrictSubsetOrdering(S), FiniteSubsetsOf(S))
  BY FS_StrictSubsetOrderingWellFounded
<1>2. \A n \in S : Above(n) \in FiniteSubsetsOf(S)
  <2> SUFFICES ASSUME NEW n \in S PROVE Above(n) \in FiniteSubsetsOf(S)
    OBVIOUS
  <2>1. Above(n) \in SUBSET S
    OBVIOUS
  <2>2. IsFiniteSet(Above(n))
    BY <2>1, FS_Subset
  <2> QED
    BY <2>1, <2>2 DEF FiniteSubsetsOf
<1>3. T \subseteq FiniteSubsetsOf(S) /\ T # {}
  BY <1>2
<1>4. PICK x \in T : \A y \in T : ~ (<<y, x>> \in StrictSubsetOrdering(S))
  <2> HIDE DEF T
  <2> QED
    BY <1>1, <1>3, WFMin
<1>5. PICK n \in S : x = Above(n)
  BY <1>4
<1>6. ASSUME NEW m \in S, n < m PROVE FALSE
  <2>1. m \in Above(n) /\ m \notin Above(m) /\ \A k \in Above(m) : k \in Above(n)
    BY <1>6
  <2>2. Above(m) \subseteq Above(n) /\ Above(m) # Above(n)
    BY <2>1
  <2>3. <<Above(m), Above(n)>> \in StrictSubsetOrdering(S)
    BY <2>2 DEF StrictSubsetOrdering
  <2> QED
    BY <1>4, <1>5, <2>3
<1>7. \A m \in S : n >= m
  BY <1>6
<1> QED
  BY <1>7 DEF Max

\* PickOne() returns a record of the unit.
LEMMA PickFacts ==
    ASSUME TypeOK, NEW C, C \subseteq DOMAIN unit, NEW u, NEW S, Of(C, u) # {}
    PROVE  PickOne(C, u, S) \in C /\ unit[PickOne(C, u, S)] = u
<1> DEFINE explicit == Of(C, u) \cap S
           from == IF explicit = {} THEN Of(C, u) ELSE explicit
<1>1. from \subseteq Of(C, u) /\ from # {}
  OBVIOUS
<1>2. Of(C, u) \subseteq DOMAIN unit
  BY DEF Of
<1>3. from \subseteq Nat /\ IsFiniteSet(from)
  <2>1. from \in SUBSET (DOMAIN unit)
    BY <1>1, <1>2
  <2> QED
    BY <2>1, UnitFacts, FS_Subset
<1>4. Max(from) \in Of(C, u)
  BY <1>1, <1>3, MaxExists
<1>5. PickOne(C, u, S) = Max(from)
  BY DEF PickOne
<1> QED
  BY <1>4, <1>5 DEF Of

\* A selection shows the units of the cache that one of its keys stands for.
LEMMA ResolveFacts ==
    ASSUME TypeOK, NEW C, C \subseteq DOMAIN unit, NEW S
    PROVE  /\ Resolve(C, S) \subseteq C
           /\ \A u : u \in UnitsOf(Resolve(C, S)) <=>
                        /\ u \in UnitsOf(C)
                        /\ u \in S \/ \E i \in C \cap S : unit[i] = u
<1> DEFINE Hit(u) == u \in UnitsOf(C) /\ (Of(C, u) \cup {u}) \cap S # {}
<1>1. Resolve(C, S) = {PickOne(C, u, S) : u \in {v \in UnitsOf(C) : Hit(v)}}
  BY DEF Resolve
<1>2. \A u : u \in UnitsOf(C) <=> \E i \in C : unit[i] = u
  BY DEF UnitsOf
<1>3. \A u : Hit(u) => PickOne(C, u, S) \in C /\ unit[PickOne(C, u, S)] = u
  <2> SUFFICES ASSUME NEW u, Hit(u)
               PROVE  PickOne(C, u, S) \in C /\ unit[PickOne(C, u, S)] = u
    OBVIOUS
  <2>1. Of(C, u) # {}
    BY <1>2 DEF Of
  <2> QED
    BY <2>1, PickFacts
<1>4. Resolve(C, S) \subseteq C
  BY <1>1, <1>3
<1>5. \A u : u \in UnitsOf(Resolve(C, S)) <=> Hit(u)
  <2> SUFFICES ASSUME NEW u PROVE u \in UnitsOf(Resolve(C, S)) <=> Hit(u)
    OBVIOUS
  <2>1. ASSUME Hit(u) PROVE u \in UnitsOf(Resolve(C, S))
    <3>1. PickOne(C, u, S) \in Resolve(C, S)
      BY <1>1, <2>1
    <3> QED
      BY <1>3, <1>4, <2>1, <3>1 DEF UnitsOf
  <2>2. ASSUME u \in UnitsOf(Resolve(C, S)) PROVE Hit(u)
    <3>1. PICK i \in Resolve(C, S) : unit[i] = u
      BY <2>2 DEF UnitsOf
    <3>2. PICK v : Hit(v) /\ i = PickOne(C, v, S)
      BY <1>1, <3>1
    <3> QED
      BY <1>3, <3>1, <3>2
  <2> QED
    BY <2>1, <2>2
<1>6. \A u : Hit(u) <=> u \in UnitsOf(C) /\ (u \in S \/ \E i \in C \cap S : unit[i] = u)
  BY DEF Of
<1> QED
  BY <1>4, <1>5, <1>6

\* The stable form of a key is the key itself, the serial number of its record, or a
\* record of its serial number.
LEMMA UidFacts ==
    ASSUME TypeOK, NEW C, C \subseteq DOMAIN unit, NEW k, k \in Units \cup DOMAIN unit
    PROVE  \/ ToUid(C, k) = k /\ (k \in C => Ambiguous(C, unit[k]))
                              /\ (k \in UnitsOf(C) => ~Ambiguous(C, k))
           \/ k \in C /\ ToUid(C, k) = unit[k] /\ ~Ambiguous(C, unit[k])
           \/ /\ k \in Units /\ k \in UnitsOf(C) /\ Ambiguous(C, k)
              /\ ToUid(C, k) \in C /\ unit[ToUid(C, k)] = k
<1> DEFINE matches == {i \in C : k \in MatchKeys(i)}
           u == IF k \in C THEN unit[k] ELSE k
<1>1. ToUid(C, k) = IF matches = {} THEN k
                    ELSE IF ~ Ambiguous(C, u) THEN u
                    ELSE IF k \in C THEN k
                    ELSE CHOOSE i \in matches : TRUE
  BY DEF ToUid
<1>2. \A i \in C : k \in MatchKeys(i) <=> k = i \/ k = unit[i]
  BY DEF MatchKeys
<1>3. C \subseteq DOMAIN unit /\ \A i \in C : unit[i] \in Units /\ unit[i] \notin C
  BY UnitFacts
<1>4. k \in UnitsOf(C) <=> \E i \in C : unit[i] = k
  BY DEF UnitsOf
<1>5. CASE matches = {}
  BY <1>1, <1>2, <1>4, <1>5
<1>6. CASE matches # {} /\ k \in C
  BY <1>1, <1>3, <1>4, <1>6
<1>7. CASE matches # {} /\ k \notin C
  <2>1. PICK i \in matches : i = CHOOSE j \in matches : TRUE
    BY <1>7
  <2>2. \A j \in matches : j \in C /\ k = unit[j]
    BY <1>2, <1>7
  <2>3. k \in Units /\ k \in UnitsOf(C)
    BY <1>3, <1>4, <2>1, <2>2
  <2>4. CASE Ambiguous(C, k)
    <3>1. ToUid(C, k) = i
      BY <1>1, <1>7, <2>1, <2>4
    <3> QED
      BY <2>1, <2>2, <2>3, <2>4, <3>1
  <2>5. CASE ~Ambiguous(C, k)
    <3>1. ToUid(C, k) = k
      BY <1>1, <1>7, <2>5
    <3> QED
      BY <1>7, <2>5, <3>1
  <2> QED
    BY <2>4, <2>5
<1> QED
  BY <1>5, <1>6, <1>7

\* Stored in its stable form, a selection stands for no further unit.
LEMMA UidsNothingNew ==
    ASSUME TypeOK, NEW C, C \subseteq DOMAIN unit, NEW S, S \subseteq Units \cup DOMAIN unit,
           NEW L, L \subseteq DOMAIN unit, C \subseteq L
    PROVE  /\ ToUids(C, S) \subseteq Units \cup DOMAIN unit
           /\ KeyUnits(ToUids(C, S), L) \subseteq KeyUnits(S, L)
<1>1. \A k \in S : ToUid(C, k) \in Units \cup DOMAIN unit
  BY UidFacts, UnitFacts
<1>2. ASSUME NEW u \in KeyUnits(ToUids(C, S), L) PROVE u \in KeyUnits(S, L)
  <2>1. u \in Units
    BY DEF KeyUnits
  <2>2. PICK k \in S : ToUid(C, k) = u \/ (ToUid(C, k) \in L /\ unit[ToUid(C, k)] = u)
    BY DEF KeyUnits, ToUids
  <2>3. k \in Units \cup DOMAIN unit
    OBVIOUS
  <2>4. u \in S \/ \E j \in S \cap L : unit[j] = u
    <3> DEFINE t == ToUid(C, k)
    <3>1. \A i \in DOMAIN unit : unit[i] \in Units /\ i \notin Units
      BY UnitFacts
    <3>2. CASE t = k
      BY <2>2, <3>2
    <3>3. CASE k \in C /\ t = unit[k]
      BY <2>2, <3>1, <3>3
    <3>4. CASE k \in Units /\ t \in C /\ unit[t] = k
      BY <2>1, <2>2, <3>1, <3>4
    <3>5. t = k \/ (k \in C /\ t = unit[k]) \/ (k \in Units /\ t \in C /\ unit[t] = k)
      BY <2>3, UidFacts
    <3> QED
      BY <3>2, <3>3, <3>4, <3>5
  <2> QED
    BY <2>1, <2>4 DEF KeyUnits
<1> QED
  BY <1>1, <1>2 DEF ToUids

\* A unit with one record is stored by its serial number ...
LEMMA UidsKeep ==
    ASSUME TypeOK, NEW C, C \subseteq DOMAIN unit, NEW S, S \subseteq Units \cup DOMAIN unit,
           NEW u \in Units, ~Ambiguous(C, u), u \in S \/ \E k \in S \cap C : unit[k] = u
    PROVE  u \in ToUids(C, S)
<1>1. CASE u \in S
  <2>1. ToUid(C, u) = u
    BY <1>1, UidFacts, UnitFacts
  <2> QED
    BY <1>1, <2>1 DEF ToUids
<1>2. CASE \E k \in S \cap C : unit[k] = u
  <2>1. PICK k \in S \cap C : unit[k] = u
    BY <1>2
  <2>2. ToUid(C, k) = u
    BY <2>1, UidFacts, UnitFacts
  <2> QED
    BY <2>1, <2>2 DEF ToUids
<1> QED
  BY <1>1, <1>2

\* ... and by no record the answer has.
LEMMA UidsAlone ==
    ASSUME TypeOK, NEW C, C \subseteq DOMAIN unit, NEW S, S \subseteq Units \cup DOMAIN unit,
           NEW j \in ToUids(C, S), j \in DOMAIN unit, ~Ambiguous(C, unit[j])
    PROVE  j \in S /\ j \notin C
<1>1. PICK k \in S : j = ToUid(C, k)
  BY DEF ToUids
<1> QED
  BY <1>1, UidFacts, UnitFacts

-----------------------------------------------------------------------------
(* Edits of the selection *)

\* No subset of the keys is the missing option.
LEMMA SetFacts == \A S \in SUBSET (Units \cup Ids) : S # Unset
BY UnsetAssumption DEF Keys

\* Removal of an entry of such a unit, in one step.
RemovalOK == \A u \in registry \ registry' : u \in secured \cap secured' => absent'[u] = MissLimit

\* What a save leaves, when its list stands for the chosen units and names those it keeps
\* track of by their only record.
LEMMA PersistKeeps ==
    ASSUME IInv, NEW N, NEW R, NEW W, NEW T, Persist(N, R, W, T),
           N \subseteq Units \cup DOMAIN unit, W \subseteq Units, KeyUnits(N, Live) \subseteq W,
           \A u \in W \cap Followed(T) : u \in N \/ \E k \in N \cap cache : unit[k] = u,
           \A u \in W \cap Followed(T), j \in (N \cap records) \ cache : unit[j] # u,
           \A u \in secured \cap W \cap Followed(T) : u \notin RemovedUnits(R)
    PROVE  IInv' /\ RemovalOK
<1>1. /\ loaded' = FALSE /\ cache' = {} /\ pending' = FALSE /\ misses' = NoMisses
      /\ uids' = ToUids(cache, N) /\ legacy' = Resolve(cache, ToUids(cache, N))
      /\ mirror' = legacy'
      /\ registry' = registry \ RemovedUnits(R)
      /\ chosen' = W /\ elsewhere' = Unset /\ secured' = W \cap Followed(T)
      /\ unit' = unit /\ records' = records /\ absent' = absent
  BY DEF Persist, Unload, WriteSelection, cloud
<1>2. TypeOK /\ cache \subseteq DOMAIN unit /\ DOMAIN unit \subseteq Ids
  BY UnitFacts DEF IInv
<1>3. Live \subseteq DOMAIN unit /\ cache \subseteq Live /\ records \subseteq Live
  BY <1>2, UnitFacts DEF Live
<1>4. /\ uids' \subseteq Units \cup DOMAIN unit
      /\ KeyUnits(uids', Live) \subseteq W
  BY <1>1, <1>2, <1>3, UidsNothingNew
<1>5. legacy' \subseteq cache
  BY <1>1, <1>2, ResolveFacts
<1>6. uids' # Unset /\ legacy' # Unset /\ mirror' # Unset
  <2>1. uids' \in SUBSET (Units \cup Ids) /\ legacy' \in SUBSET (Units \cup Ids)
    BY <1>2, <1>4, <1>5
  <2> QED
    BY <1>1, <2>1, SetFacts
<1>7. \A u \in secured' : u \in Units /\ u \in W /\ u \in Followed(T) /\ ~Ambiguous(cache, u)
  BY <1>1 DEF Followed
<1>8. TypeOK'
  <2>1. misses' \in [Units -> 0 .. MissLimit - 1]
    BY <1>1, LimitsAssumption DEF NoMisses
  <2>2. \A option \in {uids', legacy', mirror'} : option = Unset \/ option \subseteq Keys
    BY <1>1, <1>2, <1>4, <1>5 DEF Keys
  <2> QED
    BY <1>1, <1>2, <2>1, <2>2 DEF TypeOK
<1>9. KeysInv'
  BY <1>1, <1>2, <1>4, <1>5, <1>6 DEF KeysInv
<1>10. LoadInv' /\ WholeInv'
  BY <1>1 DEF LoadInv, WholeInv, NoMisses
<1>11. ChoiceInv'
  <2>1. Chosen' = uids'
    BY <1>6 DEF Chosen, Stored
  <2>2. KeyUnits(Chosen, Live)' \subseteq W
    <3> SUFFICES ASSUME NEW u \in Units, u \in uids' \/ \E j \in uids' \cap records : unit[j] = u
                 PROVE  u \in W
      BY <1>1, <2>1 DEF KeyUnits, Live
    <3>1. u \in KeyUnits(uids', Live)
      BY <1>3 DEF KeyUnits
    <3> QED
      BY <1>4, <3>1
  <2> QED
    BY <1>1, <1>6, <2>1, <2>2 DEF ChoiceInv
<1>12. ElsewhereInv'
  BY <1>1 DEF ElsewhereInv
<1>13. SecuredInv'
  <2> SUFFICES ASSUME NEW u \in secured'
               PROVE  u \in uids' /\ \A j \in uids' \cap records : unit[j] # u
    BY <1>1, <1>6 DEF SecuredInv, Live
  <2>1. u \in uids'
    BY <1>1, <1>2, <1>7, UidsKeep
  <2>2. ASSUME NEW j \in uids' \cap records, unit[j] = u PROVE FALSE
    <3>1. j \in N /\ j \notin cache
      BY <1>1, <1>2, <1>3, <1>7, <2>2, UidsAlone
    <3> QED
      BY <1>7, <2>2, <3>1
  <2> QED
    BY <2>1, <2>2
<1>14. MissInv'
  BY <1>1, <1>2, LimitsAssumption DEF MissInv, TypeOK, NoMisses
<1>15. RemovalOK
  BY <1>1 DEF RemovalOK
<1> QED
  BY <1>8, <1>9, <1>10, <1>11, <1>12, <1>13, <1>14, <1>15 DEF IInv

\* The keys stored now, or no list yet.
LEMMA ChosenFacts ==
    ASSUME IInv, Chosen # Unset
    PROVE  /\ Chosen \subseteq Units \cup DOMAIN unit
           /\ KeyUnits(Chosen, Live) \subseteq chosen
           /\ \A u \in secured : u \in Chosen /\ \A j \in Chosen \cap Live : unit[j] # u
           /\ \A i \in cache, j \in records \ cache : unit[i] = unit[j] => j \notin Chosen
BY DEF IInv, KeysInv, ChoiceInv, SecuredInv, WholeInv, Chosen, Stored

LEMMA ShownFacts ==
    ASSUME IInv
    PROVE  /\ Shown \subseteq cache
           /\ Chosen = Unset => Shown = cache
           /\ Chosen # Unset =>
                 \A u : u \in UnitsOf(Shown) <=>
                          /\ u \in UnitsOf(cache)
                          /\ u \in Chosen \/ \E i \in cache \cap Chosen : unit[i] = u
<1>1. TypeOK /\ cache \subseteq DOMAIN unit
  BY UnitFacts DEF IInv
<1>2. Shown = IF Chosen = Unset THEN cache ELSE Resolve(cache, Chosen)
  BY DEF Shown, Enabled, Chosen
<1> QED
  BY <1>1, <1>2, ResolveFacts

LEMMA UnitsOfFacts ==
    ASSUME NEW S, S \subseteq DOMAIN unit
    PROVE  \A u : u \in UnitsOf(S) <=> \E i \in S : unit[i] = u
BY DEF UnitsOf

\* A unit with one record: the record.
LEMMA OneRecord ==
    ASSUME TypeOK, NEW i \in cache, NEW j \in cache, unit[i] = unit[j], ~Ambiguous(cache, unit[i])
    PROVE  i = j
<1>1. IsFiniteSet(Of(cache, unit[i]))
  <2>1. Of(cache, unit[i]) \in SUBSET (DOMAIN unit)
    BY UnitFacts DEF Of
  <2> QED
    BY <2>1, UnitFacts, FS_Subset
<1>2. i \in Of(cache, unit[i]) /\ j \in Of(cache, unit[i])
  BY DEF Of
<1>3. Cardinality(Of(cache, unit[i])) \in Nat /\ Cardinality(Of(cache, unit[i])) <= 1
  BY <1>1, FS_CardinalityType DEF Ambiguous
<1>4. Cardinality(Of(cache, unit[i])) # 0
  BY <1>1, <1>2, FS_EmptySet
<1>5. \E x : Of(cache, unit[i]) = {x}
  BY <1>1, <1>3, <1>4, FS_Singleton
<1> QED
  BY <1>2, <1>5

\* What enabling and disabling start from: it stands for the chosen units, names those a save
\* keeps track of, and holds no record of theirs that the cache lacks.
LEMMA BaseFacts ==
    ASSUME IInv, NEW T, T \subseteq UnitsOf(cache)
    PROVE  /\ Base \subseteq Units \cup DOMAIN unit
           /\ KeyUnits(Base, Live) \subseteq chosen
           /\ \A u \in Followed(T) \ T : u \in Base \/ \E k \in Base \cap cache : unit[k] = u
           /\ \A u \in Followed(T), j \in (Base \cap records) \ cache : unit[j] # u
           /\ \A i \in cache, j \in (Base \cap records) \ cache : unit[i] # unit[j]
<1>1. TypeOK /\ cache \subseteq DOMAIN unit /\ \A i \in DOMAIN unit : unit[i] \in Units
  BY UnitFacts DEF IInv
<1>2. \A u : u \in UnitsOf(cache) <=> \E i \in cache : unit[i] = u
  BY <1>1, UnitsOfFacts
<1>3. \A u \in Followed(T) : u \in T \/ u \in UnitsOf(Shown) \/ (Chosen # Unset /\ u \in secured)
  BY DEF Followed, Chosen
<1>4. CASE Chosen = Unset
  <2>1. Base = cache /\ Shown = cache /\ chosen = Units
    BY <1>4, ShownFacts DEF Base, Chosen, IInv, ChoiceInv
  <2>2. \A u \in Followed(T) : u \in UnitsOf(cache)
    BY <1>3, <1>4, <2>1
  <2> QED
    BY <1>1, <1>2, <2>1, <2>2 DEF KeyUnits
<1>5. CASE Chosen # Unset
  <2>1. Base = Chosen
    BY <1>5 DEF Base, Chosen
  <2>2. \A u \in UnitsOf(Shown) :
          u \in UnitsOf(cache) /\ (u \in Chosen \/ \E i \in cache \cap Chosen : unit[i] = u)
    BY <1>5, ShownFacts
  <2>3. /\ Chosen \subseteq Units \cup DOMAIN unit
        /\ KeyUnits(Chosen, Live) \subseteq chosen
        /\ \A u \in secured : u \in Chosen /\ \A j \in Chosen \cap Live : unit[j] # u
        /\ \A i \in cache, j \in records \ cache : unit[i] = unit[j] => j \notin Chosen
    BY <1>5, ChosenFacts
  <2>4. \A u \in Followed(T) \ T : u \in Base \/ \E k \in Base \cap cache : unit[k] = u
    BY <1>3, <2>1, <2>2, <2>3
  <2>5. ASSUME NEW u \in Followed(T), NEW j \in (Base \cap records) \ cache, unit[j] = u
        PROVE  FALSE
    <3>1. CASE u \in UnitsOf(cache)
      BY <1>2, <2>1, <2>3, <2>5, <3>1
    <3>2. CASE u \in secured
      BY <2>1, <2>3, <2>5, <3>2 DEF Live
    <3> QED
      BY <1>3, <2>2, <3>1, <3>2
  <2>6. \A i \in cache, j \in (Base \cap records) \ cache : unit[i] # unit[j]
    BY <2>1, <2>3
  <2> QED
    BY <2>1, <2>3, <2>4, <2>5, <2>6
<1> QED
  BY <1>4, <1>5

LEMMA EnableOK == ASSUME IInv, NEW i \in Ids, Enable(i) PROVE IInv' /\ RemovalOK
<1> DEFINE N == Base \cup {i}
           W == chosen \cup {unit[i]}
           T == {unit[i]}
<1>1. i \in cache /\ Persist(N, {}, W, T)
  BY DEF Enable
<1>2. /\ TypeOK /\ cache \subseteq DOMAIN unit
      /\ \A k \in DOMAIN unit : unit[k] \in Units /\ k \notin Units
  BY UnitFacts DEF IInv
<1>3. T \subseteq UnitsOf(cache)
  BY <1>1, <1>2, UnitsOfFacts
<1>4. /\ Base \subseteq Units \cup DOMAIN unit
      /\ KeyUnits(Base, Live) \subseteq chosen
      /\ \A u \in Followed(T) \ T : u \in Base \/ \E k \in Base \cap cache : unit[k] = u
      /\ \A u \in Followed(T), j \in (Base \cap records) \ cache : unit[j] # u
  BY <1>3, BaseFacts
<1>5. N \subseteq Units \cup DOMAIN unit /\ W \subseteq Units
  BY <1>1, <1>2, <1>4 DEF TypeOK
<1>6. KeyUnits(N, Live) \subseteq W
  BY <1>1, <1>2, <1>4 DEF KeyUnits
<1>7. \A u \in W \cap Followed(T) : u \in N \/ \E k \in N \cap cache : unit[k] = u
  BY <1>1, <1>4
<1>8. \A u \in W \cap Followed(T), j \in (N \cap records) \ cache : unit[j] # u
  BY <1>1, <1>4
<1>9. RemovedUnits({}) = {}
  BY DEF RemovedUnits, UnitsOf
<1> HIDE DEF N, W, T
<1> QED
  BY <1>1, <1>5, <1>6, <1>7, <1>8, <1>9, PersistKeeps

LEMMA DisableOK == ASSUME IInv, NEW i \in Ids, Disable(i) PROVE IInv' /\ RemovalOK
<1> DEFINE N == Base \ MatchKeys(i)
           R == Base \cap MatchKeys(i)
           W == Without(i)
           T == {}
<1>1. i \in cache /\ Persist(N, R, W, T)
  BY DEF Disable
<1>2. /\ TypeOK /\ cache \subseteq DOMAIN unit
      /\ \A k \in DOMAIN unit : unit[k] \in Units /\ k \notin Units
  BY UnitFacts DEF IInv
<1>3. /\ Base \subseteq Units \cup DOMAIN unit
      /\ KeyUnits(Base, Live) \subseteq chosen
      /\ \A u \in Followed(T) : u \in Base \/ \E k \in Base \cap cache : unit[k] = u
      /\ \A u \in Followed(T), j \in (Base \cap records) \ cache : unit[j] # u
      /\ \A k \in cache, j \in (Base \cap records) \ cache : unit[k] # unit[j]
  BY BaseFacts
<1>4. \A k : k \in N <=> k \in Base /\ k # i /\ k # unit[i]
  BY DEF MatchKeys
<1>5. \A u : u \in W <=>
        u \in chosen /\ (u # unit[i] \/ \E k \in (Base \cap cache) \ {i} : unit[k] = u)
  BY <1>2 DEF Without, UnitsOf
<1>6. N \subseteq Units \cup DOMAIN unit /\ W \subseteq Units
  BY <1>2, <1>3, <1>5 DEF TypeOK
<1>7. KeyUnits(N, Live) \subseteq W
  <2> SUFFICES ASSUME NEW u \in KeyUnits(N, Live) PROVE u \in W
    OBVIOUS
  <2>1. u \in chosen
    BY <1>3, <1>4 DEF KeyUnits
  <2>2. CASE u # unit[i]
    BY <1>5, <2>1, <2>2
  <2>3. CASE u = unit[i]
    <3>1. PICK j \in N \cap Live : unit[j] = u
      BY <1>4, <2>3 DEF KeyUnits
    <3>2. j \in cache
      BY <1>1, <1>3, <1>4, <2>3, <3>1 DEF Live
    <3> QED
      BY <1>4, <1>5, <2>1, <3>1, <3>2
  <2> QED
    BY <2>2, <2>3
<1>8. \A u \in W \cap Followed(T) : u # unit[i]
  <2> SUFFICES ASSUME unit[i] \in W, unit[i] \in Followed(T) PROVE FALSE
    OBVIOUS
  <2>1. PICK k \in cache : k # i /\ unit[k] = unit[i]
    BY <1>5
  <2>2. ~Ambiguous(cache, unit[i])
    BY DEF Followed
  <2> QED
    BY <1>1, <1>2, <2>1, <2>2, OneRecord
<1>9. \A u \in W \cap Followed(T) : u \in N \/ \E k \in N \cap cache : unit[k] = u
  <2> SUFFICES ASSUME NEW u \in W \cap Followed(T)
               PROVE  u \in N \/ \E k \in N \cap cache : unit[k] = u
    OBVIOUS
  <2>1. u \in Units /\ u # unit[i] /\ u # i
    BY <1>1, <1>2, <1>6, <1>8
  <2>2. \A k \in cache : k # unit[i]
    BY <1>1, <1>2
  <2> QED
    BY <1>3, <1>4, <2>1, <2>2
<1>10. \A u \in W \cap Followed(T), j \in (N \cap records) \ cache : unit[j] # u
  BY <1>3, <1>4
<1>11. RemovedUnits(R) \subseteq {unit[i]}
  <2>1. \A k \in R : k = i \/ k = unit[i]
    BY DEF MatchKeys
  <2> QED
    BY <1>1, <1>2, <2>1 DEF RemovedUnits, UnitsOf
<1> HIDE DEF N, R, W, T
<1> QED
  BY <1>1, <1>6, <1>7, <1>8, <1>9, <1>10, <1>11, PersistKeeps

LEMMA SetEnabledOK == ASSUME IInv, NEW L \in SUBSET cache, SetEnabled(L) PROVE IInv' /\ RemovalOK
<1> DEFINE stored == IF Chosen = Unset THEN {} ELSE Chosen
           shownNow == IF Chosen = Unset THEN {} ELSE Shown
           unresolvable == {k \in stored : \A i \in cache : k \notin MatchKeys(i)}
           removed == stored \cap UNION {MatchKeys(i) : i \in shownNow \ L}
           outOfSight == {u \in chosen : u \notin UnitsOf(cache)}
           N == L \cup unresolvable
           W == UnitsOf(L) \cup outOfSight
           T == UnitsOf(L)
<1>1. Persist(N, removed, W, T)
  BY DEF SetEnabled, Chosen
<1>2. /\ TypeOK /\ cache \subseteq DOMAIN unit
      /\ \A k \in DOMAIN unit : unit[k] \in Units /\ k \notin Units
  BY UnitFacts DEF IInv
<1>3. \A u : u \in UnitsOf(cache) <=> \E i \in cache : unit[i] = u
  BY <1>2, UnitsOfFacts
<1>4. \A u : u \in UnitsOf(L) <=> \E i \in L : unit[i] = u
  BY <1>2, UnitsOfFacts
<1>5. \A u \in Followed(T) :
        u \in UnitsOf(L) \/ u \in UnitsOf(cache) \/ (Chosen # Unset /\ u \in secured)
  <2>1. UnitsOf(Shown) \subseteq UnitsOf(cache)
    BY ShownFacts DEF UnitsOf
  <2> QED
    BY <2>1 DEF Followed, Chosen
<1>6. Chosen # Unset =>
        /\ Chosen \subseteq Units \cup DOMAIN unit
        /\ KeyUnits(Chosen, Live) \subseteq chosen
        /\ \A u \in secured : u \in Chosen /\ \A j \in Chosen \cap Live : unit[j] # u
        /\ \A i \in cache, j \in records \ cache : unit[i] = unit[j] => j \notin Chosen
  BY ChosenFacts
<1>7. \A k \in unresolvable : /\ Chosen # Unset /\ k \in Chosen /\ k \notin cache
                              /\ k \notin UnitsOf(cache)
  BY <1>3 DEF MatchKeys
<1>8. N \subseteq Units \cup DOMAIN unit /\ W \subseteq Units
  BY <1>2, <1>4, <1>6, <1>7 DEF TypeOK
<1>9. KeyUnits(N, Live) \subseteq W
  <2> SUFFICES ASSUME NEW u \in KeyUnits(N, Live), u \notin UnitsOf(L)
               PROVE  u \in chosen /\ u \notin UnitsOf(cache)
    OBVIOUS
  <2>1. u \in Units
    BY DEF KeyUnits
  <2>2. CASE u \in unresolvable
    BY <1>6, <1>7, <2>1, <2>2 DEF KeyUnits
  <2>3. CASE \E j \in unresolvable \cap Live : unit[j] = u
    <3>1. PICK j \in unresolvable \cap Live : unit[j] = u
      BY <2>3
    <3>2. j \in records \ cache /\ j \in Chosen
      BY <1>7, <3>1 DEF Live
    <3>3. u \in chosen
      BY <1>6, <1>7, <2>1, <3>1, <3>2 DEF KeyUnits
    <3> QED
      BY <1>3, <1>6, <1>7, <3>1, <3>2, <3>3
  <2>4. u \notin L
    BY <1>2, <2>1
  <2> QED
    BY <1>4, <2>2, <2>3, <2>4 DEF KeyUnits
<1>10. \A u \in W \cap Followed(T) : u \in N \/ \E k \in N \cap cache : unit[k] = u
  <2> SUFFICES ASSUME NEW u \in W \cap Followed(T), u \notin UnitsOf(L)
               PROVE  u \in N
    BY <1>4
  <2>1. u \in Units /\ u \notin UnitsOf(cache)
    BY <1>8
  <2>2. Chosen # Unset /\ u \in Chosen
    BY <1>5, <1>6, <2>1
  <2>3. \A i \in cache : u \notin MatchKeys(i)
    BY <1>2, <1>3, <2>1 DEF MatchKeys
  <2> QED
    BY <2>2, <2>3
<1>11. \A u \in W \cap Followed(T), j \in (N \cap records) \ cache : unit[j] # u
  <2> SUFFICES ASSUME NEW u \in Followed(T), NEW j \in (N \cap records) \ cache, unit[j] = u
               PROVE  FALSE
    OBVIOUS
  <2>1. Chosen # Unset /\ j \in Chosen
    BY <1>7
  <2>2. UnitsOf(L) \subseteq UnitsOf(cache)
    BY <1>3, <1>4
  <2> QED
    BY <1>3, <1>5, <1>6, <2>1, <2>2 DEF Live
<1>12. \A u \in secured \cap W \cap Followed(T) : u \notin RemovedUnits(removed)
  <2> SUFFICES ASSUME NEW u \in secured, u \in W, u \in Followed(T), u \in RemovedUnits(removed)
               PROVE  FALSE
    OBVIOUS
  <2>1. Chosen # Unset
    BY DEF RemovedUnits, UnitsOf
  <2>2. u \in removed
    BY <1>6, <2>1 DEF RemovedUnits, UnitsOf, Live
  <2>3. PICK i \in Shown \ L : u \in MatchKeys(i)
    BY <2>1, <2>2
  <2>4. i \in cache /\ unit[i] = u
    BY <1>2, <1>8, <2>3, ShownFacts DEF MatchKeys
  <2>5. PICK k \in L : unit[k] = u
    BY <1>3, <1>4, <2>4
  <2>6. ~Ambiguous(cache, u)
    BY DEF Followed
  <2> QED
    BY <1>2, <2>3, <2>4, <2>5, <2>6, OneRecord
<1> HIDE DEF N, removed, W, T
<1> QED
  BY <1>1, <1>8, <1>9, <1>10, <1>11, <1>12, PersistKeeps

LEMMA ImportOK == ASSUME IInv, NEW K \in SUBSET Units, Import(K) PROVE IInv' /\ RemovalOK
<1> DEFINE removed == (IF Chosen = Unset THEN {} ELSE Chosen) \ K
<1>1. Persist(K, removed, K, K)
  BY DEF Import, Chosen
<1>2. /\ TypeOK /\ cache \subseteq DOMAIN unit
      /\ records \subseteq DOMAIN unit
      /\ \A u \in Units : u \notin DOMAIN unit
  BY UnitFacts DEF IInv
<1>3. \A j \in K : j \notin Live /\ j \notin records
  BY <1>2 DEF Live
<1>4. KeyUnits(K, Live) \subseteq K
  BY <1>3 DEF KeyUnits
<1>5. \A u \in secured \cap K : u \notin RemovedUnits(removed)
  <2> SUFFICES ASSUME NEW u \in secured, u \in K, u \in RemovedUnits(removed) PROVE FALSE
    OBVIOUS
  <2>1. PICK j \in removed \cap cache : unit[j] = u
    BY DEF RemovedUnits, UnitsOf
  <2>2. Chosen # Unset /\ j \in Chosen
    BY <2>1
  <2> QED
    BY <2>1, <2>2, ChosenFacts DEF Live
<1> HIDE DEF removed
<1> QED
  BY <1>1, <1>3, <1>4, <1>5, PersistKeeps

-----------------------------------------------------------------------------
(* Polls *)

\* An answer has all records of a unit or none, and all records unless it is degraded.
LEMMA AnswerFacts ==
    ASSUME TypeOK, NEW lean \in BOOLEAN
    PROVE  /\ Answer(lean) \subseteq records /\ Answer(lean) \subseteq DOMAIN unit
           /\ ~lean => Answer(lean) = records
           /\ \A i \in Answer(lean), j \in records \ Answer(lean) : unit[i] # unit[j]
BY UnitFacts DEF Answer

\* The choice stands while answers come and go.
LEMMA AnswerKeeps ==
    ASSUME IInv, UNCHANGED <<cloud, options, chosen, secured>>, cache' \subseteq records,
           \A i \in cache', j \in records \ cache' : unit[i] # unit[j]
    PROVE  KeysInv' /\ WholeInv' /\ ChoiceInv' /\ SecuredInv'
<1>1. /\ unit' = unit /\ records' = records /\ chosen' = chosen /\ secured' = secured
      /\ uids' = uids /\ legacy' = legacy /\ mirror' = mirror
  BY DEF cloud, options
<1>2. Chosen' = Chosen
  BY <1>1 DEF Chosen, Stored
<1>3. Live' = records /\ records \subseteq Live
  BY <1>1 DEF Live
<1>4. KeyUnits(Chosen, Live)' \subseteq KeyUnits(Chosen, Live)
  BY <1>1, <1>2, <1>3 DEF KeyUnits
<1>5. ChoiceInv'
  BY <1>1, <1>2, <1>4 DEF ChoiceInv, IInv
<1>6. SecuredInv'
  BY <1>1, <1>3 DEF SecuredInv, IInv
<1>7. KeysInv' /\ WholeInv'
  BY <1>1, <1>2 DEF KeysInv, WholeInv, IInv
<1> QED
  BY <1>5, <1>6, <1>7

\* A unit of the choice that the answer has is seen, its count of misses goes back, and its
\* entry goes only for want of answers that have it.
LEMMA PruneFacts ==
    ASSUME IInv, NEW lean \in BOOLEAN, NoteAnswer(Answer(lean), lean)
    PROVE  /\ absent' \in [Units -> 0 .. MissLimit]
           /\ Counted(Answer(lean), lean, misses) \in [Units -> 0 .. MissLimit - 1]
           /\ \A u \in registry \cap secured :
                 u \in Doomed(Answer(lean), lean, misses) => absent'[u] = MissLimit
           /\ \A u \in registry \cap secured :
                 Counted(Answer(lean), lean, misses)[u] <= absent'[u]
           /\ misses = NoMisses =>
                 \A u \in Units : Counted(Answer(lean), lean, misses)[u] <= absent'[u]
<1> DEFINE C == Answer(lean)
           counts == Counted(C, lean, misses)
<1>1. /\ TypeOK /\ MissInv /\ registry \subseteq Units
      /\ misses \in [Units -> 0 .. MissLimit - 1] /\ absent \in [Units -> 0 .. MissLimit]
      /\ MissLimit \in Nat \ {0}
  BY LimitsAssumption DEF IInv, TypeOK
<1>2. \A u \in Units :
        absent'[u] = IF u \in UnitsOf(C) THEN 0
                     ELSE IF lean \/ absent[u] = MissLimit THEN absent[u] ELSE absent[u] + 1
  BY DEF NoteAnswer
<1>3. absent' \in [Units -> 0 .. MissLimit]
  <2>1. \A u \in Units : (IF u \in UnitsOf(C) THEN 0
                          ELSE IF lean \/ absent[u] = MissLimit THEN absent[u]
                          ELSE absent[u] + 1) \in 0 .. MissLimit
    BY <1>1
  <2> QED
    BY <2>1 DEF NoteAnswer
<1>4. \A u \in Units :
        counts[u] = IF u \in (registry \cap Seen(C)) \cup Overdue(C, lean, misses) THEN 0
                    ELSE IF u \in Missing(C, lean) THEN misses[u] + 1
                    ELSE misses[u]
  BY DEF Counted
<1>5. \A u \in Units : u \in Overdue(C, lean, misses) <=>
                         u \in Missing(C, lean) /\ misses[u] + 1 >= MissLimit
  BY DEF Overdue
<1>6. \A u \in Units : u \in Missing(C, lean) <=> ~lean /\ u \in registry /\ u \notin UnitsOf(C)
  BY DEF Missing
<1>7. counts \in [Units -> 0 .. MissLimit - 1]
  <2>1. \A u \in Units : counts[u] \in 0 .. MissLimit - 1
    BY <1>1, <1>4, <1>5
  <2>2. counts = [u \in Units |-> counts[u]]
    BY DEF Counted
  <2> QED
    BY <2>1, <2>2
<1>8. \A u \in secured : u \in UnitsOf(C) => u \in Seen(C)
  <2> SUFFICES ASSUME NEW u \in secured, u \in UnitsOf(C) PROVE u \in Seen(C)
    OBVIOUS
  <2>1. C \subseteq DOMAIN unit
    BY <1>1, AnswerFacts
  <2>2. Seen(C) = UnitsOf(IF Chosen = Unset THEN C ELSE Resolve(C, Chosen))
    BY DEF Seen, Enabled, Chosen
  <2>3. Chosen # Unset => u \in Chosen
    BY ChosenFacts
  <2> QED
    BY <1>1, <2>1, <2>2, <2>3, ResolveFacts
<1>9. \A u \in registry \cap secured : u \in Units /\ misses[u] <= absent[u]
  BY <1>1 DEF MissInv
<1>10. ASSUME NEW u \in registry \cap secured, u \in Doomed(C, lean, misses)
       PROVE  absent'[u] = MissLimit
  <2>1. u \in Units /\ u \in Overdue(C, lean, misses)
    BY <1>8, <1>9, <1>10 DEF Doomed, OptedOut
  <2>2. ~lean /\ u \notin UnitsOf(C) /\ misses[u] + 1 >= MissLimit
    BY <1>5, <1>6, <2>1
  <2> QED
    BY <1>1, <1>2, <1>9, <2>1, <2>2
<1>11. ASSUME NEW u \in registry \cap secured PROVE counts[u] <= absent'[u]
  <2>1. /\ u \in Units /\ u \in registry /\ misses[u] <= absent[u]
        /\ u \in UnitsOf(C) => u \in Seen(C)
    BY <1>8, <1>9
  <2> QED
    BY <1>1, <1>2, <1>4, <1>5, <1>6, <2>1
<1>12. ASSUME misses = NoMisses, NEW u \in Units PROVE counts[u] <= absent'[u]
  <2>1. misses[u] = 0
    BY <1>12 DEF NoMisses
  <2> QED
    BY <1>1, <1>2, <1>4, <1>5, <1>6, <2>1
<1> QED
  BY <1>3, <1>7, <1>10, <1>11, <1>12

\* What the older key says becomes the choice, in its stable form.
LEMMA AdoptFacts ==
    ASSUME IInv, NEW lean \in BOOLEAN, Owing, MayWrite(Answer(lean), lean), Adopt(Answer(lean))
    PROVE  /\ uids' \subseteq Units \cup DOMAIN unit
           /\ legacy' \subseteq records /\ mirror' = legacy'
           /\ uids' # Unset /\ legacy' # Unset
           /\ chosen' \subseteq Units /\ secured' \subseteq chosen' /\ elsewhere' = Unset
           /\ KeyUnits(uids', records) \subseteq chosen'
           /\ \A u \in secured' : u \in uids' /\ \A j \in uids' \cap records : unit[j] # u
<1> DEFINE C == Answer(lean)
<1>1. /\ TypeOK /\ C \subseteq records /\ C \subseteq DOMAIN unit /\ records \subseteq DOMAIN unit
      /\ (~lean => C = records)
      /\ \A u \in Units : u \notin DOMAIN unit
      /\ \A i \in DOMAIN unit : unit[i] \in Units
      /\ DOMAIN unit \subseteq Ids
  BY AnswerFacts, UnitFacts DEF IInv
<1>2. /\ uids' = ToUids(C, legacy) /\ legacy' = Resolve(C, ToUids(C, legacy)) /\ mirror' = legacy'
      /\ chosen' = (IF elsewhere = Unset THEN chosen ELSE elsewhere)
      /\ secured' = {u \in chosen' : /\ Cardinality(Of(records, u)) = 1
                                     /\ Of(records, u) \subseteq legacy}
      /\ elsewhere' = Unset
  BY DEF Adopt, WriteSelection
<1>3. legacy \subseteq DOMAIN unit
  BY DEF Owing, Contested, Unmigrated, IInv, KeysInv
<1>4. /\ uids' \subseteq Units \cup DOMAIN unit
      /\ KeyUnits(uids', records) \subseteq KeyUnits(legacy, records)
  BY <1>1, <1>2, <1>3, UidsNothingNew
<1>5. legacy' \subseteq C
  BY <1>1, <1>2, ResolveFacts
<1>6. uids' # Unset /\ legacy' # Unset
  <2>1. uids' \in SUBSET (Units \cup Ids) /\ legacy' \in SUBSET (Units \cup Ids)
    BY <1>1, <1>4, <1>5
  <2> QED
    BY <2>1, SetFacts
<1>7. chosen' \subseteq Units /\ secured' \subseteq chosen'
  BY <1>1, <1>2 DEF TypeOK
<1>8. KeyUnits(legacy, records) \subseteq chosen'
  <2>1. KeyUnits(legacy, records) \subseteq UnitsOf(legacy)
    BY <1>1, <1>3 DEF KeyUnits, UnitsOf
  <2>2. CASE elsewhere # Unset
    BY <1>2, <2>1, <2>2 DEF IInv, ElsewhereInv
  <2>3. CASE elsewhere = Unset
    <3>1. Unmigrated
      BY <2>3 DEF Owing, Contested, IInv, ElsewhereInv
    <3>2. Chosen = legacy /\ Chosen # Unset
      BY <3>1 DEF Unmigrated, Chosen, Stored
    <3>3. KeyUnits(legacy, records) \subseteq KeyUnits(Chosen, Live)
      BY <3>2 DEF KeyUnits, Live
    <3> QED
      BY <1>2, <2>3, <3>2, <3>3, ChosenFacts
  <2> QED
    BY <2>2, <2>3
<1>9. ASSUME NEW u \in secured'
      PROVE  u \in uids' /\ \A j \in uids' \cap records : unit[j] # u
  <2>1. u \in Units /\ Cardinality(Of(records, u)) = 1 /\ Of(records, u) \subseteq legacy
    BY <1>2, <1>7
  <2>2. Of(records, u) # {}
    BY <2>1, FS_EmptySet
  <2>3. C = records
    BY <1>1, <2>1, <2>2 DEF MayWrite, Usable
  <2>4. ~Ambiguous(C, u)
    BY <2>1, <2>3 DEF Ambiguous
  <2>5. \E k \in legacy \cap C : unit[k] = u
    BY <2>1, <2>2, <2>3 DEF Of
  <2>6. u \in uids'
    BY <1>1, <1>2, <1>3, <2>1, <2>4, <2>5, UidsKeep
  <2>7. ASSUME NEW j \in uids' \cap records, unit[j] = u PROVE FALSE
    BY <1>1, <1>2, <1>3, <2>3, <2>4, <2>7, UidsAlone
  <2> QED
    BY <2>6, <2>7
<1> QED
  BY <1>1, <1>2, <1>4, <1>5, <1>6, <1>7, <1>8, <1>9

\* So much for the choice after a migration, whatever the cache becomes.
LEMMA AdoptKeeps ==
    ASSUME IInv, NEW lean \in BOOLEAN, Owing, MayWrite(Answer(lean), lean), Adopt(Answer(lean)),
           UNCHANGED cloud, cache' \subseteq records,
           \A i \in cache', j \in records \ cache' : unit[i] # unit[j]
    PROVE  KeysInv' /\ WholeInv' /\ ChoiceInv' /\ ElsewhereInv' /\ SecuredInv'
<1>1. /\ uids' \subseteq Units \cup DOMAIN unit /\ legacy' \subseteq records /\ mirror' = legacy'
      /\ uids' # Unset /\ legacy' # Unset /\ elsewhere' = Unset
      /\ KeyUnits(uids', records) \subseteq chosen'
      /\ \A u \in secured' : u \in uids' /\ \A j \in uids' \cap records : unit[j] # u
  BY AdoptFacts
<1>2. unit' = unit /\ records' = records /\ records \subseteq DOMAIN unit
  BY UnitFacts DEF cloud, IInv
<1>3. Live' = records /\ Chosen' = uids'
  BY <1>1, <1>2 DEF Live, Chosen, Stored
<1>4. KeyUnits(Chosen, Live)' = KeyUnits(uids', records)
  BY <1>2, <1>3 DEF KeyUnits
<1>5. ChoiceInv'
  BY <1>1, <1>3, <1>4 DEF ChoiceInv
<1>6. KeysInv' /\ ElsewhereInv'
  BY <1>1, <1>2 DEF KeysInv, ElsewhereInv
<1>7. WholeInv'
  BY <1>2 DEF WholeInv
<1>8. SecuredInv'
  BY <1>1, <1>2, <1>3 DEF SecuredInv
<1> QED
  BY <1>5, <1>6, <1>7, <1>8

LEMMA EnabledFacts ==
    ASSUME TypeOK, NEW C, C \subseteq DOMAIN unit, NEW up, NEW leg
    PROVE  UnitsOf(Enabled(C, up, leg)) \subseteq UnitsOf(C)
<1>1. Enabled(C, up, leg) \subseteq C
  BY ResolveFacts DEF Enabled
<1> QED
  BY <1>1 DEF UnitsOf

LEMMA SetUpOK == ASSUME IInv, NEW lean \in BOOLEAN, SetUp(lean) PROVE IInv' /\ RemovalOK
<1> DEFINE C == Answer(lean)
           Gone == Doomed(C, lean, misses)
           Created == UnitsOf(Enabled(C, uids', legacy'))
           counts == Counted(C, lean, misses)
<1>1. /\ ~loaded /\ loaded' = TRUE /\ cache' = C /\ NoteAnswer(C, lean)
      /\ pending' = (Owing /\ ~MayWrite(C, lean))
      /\ unit' = unit /\ records' = records /\ UNCHANGED cloud
  BY DEF SetUp, cloud
<1>2. misses = NoMisses
  BY <1>1 DEF IInv, LoadInv
<1>3. registry' = (registry \ Gone) \cup Created /\ misses' = counts
  BY <1>2 DEF SetUp
<1>4. /\ TypeOK /\ C \subseteq records /\ C \subseteq DOMAIN unit /\ records \subseteq DOMAIN unit
      /\ \A i \in DOMAIN unit : unit[i] \in Units
      /\ \A i \in C, j \in records \ C : unit[i] # unit[j]
      /\ DOMAIN unit \subseteq Ids
  BY AnswerFacts, UnitFacts DEF IInv
<1>5. /\ absent' \in [Units -> 0 .. MissLimit] /\ counts \in [Units -> 0 .. MissLimit - 1]
      /\ \A u \in registry \cap secured : u \in Gone => absent'[u] = MissLimit
      /\ \A u \in Units : counts[u] <= absent'[u]
  BY <1>1, <1>2, PruneFacts
<1>6. Created \subseteq Units
  <2>1. Created \subseteq UnitsOf(C)
    BY <1>4, EnabledFacts
  <2> QED
    BY <1>4, <2>1 DEF UnitsOf
<1>7. registry' \subseteq Units /\ MissInv' /\ RemovalOK
  BY <1>3, <1>4, <1>5, <1>6 DEF TypeOK, MissInv, RemovalOK
<1>8. CASE Owing /\ MayWrite(C, lean)
  <2>1. Adopt(C)
    BY <1>8 DEF SetUp
  <2>2. KeysInv' /\ WholeInv' /\ ChoiceInv' /\ ElsewhereInv' /\ SecuredInv'
    BY <1>1, <1>4, <1>8, <2>1, AdoptKeeps
  <2>3. /\ uids' \subseteq Units \cup DOMAIN unit /\ legacy' \subseteq records /\ mirror' = legacy'
        /\ chosen' \subseteq Units /\ secured' \subseteq chosen' /\ elsewhere' = Unset
    BY <1>8, <2>1, AdoptFacts
  <2>4. TypeOK'
    BY <1>1, <1>3, <1>4, <1>5, <1>7, <2>3 DEF TypeOK, Keys
  <2>5. LoadInv'
    BY <1>1, <1>8 DEF LoadInv
  <2> QED
    BY <1>7, <2>2, <2>4, <2>5 DEF IInv
<1>9. CASE ~(Owing /\ MayWrite(C, lean))
  <2>1. /\ elsewhere' = (IF Owing THEN elsewhere ELSE Unset)
        /\ UNCHANGED <<options, chosen, secured>>
        /\ uids' = uids /\ legacy' = legacy /\ mirror' = mirror /\ chosen' = chosen
        /\ secured' = secured
    BY <1>9 DEF SetUp, options
  <2>2. KeysInv' /\ WholeInv' /\ ChoiceInv' /\ SecuredInv'
    BY <1>1, <1>4, <2>1, AnswerKeeps
  <2>3. ElsewhereInv'
    <3>1. CASE Owing
      BY <1>1, <2>1, <3>1 DEF ElsewhereInv, IInv, UnitsOf
    <3>2. CASE ~Owing
      BY <2>1, <3>2 DEF ElsewhereInv, IInv, Owing, Contested, KeysInv
    <3> QED
      BY <3>1, <3>2
  <2>4. TypeOK'
    BY <1>1, <1>3, <1>4, <1>5, <1>7, <2>1 DEF TypeOK
  <2>5. LoadInv'
    BY <1>1, <2>1 DEF LoadInv, Owing, Contested, Unmigrated
  <2> QED
    BY <1>7, <2>2, <2>3, <2>4, <2>5 DEF IInv
<1> QED
  BY <1>8, <1>9

LEMMA PollOK == ASSUME IInv, NEW lean \in BOOLEAN, Poll(lean) PROVE IInv' /\ RemovalOK
<1> DEFINE C == Answer(lean)
<1>1. /\ loaded /\ cache' = C /\ NoteAnswer(C, lean)
      /\ misses' = Counted(C, lean, misses) /\ registry' = registry \ Doomed(C, lean, misses)
      /\ unit' = unit /\ records' = records /\ uids' = uids /\ legacy' = legacy /\ mirror' = mirror
      /\ loaded' = loaded /\ pending' = pending
      /\ chosen' = chosen /\ elsewhere' = elsewhere /\ secured' = secured
  BY DEF Poll, cloud, options, history
<1>2. /\ TypeOK /\ C \subseteq records /\ C \subseteq DOMAIN unit
      /\ \A i \in C, j \in records \ C : unit[i] # unit[j]
  BY AnswerFacts DEF IInv
<1>3. /\ absent' \in [Units -> 0 .. MissLimit] /\ misses' \in [Units -> 0 .. MissLimit - 1]
      /\ \A u \in registry \cap secured : u \in Doomed(C, lean, misses) => absent'[u] = MissLimit
      /\ \A u \in registry \cap secured : misses'[u] <= absent'[u]
  BY <1>1, PruneFacts
<1>4. KeysInv' /\ WholeInv' /\ ChoiceInv' /\ SecuredInv'
  BY <1>1, <1>2, AnswerKeeps DEF cloud, options
<1>5. TypeOK'
  BY <1>1, <1>2, <1>3 DEF TypeOK
<1>6. LoadInv' /\ ElsewhereInv'
  BY <1>1 DEF IInv, LoadInv, ElsewhereInv, Owing, Contested, Unmigrated, UnitsOf
<1>7. MissInv' /\ RemovalOK
  BY <1>1, <1>3 DEF MissInv, RemovalOK
<1> QED
  BY <1>4, <1>5, <1>6, <1>7 DEF IInv

LEMMA PollMigratesOK ==
    ASSUME IInv, NEW lean \in BOOLEAN, PollMigrates(lean) PROVE IInv' /\ RemovalOK
<1> DEFINE C == Answer(lean)
<1>1. /\ pending /\ MayWrite(C, lean) /\ Adopt(C) /\ NoteAnswer(C, lean)
      /\ registry' = registry \ Doomed(C, lean, misses)
      /\ loaded' = FALSE /\ cache' = {} /\ pending' = FALSE /\ misses' = NoMisses
      /\ UNCHANGED cloud /\ unit' = unit /\ records' = records
  BY DEF PollMigrates, Unload, cloud
<1>2. Owing
  BY <1>1 DEF IInv, LoadInv
<1>3. TypeOK /\ records \subseteq DOMAIN unit /\ DOMAIN unit \subseteq Ids
  BY UnitFacts DEF IInv
<1>4. /\ absent' \in [Units -> 0 .. MissLimit]
      /\ \A u \in registry \cap secured : u \in Doomed(C, lean, misses) => absent'[u] = MissLimit
  BY <1>1, PruneFacts
<1>5. KeysInv' /\ WholeInv' /\ ChoiceInv' /\ ElsewhereInv' /\ SecuredInv'
  BY <1>1, <1>2, AdoptKeeps
<1>6. /\ uids' \subseteq Units \cup DOMAIN unit /\ legacy' \subseteq records /\ mirror' = legacy'
      /\ chosen' \subseteq Units /\ secured' \subseteq chosen' /\ elsewhere' = Unset
  BY <1>1, <1>2, AdoptFacts
<1>7. NoMisses \in [Units -> 0 .. MissLimit - 1]
  BY LimitsAssumption DEF NoMisses
<1>8. TypeOK'
  BY <1>1, <1>3, <1>4, <1>6, <1>7 DEF TypeOK, Keys
<1>9. LoadInv' /\ MissInv' /\ RemovalOK
  BY <1>1, <1>3, <1>4, LimitsAssumption DEF LoadInv, MissInv, RemovalOK, NoMisses, TypeOK
<1> QED
  BY <1>5, <1>8, <1>9 DEF IInv

-----------------------------------------------------------------------------
(* The rest of the steps *)

LEMMA RestartOK == ASSUME IInv, Restart PROVE IInv' /\ RemovalOK
<1>1. /\ loaded' = FALSE /\ cache' = {} /\ pending' = FALSE /\ misses' = NoMisses
      /\ unit' = unit /\ records' = records /\ uids' = uids /\ legacy' = legacy /\ mirror' = mirror
      /\ registry' = registry /\ absent' = absent
      /\ chosen' = chosen /\ elsewhere' = elsewhere /\ secured' = secured
  BY DEF Restart, Unload, cloud, options, history
<1>2. KeysInv' /\ WholeInv' /\ ChoiceInv' /\ SecuredInv'
  BY <1>1, AnswerKeeps DEF cloud, options
<1>3. NoMisses \in [Units -> 0 .. MissLimit - 1]
  BY LimitsAssumption DEF NoMisses
<1>4. TypeOK'
  BY <1>1, <1>3 DEF TypeOK, IInv
<1>5. LoadInv' /\ ElsewhereInv'
  BY <1>1 DEF IInv, LoadInv, ElsewhereInv, UnitsOf
<1>6. MissInv' /\ RemovalOK
  BY <1>1, LimitsAssumption DEF IInv, MissInv, RemovalOK, NoMisses, TypeOK
<1> QED
  BY <1>2, <1>4, <1>5, <1>6 DEF IInv

LEMMA PairOK == ASSUME IInv, NEW u \in Units, Pair(u) PROVE IInv' /\ RemovalOK
<1> DEFINE new == Cardinality(DOMAIN unit) + 1
<1>1. /\ cache' = cache /\ uids' = uids /\ legacy' = legacy /\ mirror' = mirror
      /\ loaded' = loaded /\ pending' = pending /\ registry' = registry /\ misses' = misses
      /\ chosen' = chosen /\ elsewhere' = elsewhere /\ secured' = secured /\ absent' = absent
      /\ Cardinality(DOMAIN unit) < MaxId
      /\ unit' = [i \in 1 .. new |-> IF i = new THEN u ELSE unit[i]]
      /\ records' = records \cup {new}
  BY DEF Pair, options, history
<1>2. TypeOK /\ records \subseteq DOMAIN unit /\ cache \subseteq DOMAIN unit
  BY UnitFacts DEF IInv
<1>3. PICK n \in 0 .. MaxId : unit \in [1 .. n -> Units]
  BY <1>2 DEF TypeOK
<1>4. DOMAIN unit = 1 .. n
  BY <1>3
<1>5. n \in Nat /\ Cardinality(DOMAIN unit) = n
  <2>1. n \in Nat
    BY LimitsAssumption
  <2>2. Cardinality(1 .. n) = IF 1 > n THEN 0 ELSE n - 1 + 1
    BY <2>1, FS_Interval
  <2> QED
    BY <1>4, <2>1, <2>2
<1>6. /\ new = n + 1 /\ n < MaxId /\ new \in 0 .. MaxId
      /\ new \notin DOMAIN unit /\ DOMAIN unit' = DOMAIN unit \cup {new}
      /\ \A i \in DOMAIN unit : unit'[i] = unit[i]
  BY <1>1, <1>4, <1>5, LimitsAssumption
<1>7. unit' \in [1 .. new -> Units]
  BY <1>1, <1>3, <1>4, <1>5, <1>6
<1>8. new \notin Units /\ new \in Nat
  BY <1>5, <1>6, UnitsAssumption
<1>9. TypeOK'
  BY <1>1, <1>2, <1>6, <1>7 DEF TypeOK
<1>10. KeysInv' /\ LoadInv'
  BY <1>1, <1>6 DEF IInv, KeysInv, LoadInv, Owing, Contested, Unmigrated
<1>11. Chosen' = Chosen /\ (Chosen # Unset => new \notin Chosen)
  BY <1>1, <1>6, <1>8, ChosenFacts DEF Chosen, Stored
<1>12. WholeInv'
  BY <1>1, <1>2, <1>6, <1>11 DEF IInv, WholeInv
<1>13. Live' = Live \cup {new} /\ Live \subseteq DOMAIN unit
  BY <1>1, <1>2 DEF Live
<1>14. ChoiceInv'
  <2>1. Chosen # Unset => KeyUnits(Chosen, Live)' = KeyUnits(Chosen, Live)
    BY <1>6, <1>11, <1>13 DEF KeyUnits
  <2> QED
    BY <1>1, <1>11, <2>1 DEF IInv, ChoiceInv
<1>15. ElsewhereInv'
  <2>1. legacy # Unset => UnitsOf(legacy)' = UnitsOf(legacy)
    BY <1>1, <1>6 DEF IInv, KeysInv, UnitsOf
  <2> QED
    BY <1>1, <2>1 DEF IInv, KeysInv, ElsewhereInv
<1>16. SecuredInv'
  <2>1. uids # Unset => new \notin uids
    BY <1>11 DEF Chosen, Stored
  <2> QED
    BY <1>1, <1>6, <1>13, <2>1 DEF IInv, SecuredInv
<1>17. MissInv' /\ RemovalOK
  BY <1>1 DEF IInv, MissInv, RemovalOK
<1> QED
  BY <1>9, <1>10, <1>12, <1>14, <1>15, <1>16, <1>17 DEF IInv

LEMMA DeleteOK == ASSUME IInv, NEW i \in Ids, Delete(i) PROVE IInv' /\ RemovalOK
<1>1. /\ unit' = unit /\ cache' = cache
      /\ uids' = uids /\ legacy' = legacy /\ mirror' = mirror
      /\ loaded' = loaded /\ pending' = pending /\ registry' = registry /\ misses' = misses
      /\ chosen' = chosen /\ elsewhere' = elsewhere /\ secured' = secured /\ absent' = absent
      /\ records' = records \ {i}
  BY DEF Delete, options, history
<1>2. TypeOK'
  BY <1>1 DEF IInv, TypeOK
<1>3. KeysInv' /\ LoadInv' /\ ElsewhereInv'
  BY <1>1 DEF IInv, KeysInv, LoadInv, ElsewhereInv, Owing, Contested, Unmigrated, UnitsOf
<1>4. Chosen' = Chosen /\ Live' \subseteq Live
  BY <1>1 DEF Chosen, Stored, Live
<1>5. WholeInv'
  BY <1>1, <1>4 DEF IInv, WholeInv
<1>6. ChoiceInv'
  <2>1. KeyUnits(Chosen, Live)' \subseteq KeyUnits(Chosen, Live)
    BY <1>1, <1>4 DEF KeyUnits
  <2> QED
    BY <1>1, <1>4, <2>1 DEF IInv, ChoiceInv
<1>7. SecuredInv'
  BY <1>1, <1>4 DEF IInv, SecuredInv
<1>8. MissInv' /\ RemovalOK
  BY <1>1 DEF IInv, MissInv, RemovalOK
<1> QED
  BY <1>2, <1>3, <1>5, <1>6, <1>7, <1>8 DEF IInv

LEMMA OlderVersionOK == ASSUME IInv, NEW i \in Ids, OlderVersion(i) PROVE IInv' /\ RemovalOK
<1> DEFINE base == IF legacy = Unset THEN records ELSE legacy
<1>1. PICK L \in {base \cup {i}, base \ {i}} :
        /\ legacy' = L
        /\ IF uids = Unset THEN chosen' = UnitsOf(L) /\ secured' = {} /\ elsewhere' = Unset
           ELSE elsewhere' = UnitsOf(L) /\ UNCHANGED <<chosen, secured>>
  BY DEF OlderVersion
<1>2. /\ ~loaded /\ i \in records
      /\ unit' = unit /\ records' = records /\ cache' = cache /\ uids' = uids /\ mirror' = mirror
      /\ loaded' = loaded /\ pending' = pending /\ registry' = registry /\ misses' = misses
      /\ absent' = absent
  BY DEF OlderVersion, cloud
<1>3. /\ TypeOK /\ records \subseteq DOMAIN unit /\ DOMAIN unit \subseteq Ids
      /\ \A k \in DOMAIN unit : unit[k] \in Units /\ k \notin Units
  BY UnitFacts DEF IInv
<1>4. cache = {} /\ ~pending
  BY <1>2 DEF IInv, LoadInv
<1>5. L \subseteq DOMAIN unit
  BY <1>2, <1>3 DEF IInv, KeysInv
<1>6. L # Unset
  <2>1. L \in SUBSET (Units \cup Ids)
    BY <1>3, <1>5
  <2> QED
    BY <2>1, SetFacts
<1>7. UnitsOf(L) \subseteq Units /\ \A k \in L : unit[k] \in UnitsOf(L)
  BY <1>3, <1>5 DEF UnitsOf
<1>8. TypeOK'
  BY <1>1, <1>2, <1>3, <1>5, <1>7 DEF TypeOK, Keys
<1>9. KeysInv' /\ LoadInv' /\ WholeInv'
  BY <1>1, <1>2, <1>4, <1>5, <1>6 DEF IInv, KeysInv, LoadInv, WholeInv
<1>10. UnitsOf(legacy)' = UnitsOf(L)
  BY <1>1, <1>2 DEF UnitsOf
<1>11. CASE uids = Unset
  <2>1. /\ chosen' = UnitsOf(L) /\ secured' = {} /\ elsewhere' = Unset /\ uids' = Unset
        /\ Chosen' = L
    BY <1>1, <1>2, <1>11 DEF Chosen, Stored
  <2>2. Live' \subseteq DOMAIN unit
    BY <1>2, <1>3, <1>4 DEF Live
  <2>3. KeyUnits(Chosen, Live)' \subseteq UnitsOf(L)
    BY <1>2, <1>3, <1>5, <1>7, <2>1, <2>2 DEF KeyUnits
  <2>4. ChoiceInv'
    BY <1>6, <2>1, <2>3 DEF ChoiceInv
  <2>5. ElsewhereInv' /\ SecuredInv' /\ MissInv' /\ RemovalOK
    BY <1>2, <2>1 DEF ElsewhereInv, SecuredInv, MissInv, RemovalOK
  <2> QED
    BY <1>8, <1>9, <2>4, <2>5 DEF IInv
<1>12. CASE uids # Unset
  <2>1. elsewhere' = UnitsOf(L) /\ chosen' = chosen /\ secured' = secured
    BY <1>1, <1>12
  <2>2. Chosen' = Chosen /\ Chosen = uids /\ Live' = Live
    BY <1>2, <1>12 DEF Chosen, Stored, Live
  <2>3. KeyUnits(Chosen, Live)' = KeyUnits(Chosen, Live)
    BY <1>2, <2>2 DEF KeyUnits
  <2>4. ChoiceInv'
    BY <2>1, <2>2, <2>3 DEF IInv, ChoiceInv
  <2>5. ElsewhereInv'
    <3>1. elsewhere' # Unset
      <4>1. UnitsOf(L) \in SUBSET (Units \cup Ids)
        BY <1>7
      <4> QED
        BY <2>1, <4>1, SetFacts
    <3> QED
      BY <1>2, <1>10, <1>12, <2>1, <3>1 DEF ElsewhereInv
  <2>6. SecuredInv'
    BY <1>2, <1>12, <2>1, <2>2 DEF IInv, SecuredInv
  <2>7. MissInv' /\ RemovalOK
    BY <1>2, <2>1 DEF IInv, MissInv, RemovalOK
  <2> QED
    BY <1>8, <1>9, <2>4, <2>5, <2>6, <2>7 DEF IInv
<1> QED
  BY <1>11, <1>12

LEMMA StutterOK == ASSUME IInv, UNCHANGED vars PROVE IInv' /\ RemovalOK
<1>1. /\ unit' = unit /\ records' = records /\ cache' = cache
      /\ uids' = uids /\ legacy' = legacy /\ mirror' = mirror
      /\ loaded' = loaded /\ pending' = pending /\ registry' = registry /\ misses' = misses
      /\ chosen' = chosen /\ elsewhere' = elsewhere /\ secured' = secured /\ absent' = absent
  BY DEF vars, cloud, options, history
<1>2. TypeOK' /\ KeysInv' /\ LoadInv' /\ ElsewhereInv'
  BY <1>1 DEF IInv, TypeOK, KeysInv, LoadInv, ElsewhereInv, Owing, Contested, Unmigrated, UnitsOf
<1>3. WholeInv' /\ ChoiceInv' /\ SecuredInv' /\ MissInv'
  BY <1>1 DEF IInv, WholeInv, ChoiceInv, SecuredInv, MissInv, Chosen, Stored, Live, KeyUnits
<1> QED
  BY <1>1, <1>2, <1>3 DEF IInv, RemovalOK

LEMMA InitOK == ASSUME Init PROVE IInv
<1> DEFINE n == Cardinality(Units)
           Paired(f) == \A u \in Units : \E i \in DOMAIN f : f[i] = u
<1>1. n \in Nat /\ n \in 0 .. MaxId
  BY UnitsAssumption, LimitsAssumption, FS_CardinalityType
<1>2. \E f \in [1 .. n -> Units] : Paired(f)
  <2>1. PICK f : f \in Bijection(1 .. n, Units)
    BY UnitsAssumption, FS_CardinalityType DEF ExistsBijection
  <2>2. f \in [1 .. n -> Units] /\ \A u \in Units : \E i \in 1 .. n : f[i] = u
    BY <2>1 DEF Bijection, Surjection
  <2> QED
    BY <2>2
<1>3. unit = CHOOSE f \in [1 .. n -> Units] : Paired(f)
  BY DEF Init
<1>4. unit \in [1 .. n -> Units]
  <2> HIDE DEF n, Paired
  <2> QED
    BY <1>2, <1>3
<1>5. /\ DOMAIN unit = 1 .. n /\ DOMAIN unit \subseteq Ids
      /\ \A i \in DOMAIN unit : unit[i] \in Units /\ i \notin Units
  BY <1>1, <1>4, UnitsAssumption, LimitsAssumption DEF Ids
<1>6. /\ records = DOMAIN unit /\ cache = {} /\ uids = Unset /\ mirror = Unset
      /\ (legacy = Unset \/ (legacy \subseteq records /\ legacy # Unset))
      /\ loaded = FALSE /\ pending = FALSE /\ elsewhere = Unset
      /\ chosen = (IF legacy = Unset THEN Units ELSE UnitsOf(legacy))
      /\ secured = (IF legacy = Unset THEN Units ELSE {})
      /\ registry = chosen
  BY DEF Init
<1>7. /\ misses = NoMisses /\ absent = [u \in Units |-> 0]
      /\ misses \in [Units -> 0 .. MissLimit - 1] /\ absent \in [Units -> 0 .. MissLimit]
  BY LimitsAssumption DEF Init, NoMisses
<1>8. chosen \subseteq Units /\ secured \subseteq chosen
  BY <1>5, <1>6 DEF UnitsOf
<1>9. TypeOK
  BY <1>1, <1>4, <1>5, <1>6, <1>7, <1>8 DEF TypeOK, Keys
<1>10. KeysInv /\ LoadInv /\ WholeInv /\ ElsewhereInv /\ SecuredInv
  BY <1>6, <1>7 DEF KeysInv, LoadInv, WholeInv, ElsewhereInv, SecuredInv
<1>11. Chosen = legacy
  BY <1>6 DEF Chosen, Stored
<1>12. ChoiceInv
  <2>1. legacy # Unset => KeyUnits(legacy, Live) \subseteq UnitsOf(legacy)
    BY <1>5, <1>6 DEF KeyUnits, UnitsOf
  <2> QED
    BY <1>6, <1>11, <2>1 DEF ChoiceInv
<1>13. MissInv
  BY <1>7, <1>8 DEF MissInv, NoMisses
<1> QED
  BY <1>9, <1>10, <1>12, <1>13 DEF IInv

LEMMA StepOK == ASSUME IInv, [Next]_vars PROVE IInv' /\ RemovalOK
BY SetUpOK, PollOK, PollMigratesOK, RestartOK, EnableOK, DisableOK, DeleteOK, OlderVersionOK,
   SetEnabledOK, ImportOK, PairOK, StutterOK DEF Next

LEMMA Inductive == Spec => []IInv
<1>1. Init => IInv
  BY InitOK
<1>2. IInv /\ [Next]_vars => IInv'
  BY StepOK
<1> QED
  BY <1>1, <1>2, PTL DEF Spec

-----------------------------------------------------------------------------
(* Theorems *)

\* The options, the caches and the counters keep their types: a count of misses never
\* reaches PRUNE_MIN_CONSECUTIVE_MISSES, and no option holds a key that is neither a serial
\* number nor an id.
THEOREM TypeCorrect == Spec => []TypeOK
<1>1. IInv => TypeOK
  BY DEF IInv
<1> QED
  BY <1>1, Inductive, PTL

\* A unit the user chose, and that a save saw as one record, is shown whenever an answer has
\* it: through any number of pairings, degraded answers, restarts and migrations.
THEOREM ChosenIsShown == Spec => []ChosenShown
<1>1. ASSUME IInv PROVE ChosenShown
  <2> SUFFICES ASSUME NEW u \in secured, Of(cache, u) # {} PROVE u \in UnitsOf(Shown)
    BY DEF ChosenShown
  <2>1. u \in UnitsOf(cache)
    BY <1>1, UnitFacts DEF Of, UnitsOf, IInv
  <2> QED
    BY <1>1, <2>1, ShownFacts, ChosenFacts
<1> QED
  BY <1>1, Inductive, PTL

\* Nothing is shown that the user did not choose, neither by a record that shares a serial
\* number, nor before a pending migration, nor after a change in the older version.
THEOREM NothingUnchosenShown == Spec => []NothingUnchosen
<1>1. ASSUME IInv PROVE NothingUnchosen
  <2> SUFFICES ASSUME NEW u \in UnitsOf(Shown) PROVE u \in chosen
    BY DEF NothingUnchosen
  <2>1. u \in Units
    BY <1>1, UnitFacts, ShownFacts DEF UnitsOf, IInv
  <2>2. CASE Chosen = Unset
    BY <1>1, <2>1, <2>2 DEF IInv, ChoiceInv
  <2>3. CASE Chosen # Unset
    <3>1. u \in Chosen \/ \E i \in cache \cap Chosen : unit[i] = u
      BY <1>1, <2>3, ShownFacts
    <3>2. u \in KeyUnits(Chosen, Live)
      BY <2>1, <3>1 DEF KeyUnits, Live
    <3> QED
      BY <1>1, <2>3, <3>2, ChosenFacts
  <2> QED
    BY <2>2, <2>3
<1> QED
  BY <1>1, Inductive, PTL

\* registry_maintenance.py removes the entry of such a unit only after MissLimit full answers
\* in a row without it, and no edit of the selection removes one that stays chosen.
THEOREM RemovalsForCause == Spec => RemovedForCause
<1>1. ASSUME IInv, [Next]_vars PROVE RemovalOK
  BY <1>1, StepOK
<1>2. IInv /\ [Next]_vars =>
        [\A u \in registry \ registry' : u \in secured \cap secured' => absent'[u] = MissLimit]_vars
  BY <1>1 DEF RemovalOK
<1> QED
  BY <1>2, Inductive, PTL DEF Spec, RemovedForCause
=============================================================================
