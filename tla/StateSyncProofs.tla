--------------------------- MODULE StateSyncProofs ---------------------------
(***************************************************************************)
(* Proofs about StateSync: its type invariant, and that a refresh which no *)
(* other one overtook never shows an older value, for any number of        *)
(* devices, attributes, commands and concurrent refreshes.                 *)
(***************************************************************************)
EXTENDS StateSync, TLAPS

Answered == {"flatAnswered", "treeAnswered"}

\* Nothing the integration holds, or will be sent, is ahead of the cloud.
CloudLeads ==
    /\ \A d \in Devices, k \in Keys :
        /\ cloud[d][k].reported <= cloud[d][k].desired
        /\ cache[d][k].reported <= cloud[d][k].reported
        /\ cache[d][k].desired <= cloud[d][k].desired
    /\ \A i \in 1 .. Len(channel) :
        channel[i].version <= cloud[channel[i].device][channel[i].key].reported
    /\ \A c \in Commands :
        command[c].version <= cloud[command[c].device][command[c].key].desired
    /\ \A r \in Refreshers, d \in Devices, k \in Keys :
        /\ fetch[r].snap[d][k].reported <= cloud[d][k].reported
        /\ fetch[r].snap[d][k].desired <= cloud[d][k].desired

\* An answered refresh that was not overtaken knows at least what the cache
\* shows of the devices that were not patched since it started.
SnapshotLeads ==
    \A r \in Refreshers, d \in Devices, k \in Keys :
        fetch[r].pc \in Answered /\ r \notin overtaken
            /\ d \in fetch[r].seen /\ d \in known /\ d \notin patched[r] =>
        /\ cache[d][k].reported <= fetch[r].snap[d][k].reported
        /\ cache[d][k].desired <= fetch[r].snap[d][k].desired

IInv == TypeOK /\ CloudLeads /\ SnapshotLeads

-------------------------------------------------------------------------------
LEMMA BlankTypes == Blank \in States /\ NoFetch \in Fetches /\ NoCall \in Calls
<1>1. Blank \in States
  BY MaxVersionAssumption DEF Blank, States, Versions
<1>2. NoFetch \in Fetches
  BY <1>1 DEF NoFetch, Fetches
<1>3. NoCall \in Calls
  BY NonEmptyAssumption, MaxVersionAssumption DEF NoCall, Calls, Versions
<1> QED
  BY <1>1, <1>2, <1>3

\* The typed parts of the state that hold devices, one by one.
CloudType   == cloud \in [Devices -> States]
CacheType   == cache \in [Devices -> States] /\ \A d \in Devices \ known : cache[d] = Blank
ChannelType == channel \in Seq(Messages)
FetchType   ==
    /\ fetch \in [Refreshers -> Fetches]
    /\ \A r \in Refreshers : \A d \in Devices \ fetch[r].seen : fetch[r].snap[d] = Blank
CommandType == command \in [Commands -> Calls]
PatchedType == patched \in [Refreshers -> SUBSET Devices]
RestType    ==
    /\ account \subseteq Devices /\ known \subseteq Devices
    /\ connected \in BOOLEAN /\ started \in BOOLEAN
    /\ missed \subseteq Attributes /\ overtaken \subseteq Refreshers

LEMMA TypeParts ==
    TypeOK <=> /\ CloudType /\ CacheType /\ ChannelType /\ FetchType /\ CommandType
               /\ PatchedType /\ RestType
BY DEF TypeOK, CloudType, CacheType, ChannelType, FetchType, CommandType,
       PatchedType, RestType

LEMMA InitIInv == Init => IInv
<1> SUFFICES ASSUME Init PROVE IInv
  OBVIOUS
<1>1. TypeOK
  <2>1. Blank \in States /\ NoFetch \in Fetches /\ NoCall \in Calls
    BY BlankTypes
  <2>2. CloudType /\ CacheType /\ FetchType /\ CommandType /\ PatchedType
    BY <2>1 DEF Init, CloudType, CacheType, FetchType, CommandType, PatchedType, NoFetch
  <2>3. ChannelType
    BY DEF Init, ChannelType
  <2>4. RestType
    BY DEF Init, RestType, Attributes
  <2> QED
    BY <2>2, <2>3, <2>4, TypeParts
<1>2. CloudLeads
  <2>1. \A d \in Devices, k \in Keys : cloud[d][k] = [reported |-> 0, desired |-> 0]
                                    /\ cache[d][k] = [reported |-> 0, desired |-> 0]
    BY DEF Init, Blank
  <2>2. channel = <<>>
    BY DEF Init
  <2>3. \A c \in Commands : command[c] \in Calls /\ command[c].version = 0
    BY BlankTypes DEF Init, NoCall
  <2>4. \A c \in Commands : command[c].device \in Devices /\ command[c].key \in Keys
    BY <2>3 DEF Calls
  <2>5. \A r \in Refreshers, d \in Devices, k \in Keys :
          fetch[r].snap[d][k] = [reported |-> 0, desired |-> 0]
    BY DEF Init, NoFetch, Blank
  <2> QED
    BY <2>1, <2>2, <2>3, <2>4, <2>5 DEF CloudLeads
<1>3. SnapshotLeads
  BY DEF Init, SnapshotLeads, NoFetch, Answered
<1> QED
  BY <1>1, <1>2, <1>3 DEF IInv

-------------------------------------------------------------------------------
LEMMA SettledType ==
    ASSUME NEW version \in Versions
    PROVE  Settled(version) \in [reported : Versions, desired : Versions]
BY DEF Settled

LEMMA ReportType ==
    ASSUME TypeOK, NEW d \in Devices, NEW k \in Keys, NEW version \in Versions,
           Report(d, k, version)
    PROVE  CloudType' /\ ChannelType' /\ missed' \subseteq Attributes
<1>1. CloudType'
  BY SettledType DEF TypeOK, CloudType, Report, States
<1>2. [device |-> d, key |-> k, version |-> version] \in Messages
  BY DEF Messages
<1>3. ChannelType'
  <2>1. channel \in Seq(Messages)
    BY DEF TypeOK
  <2>2. Append(channel, [device |-> d, key |-> k, version |-> version]) \in Seq(Messages)
    BY <1>2, <2>1
  <2> QED
    BY <2>1, <2>2 DEF ChannelType, Report
<1>4. missed' \subseteq Attributes
  BY DEF TypeOK, Report, Attributes
<1> QED
  BY <1>1, <1>3, <1>4

LEMMA TouchType ==
    ASSUME TypeOK, NEW d \in Devices, Touch(d)
    PROVE  PatchedType'
BY DEF TypeOK, PatchedType, Touch

LEMMA NextTypeOK ==
    ASSUME TypeOK, [Next]_vars
    PROVE  TypeOK'
<1>0. /\ CloudType /\ CacheType /\ ChannelType /\ FetchType /\ CommandType
      /\ PatchedType /\ RestType
  BY TypeParts
<1> USE DEF CloudType, CacheType, ChannelType, FetchType, CommandType,
            PatchedType, RestType
<1>1. ASSUME NEW d \in Devices, NEW k \in Keys, OutsideChange(d, k) PROVE TypeOK'
  <2>1. cloud[d][k].desired + 1 \in Versions
    BY <1>0, <1>1, MaxVersionAssumption DEF OutsideChange, States, Versions
  <2>2. CloudType' /\ ChannelType' /\ missed' \subseteq Attributes
    BY <1>1, <2>1, ReportType DEF OutsideChange
  <2> QED
    BY <1>0, <1>1, <2>2 DEF TypeOK, OutsideChange, store
<1>2. ASSUME NEW d \in Devices, NEW k \in Keys, DeviceApplies(d, k) PROVE TypeOK'
  <2>1. cloud[d][k].desired \in Versions
    BY <1>0 DEF States
  <2>2. CloudType' /\ ChannelType' /\ missed' \subseteq Attributes
    BY <1>2, <2>1, ReportType DEF DeviceApplies
  <2> QED
    BY <1>0, <1>2, <2>2 DEF TypeOK, DeviceApplies, store
<1>3. ASSUME NEW d \in Devices, Unpair(d) PROVE TypeOK'
  BY <1>0, <1>3 DEF TypeOK, Unpair, net, store, history
<1>4. CASE Connect
  BY <1>0, <1>4 DEF TypeOK, Connect, store, history
<1>5. CASE Disconnect
  <2>1. \A i \in 1 .. Len(channel) : channel[i] \in Messages
    BY <1>0
  <2>2. {<<channel[i].device, channel[i].key>> : i \in 1 .. Len(channel)} \subseteq Attributes
    BY <2>1 DEF Messages, Attributes
  <2>3. ChannelType'
    BY <1>5 DEF Disconnect
  <2>4. missed' \subseteq Attributes
    BY <1>0, <1>5, <2>2 DEF Disconnect
  <2> QED
    BY <1>0, <1>5, <2>3, <2>4 DEF TypeOK, Disconnect, store
<1>6. CASE Deliver
  <2>1. Head(channel) \in Messages /\ channel' \in Seq(Messages)
    BY <1>0, <1>6 DEF Deliver
  <2> DEFINE m == Head(channel)
  <2>2. m.device \in Devices /\ m.key \in Keys /\ m.version \in Versions
    BY <2>1 DEF Messages
  <2>3. CASE m.device \in known
    <3>1. cache' = [cache EXCEPT ![m.device][m.key] = Settled(m.version)]
      BY <1>6, <2>3 DEF Deliver, PatchState
    <3>2. CacheType'
      BY <1>0, <1>6, <2>2, <2>3, <3>1, SettledType DEF Deliver, States
    <3>3. PatchedType'
      BY <1>6, <2>2, <2>3, TouchType DEF Deliver, PatchState
    <3>4. missed' \subseteq Attributes
      BY <1>0, <1>6, <2>3 DEF Deliver, PatchState, StillStale
    <3> QED
      BY <1>0, <1>6, <2>1, <3>2, <3>3, <3>4 DEF TypeOK, Deliver
  <2>4. CASE m.device \notin known
    <3>1. missed' \subseteq Attributes
      BY <1>0, <1>6, <2>2, <2>4 DEF Deliver, PatchState, Attributes
    <3>2. UNCHANGED <<cache, patched>>
      BY <1>6, <2>4 DEF Deliver, PatchState
    <3> QED
      BY <1>0, <1>6, <2>1, <3>1, <3>2 DEF TypeOK, Deliver
  <2> QED
    BY <2>3, <2>4
<1>7. ASSUME NEW c \in Commands, Command(c) PROVE TypeOK'
  <2>1. ASSUME NEW d \in Devices, NEW k \in Keys, Send(c, d, k) PROVE TypeOK'
    <3>1. Call("put", d, k, 0, FALSE) \in Calls
      BY MaxVersionAssumption DEF Call, Calls, Versions
    <3> QED
      BY <1>0, <2>1, <3>1 DEF TypeOK, Send, net, store, history
  <2>2. command[c].device \in Devices /\ command[c].key \in Keys
        /\ command[c].version \in Versions /\ command[c].retry \in BOOLEAN
    BY <1>0 DEF Calls
  <2>3. CASE ServePut(c)
    <3> DEFINE d == command[c].device
               k == command[c].key
    <3>1. cloud[d][k].desired + 1 \in Versions /\ cloud[d][k].reported \in Versions
      BY <1>0, <2>2, <2>3, MaxVersionAssumption DEF ServePut, States, Versions
    <3>2. Wanted(cloud[d][k], cloud[d][k].desired + 1) \in [reported : Versions, desired : Versions]
      BY <3>1 DEF Wanted
    <3>3. CloudType'
      BY <1>0, <2>2, <2>3, <3>2 DEF ServePut, States
    <3>4. Call("served", d, k, cloud[d][k].desired + 1, command[c].retry) \in Calls
      BY <2>2, <3>1 DEF Call, Calls
    <3>5. CommandType'
      BY <1>0, <2>3, <3>4 DEF ServePut
    <3> QED
      BY <1>0, <2>3, <3>3, <3>5 DEF TypeOK, ServePut, net, store, history
  <2>4. CASE PutReturns(c)
    <3> DEFINE d == command[c].device
               k == command[c].key
    <3>1. CommandType'
      BY <1>0, <2>4, BlankTypes DEF PutReturns
    <3>2. CASE d \in known
      <4>1. Wanted(cache[d][k], command[c].version) \in [reported : Versions, desired : Versions]
        BY <1>0, <2>2 DEF Wanted, States
      <4>2. cache' = [cache EXCEPT ![d][k] = Wanted(cache[d][k], command[c].version)]
            /\ known' = known
        BY <2>4, <3>2 DEF PutReturns
      <4>3. cache' \in [Devices -> States]
        BY <1>0, <2>2, <4>1, <4>2 DEF States
      <4>4. CacheType'
        BY <1>0, <2>2, <3>2, <4>2, <4>3
      <4>5. PatchedType'
        BY <2>2, <2>4, <3>2, TouchType DEF PutReturns
      <4> QED
        BY <1>0, <2>4, <3>1, <4>4, <4>5 DEF TypeOK, PutReturns, net, history
    <3>3. CASE d \notin known
      BY <1>0, <2>4, <3>1, <3>3 DEF TypeOK, PutReturns, net, history
    <3> QED
      BY <3>2, <3>3
  <2>5. CASE PutFails(c)
    <3>1. Call("put", command[c].device, command[c].key, 0, TRUE) \in Calls
      BY <2>2, MaxVersionAssumption DEF Call, Calls, Versions
    <3>2. CommandType'
      BY <1>0, <2>5, <3>1, BlankTypes DEF PutFails
    <3> QED
      BY <1>0, <2>5, <3>2 DEF TypeOK, PutFails, net, store, history
  <2> QED
    BY <1>7, <2>1, <2>3, <2>4, <2>5 DEF Command
<1>8. ASSUME NEW r \in Refreshers, Refresh(r) PROVE TypeOK'
  <2>1. ASSUME NEW place \in {"flat", "tree"}, Goto(r, place)
        PROVE  FetchType'
    <3>1. [NoFetch EXCEPT !.pc = place] \in Fetches
      BY BlankTypes DEF Fetches
    <3>2. \A d \in Devices : [NoFetch EXCEPT !.pc = place].snap[d] = Blank
      BY DEF NoFetch
    <3> QED
      BY <1>0, <2>1, <3>1, <3>2 DEF Goto
  <2>2. ASSUME NEW place \in Answered, NEW seen \in SUBSET Devices,
               Answer(r, place, seen)
        PROVE  FetchType'
    <3>1. [d \in Devices |-> IF d \in seen THEN cloud[d] ELSE Blank] \in [Devices -> States]
      BY <1>0, BlankTypes
    <3> QED
      BY <1>0, <2>2, <3>1 DEF Answer, Fetches, Answered
  <2>3. CASE StartRefresh(r)
    BY <1>0, <2>1, <2>3 DEF TypeOK, StartRefresh, net, store, history
  <2>4. ASSUME NEW seen \in {account, {}}, ServeFlat(r, seen) PROVE TypeOK'
    <3>1. FetchType'
      BY <1>0, <2>2, <2>4 DEF ServeFlat, Answered
    <3> QED
      BY <1>0, <2>4, <3>1 DEF TypeOK, ServeFlat, net, store, history
  <2>5. CASE ServeTree(r)
    <3>1. FetchType'
      BY <1>0, <2>2, <2>5 DEF ServeTree, Answered
    <3> QED
      BY <1>0, <2>5, <3>1 DEF TypeOK, ServeTree, net, store, history
  <2>6. CASE FlatFails(r)
    BY <1>0, <2>1, <2>6 DEF TypeOK, FlatFails, net, store, history
  <2>7. CASE RefreshFails(r)
    <3>1. FetchType' /\ PatchedType'
      BY <1>0, <2>7, BlankTypes DEF RefreshFails, Ended, NoFetch
    <3> QED
      BY <1>0, <2>7, <3>1 DEF TypeOK, RefreshFails, Ended, net
  <2>8. CASE ApplyRefresh(r)
    <3>1. FetchType'
      BY <1>0, <2>8, BlankTypes DEF ApplyRefresh, NoFetch
    <3>2. fetch[r].seen \subseteq Devices /\ fetch[r].snap \in [Devices -> States]
      BY <1>0 DEF Fetches
    <3>3. cache' \in [Devices -> States]
      BY <1>0, <2>8, <3>2 DEF ApplyRefresh
    <3>4. PatchedType'
      BY <1>0, <2>8 DEF ApplyRefresh
    <3>5. missed' \subseteq Attributes
      BY <1>0, <2>8 DEF ApplyRefresh, StillStale
    <3>6. \A d \in Devices \ known' : cache'[d] = Blank
      BY <1>0, <2>8 DEF ApplyRefresh, Protected
    <3>7. known' \subseteq Devices /\ overtaken' \subseteq Refreshers /\ started' \in BOOLEAN
      BY <1>0, <2>8, <3>2 DEF ApplyRefresh
    <3> QED
      BY <1>0, <2>8, <3>1, <3>3, <3>4, <3>5, <3>6, <3>7 DEF TypeOK, ApplyRefresh, net
  <2> QED
    BY <1>8, <2>3, <2>4, <2>5, <2>6, <2>7, <2>8 DEF Refresh
<1>9. CASE UNCHANGED vars
  BY <1>0, <1>9 DEF TypeOK, vars
<1> QED
  BY <1>1, <1>2, <1>3, <1>4, <1>5, <1>6, <1>7, <1>8, <1>9 DEF Next, Cloud

-------------------------------------------------------------------------------
\* The numbers that the orders below are about are integers.
LEMMA Numbers ==
    ASSUME TypeOK
    PROVE  /\ \A d \in Devices, k \in Keys :
                /\ cloud[d][k].reported \in Nat /\ cloud[d][k].desired \in Nat
                /\ cache[d][k].reported \in Nat /\ cache[d][k].desired \in Nat
           /\ \A r \in Refreshers, d \in Devices, k \in Keys :
                /\ fetch[r].snap[d][k].reported \in Nat /\ fetch[r].snap[d][k].desired \in Nat
           /\ \A c \in Commands : /\ command[c].version \in Nat
                                  /\ command[c].device \in Devices
                                  /\ command[c].key \in Keys
           /\ \A i \in 1 .. Len(channel) : /\ channel[i].version \in Nat
                                           /\ channel[i].device \in Devices
                                           /\ channel[i].key \in Keys
           /\ Len(channel) \in Nat
<1> USE MaxVersionAssumption DEF Versions
<1>1. \A d \in Devices, k \in Keys :
        /\ cloud[d][k].reported \in Nat /\ cloud[d][k].desired \in Nat
        /\ cache[d][k].reported \in Nat /\ cache[d][k].desired \in Nat
  BY DEF TypeOK, States
<1>2. \A r \in Refreshers, d \in Devices, k \in Keys :
        /\ fetch[r].snap[d][k].reported \in Nat /\ fetch[r].snap[d][k].desired \in Nat
  BY DEF TypeOK, Fetches, States
<1>3. \A c \in Commands : /\ command[c].version \in Nat
                          /\ command[c].device \in Devices
                          /\ command[c].key \in Keys
  BY DEF TypeOK, Calls
<1>4. \A i \in 1 .. Len(channel) : /\ channel[i].version \in Nat
                                   /\ channel[i].device \in Devices
                                   /\ channel[i].key \in Keys
  <2>1. \A i \in 1 .. Len(channel) : channel[i] \in Messages
    BY DEF TypeOK
  <2> QED
    BY <2>1 DEF Messages
<1>5. Len(channel) \in Nat
  BY DEF TypeOK
<1> QED
  BY <1>1, <1>2, <1>3, <1>4, <1>5

\* A report moves one attribute of the cloud forward and is sent as it is.
LEMMA ReportLeads ==
    ASSUME TypeOK, CloudLeads, NEW d \in Devices, NEW k \in Keys, NEW version \in Versions,
           version >= cloud[d][k].desired, Report(d, k, version),
           UNCHANGED <<cache, command, fetch>>
    PROVE  CloudLeads'
<1> DEFINE m == [device |-> d, key |-> k, version |-> version]
<1>1. version \in Nat
  BY MaxVersionAssumption DEF Versions
<1>2. \A e \in Devices, j \in Keys :
        cloud'[e][j] = IF e = d /\ j = k THEN Settled(version) ELSE cloud[e][j]
  BY DEF TypeOK, States, Report
<1>3. \A e \in Devices, j \in Keys :
        /\ cloud'[e][j].reported >= cloud[e][j].reported
        /\ cloud'[e][j].desired >= cloud[e][j].desired
        /\ cloud'[e][j].desired >= cloud'[e][j].reported
        /\ cloud'[e][j].reported \in Nat /\ cloud'[e][j].desired \in Nat
  BY <1>1, <1>2, Numbers DEF CloudLeads, Settled
<1>4. \A e \in Devices, j \in Keys :
        /\ cloud'[e][j].reported <= cloud'[e][j].desired
        /\ cache'[e][j].reported <= cloud'[e][j].reported
        /\ cache'[e][j].desired <= cloud'[e][j].desired
  <2> TAKE e \in Devices, j \in Keys
  <2>1. /\ cache[e][j].reported <= cloud[e][j].reported
        /\ cache[e][j].desired <= cloud[e][j].desired
    BY DEF CloudLeads
  <2>2. /\ cache[e][j].reported \in Nat /\ cache[e][j].desired \in Nat
        /\ cloud[e][j].reported \in Nat /\ cloud[e][j].desired \in Nat
    BY Numbers
  <2> QED
    BY <1>3, <2>1, <2>2
<1>5. \A c \in Commands :
        command'[c].version <= cloud'[command'[c].device][command'[c].key].desired
  <2> TAKE c \in Commands
  <2> DEFINE e == command[c].device
             j == command[c].key
  <2>1. /\ e \in Devices /\ j \in Keys /\ command[c].version \in Nat
        /\ cloud[e][j].desired \in Nat /\ command[c].version <= cloud[e][j].desired
    BY Numbers DEF CloudLeads
  <2> HIDE DEF e, j
  <2>2. command[c].version <= cloud'[e][j].desired
    BY <1>3, <2>1
  <2> QED
    BY <2>2 DEF e, j
<1>6. \A i \in 1 .. Len(channel) :
        channel[i].version <= cloud'[channel[i].device][channel[i].key].reported
  <2> TAKE i \in 1 .. Len(channel)
  <2> DEFINE e == channel[i].device
             j == channel[i].key
  <2>1. /\ e \in Devices /\ j \in Keys /\ channel[i].version \in Nat
        /\ cloud[e][j].reported \in Nat /\ channel[i].version <= cloud[e][j].reported
    BY Numbers DEF CloudLeads
  <2> HIDE DEF e, j
  <2>2. channel[i].version <= cloud'[e][j].reported
    BY <1>3, <2>1
  <2> QED
    BY <2>2 DEF e, j
<1>9. \A r \in Refreshers, e \in Devices, j \in Keys :
        /\ fetch'[r].snap[e][j].reported <= cloud'[e][j].reported
        /\ fetch'[r].snap[e][j].desired <= cloud'[e][j].desired
  <2> TAKE r \in Refreshers, e \in Devices, j \in Keys
  <2>1. /\ fetch[r].snap[e][j].reported <= cloud[e][j].reported
        /\ fetch[r].snap[e][j].desired <= cloud[e][j].desired
    BY DEF CloudLeads
  <2>2. /\ fetch[r].snap[e][j].reported \in Nat /\ fetch[r].snap[e][j].desired \in Nat
        /\ cloud[e][j].reported \in Nat /\ cloud[e][j].desired \in Nat
    BY Numbers
  <2> QED
    BY <1>3, <2>1, <2>2
<1>7. CASE connected
  <2>1. channel' = Append(channel, m)
    BY <1>7 DEF Report
  <2>2. channel \in Seq(Messages)
    BY DEF TypeOK
  <2>3. Len(channel') = Len(channel) + 1
    BY <2>1, <2>2
  <2>4. \A i \in 1 .. Len(channel') :
          channel'[i] = IF i = Len(channel) + 1 THEN m ELSE channel[i]
    BY <2>1, <2>2
  <2>5. m.version <= cloud'[m.device][m.key].reported
    BY <1>1, <1>2 DEF Settled
  <2>6. \A i \in 1 .. Len(channel') :
          channel'[i].version <= cloud'[channel'[i].device][channel'[i].key].reported
    BY <1>6, <2>3, <2>4, <2>5, Numbers
  <2> QED
    BY <1>4, <1>5, <1>9, <2>6 DEF CloudLeads
<1>8. CASE ~connected
  BY <1>4, <1>5, <1>6, <1>8, <1>9 DEF CloudLeads, Report
<1> QED
  BY <1>7, <1>8

LEMMA NextCloudLeads ==
    ASSUME TypeOK, CloudLeads, SnapshotLeads, [Next]_vars
    PROVE  CloudLeads'
<1>1. ASSUME NEW d \in Devices, NEW k \in Keys, OutsideChange(d, k) PROVE CloudLeads'
  <2>1. cloud[d][k].desired + 1 \in Versions /\ cloud[d][k].desired + 1 >= cloud[d][k].desired
    BY <1>1, MaxVersionAssumption DEF OutsideChange, TypeOK, States, Versions
  <2> QED
    BY <1>1, <2>1, ReportLeads DEF OutsideChange, store
<1>2. ASSUME NEW d \in Devices, NEW k \in Keys, DeviceApplies(d, k) PROVE CloudLeads'
  <2>1. cloud[d][k].desired \in Versions /\ cloud[d][k].desired >= cloud[d][k].desired
    BY MaxVersionAssumption DEF TypeOK, States, Versions
  <2> QED
    BY <1>2, <2>1, ReportLeads DEF DeviceApplies, store
<1>3. ASSUME NEW d \in Devices, Unpair(d) PROVE CloudLeads'
  BY <1>3 DEF CloudLeads, Unpair, net, store
<1>4. CASE Connect
  BY <1>4 DEF CloudLeads, Connect, store
<1>5. CASE Disconnect
  <2>1. Len(channel') = 0
    BY <1>5 DEF Disconnect
  <2> QED
    BY <1>5, <2>1 DEF CloudLeads, Disconnect, store
<1>6. CASE Deliver
  <2> DEFINE m == channel[1]
  <2>1. /\ channel \in Seq(Messages) /\ channel # <<>>
        /\ channel' = Tail(channel) /\ Head(channel) = m
        /\ UNCHANGED <<cloud, command, fetch>>
    BY <1>6 DEF TypeOK, Deliver
  <2>2. 1 \in 1 .. Len(channel)
    BY <2>1
  <2>3. m.version <= cloud[m.device][m.key].reported
    BY <2>2 DEF CloudLeads
  <2>4. m.version \in Nat /\ m.device \in Devices /\ m.key \in Keys
    BY <2>2, Numbers
  <2>5. \A i \in 1 .. Len(channel') :
          channel'[i].version <= cloud'[channel'[i].device][channel'[i].key].reported
    <3>1. \A i \in 1 .. Len(channel') : channel'[i] = channel[i + 1] /\ i + 1 \in 1 .. Len(channel)
      BY <2>1
    <3> QED
      BY <2>1, <3>1 DEF CloudLeads
  <2>6. cache' = cache \/ cache' = [cache EXCEPT ![m.device][m.key] = Settled(m.version)]
    BY <1>6, <2>1 DEF Deliver, PatchState
  <2>7. \A d \in Devices, k \in Keys :
          cache'[d][k] = cache[d][k] \/
          (d = m.device /\ k = m.key /\ cache'[d][k] = Settled(m.version))
    BY <2>6 DEF TypeOK, States
  <2>8. \A d \in Devices, k \in Keys :
          /\ cache'[d][k].reported <= cloud'[d][k].reported
          /\ cache'[d][k].desired <= cloud'[d][k].desired
    BY <2>1, <2>3, <2>4, <2>7, Numbers DEF CloudLeads, Settled
  <2> QED
    BY <2>1, <2>5, <2>8 DEF CloudLeads
<1>7. ASSUME NEW c \in Commands, Command(c) PROVE CloudLeads'
  <2> DEFINE e == command[c].device
             j == command[c].key
  <2>0. e \in Devices /\ j \in Keys
    BY Numbers
  <2>1. ASSUME NEW d \in Devices, NEW k \in Keys, Send(c, d, k) PROVE CloudLeads'
    <3>1. command' = [command EXCEPT ![c] = Call("put", d, k, 0, FALSE)]
          /\ UNCHANGED <<cloud, channel, cache, fetch>>
      BY <2>1 DEF Send, net, store
    <3>2. 0 <= cloud[d][k].desired
      BY MaxVersionAssumption DEF TypeOK, States, Versions
    <3>3. \A b \in Commands :
            command'[b].version <= cloud'[command'[b].device][command'[b].key].desired
      BY <3>1, <3>2 DEF CloudLeads, Call, TypeOK
    <3> QED
      BY <3>1, <3>3 DEF CloudLeads
  <2>2. CASE ServePut(c)
    <3> DEFINE v == cloud[e][j].desired + 1
    <3>1. /\ cloud' = [cloud EXCEPT ![e][j] = Wanted(cloud[e][j], v)]
          /\ command' = [command EXCEPT ![c] = Call("served", e, j, v, command[c].retry)]
          /\ UNCHANGED <<channel, cache, fetch>>
      BY <2>2 DEF ServePut, net, store
    <3>2. \A d \in Devices, k \in Keys :
            cloud'[d][k] = IF d = e /\ k = j THEN Wanted(cloud[e][j], v) ELSE cloud[d][k]
      BY <2>0, <3>1 DEF TypeOK, States
    <3>3. \A d \in Devices, k \in Keys :
            /\ cloud'[d][k].reported = cloud[d][k].reported
            /\ cloud'[d][k].desired >= cloud[d][k].desired
            /\ cloud'[d][k].desired \in Nat
      BY <3>2, Numbers DEF Wanted
    <3>4. \A b \in Commands :
            command'[b].version <= cloud'[command'[b].device][command'[b].key].desired
      <4>1. v <= cloud'[e][j].desired
        BY <2>0, <3>2, Numbers DEF Wanted
      <4>2. \A b \in Commands \ {c} : command'[b] = command[b]
        BY <3>1 DEF TypeOK
      <4>3. command'[c] = Call("served", e, j, v, command[c].retry)
        BY <3>1 DEF TypeOK
      <4>4. command'[c].version <= cloud'[command'[c].device][command'[c].key].desired
        BY <4>1, <4>3 DEF Call
      <4>5. \A b \in Commands \ {c} :
              command'[b].version <= cloud'[command'[b].device][command'[b].key].desired
        BY <3>3, <4>2, Numbers DEF CloudLeads
      <4> QED
        BY <4>4, <4>5
    <3>5. \A i \in 1 .. Len(channel') :
            channel'[i].version <= cloud'[channel'[i].device][channel'[i].key].reported
      <4> TAKE i \in 1 .. Len(channel')
      <4>1. channel'[i] = channel[i] /\ i \in 1 .. Len(channel)
        BY <3>1
      <4>2. channel[i].version <= cloud[channel[i].device][channel[i].key].reported
        BY <4>1 DEF CloudLeads
      <4>3. channel[i].device \in Devices /\ channel[i].key \in Keys
        BY <4>1, Numbers
      <4> QED
        BY <3>3, <4>1, <4>2, <4>3
    <3>6. \A d \in Devices, k \in Keys :
            /\ cloud'[d][k].reported <= cloud'[d][k].desired
            /\ cache'[d][k].reported <= cloud'[d][k].reported
            /\ cache'[d][k].desired <= cloud'[d][k].desired
      <4> TAKE d \in Devices, k \in Keys
      <4>1. /\ cloud[d][k].reported <= cloud[d][k].desired
            /\ cache[d][k].reported <= cloud[d][k].reported
            /\ cache[d][k].desired <= cloud[d][k].desired
        BY DEF CloudLeads
      <4>2. /\ cache[d][k].reported \in Nat /\ cache[d][k].desired \in Nat
            /\ cloud[d][k].reported \in Nat /\ cloud[d][k].desired \in Nat
        BY Numbers
      <4>3. /\ cloud'[d][k].reported = cloud[d][k].reported
            /\ cloud'[d][k].desired >= cloud[d][k].desired
            /\ cloud'[d][k].desired \in Nat
        BY <3>3
      <4>4. UNCHANGED <<cache, fetch>>
        BY <3>1
      <4> QED
        BY ONLY <4>1, <4>2, <4>3, <4>4
    <3>7. \A r \in Refreshers, d \in Devices, k \in Keys :
            /\ fetch'[r].snap[d][k].reported <= cloud'[d][k].reported
            /\ fetch'[r].snap[d][k].desired <= cloud'[d][k].desired
      <4> TAKE r \in Refreshers, d \in Devices, k \in Keys
      <4>1. /\ fetch[r].snap[d][k].reported <= cloud[d][k].reported
            /\ fetch[r].snap[d][k].desired <= cloud[d][k].desired
        BY DEF CloudLeads
      <4>2. /\ fetch[r].snap[d][k].reported \in Nat /\ fetch[r].snap[d][k].desired \in Nat
            /\ cloud[d][k].reported \in Nat /\ cloud[d][k].desired \in Nat
        BY Numbers
      <4>3. /\ cloud'[d][k].reported = cloud[d][k].reported
            /\ cloud'[d][k].desired >= cloud[d][k].desired
            /\ cloud'[d][k].desired \in Nat
        BY <3>3
      <4>4. UNCHANGED <<cache, fetch>>
        BY <3>1
      <4> QED
        BY ONLY <4>1, <4>2, <4>3, <4>4
    <3> QED
      BY <3>4, <3>5, <3>6, <3>7 DEF CloudLeads
  <2>3. ASSUME NEW d \in Devices, NEW k \in Keys
        PROVE  0 <= cloud[d][k].desired
    BY MaxVersionAssumption DEF TypeOK, States, Versions
  <2>4. /\ NoCall.version = 0 /\ NoCall.device \in Devices /\ NoCall.key \in Keys
    BY BlankTypes DEF NoCall, Calls
  <2>5. CASE PutReturns(c)
    <3>1. /\ command' = [command EXCEPT ![c] = NoCall]
          /\ UNCHANGED <<cloud, channel, fetch>>
          /\ \/ cache' = cache
             \/ cache' = [cache EXCEPT ![e][j] = Wanted(cache[e][j], command[c].version)]
      BY <2>5 DEF PutReturns, net
    <3>2. \A b \in Commands :
            command'[b].version <= cloud'[command'[b].device][command'[b].key].desired
      BY <2>3, <2>4, <3>1 DEF CloudLeads, TypeOK
    <3>3. \A d \in Devices, k \in Keys :
            \/ cache'[d][k] = cache[d][k]
            \/ d = e /\ k = j /\ cache'[d][k] = Wanted(cache[d][k], command[c].version)
      BY <2>0, <3>1 DEF TypeOK, States
    <3>4. \A d \in Devices, k \in Keys :
            /\ cache'[d][k].reported <= cloud'[d][k].reported
            /\ cache'[d][k].desired <= cloud'[d][k].desired
      <4> TAKE d \in Devices, k \in Keys
      <4>1. /\ cache[d][k].reported <= cloud[d][k].reported
            /\ cache[d][k].desired <= cloud[d][k].desired
            /\ command[c].version <= cloud[e][j].desired
        BY DEF CloudLeads
      <4>2. CASE cache'[d][k] = cache[d][k]
        BY <3>1, <4>1, <4>2
      <4>3. CASE d = e /\ k = j /\ cache'[d][k] = Wanted(cache[d][k], command[c].version)
        <5>1. /\ cache'[d][k].reported = cache[d][k].reported
              /\ cache'[d][k].desired = command[c].version
          BY <4>3 DEF Wanted
        <5> QED
          BY <3>1, <4>1, <4>3, <5>1
      <4> QED
        BY <3>3, <4>2, <4>3
    <3> QED
      BY <3>1, <3>2, <3>4 DEF CloudLeads
  <2>6. CASE PutFails(c)
    <3>1. /\ UNCHANGED <<cloud, channel, cache, fetch>>
          /\ \/ command' = [command EXCEPT ![c] = Call("put", e, j, 0, TRUE)]
             \/ command' = [command EXCEPT ![c] = NoCall]
      BY <2>6 DEF PutFails, net, store
    <3>2. \A b \in Commands :
            command'[b].version <= cloud'[command'[b].device][command'[b].key].desired
      BY <2>0, <2>3, <2>4, <3>1 DEF CloudLeads, TypeOK, Call
    <3> QED
      BY <3>1, <3>2 DEF CloudLeads
  <2> QED
    BY <1>7, <2>1, <2>2, <2>5, <2>6 DEF Command
<1>8. ASSUME NEW r \in Refreshers, Refresh(r) PROVE CloudLeads'
  <2>0. \A k \in Keys : Blank[k] = [reported |-> 0, desired |-> 0]
    BY DEF Blank
  <2>1. /\ UNCHANGED <<cloud, channel, command>>
        /\ \A q \in Refreshers \ {r} : fetch'[q] = fetch[q]
        /\ \/ \A d \in Devices : fetch'[r].snap[d] = Blank
           \/ \A d \in Devices : fetch'[r].snap[d] \in {cloud[d], Blank}
    <3>1. CASE StartRefresh(r) \/ FlatFails(r) \/ RefreshFails(r)
      BY <3>1 DEF TypeOK, StartRefresh, FlatFails, RefreshFails, Goto, Ended, NoFetch, net, store
    <3>2. CASE ApplyRefresh(r)
      BY <3>2 DEF TypeOK, ApplyRefresh, NoFetch, net
    <3>3. ASSUME NEW place, NEW seen, Answer(r, place, seen)
          PROVE  /\ \A q \in Refreshers \ {r} : fetch'[q] = fetch[q]
                 /\ \A d \in Devices : fetch'[r].snap[d] \in {cloud[d], Blank}
      BY <3>3 DEF TypeOK, Answer
    <3>4. CASE ServeFlat(r, account) \/ ServeFlat(r, {}) \/ ServeTree(r)
      BY <3>3, <3>4 DEF ServeFlat, ServeTree, net, store
    <3> QED
      BY <1>8, <3>1, <3>2, <3>4 DEF Refresh
  <2>2. \A q \in Refreshers, d \in Devices, k \in Keys :
          /\ fetch'[q].snap[d][k].reported <= cloud'[d][k].reported
          /\ fetch'[q].snap[d][k].desired <= cloud'[d][k].desired
    BY <2>0, <2>1, Numbers DEF CloudLeads
  <2>3. \A d \in Devices : cache'[d] \in {cache[d], fetch[r].snap[d]}
    <3>1. CASE ApplyRefresh(r)
      BY <3>1 DEF ApplyRefresh
    <3>2. CASE ~ApplyRefresh(r)
      BY <1>8, <3>2 DEF Refresh, StartRefresh, ServeFlat, ServeTree, FlatFails,
                        RefreshFails, store
    <3> QED
      BY <3>1, <3>2
  <2>4. \A d \in Devices, k \in Keys :
          /\ cache'[d][k].reported <= cloud'[d][k].reported
          /\ cache'[d][k].desired <= cloud'[d][k].desired
    BY <2>1, <2>3 DEF CloudLeads
  <2> QED
    BY <2>1, <2>2, <2>4 DEF CloudLeads
<1>9. CASE UNCHANGED vars
  BY <1>9 DEF CloudLeads, vars
<1> QED
  BY <1>1, <1>2, <1>3, <1>4, <1>5, <1>6, <1>7, <1>8, <1>9 DEF Next, Cloud

-------------------------------------------------------------------------------
\* A patched device is taken out of what the running refreshes may claim.
LEMMA TouchLeads ==
    ASSUME TypeOK, SnapshotLeads, NEW d \in Devices, Touch(d),
           UNCHANGED <<fetch, known, overtaken>>,
           \A e \in Devices \ {d} : cache'[e] = cache[e]
    PROVE  SnapshotLeads'
<1>1. \A r \in Refreshers : fetch[r].pc \in Answered => patched'[r] = patched[r] \cup {d}
  BY DEF Touch, Answered
<1> QED
  BY <1>1 DEF SnapshotLeads

LEMMA NextSnapshotLeads ==
    ASSUME TypeOK, CloudLeads, SnapshotLeads, [Next]_vars
    PROVE  SnapshotLeads'
<1>1. CASE UNCHANGED <<fetch, known, cache, patched, overtaken>>
  BY <1>1 DEF SnapshotLeads
<1>2. CASE Deliver
  <2> DEFINE m == Head(channel)
  <2>1. m \in Messages
    BY <1>2 DEF Deliver, TypeOK
  <2>2. m.device \in Devices /\ m.key \in Keys
    BY <2>1 DEF Messages
  <2>3. CASE m.device \in known
    <3>1. Touch(m.device) /\ UNCHANGED <<fetch, known, overtaken>>
      BY <1>2, <2>3 DEF Deliver, PatchState
    <3>2. \A e \in Devices \ {m.device} : cache'[e] = cache[e]
      BY <1>2, <2>2, <2>3 DEF Deliver, PatchState, TypeOK
    <3> QED
      BY <2>2, <3>1, <3>2, TouchLeads
  <2>4. CASE m.device \notin known
    BY <1>1, <1>2, <2>4 DEF Deliver, PatchState
  <2> QED
    BY <2>3, <2>4
<1>3. ASSUME NEW c \in Commands, PutReturns(c) PROVE SnapshotLeads'
  <2> DEFINE d == command[c].device
  <2>1. d \in Devices
    BY Numbers
  <2>2. CASE d \in known
    <3>1. Touch(d) /\ UNCHANGED <<fetch, known, overtaken>>
      BY <1>3, <2>2 DEF PutReturns, history
    <3>2. \A e \in Devices \ {d} : cache'[e] = cache[e]
      BY <1>3, <2>1, <2>2 DEF PutReturns, TypeOK
    <3> QED
      BY <2>1, <3>1, <3>2, TouchLeads
  <2>3. CASE d \notin known
    BY <1>1, <1>3, <2>3 DEF PutReturns, history
  <2> QED
    BY <2>2, <2>3
<1>4. ASSUME NEW r \in Refreshers, StartRefresh(r) \/ FlatFails(r) \/ RefreshFails(r)
      PROVE  SnapshotLeads'
  <2>1. /\ \A q \in Refreshers \ {r} : fetch'[q] = fetch[q] /\ patched'[q] = patched[q]
                                       /\ (q \in overtaken' <=> q \in overtaken)
        /\ fetch'[r].pc \notin Answered
        /\ UNCHANGED <<known, cache>>
    BY <1>4 DEF TypeOK, StartRefresh, FlatFails, RefreshFails, Goto, Ended, NoFetch, Answered,
                store, history
  <2> QED
    BY <2>1 DEF SnapshotLeads
<1>5. ASSUME NEW r \in Refreshers, NEW place \in Answered, NEW seen, Answer(r, place, seen),
             UNCHANGED <<cloud, store, history>>
      PROVE  SnapshotLeads'
  <2>1. /\ \A q \in Refreshers \ {r} : fetch'[q] = fetch[q]
        /\ \A d \in Devices : d \in fetch'[r].seen => fetch'[r].snap[d] = cloud[d]
        /\ UNCHANGED <<known, cache, patched, overtaken>>
    BY <1>5 DEF TypeOK, Answer, store, history
  <2> QED
    BY <2>1 DEF SnapshotLeads, CloudLeads
<1>6. ASSUME NEW r \in Refreshers, ServeFlat(r, account) \/ ServeFlat(r, {}) \/ ServeTree(r)
      PROVE  SnapshotLeads'
  BY <1>5, <1>6 DEF ServeFlat, ServeTree, Answered
<1>7. ASSUME NEW r \in Refreshers, ApplyRefresh(r) PROVE SnapshotLeads'
  <2>1. \A q \in Refreshers : fetch'[q].pc \in Answered => q \in overtaken'
    BY <1>7 DEF TypeOK, ApplyRefresh, NoFetch, Answered
  <2> QED
    BY <2>1 DEF SnapshotLeads
<1>8. ASSUME NEW d \in Devices, NEW k \in Keys, OutsideChange(d, k) \/ DeviceApplies(d, k)
      PROVE  SnapshotLeads'
  BY <1>1, <1>8 DEF OutsideChange, DeviceApplies, store
<1>9. ASSUME NEW d \in Devices, Unpair(d) PROVE SnapshotLeads'
  BY <1>1, <1>9 DEF Unpair, store, history
<1>10. CASE Connect \/ Disconnect
  BY <1>1, <1>10 DEF Connect, Disconnect, store, history
<1>11. ASSUME NEW c \in Commands, ServePut(c) \/ PutFails(c) PROVE SnapshotLeads'
  BY <1>1, <1>11 DEF ServePut, PutFails, store, history
<1>12. ASSUME NEW c \in Commands, NEW d \in Devices, NEW k \in Keys, Send(c, d, k)
       PROVE  SnapshotLeads'
  BY <1>1, <1>12 DEF Send, store, history
<1>13. CASE UNCHANGED vars
  BY <1>1, <1>13 DEF vars
<1> QED
  BY <1>2, <1>3, <1>4, <1>6, <1>7, <1>8, <1>9, <1>10, <1>11, <1>12, <1>13
  DEF Next, Cloud, Command, Refresh

-------------------------------------------------------------------------------
LEMMA Invariance == Spec => []IInv
<1>1. IInv /\ [Next]_vars => IInv'
  BY NextTypeOK, NextCloudLeads, NextSnapshotLeads DEF IInv
<1> QED
  BY <1>1, InitIInv, PTL DEF Spec

\* Whatever refreshes, pushes and commands interleave, the cache holds typed
\* states, and states of the known devices only.
THEOREM TypeCorrect == Spec => []TypeOK
BY Invariance, PTL DEF IInv

\* Only a step of the refresh itself ends it.
LEMMA AppliedStep ==
    ASSUME TypeOK, Next, NEW r \in Refreshers, Applied(r)
    PROVE  cache' = cache \/ ApplyRefresh(r)
<1>0. fetch[r].pc \in Answered /\ fetch'[r].pc = "idle" /\ fetch'[r] # fetch[r]
  BY DEF Applied, Answered
<1>1. ASSUME NEW q \in Refreshers, Refresh(q) PROVE cache' = cache \/ ApplyRefresh(r)
  <2>1. CASE q = r
    BY <1>1, <2>1 DEF Refresh, StartRefresh, ServeFlat, ServeTree, FlatFails, RefreshFails, store
  <2>2. CASE q # r
    <3>1. fetch'[r] = fetch[r]
      BY <1>1, <2>2 DEF TypeOK, Refresh, StartRefresh, ServeFlat, ServeTree, FlatFails,
                        RefreshFails, ApplyRefresh, Goto, Answer, Ended
    <3> QED
      BY <1>0, <3>1
  <2> QED
    BY <2>1, <2>2
<1>2. CASE Cloud \/ Connect \/ Disconnect \/ Deliver
  BY <1>0, <1>2 DEF Cloud, OutsideChange, DeviceApplies, Unpair, Connect, Disconnect, Deliver
<1>3. ASSUME NEW c \in Commands, Command(c) PROVE FALSE
  BY <1>0, <1>3 DEF Command, Send, ServePut, PutReturns, PutFails
<1> QED
  BY <1>1, <1>2, <1>3 DEF Next

\* A refresh never takes back what a push or a command has shown since it
\* started, nor anything older, unless another refresh was applied meanwhile.
THEOREM RefreshKeepsNewer == Spec => NoRollback
<1>1. ASSUME IInv, [Next]_vars
      PROVE  [\A r \in Refreshers : Applied(r) /\ r \notin overtaken =>
                 \A d \in Devices, k \in Keys : ~RollsBack(d, k)]_vars
  <2> SUFFICES ASSUME Next, NEW r \in Refreshers, Applied(r), r \notin overtaken,
                      NEW d \in Devices, NEW k \in Keys, d \in known, d \in known'
               PROVE  /\ ~(cache'[d][k].reported < cache[d][k].reported)
                      /\ ~(cache'[d][k].desired < cache[d][k].desired)
    BY <1>1 DEF RollsBack
  <2> USE <1>1 DEF IInv
  <2>1. /\ cache[d][k].reported \in Nat /\ cache[d][k].desired \in Nat
        /\ fetch[r].snap[d][k].reported \in Nat /\ fetch[r].snap[d][k].desired \in Nat
    BY Numbers
  <2>2. CASE cache'[d] = cache[d]
    BY <2>1, <2>2
  <2>3. CASE ApplyRefresh(r) /\ ~Protected(r, d)
    <3>1. cache'[d] = fetch[r].snap[d] /\ fetch[r].pc \in Answered /\ d \in fetch[r].seen
      BY <2>3 DEF ApplyRefresh, Answered
    <3>2. d \notin patched[r]
      BY <2>3, <3>1 DEF Protected
    <3>3. /\ cache[d][k].reported <= fetch[r].snap[d][k].reported
          /\ cache[d][k].desired <= fetch[r].snap[d][k].desired
      BY <3>1, <3>2 DEF SnapshotLeads
    <3> QED
      BY <2>1, <3>1, <3>3
  <2>4. CASE ApplyRefresh(r) /\ Protected(r, d)
    BY <2>2, <2>4 DEF ApplyRefresh
  <2> QED
    BY <2>2, <2>3, <2>4, AppliedStep
<1> QED
  BY <1>1, Invariance, PTL DEF Spec, NoRollback

-------------------------------------------------------------------------------
(* Why the cache may be behind.                                                *)

Message(d, k, version) == [device |-> d, key |-> k, version |-> version]

\* The push that brings the cloud's value is on the way.
OnTheWay(d, k) ==
    \E i \in 1 .. Len(channel) : channel[i] = Message(d, k, cloud[d][k].reported)

\* The last push of an attribute brings the value the cloud has.
ChannelEnds ==
    /\ ~connected => channel = <<>>
    /\ \A d \in Devices, k \in Keys : \A i \in 1 .. Len(channel) :
          channel[i].device = d /\ channel[i].key = k =>
              \E j \in i .. Len(channel) : channel[j] = Message(d, k, cloud[d][k].reported)

\* A refresh that was not overtaken remembers the patches of devices that are known.
PatchedKnown ==
    \A r \in Refreshers :
        /\ fetch[r].pc = "idle" => patched[r] = {}
        /\ r \notin overtaken => patched[r] \subseteq known

Explained(d, k, version) ==
    version = cloud[d][k].reported \/ OnTheWay(d, k) \/ <<d, k>> \in missed

CacheExplained == \A d \in known, k \in Keys : Explained(d, k, cache[d][k].reported)

Claims(r, d) ==
    fetch[r].pc \in Answered /\ r \notin overtaken /\ d \in fetch[r].seen /\ d \notin patched[r]

SnapExplained ==
    \A r \in Refreshers, d \in Devices, k \in Keys :
        Claims(r, d) => Explained(d, k, fetch[r].snap[d][k].reported)

EInv == ChannelEnds /\ PatchedKnown /\ CacheExplained /\ SnapExplained

\* What is neither written nor sent stays explained.
LEMMA QuietExplained ==
    ASSUME EInv, UNCHANGED <<net, known, cache, fetch, patched, overtaken, missed>>,
           \A d \in Devices, k \in Keys : cloud'[d][k].reported = cloud[d][k].reported,
           known \subseteq Devices
    PROVE  EInv'
<1>1. UNCHANGED <<connected, channel>>
  BY DEF net
<1>2. \A d \in Devices, k \in Keys : OnTheWay(d, k)' <=> OnTheWay(d, k)
  BY <1>1 DEF OnTheWay
<1>3. ChannelEnds'
  BY <1>1 DEF EInv, ChannelEnds
<1>4. PatchedKnown'
  BY DEF EInv, PatchedKnown
<1>5. CacheExplained'
  <2> SUFFICES ASSUME NEW d \in known, NEW k \in Keys PROVE Explained(d, k, cache[d][k].reported)'
    BY DEF CacheExplained
  <2>1. d \in Devices /\ Explained(d, k, cache[d][k].reported)
    BY DEF EInv, CacheExplained
  <2> QED
    BY <1>2, <2>1 DEF Explained
<1>6. SnapExplained'
  BY <1>2 DEF EInv, SnapExplained, Explained, Claims
<1> QED
  BY <1>3, <1>4, <1>5, <1>6 DEF EInv

LEMMA ReportExplained ==
    ASSUME TypeOK, EInv, NEW d \in Devices, NEW k \in Keys, NEW version, Report(d, k, version),
           UNCHANGED <<connected, known, cache, fetch, patched, overtaken>>
    PROVE  EInv'
<1> DEFINE m == Message(d, k, version)
<1>1. /\ cloud'[d][k].reported = version
      /\ \A e \in Devices, j \in Keys :
            e # d \/ j # k => cloud'[e][j].reported = cloud[e][j].reported
  BY DEF TypeOK, Report, Settled, States
<1>2. channel \in Seq(Messages) /\ Len(channel) \in Nat
  BY DEF TypeOK
<1>3. PatchedKnown'
  BY DEF EInv, PatchedKnown
<1>4. CASE connected
  <2>1. channel' = Append(channel, m) /\ missed' = missed
    BY <1>4 DEF Report, Message
  <2>2. /\ Len(channel') = Len(channel) + 1
        /\ channel'[Len(channel) + 1] = m
        /\ \A i \in 1 .. Len(channel) : channel'[i] = channel[i]
    BY <1>2, <2>1
  <2>3. OnTheWay(d, k)'
    BY <1>1, <1>2, <2>2 DEF OnTheWay
  <2>4. \A e \in Devices, j \in Keys : OnTheWay(e, j) /\ (e # d \/ j # k) => OnTheWay(e, j)'
    BY <1>1, <1>2, <2>2 DEF OnTheWay
  <2>5. ChannelEnds'
    <3> SUFFICES ASSUME NEW e \in Devices, NEW j \in Keys, NEW i \in 1 .. Len(channel'),
                        channel'[i].device = e, channel'[i].key = j
                 PROVE  \E n \in i .. Len(channel') :
                            channel'[n] = Message(e, j, cloud'[e][j].reported)
      BY <1>4 DEF ChannelEnds
    <3>1. CASE e = d /\ j = k
      BY <1>1, <1>2, <2>2, <3>1
    <3>2. CASE e # d \/ j # k
      <4>1. i # Len(channel) + 1
        BY <2>2, <3>2 DEF Message
      <4>2. i \in 1 .. Len(channel) /\ channel[i].device = e /\ channel[i].key = j
        BY <1>2, <2>2, <4>1
      <4>3. PICK n \in i .. Len(channel) : channel[n] = Message(e, j, cloud[e][j].reported)
        BY <4>2 DEF EInv, ChannelEnds
      <4> QED
        BY <1>1, <1>2, <2>2, <3>2, <4>2, <4>3
    <3> QED
      BY <3>1, <3>2
  <2>6. CacheExplained' /\ SnapExplained'
    BY <1>1, <2>1, <2>3, <2>4 DEF EInv, CacheExplained, SnapExplained, Explained, Claims, TypeOK
  <2> QED
    BY <1>3, <2>5, <2>6 DEF EInv
<1>5. CASE ~connected
  <2>1. channel = <<>> /\ channel' = <<>> /\ missed' = missed \cup {<<d, k>>}
    BY <1>5 DEF Report, EInv, ChannelEnds
  <2>2. ChannelEnds'
    BY <2>1 DEF ChannelEnds
  <2>3. \A e \in Devices, j \in Keys : ~OnTheWay(e, j)
    BY <2>1 DEF OnTheWay
  <2>4. CacheExplained' /\ SnapExplained'
    BY <1>1, <2>1, <2>3 DEF EInv, CacheExplained, SnapExplained, Explained, Claims, TypeOK
  <2> QED
    BY <1>3, <2>2, <2>4 DEF EInv
<1> QED
  BY <1>4, <1>5

\* A push that arrives leaves the later ones on the way.
LEMMA TailEnds ==
    ASSUME TypeOK, ChannelEnds, channel # <<>>, channel' = Tail(channel),
           UNCHANGED <<connected, cloud>>
    PROVE  /\ ChannelEnds'
           /\ \A d \in Devices, k \in Keys :
                 OnTheWay(d, k) \/ (Head(channel).device = d /\ Head(channel).key = k) =>
                     OnTheWay(d, k)' \/ Head(channel) = Message(d, k, cloud[d][k].reported)
<1>1. /\ channel \in Seq(Messages) /\ Len(channel) \in Nat \ {0}
      /\ Head(channel) = channel[1] /\ Len(channel') = Len(channel) - 1
      /\ \A i \in 1 .. Len(channel') : channel'[i] = channel[i + 1]
  BY DEF TypeOK
<1>2. ChannelEnds'
  <2>1. connected' /\ cloud' = cloud
    BY DEF ChannelEnds
  <2> SUFFICES ASSUME NEW d \in Devices, NEW k \in Keys, NEW i \in 1 .. Len(channel'),
                      channel'[i].device = d, channel'[i].key = k
               PROVE  \E n \in i .. Len(channel') :
                          channel'[n] = Message(d, k, cloud'[d][k].reported)
    BY <2>1 DEF ChannelEnds
  <2>2. PICK n \in (i + 1) .. Len(channel) : channel[n] = Message(d, k, cloud[d][k].reported)
    BY <1>1 DEF ChannelEnds
  <2>3. n - 1 \in i .. Len(channel') /\ channel'[n - 1] = channel[n]
    BY <1>1, <2>2
  <2> QED
    BY <2>2, <2>3
<1>3. ASSUME NEW d \in Devices, NEW k \in Keys,
             OnTheWay(d, k) \/ (Head(channel).device = d /\ Head(channel).key = k)
      PROVE  OnTheWay(d, k)' \/ Head(channel) = Message(d, k, cloud[d][k].reported)
  <2>1. PICK n \in 1 .. Len(channel) : channel[n] = Message(d, k, cloud[d][k].reported)
    BY <1>1, <1>3 DEF OnTheWay, ChannelEnds
  <2>2. CASE n = 1
    BY <1>1, <2>1, <2>2
  <2>3. CASE n # 1
    <3>1. n - 1 \in 1 .. Len(channel') /\ channel'[n - 1] = channel[n]
      BY <1>1, <2>3
    <3> QED
      BY <2>1, <3>1 DEF OnTheWay
  <2> QED
    BY <2>2, <2>3
<1> QED
  BY <1>2, <1>3

LEMMA DeliverExplained == ASSUME IInv, EInv, Deliver PROVE EInv'
<1> DEFINE m == Head(channel)
<1>0. TypeOK /\ CloudLeads /\ SnapshotLeads
  BY DEF IInv
<1>1. m \in Messages /\ m.device \in Devices /\ m.key \in Keys /\ m.version \in Nat
  <2>1. m \in Messages
    BY <1>0 DEF Deliver, TypeOK
  <2> QED
    BY <2>1, MaxVersionAssumption DEF Messages, Versions
<1>2. /\ channel # <<>> /\ channel' = Tail(channel)
      /\ UNCHANGED <<cloud, connected, known, fetch, overtaken>>
      /\ PatchState(m)
  BY DEF Deliver
<1>3. /\ ChannelEnds'
      /\ \A d \in Devices, k \in Keys :
            OnTheWay(d, k) \/ (m.device = d /\ m.key = k) =>
                OnTheWay(d, k)' \/ m = Message(d, k, cloud[d][k].reported)
  BY <1>0, <1>2, TailEnds DEF EInv
<1>4. \A d \in Devices, k \in Keys :
        OnTheWay(d, k) /\ (d # m.device \/ k # m.key) => OnTheWay(d, k)'
  BY <1>3 DEF Message
<1>5. CASE m.device \in known
  <2>1. /\ cache' = [cache EXCEPT ![m.device][m.key] = Settled(m.version)]
        /\ Touch(m.device) /\ missed' = StillStale(missed)
    BY <1>2, <1>5 DEF PatchState
  <2>2. /\ cache'[m.device][m.key].reported = m.version
        /\ \A d \in Devices, k \in Keys : d # m.device \/ k # m.key => cache'[d][k] = cache[d][k]
    BY <1>0, <1>1, <2>1 DEF TypeOK, States, Settled
  <2>3. \A d \in Devices, k \in Keys :
          <<d, k>> \in missed /\ cache'[d][k].reported # cloud[d][k].reported =>
              <<d, k>> \in missed'
    BY <1>2, <2>1 DEF StillStale
  <2>4. PatchedKnown'
    BY <1>2, <1>5, <2>1 DEF EInv, PatchedKnown, Touch
  <2>5. CacheExplained'
    <3> SUFFICES ASSUME NEW d \in known, NEW k \in Keys PROVE Explained(d, k, cache[d][k].reported)'
      BY <1>2 DEF CacheExplained
    <3>1. d \in Devices
      BY <1>0 DEF TypeOK
    <3>2. CASE d = m.device /\ k = m.key
      BY <1>2, <1>3, <2>2, <3>1, <3>2 DEF Explained, Message
    <3>3. CASE d # m.device \/ k # m.key
      BY <1>2, <1>4, <2>2, <2>3, <3>1, <3>3 DEF EInv, CacheExplained, Explained
    <3> QED
      BY <3>2, <3>3
  <2>6. SnapExplained'
    <3> SUFFICES ASSUME NEW r \in Refreshers, NEW d \in Devices, NEW k \in Keys, Claims(r, d)'
                 PROVE  Explained(d, k, fetch[r].snap[d][k].reported)'
      BY DEF SnapExplained
    <3>1. Claims(r, d) /\ d # m.device
      BY <1>2, <2>1 DEF Claims, Touch, Answered
    <3>2. Explained(d, k, fetch[r].snap[d][k].reported)
      BY <3>1 DEF EInv, SnapExplained
    <3>3. /\ cache[d][k].reported \in Nat /\ cloud[d][k].reported \in Nat
          /\ fetch[r].snap[d][k].reported \in Nat
      BY <1>0, Numbers
    <3>4. fetch[r].snap[d][k].reported <= cloud[d][k].reported
      BY <1>0 DEF CloudLeads
    <3>5. cache[d][k].reported <= fetch[r].snap[d][k].reported
      <4>1. CASE d \in known
        BY <1>0, <3>1, <4>1 DEF SnapshotLeads, Claims
      <4>2. CASE d \notin known
        <5>1. cache[d][k].reported = 0
          BY <1>0, <4>2 DEF TypeOK, Blank
        <5> QED
          BY <3>3, <5>1
      <4> QED
        BY <4>1, <4>2
    <3>6. CASE cache[d][k].reported = cloud[d][k].reported
      <4>1. fetch[r].snap[d][k].reported = cloud[d][k].reported
        BY <3>3, <3>4, <3>5, <3>6
      <4> QED
        BY <1>2, <4>1 DEF Explained
    <3>7. CASE cache[d][k].reported # cloud[d][k].reported
      BY <1>2, <1>4, <2>2, <2>3, <3>1, <3>2, <3>7 DEF Explained
    <3> QED
      BY <3>6, <3>7
  <2> QED
    BY <1>3, <2>4, <2>5, <2>6 DEF EInv
<1>6. CASE m.device \notin known
  <2>1. UNCHANGED <<cache, patched>> /\ missed' = missed \cup {<<m.device, m.key>>}
    BY <1>2, <1>6 DEF PatchState
  <2>2. \A d \in Devices, k \in Keys : \A v :
          Explained(d, k, v) => v = cloud'[d][k].reported \/ OnTheWay(d, k)' \/ <<d, k>> \in missed'
    BY <1>2, <1>4, <2>1 DEF Explained
  <2>3. PatchedKnown'
    BY <1>2, <2>1 DEF EInv, PatchedKnown
  <2>4. CacheExplained'
    <3> SUFFICES ASSUME NEW d \in known, NEW k \in Keys
                 PROVE  Explained(d, k, cache[d][k].reported)'
      BY <1>2 DEF CacheExplained
    <3>1. d \in Devices /\ Explained(d, k, cache[d][k].reported)
      BY <1>0 DEF EInv, CacheExplained, TypeOK
    <3> QED
      BY <2>1, <2>2, <3>1 DEF Explained
  <2>5. SnapExplained'
    BY <1>2, <2>1, <2>2 DEF EInv, SnapExplained, Claims, Explained
  <2> QED
    BY <1>3, <2>3, <2>4, <2>5 DEF EInv
<1> QED
  BY <1>5, <1>6

LEMMA DisconnectExplained == ASSUME TypeOK, EInv, Disconnect PROVE EInv'
<1>1. /\ ~connected' /\ channel' = <<>>
      /\ UNCHANGED <<cloud, known, cache, fetch, patched, overtaken>>
      /\ missed' = missed \cup {<<channel[i].device, channel[i].key>> : i \in 1 .. Len(channel)}
  BY DEF Disconnect, store
<1>2. \A d \in Devices, k \in Keys : OnTheWay(d, k) \/ <<d, k>> \in missed => <<d, k>> \in missed'
  BY <1>1 DEF OnTheWay, Message
<1>3. ChannelEnds'
  BY <1>1 DEF ChannelEnds
<1>4. PatchedKnown'
  BY <1>1 DEF EInv, PatchedKnown
<1>5. CacheExplained'
  <2> SUFFICES ASSUME NEW d \in known, NEW k \in Keys PROVE Explained(d, k, cache[d][k].reported)'
    BY <1>1 DEF CacheExplained
  <2>1. d \in Devices /\ Explained(d, k, cache[d][k].reported)
    BY DEF EInv, CacheExplained, TypeOK
  <2> QED
    BY <1>1, <1>2, <2>1 DEF Explained
<1>6. SnapExplained'
  BY <1>1, <1>2 DEF EInv, SnapExplained, Claims, Explained
<1> QED
  BY <1>3, <1>4, <1>5, <1>6 DEF EInv

\* A command's answer changes the wanted value only, and takes the device out of what
\* the running refreshes claim.
LEMMA PutReturnsExplained == ASSUME TypeOK, EInv, NEW c \in Commands, PutReturns(c) PROVE EInv'
<1> DEFINE d == command[c].device
           k == command[c].key
<1>1. d \in Devices /\ k \in Keys
  BY Numbers
<1>2. /\ UNCHANGED <<cloud, connected, channel, known, fetch, overtaken, missed>>
      /\ IF d \in known
         THEN cache' = [cache EXCEPT ![d][k] = Wanted(@, command[c].version)] /\ Touch(d)
         ELSE UNCHANGED <<cache, patched>>
  BY DEF PutReturns, net, history
<1>3. \A e \in Devices, j \in Keys : cache'[e][j].reported = cache[e][j].reported
  <2>1. CASE d \in known
    <3> DEFINE new == Wanted(cache[d][k], command[c].version)
    <3>1. cache' = [cache EXCEPT ![d] = [cache[d] EXCEPT ![k] = new]]
      BY <1>2, <2>1
    <3>2. cache'[d] = [cache[d] EXCEPT ![k] = new]
      BY <1>1, <3>1 DEF TypeOK
    <3>3. \A e \in Devices \ {d} : cache'[e] = cache[e]
      BY <3>1 DEF TypeOK
    <3>4. cache'[d][k].reported = cache[d][k].reported
      BY <1>1, <3>2 DEF TypeOK, States, Wanted
    <3>5. \A j \in Keys \ {k} : cache'[d][j] = cache[d][j]
      BY <1>1, <3>2 DEF TypeOK, States
    <3> QED
      BY <3>3, <3>4, <3>5
  <2>2. CASE d \notin known
    BY <1>2, <2>2
  <2> QED
    BY <2>1, <2>2
<1>4. \A e \in Devices, j \in Keys : \A v : Explained(e, j, v) =>
        v = cloud'[e][j].reported \/ OnTheWay(e, j)' \/ <<e, j>> \in missed'
  BY <1>2 DEF Explained, OnTheWay
<1>5. ChannelEnds'
  BY <1>2 DEF EInv, ChannelEnds
<1>6. PatchedKnown'
  BY <1>2 DEF EInv, PatchedKnown, Touch
<1>7. CacheExplained'
  <2> SUFFICES ASSUME NEW e \in known, NEW j \in Keys PROVE Explained(e, j, cache[e][j].reported)'
    BY <1>2 DEF CacheExplained
  <2>1. e \in Devices /\ Explained(e, j, cache[e][j].reported)
    BY DEF EInv, CacheExplained, TypeOK
  <2> QED
    BY <1>3, <1>4, <2>1 DEF Explained
<1>8. SnapExplained'
  <2> SUFFICES ASSUME NEW r \in Refreshers, NEW e \in Devices, NEW j \in Keys, Claims(r, e)'
               PROVE  Explained(e, j, fetch[r].snap[e][j].reported)'
    BY DEF SnapExplained
  <2>1. Claims(r, e)
    BY <1>2 DEF Claims, Touch
  <2>2. Explained(e, j, fetch[r].snap[e][j].reported)
    BY <2>1 DEF EInv, SnapExplained
  <2> QED
    BY <1>2, <1>4, <2>2 DEF Explained
<1> QED
  BY <1>5, <1>6, <1>7, <1>8 DEF EInv

\* The steps of a refresh before its end: only an answer lets it claim anything, and
\* that is what the cloud has.
LEMMA AskingExplained ==
    ASSUME TypeOK, EInv, NEW r \in Refreshers,
           \/ StartRefresh(r) \/ ServeFlat(r, account) \/ ServeFlat(r, {}) \/ ServeTree(r)
           \/ FlatFails(r) \/ RefreshFails(r)
    PROVE  EInv'
<1>1. UNCHANGED <<cloud, connected, channel, known, cache, missed>>
  BY DEF StartRefresh, ServeFlat, ServeTree, FlatFails, RefreshFails, net, store, history
<1>2. \A q \in Refreshers \ {r} : /\ fetch'[q] = fetch[q] /\ patched'[q] = patched[q]
                                  /\ q \in overtaken' <=> q \in overtaken
  BY DEF TypeOK, StartRefresh, ServeFlat, ServeTree, FlatFails, RefreshFails, Goto, Answer, Ended,
     store, history
<1>3. \A e \in Devices, j \in Keys : \A v : Explained(e, j, v) <=> Explained(e, j, v)'
  BY <1>1 DEF Explained, OnTheWay
<1>4. ChannelEnds'
  BY <1>1 DEF EInv, ChannelEnds
<1>5. CacheExplained'
  BY <1>1, <1>3 DEF EInv, CacheExplained, TypeOK
<1>6. CASE StartRefresh(r) \/ FlatFails(r)
  <2>1. fetch'[r].pc \in {"flat", "tree"} /\ UNCHANGED <<patched, overtaken>>
    BY <1>6 DEF TypeOK, StartRefresh, FlatFails, Goto, NoFetch, store, history
  <2>2. PatchedKnown'
    BY <1>1, <1>2, <2>1 DEF EInv, PatchedKnown
  <2>3. SnapExplained'
    BY <1>2, <1>3, <2>1 DEF EInv, SnapExplained, Claims, Answered
  <2> QED
    BY <1>4, <1>5, <2>2, <2>3 DEF EInv
<1>7. CASE RefreshFails(r)
  <2>1. fetch'[r].pc = "idle" /\ patched'[r] = {}
    BY <1>7 DEF TypeOK, RefreshFails, Ended, NoFetch
  <2>2. PatchedKnown'
    BY <1>1, <1>2, <2>1 DEF EInv, PatchedKnown
  <2>3. SnapExplained'
    BY <1>2, <1>3, <2>1 DEF EInv, SnapExplained, Claims, Answered
  <2> QED
    BY <1>4, <1>5, <2>2, <2>3 DEF EInv
<1>8. CASE ServeFlat(r, account) \/ ServeFlat(r, {}) \/ ServeTree(r)
  <2>1. /\ fetch'[r].pc \in Answered /\ UNCHANGED <<patched, overtaken>>
        /\ \A d \in fetch'[r].seen \cap Devices : fetch'[r].snap[d] = cloud[d]
    BY <1>8 DEF TypeOK, ServeFlat, ServeTree, Answer, Answered, store, history
  <2>2. PatchedKnown'
    BY <1>1, <1>2, <2>1 DEF EInv, PatchedKnown, Answered
  <2>3. SnapExplained'
    <3> SUFFICES ASSUME NEW q \in Refreshers, NEW d \in Devices, NEW k \in Keys, Claims(q, d)'
                 PROVE  Explained(d, k, fetch[q].snap[d][k].reported)'
      BY DEF SnapExplained
    <3>1. CASE q = r
      BY <1>1, <2>1, <3>1 DEF Claims, Explained
    <3>2. CASE q # r
      BY <1>2, <1>3, <2>1, <3>2 DEF EInv, SnapExplained, Claims
    <3> QED
      BY <3>1, <3>2
  <2> QED
    BY <1>4, <1>5, <2>2, <2>3 DEF EInv
<1> QED
  BY <1>6, <1>7, <1>8

\* A snapshot replaces the cache: what is behind was behind before, or was claimed by a
\* refresh nobody overtook, or counts as lost with the overtaken one.
LEMMA ApplyExplained ==
    ASSUME TypeOK, EInv, NEW r \in Refreshers, ApplyRefresh(r) PROVE EInv'
<1>1. /\ UNCHANGED <<cloud, connected, channel>>
      /\ fetch[r].pc \in Answered /\ known' = fetch[r].seen
      /\ \A d \in Devices :
            cache'[d] = IF Protected(r, d) THEN cache[d] ELSE fetch[r].snap[d]
      /\ missed' = StillStale(IF r \in overtaken THEN Attributes ELSE missed)
  BY DEF ApplyRefresh, net, Answered
<1>2. fetch[r].seen \subseteq Devices
  BY DEF TypeOK, Fetches
<1>3. \A d \in Devices, k \in Keys :
        /\ <<d, k>> \in (IF r \in overtaken THEN Attributes ELSE missed)
        /\ cache'[d][k].reported # cloud[d][k].reported
        => <<d, k>> \in missed'
  BY <1>1 DEF StillStale
<1>4. ChannelEnds'
  BY <1>1 DEF EInv, ChannelEnds
<1>5. PatchedKnown'
  BY <1>1 DEF EInv, PatchedKnown, ApplyRefresh, TypeOK, NoFetch
<1>6. SnapExplained'
  <2>1. \A q \in Refreshers : fetch'[q].pc \in Answered => q \in overtaken'
    BY DEF TypeOK, ApplyRefresh, NoFetch, Answered
  <2> QED
    BY <2>1 DEF SnapExplained, Claims
<1>7. CacheExplained'
  <2> SUFFICES ASSUME NEW d \in fetch[r].seen, NEW k \in Keys,
                      cache'[d][k].reported # cloud[d][k].reported
               PROVE  OnTheWay(d, k)' \/ <<d, k>> \in missed'
    <3> SUFFICES ASSUME NEW d \in known', NEW k \in Keys
                 PROVE  Explained(d, k, cache[d][k].reported)'
      BY DEF CacheExplained
    <3> QED
      BY <1>1 DEF Explained
  <2>1. d \in Devices
    BY <1>2
  <2>2. CASE r \in overtaken
    BY <1>3, <2>1, <2>2 DEF Attributes
  <2>3. CASE r \notin overtaken
    <3>1. patched[r] \subseteq known
      BY <2>3 DEF EInv, PatchedKnown
    <3>2. OnTheWay(d, k) \/ <<d, k>> \in missed
      <4>1. CASE d \in patched[r]
        <5>1. d \in known /\ cache'[d] = cache[d]
          BY <1>1, <2>1, <3>1, <4>1 DEF Protected
        <5> QED
          BY <5>1 DEF EInv, CacheExplained, Explained
      <4>2. CASE d \notin patched[r]
        <5>1. cache'[d] = fetch[r].snap[d] /\ Claims(r, d)
          BY <1>1, <2>1, <2>3, <4>2 DEF Protected, Claims
        <5> QED
          BY <2>1, <5>1 DEF EInv, SnapExplained, Explained
      <4> QED
        BY <4>1, <4>2
    <3>3. OnTheWay(d, k)' <=> OnTheWay(d, k)
      BY <1>1 DEF OnTheWay
    <3> QED
      BY <1>3, <2>1, <2>3, <3>2, <3>3
  <2> QED
    BY <2>2, <2>3
<1> QED
  BY <1>4, <1>5, <1>6, <1>7 DEF EInv

LEMMA NextExplained == IInv /\ EInv /\ [Next]_vars => EInv'
<1> SUFFICES ASSUME IInv, EInv, [Next]_vars PROVE EInv'
  OBVIOUS
<1>0. TypeOK /\ known \subseteq Devices
  BY DEF IInv, TypeOK
<1>1. ASSUME NEW d \in Devices, NEW k \in Keys, OutsideChange(d, k) \/ DeviceApplies(d, k)
      PROVE  EInv'
  BY <1>0, <1>1, ReportExplained DEF OutsideChange, DeviceApplies, store
<1>2. ASSUME NEW c \in Commands, Command(c) PROVE EInv'
  <2>1. CASE PutReturns(c)
    BY <1>0, <2>1, PutReturnsExplained
  <2>2. CASE ServePut(c)
    <3>1. \A d \in Devices, k \in Keys : cloud'[d][k].reported = cloud[d][k].reported
      BY <1>0, <2>2, Numbers DEF ServePut, TypeOK, States, Wanted
    <3> QED
      BY <1>0, <2>2, <3>1, QuietExplained DEF ServePut, store, history
  <2>3. CASE PutFails(c) \/ \E d \in Devices, k \in Keys : Send(c, d, k)
    BY <1>0, <2>3, QuietExplained DEF PutFails, Send, store, history
  <2> QED
    BY <1>2, <2>1, <2>2, <2>3 DEF Command
<1>3. ASSUME NEW r \in Refreshers, Refresh(r) PROVE EInv'
  BY <1>0, <1>3, AskingExplained, ApplyExplained DEF Refresh
<1>4. CASE Deliver
  BY <1>4, DeliverExplained
<1>5. CASE Disconnect
  BY <1>0, <1>5, DisconnectExplained
<1>6. CASE Connect
  <2>1. /\ connected'
        /\ UNCHANGED <<cloud, channel, known, cache, fetch, patched, overtaken, missed>>
    BY <1>6 DEF Connect, store, history
  <2>2. \A d \in Devices, k \in Keys : \A v : Explained(d, k, v) <=> Explained(d, k, v)'
    BY <2>1 DEF Explained, OnTheWay
  <2> QED
    BY <1>0, <2>1, <2>2 DEF EInv, ChannelEnds, PatchedKnown, CacheExplained, SnapExplained, Claims
<1>7. ASSUME NEW d \in Devices, Unpair(d) PROVE EInv'
  BY <1>0, <1>7, QuietExplained DEF Unpair, store, history
<1>8. CASE UNCHANGED vars
  BY <1>0, <1>8, QuietExplained DEF vars, net
<1> QED
  BY <1>1, <1>2, <1>3, <1>4, <1>5, <1>6, <1>7, <1>8 DEF Next, Cloud

\* The cache is behind the cloud only while the push that corrects it is on the way, or after
\* it was lost: no order of pushes, patches and refreshes loses one
\* (_protect_fresh_local_state() in aiosber/service/device_service.py).
THEOREM StaleForCause == Spec => []StalenessExplained
<1>1. Init => EInv
  <2> SUFFICES ASSUME Init PROVE EInv
    OBVIOUS
  <2>1. ChannelEnds
    BY DEF Init, ChannelEnds
  <2>2. PatchedKnown /\ CacheExplained /\ SnapExplained
    BY DEF Init, PatchedKnown, CacheExplained, SnapExplained, Claims, NoFetch, Answered
  <2> QED
    BY <2>1, <2>2 DEF EInv
<1>2. ASSUME EInv PROVE StalenessExplained
  <2>1. \A d \in known, k \in Keys :
          \/ cache[d][k].reported = cloud[d][k].reported
          \/ OnTheWay(d, k)
          \/ <<d, k>> \in missed
    BY <1>2 DEF EInv, CacheExplained, Explained
  <2> SUFFICES ASSUME NEW d \in known \cap account, NEW k \in Keys
               PROVE  \/ cache[d][k].reported = cloud[d][k].reported
                      \/ \E i \in 1 .. Len(channel) :
                            channel[i] = [device |-> d, key |-> k,
                                          version |-> cloud[d][k].reported]
                      \/ <<d, k>> \in missed
    BY Zenon DEF StalenessExplained
  <2> QED
    BY <2>1 DEF OnTheWay, Message
<1> QED
  BY <1>1, <1>2, Invariance, NextExplained, PTL DEF Spec

===============================================================================
