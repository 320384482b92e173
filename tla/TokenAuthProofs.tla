--------------------------- MODULE TokenAuthProofs ---------------------------
(***************************************************************************)
(* Proofs about TokenAuth: its type invariant, the exclusion that one lock *)
(* gives both flights, and from it the two promises about the one-shot     *)
(* refresh token, for any number of callers on either channel.             *)
(***************************************************************************)
EXTENDS TokenAuth, TLAPS

Refreshing == {"rotate", "rotated", "exchange"}

\* A caller on a request of a refresh holds the lock, with its flight's error
\* cleared.
HolderInv ==
    \A c \in Callers : pc[c] \in Refreshing =>
        lock = c /\ lastError[Channel[c]] = "none"

\* The rotation on the wire carries the token in memory, and an accepted one
\* made the next token the newest.
WireInv ==
    \A c \in Callers :
        /\ pc[c] = "rotate" => req[c].wire = sberid
        /\ pc[c] = "rotated" => req[c].wire = sberid /\ newest = sberid + 1

\* Memory and disk hold the newest token, unless its arrival is pending or lost.
OwnerInv ==
    /\ disk.sberid = sberid
    /\ lost \/ sberid = newest \/ \E c \in Callers : pc[c] = "rotated"

\* A flight that has not been refused has no refusal on record.
RefusalInv ==
    \A f \in Flights :
        /\ refused[f] <= 1
        /\ lastError[f] # "grant" => refused[f] = 0

IInv == TypeOK /\ HolderInv /\ WireInv /\ OwnerInv /\ RefusalInv /\ NoSpuriousReauth

-------------------------------------------------------------------------------
\* The request of a caller stays a request, whichever way it leaves a step.
LocalsType == pc \in [Callers -> Places] /\ req \in [Callers -> Requests]

LEMMA NoRequestType == NoRequest \in Requests
BY MaxTokenAssumption DEF NoRequest, Requests, Tokens

LEMMA ReturnType ==
    ASSUME LocalsType, NEW c \in Callers, Return(c)
    PROVE  LocalsType'
BY NoRequestType DEF LocalsType, Return, Goto, Places

LEMMA OutsideType ==
    ASSUME LocalsType, NEW c \in Callers, NEW token \in Tokens
    PROVE  Outside(c, token) \in Requests
BY MaxTokenAssumption DEF LocalsType, Outside, Requests, Tokens

LEMMA SendType ==
    ASSUME LocalsType, NEW c \in Callers, NEW token \in Tokens, Send(c, token)
    PROVE  LocalsType'
BY OutsideType DEF LocalsType, Send, Goto, Places

LEMMA ResumeType ==
    ASSUME LocalsType, NEW c \in Callers, NEW token \in Tokens, Resume(c, token)
    PROVE  LocalsType'
<1>1. 0 \in Tokens
  BY MaxTokenAssumption DEF Tokens
<1>2. Outside(c, 0) \in Requests
  BY <1>1, OutsideType
<1> QED
  BY <1>2, SendType DEF LocalsType, Resume, Goto, Places

LEMMA RotateType ==
    ASSUME LocalsType, sberid \in Tokens, NEW c \in Callers, NEW again \in BOOLEAN, Rotate(c, again)
    PROVE  LocalsType'
<1>1. 0 \in Tokens
  BY MaxTokenAssumption DEF Tokens
<1>2. [req[c] EXCEPT !.used = 0, !.wire = sberid, !.renewed = again] \in Requests
  BY <1>1 DEF LocalsType, Requests
<1>3. req' = [req EXCEPT ![c] = [req[c] EXCEPT !.used = 0, !.wire = sberid, !.renewed = again]]
  BY DEF Rotate, LocalsType, Requests
<1> QED
  BY <1>2, <1>3 DEF LocalsType, Rotate, Goto, Places

LEMMA InitIInv == Init => IInv
<1> SUFFICES ASSUME Init PROVE IInv
  OBVIOUS
<1> USE NoCallerAssumption, ChannelAssumption, MaxTokenAssumption DEF Init, SFInit
<1>1. TypeOK
  <2>1. req \in [Callers -> Requests]
    BY NoRequestType
  <2>2. disk \in [sberid : Tokens \ {0}, companion : Tokens]
    BY DEF Tokens
  <2>3. SFTypeOK
    BY DEF SFTypeOK, ErrorKinds
  <2>4. /\ newest \in Tokens \ {0} /\ issued \in Tokens
        /\ sberid \in Tokens \ {0} /\ companion \in Tokens
    BY DEF Tokens
  <2>5. pc \in [Callers -> Places]
    BY DEF Places
  <2>6. refused \in [Flights -> 0 .. 2]
    OBVIOUS
  <2>7. expired \in [Flights -> SUBSET Tokens] /\ rejected \in [Flights -> SUBSET Tokens]
    OBVIOUS
  <2>8. granted \in BOOLEAN /\ loaded \in BOOLEAN /\ lost \in BOOLEAN
    OBVIOUS
  <2> QED
    BY ONLY <2>1, <2>2, <2>3, <2>4, <2>5, <2>6, <2>7, <2>8 DEF TypeOK
<1>2. HolderInv /\ WireInv /\ OwnerInv /\ RefusalInv /\ NoSpuriousReauth
  BY DEF HolderInv, WireInv, OwnerInv, RefusalInv, NoSpuriousReauth, Refreshing
<1> QED
  BY <1>1, <1>2 DEF IInv

\* The token a caller is handed is one of the tokens.
LEMMA CurrentType ==
    ASSUME TypeOK, NEW f \in Flights
    PROVE  Current(f) \in Tokens
BY DEF TypeOK, Current, Loaded

LEMMA ReplacedType ==
    ASSUME TypeOK, NEW f \in Flights, Replaced(f)
    PROVE  expired' \in [Flights -> SUBSET Tokens] /\ rejected' \in [Flights -> SUBSET Tokens]
BY DEF TypeOK, Replaced

LEMMA NewProcessType ==
    ASSUME NEW data \in [sberid : Tokens \ {0}, companion : Tokens], NewProcess(data)
    PROVE  /\ SFTypeOK' /\ LocalsType'
           /\ disk' \in [sberid : Tokens \ {0}, companion : Tokens]
           /\ sberid' \in Tokens \ {0} /\ companion' \in Tokens /\ loaded' \in BOOLEAN
           /\ refused' \in [Flights -> 0 .. 2]
<1>1. SFTypeOK'
  BY DEF NewProcess, SFTypeOK, ErrorKinds
<1>2. LocalsType'
  BY NoRequestType DEF NewProcess, LocalsType, Places
<1>3. 0 \in Tokens
  BY MaxTokenAssumption DEF Tokens
<1>4. refused' = [f \in Flights |-> 0] /\ 0 \in 0 .. 2
  BY DEF NewProcess
<1>5. refused' \in [Flights -> 0 .. 2]
  BY <1>4
<1> QED
  BY <1>1, <1>2, <1>3, <1>5 DEF NewProcess

\* Every action keeps the types; the two facts about the rotation bound the
\* token that an answer brings.
LEMMA NextTypeOK ==
    ASSUME TypeOK, WireInv, Next
    PROVE  TypeOK'
<1> USE NoCallerAssumption, ChannelAssumption, MaxTokenAssumption, CodesAssumption
    DEF Tokens
<1>2. ASSUME NEW c \in Callers, AccessToken(c) PROVE TypeOK'
  <2>1. Current(Channel[c]) \in Tokens /\ Loaded \in Tokens
    BY CurrentType DEF TypeOK, Loaded
  <2>2. LocalsType'
    <3>1. CASE Send(c, Current(Channel[c]))
      BY <2>1, <3>1, SendType DEF TypeOK, LocalsType
    <3>2. CASE Goto(c, "queued") /\ req' = [req EXCEPT ![c].why = "access"]
      BY <3>2 DEF TypeOK, LocalsType, Goto, Places, Requests
    <3> QED
      BY <1>2, <3>1, <3>2 DEF AccessToken
  <2>3. lock' = lock /\ lastError' = lastError /\ missed' \subseteq missed
    BY <1>2 DEF AccessToken, Queue
  <2>4. UNCHANGED <<sberVars, sberid, disk, history>>
    BY <1>2 DEF AccessToken
  <2>5. companion' \in Tokens /\ loaded' \in BOOLEAN
    BY <1>2, <2>1 DEF AccessToken, TypeOK
  <2> QED
    BY <2>2, <2>3, <2>4, <2>5 DEF TypeOK, SFTypeOK, LocalsType, sberVars, history
<1>3. ASSUME NEW c \in Callers, EnterLock(c) PROVE TypeOK'
  <2>1. Channel[c] \in Flights /\ Current(Channel[c]) \in Tokens
    BY CurrentType
  <2>2. LocalsType'
    <3>1. CASE SkipRefresh(c)
      BY <2>1, <3>1, ResumeType DEF SkipRefresh, TypeOK, LocalsType
    <3>2. CASE ShareFailure(c)
      BY <3>2, ReturnType DEF ShareFailure, TypeOK, LocalsType
    <3>3. CASE BeginRefresh(c)
      <4>1. CASE Goto(c, "exchange") /\ req' = [req EXCEPT ![c].used = 0]
        BY <4>1 DEF TypeOK, LocalsType, Goto, Places, Requests
      <4>2. CASE Rotate(c, FALSE)
        BY <4>2, RotateType DEF TypeOK, LocalsType
      <4> QED
        BY <3>3, <4>1, <4>2 DEF BeginRefresh
    <3> QED
      BY <1>3, <3>1, <3>2, <3>3 DEF EnterLock
  <2>3. SFTypeOK'
    <3>1. CASE SkipRefresh(c)
      BY <3>1 DEF SkipRefresh, Leave, TypeOK, SFTypeOK
    <3>2. CASE ShareFailure(c)
      BY <3>2 DEF ShareFailure, Leave, TypeOK, SFTypeOK
    <3>3. CASE BeginRefresh(c)
      BY <2>1, <3>3 DEF BeginRefresh, BeginAttempt, TypeOK, SFTypeOK, ErrorKinds
    <3> QED
      BY <1>3, <3>1, <3>2, <3>3 DEF EnterLock
  <2>4. UNCHANGED <<sberVars, tokenVars, history>>
    BY <1>3 DEF EnterLock, SkipRefresh, ShareFailure, BeginRefresh
  <2> QED
    BY <2>2, <2>3, <2>4 DEF TypeOK, LocalsType, sberVars, tokenVars, history
<1>4. ASSUME NEW c \in Callers, Answer(c) PROVE TypeOK'
  <2>1. Channel[c] \in Flights /\ Waiting(Channel[c]) \subseteq Callers
    BY DEF Waiting
  <2>a. ASSUME NEW error \in ErrorKinds, Fail(c, error) PROVE LocalsType' /\ SFTypeOK'
    BY <2>1, <2>a, ReturnType DEF Fail, EndAttempt, TypeOK, SFTypeOK, LocalsType
  <2>b. ASSUME NEW token \in Tokens, Succeed(c, token) PROVE LocalsType' /\ SFTypeOK'
    BY <2>1, <2>b, ResumeType DEF Succeed, EndAttempt, TypeOK, SFTypeOK, LocalsType, ErrorKinds
  <2>2. CASE ServeRotation(c)
    BY <2>1, <2>2 DEF TypeOK, SFTypeOK, ServeRotation, Goto, Places, sfVars, tokenVars, history
  <2>3. CASE RotationArrives(c)
    <3> DEFINE token == req[c].wire + 1
    <3>1. token \in Tokens \ {0}
      BY <2>3 DEF RotationArrives, WireInv, TypeOK
    <3>2. sberid' = token /\ disk' = [disk EXCEPT !.sberid = token]
      BY <2>3 DEF RotationArrives, SaveSberId
    <3>3. LocalsType' /\ SFTypeOK'
      <4>1. CASE Succeed(c, token)
        BY <2>b, <3>1, <4>1
      <4>2. CASE /\ Goto(c, "exchange") /\ UNCHANGED sfVars
                 /\ req' = [req EXCEPT ![c].wire = 0]
        BY <4>2 DEF TypeOK, LocalsType, SFTypeOK, sfVars, Goto, Places, Requests
      <4> QED
        BY <2>3, <4>1, <4>2 DEF RotationArrives
    <3>4. UNCHANGED <<newest, granted, issued, companion, loaded, lost, refused>>
      BY <2>3 DEF RotationArrives
    <3>6. expired' \in [Flights -> SUBSET Tokens] /\ rejected' \in [Flights -> SUBSET Tokens]
      BY <2>3, ReplacedType DEF RotationArrives
    <3>5. disk' \in [sberid : Tokens \ {0}, companion : Tokens]
      BY <3>1, <3>2 DEF TypeOK
    <3> HIDE DEF token
    <3> QED
      BY <3>1, <3>2, <3>3, <3>4, <3>5, <3>6 DEF TypeOK, LocalsType
  <2>4. CASE RotationRefused(c)
    <3>1. LocalsType' /\ SFTypeOK'
      BY <2>a, <2>4 DEF RotationRefused, ErrorKinds
    <3>2. refused' \in [Flights -> 0 .. 2]
      BY <2>1, <2>4 DEF RotationRefused, TypeOK
    <3>3. UNCHANGED <<sberVars, tokenVars, lost, rejected>>
      BY <2>4 DEF RotationRefused
    <3> QED
      BY <3>1, <3>2, <3>3 DEF TypeOK, LocalsType, sberVars, tokenVars
  <2>5. CASE RotationFails(c)
    <3>1. LocalsType' /\ SFTypeOK'
      BY <2>a, <2>5 DEF RotationFails, ErrorKinds
    <3>2. UNCHANGED <<sberVars, tokenVars, rejected, refused>> /\ lost' \in BOOLEAN
      BY <2>5 DEF RotationFails, TypeOK
    <3> QED
      BY <3>1, <3>2 DEF TypeOK, LocalsType, sberVars, tokenVars
  <2>6. CASE ExchangeArrives(c)
    <3>1. issued + 1 \in Tokens
      BY <2>6 DEF ExchangeArrives, TypeOK
    <3>2. LocalsType' /\ SFTypeOK'
      BY <2>b, <2>6, <3>1 DEF ExchangeArrives
    <3>3. /\ issued' = issued + 1 /\ companion' = issued + 1
          /\ disk' = [disk EXCEPT !.companion = issued + 1]
          /\ UNCHANGED <<newest, granted, sberid, loaded, lost, refused>>
      BY <2>6 DEF ExchangeArrives
    <3>4. expired' \in [Flights -> SUBSET Tokens] /\ rejected' \in [Flights -> SUBSET Tokens]
      BY <2>6, ReplacedType DEF ExchangeArrives
    <3> QED
      BY <3>1, <3>2, <3>3, <3>4 DEF TypeOK, LocalsType
  <2>7. CASE ExchangeRejected(c)
    <3>1. LocalsType' /\ SFTypeOK'
      <4>1. CASE Rotate(c, TRUE) /\ UNCHANGED sfVars
        BY <4>1, RotateType DEF TypeOK, LocalsType, SFTypeOK, sfVars
      <4>2. CASE Fail(c, "other")
        BY <2>a, <4>2 DEF ErrorKinds
      <4> QED
        BY <2>7, <4>1, <4>2 DEF ExchangeRejected
    <3>2. UNCHANGED <<sberVars, tokenVars, lost, refused>>
      BY <2>7 DEF ExchangeRejected
    <3>3. rejected' \in [Flights -> SUBSET Tokens]
      BY <2>7 DEF ExchangeRejected, TypeOK
    <3> QED
      BY <3>1, <3>2, <3>3 DEF TypeOK, LocalsType, sberVars, tokenVars
  <2>8. CASE ExchangeFails(c)
    <3>1. LocalsType' /\ SFTypeOK'
      BY <2>a, <2>8 DEF ExchangeFails, ErrorKinds
    <3> QED
      BY <2>8, <3>1 DEF ExchangeFails, TypeOK, LocalsType, sberVars, tokenVars, history
  <2>9. CASE Answered(c)
    <3>1. LocalsType'
      BY <2>9, ReturnType DEF Answered, TypeOK, LocalsType
    <3> QED
      BY <2>9, <3>1 DEF Answered, TypeOK, SFTypeOK, LocalsType, sfVars, sberVars, tokenVars, history
  <2>10. ASSUME NEW code \in Codes, Refused(c, code) PROVE TypeOK'
    <3>1. LocalsType'
      <4>1. CASE Goto(c, "queued") /\ req' = [req EXCEPT ![c] = Forced(c, code)]
        <5>1. Forced(c, code) \in Requests
          BY DEF TypeOK, Requests, Forced
        <5> QED
          BY <4>1, <5>1 DEF TypeOK, LocalsType, Goto, Places
      <4>2. CASE Return(c)
        BY <4>2, ReturnType DEF TypeOK, LocalsType
      <4> QED
        BY <2>10, <4>1, <4>2 DEF Refused
    <3>2. rejected' \in [Flights -> SUBSET Tokens]
      BY <2>1, <2>10 DEF Refused, TypeOK, Requests
    <3>3. /\ UNCHANGED <<lock, lastError, sberVars, tokenVars, lost, refused>>
          /\ missed' \subseteq missed
      BY <2>10 DEF Refused, Queue
    <3> QED
      BY <3>1, <3>2, <3>3 DEF TypeOK, SFTypeOK, LocalsType, sberVars, tokenVars
  <2> QED
    BY <1>4, <2>2, <2>3, <2>4, <2>5, <2>6, <2>7, <2>8, <2>9, <2>10 DEF Answer
<1>5. ASSUME NEW f \in Flights, Expire(f) PROVE TypeOK'
  BY <1>5, CurrentType DEF TypeOK, SFTypeOK, Expire, sfVars, tokenVars, history
<1>6. CASE Revoke
  BY <1>6 DEF TypeOK, SFTypeOK, Revoke, sfVars, tokenVars, history
<1>7. CASE Restart
  <2>1. NewProcess(disk) /\ UNCHANGED <<sberVars, rejected>> /\ lost' \in BOOLEAN
    BY <1>7 DEF Restart, TypeOK
  <2> QED
    BY <2>1, NewProcessType DEF TypeOK, LocalsType, sberVars
<1>8. CASE Reauth
  <2> DEFINE data == [disk EXCEPT !.sberid = newest + 1]
  <2>1. /\ NewProcess(data) /\ newest' = newest + 1 /\ granted' = TRUE /\ lost' = FALSE
        /\ newest < MaxToken /\ UNCHANGED issued
        /\ expired' \in [Flights -> SUBSET Tokens] /\ rejected' \in [Flights -> SUBSET Tokens]
    BY <1>8, ReplacedType DEF Reauth
  <2>2. data \in [sberid : Tokens \ {0}, companion : Tokens]
    BY <2>1 DEF TypeOK
  <2>3. newest' \in Tokens \ {0}
    BY <2>1 DEF TypeOK
  <2> HIDE DEF data
  <2>4. /\ SFTypeOK' /\ LocalsType'
        /\ disk' \in [sberid : Tokens \ {0}, companion : Tokens]
        /\ sberid' \in Tokens \ {0} /\ companion' \in Tokens /\ loaded' \in BOOLEAN
        /\ refused' \in [Flights -> 0 .. 2]
    BY <2>1, <2>2, NewProcessType
  <2> QED
    BY <2>1, <2>3, <2>4 DEF TypeOK, LocalsType
<1> QED
  BY <1>2, <1>3, <1>4, <1>5, <1>6, <1>7, <1>8 DEF Next

-------------------------------------------------------------------------------
\* While the lock is free nobody is on a request of a refresh, and while it is
\* held only its holder is.
LEMMA OneHolder ==
    ASSUME TypeOK, HolderInv
    PROVE  /\ \A c \in Callers : pc[c] \in Refreshing => lock = c
           /\ lock = NoCaller => \A c \in Callers : pc[c] \notin Refreshing
BY NoCallerAssumption DEF HolderInv

\* Entering the lock with nothing on the wire: only the caller that takes it
\* goes on to a request, with the token in memory.
LEMMA EnterLockInv ==
    ASSUME IInv, NEW c \in Callers, EnterLock(c)
    PROVE  HolderInv' /\ WireInv' /\ OwnerInv' /\ RefusalInv' /\ NoSpuriousReauth'
<1> USE NoCallerAssumption, ChannelAssumption DEF IInv, TypeOK, SFTypeOK
<1>1. lock = NoCaller /\ \A d \in Callers : pc[d] \notin Refreshing
  BY OneHolder DEF EnterLock, SkipRefresh, ShareFailure, BeginRefresh, MayEnter, LockFree
<1>2. CASE SkipRefresh(c) \/ ShareFailure(c)
  <2>1. \A d \in Callers : pc'[d] \notin Refreshing
    BY <1>1, <1>2 DEF SkipRefresh, ShareFailure, Resume, Send, Return, Goto, Refreshing
  <2>2. UNCHANGED <<lastError, sberVars, tokenVars, history>>
    BY <1>2 DEF SkipRefresh, ShareFailure, Leave
  <2> QED
    BY <1>1, <2>1, <2>2 DEF HolderInv, WireInv, OwnerInv, RefusalInv, NoSpuriousReauth,
       Refreshing, sberVars, tokenVars, history
<1>3. CASE BeginRefresh(c)
  <2>1. \A d \in Callers \ {c} : pc'[d] \notin Refreshing
    BY <1>1, <1>3 DEF BeginRefresh, Rotate, Goto
  <2>2. /\ UNCHANGED <<sberVars, tokenVars, history>>
        /\ lock' = c /\ lastError' = [lastError EXCEPT ![Channel[c]] = "none"]
        /\ lastError[Channel[c]] # "grant"
    BY <1>3 DEF BeginRefresh, BeginAttempt, SharesError
  <2>3. \/ pc'[c] = "exchange"
        \/ pc'[c] = "rotate" /\ req'[c].wire = sberid
    BY <1>3 DEF BeginRefresh, Rotate, Goto, Requests
  <2> QED
    BY <1>1, <2>1, <2>2, <2>3 DEF HolderInv, WireInv, OwnerInv, RefusalInv,
       NoSpuriousReauth, Refreshing, sberVars, tokenVars, history
<1> QED
  BY <1>2, <1>3 DEF EnterLock

\* An attempt that ends leaves nothing on the wire and the lock free; what it may
\* still break is the blame: "grant" needs a revoked grant or a lost answer.
LEMMA EndAttemptInv ==
    ASSUME IInv, NEW c \in Callers, pc[c] \in Refreshing,
           NEW error \in ErrorKinds, NEW waiting,
           EndAttempt(c, Channel[c], error, waiting),
           \A d \in Callers \ {c} : pc'[d] = pc[d],
           pc'[c] \notin Refreshing
    PROVE  /\ HolderInv' /\ WireInv'
           /\ \A d \in Callers : pc'[d] \notin Refreshing /\ (d # c => pc[d] \notin Refreshing)
           /\ lastError' = [lastError EXCEPT ![Channel[c]] = error]
           /\ lastError[Channel[c]] = "none"
<1>1. lock = c
  BY DEF IInv, HolderInv
<1>2. \A d \in Callers \ {c} : pc[d] \notin Refreshing
  BY <1>1 DEF IInv, HolderInv
<1>3. \A d \in Callers : pc'[d] \notin Refreshing
  BY <1>2
<1> QED
  BY <1>2, <1>3 DEF IInv, HolderInv, WireInv, EndAttempt, Refreshing

LEMMA AnswerInv ==
    ASSUME IInv, NEW c \in Callers, Answer(c)
    PROVE  HolderInv' /\ WireInv' /\ OwnerInv' /\ RefusalInv' /\ NoSpuriousReauth'
<1> USE NoCallerAssumption, ChannelAssumption DEF IInv, TypeOK, SFTypeOK
<1>0. /\ Channel[c] \in Flights
      /\ pc[c] \in Refreshing => /\ lock = c /\ lastError[Channel[c]] = "none"
                                 /\ \A d \in Callers \ {c} : pc[d] \notin Refreshing
  BY DEF HolderInv
<1>1. CASE ServeRotation(c)
  <2>1. /\ req' = req /\ newest' = newest + 1 /\ granted /\ req[c].wire = newest
        /\ UNCHANGED <<sfVars, tokenVars, history>> /\ granted' = granted
        /\ pc[c] = "rotate" /\ pc' = [pc EXCEPT ![c] = "rotated"]
    BY <1>1 DEF ServeRotation, Goto
  <2> QED
    BY <1>0, <2>1 DEF HolderInv, WireInv, OwnerInv, RefusalInv, NoSpuriousReauth,
       Refreshing, sfVars, tokenVars, history
<1>2. CASE RotationArrives(c)
  <2>1. /\ pc[c] = "rotated" /\ req[c].wire = sberid /\ newest = sberid + 1
        /\ sberid' = newest /\ disk' = [disk EXCEPT !.sberid = newest]
        /\ UNCHANGED <<newest, granted, lost, refused>>
    BY <1>2 DEF RotationArrives, SaveSberId, WireInv
  <2>2. CASE /\ Goto(c, "exchange") /\ UNCHANGED sfVars
             /\ req' = [req EXCEPT ![c].wire = 0]
    BY <1>0, <2>1, <2>2 DEF HolderInv, WireInv, OwnerInv, RefusalInv, NoSpuriousReauth,
       Refreshing, Goto, sfVars
  <2>3. CASE Succeed(c, req[c].wire + 1)
    <3>1. pc'[c] \notin Refreshing /\ \A d \in Callers \ {c} : pc'[d] = pc[d]
      BY <2>3 DEF Succeed, Resume, Send, Goto, Refreshing
    <3>2. EndAttempt(c, Channel[c], "none", Waiting(Channel[c]))
      BY <2>3 DEF Succeed
    <3>3. HolderInv' /\ WireInv' /\ lastError' = [lastError EXCEPT ![Channel[c]] = "none"]
      BY <2>1, <3>1, <3>2, EndAttemptInv DEF Refreshing, ErrorKinds
    <3> QED
      BY <1>0, <2>1, <3>3 DEF OwnerInv, RefusalInv, NoSpuriousReauth, Refreshing
  <2> QED
    BY <1>2, <2>2, <2>3 DEF RotationArrives
<1>3. ASSUME NEW error \in {"grant", "other"}, Fail(c, error), pc[c] \in Refreshing
      PROVE  /\ HolderInv' /\ WireInv'
             /\ \A d \in Callers : pc'[d] \notin Refreshing /\ (d # c => pc[d] \notin Refreshing)
             /\ lastError' = [lastError EXCEPT ![Channel[c]] = error]
             /\ lastError[Channel[c]] = "none"
  <2>1. pc'[c] \notin Refreshing /\ \A d \in Callers \ {c} : pc'[d] = pc[d]
    BY <1>3 DEF Fail, Return, Goto, Refreshing
  <2>2. EndAttempt(c, Channel[c], error, Waiting(Channel[c])) /\ error \in ErrorKinds
    BY <1>3 DEF Fail, ErrorKinds
  <2> QED
    BY <1>3, <2>1, <2>2, EndAttemptInv
<1>4. CASE RotationRefused(c)
  <2>1. /\ pc[c] = "rotate" /\ req[c].wire = sberid
        /\ ~granted \/ sberid # newest
        /\ refused' = [refused EXCEPT ![Channel[c]] = 1]
        /\ UNCHANGED <<sberVars, tokenVars, lost, rejected>>
    <3>1. refused[Channel[c]] = 0
      BY <1>0, <1>4 DEF RotationRefused, RefusalInv, Refreshing
    <3>2. refused' = [refused EXCEPT ![Channel[c]] = 1]
      BY <1>0, <1>4, <3>1 DEF RotationRefused
    <3> QED
      BY <1>4, <3>2 DEF RotationRefused, WireInv
  <2>2. ~granted \/ lost
    BY <1>0, <2>1 DEF OwnerInv, Refreshing
  <2>3. /\ HolderInv' /\ WireInv'
        /\ \A d \in Callers : pc'[d] \notin Refreshing /\ (d # c => pc[d] \notin Refreshing)
        /\ lastError' = [lastError EXCEPT ![Channel[c]] = "grant"]
        /\ lastError[Channel[c]] = "none"
    BY <1>3, <1>4, <2>1 DEF RotationRefused, Refreshing
  <2>4. OwnerInv'
    BY <2>1, <2>3 DEF OwnerInv, sberVars, tokenVars, Refreshing
  <2> QED
    BY <1>0, <2>1, <2>2, <2>3, <2>4 DEF RefusalInv, NoSpuriousReauth, sberVars
<1>5. CASE RotationFails(c)
  <2>1. /\ pc[c] \in {"rotate", "rotated"} /\ lost' = (lost \/ pc[c] = "rotated")
        /\ UNCHANGED <<sberVars, tokenVars, rejected, refused>>
    BY <1>5 DEF RotationFails
  <2>2. /\ HolderInv' /\ WireInv'
        /\ \A d \in Callers : pc'[d] \notin Refreshing /\ (d # c => pc[d] \notin Refreshing)
        /\ lastError' = [lastError EXCEPT ![Channel[c]] = "other"]
        /\ lastError[Channel[c]] = "none"
    BY <1>3, <1>5, <2>1 DEF RotationFails, Refreshing
  <2> QED
    BY <1>0, <2>1, <2>2 DEF OwnerInv, RefusalInv, NoSpuriousReauth, sberVars, tokenVars, Refreshing
<1>6. CASE ExchangeArrives(c)
  <2>1. /\ pc[c] = "exchange" /\ disk' = [disk EXCEPT !.companion = issued + 1]
        /\ UNCHANGED <<newest, granted, sberid, lost, refused>>
    BY <1>6 DEF ExchangeArrives
  <2>2. pc'[c] \notin Refreshing /\ \A d \in Callers \ {c} : pc'[d] = pc[d]
    BY <1>6 DEF ExchangeArrives, Succeed, Resume, Send, Goto, Refreshing
  <2>3. EndAttempt(c, Channel[c], "none", Waiting(Channel[c]))
    BY <1>6 DEF ExchangeArrives, Succeed
  <2>4. /\ HolderInv' /\ WireInv' /\ lastError' = [lastError EXCEPT ![Channel[c]] = "none"]
        /\ \A d \in Callers : pc'[d] \notin Refreshing /\ (d # c => pc[d] \notin Refreshing)
    BY <2>1, <2>2, <2>3, EndAttemptInv DEF Refreshing, ErrorKinds
  <2> QED
    BY <1>0, <2>1, <2>4 DEF OwnerInv, RefusalInv, NoSpuriousReauth, Refreshing
<1>7. CASE ExchangeRejected(c)
  <2>1. pc[c] = "exchange" /\ UNCHANGED <<sberVars, tokenVars, lost, refused>>
    BY <1>7 DEF ExchangeRejected
  <2>2. CASE Rotate(c, TRUE) /\ UNCHANGED sfVars
    BY <1>0, <2>1, <2>2 DEF HolderInv, WireInv, OwnerInv, RefusalInv, NoSpuriousReauth,
       Rotate, Goto, Refreshing, Requests, sfVars, sberVars, tokenVars
  <2>3. CASE Fail(c, "other")
    <3>1. /\ HolderInv' /\ WireInv'
          /\ \A d \in Callers : pc'[d] \notin Refreshing /\ (d # c => pc[d] \notin Refreshing)
          /\ lastError' = [lastError EXCEPT ![Channel[c]] = "other"]
      BY <1>3, <2>1, <2>3 DEF Refreshing
    <3> QED
      BY <1>0, <2>1, <3>1 DEF OwnerInv, RefusalInv, NoSpuriousReauth, sberVars, tokenVars, Refreshing
  <2> QED
    BY <1>7, <2>2, <2>3 DEF ExchangeRejected
<1>8. CASE ExchangeFails(c)
  <2>1. pc[c] = "exchange" /\ UNCHANGED <<sberVars, tokenVars, history>>
    BY <1>8 DEF ExchangeFails
  <2>2. /\ HolderInv' /\ WireInv'
        /\ \A d \in Callers : pc'[d] \notin Refreshing /\ (d # c => pc[d] \notin Refreshing)
        /\ lastError' = [lastError EXCEPT ![Channel[c]] = "other"]
    BY <1>3, <1>8, <2>1 DEF ExchangeFails, Refreshing
  <2> QED
    BY <1>0, <2>1, <2>2 DEF OwnerInv, RefusalInv, NoSpuriousReauth, sberVars, tokenVars,
       history, Refreshing
<1>9. CASE Answered(c) \/ \E code \in Codes : Refused(c, code)
  <2>1. /\ pc[c] = "sent" /\ pc'[c] \in {"idle", "queued"}
        /\ \A d \in Callers \ {c} : pc'[d] = pc[d] /\ req'[d] = req[d]
    BY <1>9 DEF Answered, Refused, Return, Goto
  <2>2. UNCHANGED <<lock, lastError, sberVars, tokenVars, lost, refused>>
    BY <1>9 DEF Answered, Refused, sfVars, history
  <2> QED
    BY <2>1, <2>2 DEF HolderInv, WireInv, OwnerInv, RefusalInv, NoSpuriousReauth, Refreshing,
       sberVars, tokenVars
<1> QED
  BY <1>1, <1>2, <1>4, <1>5, <1>6, <1>7, <1>8, <1>9 DEF Answer

LEMMA NextIInv == IInv /\ [Next]_vars => IInv'
<1> SUFFICES ASSUME IInv, [Next]_vars PROVE IInv'
  OBVIOUS
<1> USE NoCallerAssumption, ChannelAssumption
<1>1. ASSUME NEW c \in Callers, AccessToken(c) PROVE IInv'
  <2>1. TypeOK'
    BY <1>1, NextTypeOK DEF IInv, Next
  <2>2. /\ pc[c] \notin Refreshing /\ pc'[c] \notin Refreshing
        /\ \A d \in Callers \ {c} : pc'[d] = pc[d] /\ req'[d] = req[d]
    BY <1>1 DEF IInv, TypeOK, AccessToken, Send, Goto, Refreshing
  <2>3. UNCHANGED <<lock, lastError, sberVars, sberid, disk, history>>
    BY <1>1 DEF AccessToken, sfVars, tokenVars
  <2> QED
    BY <2>1, <2>2, <2>3 DEF IInv, HolderInv, WireInv, OwnerInv, RefusalInv,
       NoSpuriousReauth, Refreshing, sberVars, history
<1>2. ASSUME NEW c \in Callers, EnterLock(c) \/ Answer(c) PROVE IInv'
  <2>1. TypeOK'
    BY <1>2, NextTypeOK DEF IInv, Next
  <2> QED
    BY <1>2, <2>1, EnterLockInv, AnswerInv DEF IInv
<1>3. CASE Revoke \/ \E f \in Flights : Expire(f)
  <2>1. TypeOK'
    BY <1>3, NextTypeOK DEF IInv, Next
  <2>2. UNCHANGED <<sfVars, newest, tokenVars, pc, req, history>> /\ (granted' => granted)
    BY <1>3 DEF Revoke, Expire
  <2> QED
    BY <2>1, <2>2 DEF IInv, HolderInv, WireInv, OwnerInv, RefusalInv, NoSpuriousReauth,
       sfVars, tokenVars, history
<1>4. CASE Restart \/ Reauth
  <2>1. TypeOK'
    BY <1>4, NextTypeOK DEF IInv, Next
  <2>2. /\ \A d \in Callers : pc'[d] = "idle"
        /\ \A f \in Flights : lastError'[f] = "none" /\ refused'[f] = 0
        /\ sberid' = disk'.sberid
    BY <1>4 DEF Restart, Reauth, NewProcess
  <2>3. lost' \/ sberid' = newest'
    BY <1>4 DEF IInv, OwnerInv, TypeOK, Restart, Reauth, NewProcess, sberVars
  <2> QED
    BY <2>1, <2>2, <2>3 DEF IInv, HolderInv, WireInv, OwnerInv, RefusalInv,
       NoSpuriousReauth, Refreshing
<1>5. CASE UNCHANGED vars
  BY <1>5 DEF vars, IInv, TypeOK, SFTypeOK, HolderInv, WireInv, OwnerInv, RefusalInv,
     NoSpuriousReauth, sfVars, sberVars, tokenVars, history
<1> QED
  BY <1>1, <1>2, <1>3, <1>4, <1>5 DEF Next

-------------------------------------------------------------------------------
\* The manager's state keeps its types.
THEOREM TypeCorrect == Spec => []TypeOK
<1>1. IInv => TypeOK
  BY DEF IInv
<1> QED
  BY <1>1, InitIInv, NextIInv, PTL DEF Spec

\* For any number of requests on either channel: a user is asked to log in again
\* only if the grant was revoked or the answer to an accepted rotation was lost.
THEOREM ReauthOnlyForCause == Spec => []NoSpuriousReauth
<1>1. IInv => NoSpuriousReauth
  BY DEF IInv
<1> QED
  BY <1>1, InitIInv, NextIInv, PTL DEF Spec

\* At every moment a restart finds the newest refresh token on disk, unless the
\* answer that carries it is on the wire or was lost.
THEOREM RestartKeepsGrant == Spec => []DiskSurvivesRestart
<1>1. IInv => DiskSurvivesRestart
  BY DEF IInv, OwnerInv, DiskSurvivesRestart
<1> QED
  BY <1>1, InitIInv, NextIInv, PTL DEF Spec

\* A flight that was told invalid_grant does not ask Sber again.
THEOREM RefusedAtMostOnce == Spec => []RefusedOnce
<1>1. IInv => RefusedOnce
  BY DEF IInv, RefusalInv, RefusedOnce
<1> QED
  BY <1>1, InitIInv, NextIInv, PTL DEF Spec

-------------------------------------------------------------------------------
LEMMA NextLock == TypeOK /\ LockHolderWorks /\ [Next]_vars => LockHolderWorks'
<1> SUFFICES ASSUME TypeOK, LockHolderWorks, [Next]_vars PROVE LockHolderWorks'
  OBVIOUS
<1> USE ChannelAssumption, NoCallerAssumption DEF LockHolderWorks, TypeOK, SFTypeOK
<1>1. ASSUME NEW c \in Callers,
             AccessToken(c) \/ Answered(c) \/ \E code \in Codes : Refused(c, code)
      PROVE  LockHolderWorks'
  <2>1. lock' = lock
    BY <1>1 DEF AccessToken, Answered, Refused, sfVars
  <2>2. pc[c] \in {"idle", "token", "sent"}
    BY <1>1 DEF AccessToken, Answered, Refused
  <2>3. \A d \in Callers \ {c} : pc'[d] = pc[d]
    BY <1>1 DEF AccessToken, Answered, Refused, Send, Return, Goto
  <2> QED
    BY <2>1, <2>2, <2>3
<1>2. ASSUME NEW c \in Callers, EnterLock(c) PROVE LockHolderWorks'
  <2>1. CASE SkipRefresh(c) \/ ShareFailure(c)
    BY <2>1 DEF SkipRefresh, ShareFailure, MayEnter, LockFree, Leave
  <2>2. CASE BeginRefresh(c)
    BY <2>2 DEF BeginRefresh, BeginAttempt, Rotate, Goto
  <2> QED
    BY <1>2, <2>1, <2>2 DEF EnterLock
<1>3. ASSUME NEW c \in Callers,
             \/ RotationRefused(c) \/ RotationFails(c) \/ ExchangeArrives(c) \/ ExchangeFails(c)
      PROVE  LockHolderWorks'
  BY <1>3 DEF RotationRefused, RotationFails, ExchangeArrives, ExchangeFails, Fail, Succeed,
     EndAttempt
<1>4. ASSUME NEW c \in Callers, ServeRotation(c) PROVE LockHolderWorks'
  BY <1>4 DEF ServeRotation, Goto, sfVars
<1>5. ASSUME NEW c \in Callers, RotationArrives(c) PROVE LockHolderWorks'
  <2>1. CASE Channel[c] = "companion"
    BY <1>5, <2>1 DEF RotationArrives, Goto, sfVars
  <2>2. CASE Channel[c] # "companion"
    BY <1>5, <2>2 DEF RotationArrives, Succeed, EndAttempt
  <2> QED
    BY <2>1, <2>2
<1>6. ASSUME NEW c \in Callers, ExchangeRejected(c) PROVE LockHolderWorks'
  BY <1>6 DEF ExchangeRejected, Rotate, Goto, Fail, EndAttempt, sfVars
<1>7. CASE Restart \/ Reauth
  BY <1>7 DEF Restart, Reauth, NewProcess
<1>8. CASE Revoke \/ (\E f \in Flights : Expire(f)) \/ UNCHANGED vars
  BY <1>8 DEF Revoke, Expire, vars, sfVars
<1> QED
  BY <1>1, <1>2, <1>3, <1>4, <1>5, <1>6, <1>7, <1>8 DEF Next, Answer

\* The lock of the two flights is never left taken: whoever holds it waits for an answer of
\* Sber, which comes or times out (_run_locked() in auth/_single_flight.py).
THEOREM LockNeverStuck == Spec => []LockHolderWorks
<1>1. Init => LockHolderWorks
  BY DEF Init, SFInit, LockHolderWorks
<1> QED
  BY <1>1, TypeCorrect, NextLock, PTL DEF Spec

-------------------------------------------------------------------------------
(* Why a token is replaced *)

CauseOf(f) == Current(f) \in expired[f] \cup rejected[f]

\* The companion token of the process is that of the entry, once it was read; only a
\* caller of the sberid channel works without it.
LoadedInv ==
    /\ companion = IF loaded THEN disk.companion ELSE 0
    /\ disk.companion <= issued
    /\ \A c \in Callers : pc[c] # "idle" /\ Channel[c] = "companion" => loaded
    /\ \A c \in Callers : pc[c] = "exchange" => Channel[c] = "companion"

\* No request is signed with a token that is not issued yet.
UsedInv ==
    \A c \in Callers : req[c].used <= IF Channel[c] = "companion" THEN issued ELSE sberid

\* Who waits to have the token replaced that it was refused with, and that is still in
\* use, has told so.
ForcedInv ==
    \A c \in Callers :
        pc[c] = "queued" /\ req[c].why = "force" /\ req[c].used = Current(Channel[c])
        => req[c].used \in rejected[Channel[c]]

\* Who has a request of a refresh out has a reason.
CauseInv ==
    \A c \in Callers :
        /\ pc[c] \in Refreshing /\ Channel[c] = "companion" => Loaded = 0 \/ CauseOf("companion")
        /\ pc[c] \in {"rotate", "rotated"} => CauseOf("sberid")

ReasonInv == LoadedInv /\ UsedInv /\ ForcedInv /\ CauseInv

LEMMA ReasonInit == Init => ReasonInv
<1> SUFFICES ASSUME Init PROVE ReasonInv
  OBVIOUS
<1>1. /\ \A c \in Callers : pc[c] = "idle" /\ req[c].used = 0 /\ req[c].why = "access"
      /\ companion = 0 /\ loaded = FALSE /\ issued = 0 /\ sberid = 1 /\ disk.companion = 0
  BY DEF Init, NoRequest
<1> QED BY <1>1 DEF ReasonInv, LoadedInv, UsedInv, ForcedInv, CauseInv, Refreshing

\* A caller moves, and nothing that is known of the tokens in use is forgotten.
LEMMA CallerMoves ==
    ASSUME TypeOK, ReasonInv, NEW c \in Callers, NEW place, NEW r \in Requests,
           pc' = [pc EXCEPT ![c] = place], req' = [req EXCEPT ![c] = r],
           UNCHANGED <<issued, sberid, disk>>,
           \/ UNCHANGED <<companion, loaded>>
           \/ companion' = Loaded /\ loaded' = TRUE,
           \A f \in Flights : /\ expired[f] \cap {Current(f)} \subseteq expired'[f]
                              /\ rejected[f] \cap {Current(f)} \subseteq rejected'[f],
           r.used <= IF Channel[c] = "companion" THEN issued ELSE sberid,
           place # "idle" /\ Channel[c] = "companion" => loaded',
           place = "exchange" => Channel[c] = "companion",
           place = "queued" /\ r.why = "force" /\ r.used = Current(Channel[c])
                => r.used \in rejected'[Channel[c]],
           place \in Refreshing /\ Channel[c] = "companion" => Loaded = 0 \/ CauseOf("companion"),
           place \in {"rotate", "rotated"} => CauseOf("sberid") \/ sberid \in rejected'["sberid"]
    PROVE  ReasonInv'
<1> USE ChannelAssumption
<1>1. /\ pc'[c] = place /\ req'[c] = r
      /\ \A d \in Callers \ {c} : pc'[d] = pc[d] /\ req'[d] = req[d]
  BY DEF TypeOK
<1>2. /\ (loaded => loaded') /\ Loaded' = Loaded
      /\ companion' = IF loaded' THEN disk.companion ELSE 0
  BY DEF ReasonInv, LoadedInv, Loaded
<1>3. \A f \in Flights : Current(f)' = Current(f) /\ (CauseOf(f) => CauseOf(f)')
  BY <1>2 DEF Current, CauseOf
<1>4. LoadedInv'
  BY <1>1, <1>2 DEF ReasonInv, LoadedInv
<1>5. UsedInv'
  BY <1>1 DEF ReasonInv, UsedInv
<1>6. ForcedInv'
  BY <1>1, <1>3 DEF ReasonInv, ForcedInv
<1>7. sberid \in rejected'["sberid"] => CauseOf("sberid")'
  BY DEF CauseOf, Current
<1>8. CauseInv'
  BY <1>1, <1>2, <1>3, <1>7 DEF ReasonInv, CauseInv
<1> QED BY <1>4, <1>5, <1>6, <1>8 DEF ReasonInv

\* The tokens that are in use have been issued.
LEMMA IssuedIs ==
    ASSUME TypeOK, ReasonInv, NEW f \in Flights
    PROVE  /\ Current(f) \in Tokens /\ Loaded \in Tokens
           /\ Current(f) <= IF f = "companion" THEN issued ELSE sberid
BY ChannelAssumption, MaxTokenAssumption
   DEF TypeOK, Tokens, Current, Loaded, ReasonInv, LoadedInv

LEMMA ReasonEnters ==
    ASSUME TypeOK, ReasonInv, NEW c \in Callers,
           AccessToken(c) \/ SkipRefresh(c) \/ ShareFailure(c) \/ Answered(c)
    PROVE  ReasonInv'
<1> USE ChannelAssumption, MaxTokenAssumption
<1> DEFINE bound == IF Channel[c] = "companion" THEN issued ELSE sberid
<1>0. /\ pc \in [Callers -> Places] /\ req \in [Callers -> Requests]
      /\ req[c] \in Requests /\ req[c].used \in Tokens /\ 0 \in Tokens
      /\ bound \in Nat /\ req[c].used <= bound /\ Channel[c] \in Flights
      /\ Current(Channel[c]) \in Tokens /\ Current(Channel[c]) <= bound
  BY IssuedIs DEF TypeOK, Requests, Tokens, ReasonInv, UsedInv
<1>1. UNCHANGED <<issued, sberid, disk, expired, rejected>>
  BY DEF AccessToken, SkipRefresh, ShareFailure, Answered, sberVars, tokenVars, history
<1>2. \/ UNCHANGED <<companion, loaded>>
      \/ companion' = Loaded /\ loaded' = TRUE
  BY DEF AccessToken, SkipRefresh, ShareFailure, Answered, tokenVars
<1>3. \E place \in {"idle", "token", "sent", "queued"}, r \in Requests :
        /\ pc' = [pc EXCEPT ![c] = place] /\ req' = [req EXCEPT ![c] = r]
        /\ r.used <= bound /\ r.why = "access"
        /\ place # "idle" /\ Channel[c] = "companion" => loaded'
  <2>1. CASE AccessToken(c)
    <3>1. Channel[c] = "companion" => loaded'
      BY <2>1 DEF AccessToken
    <3>2. CASE Send(c, Current(Channel[c]))
      <4>1. Outside(c, Current(Channel[c])) \in Requests
        BY <1>0, OutsideType DEF LocalsType
      <4> QED BY <1>0, <3>1, <3>2, <4>1 DEF Send, Goto, Outside
    <3>3. CASE Goto(c, "queued") /\ req' = [req EXCEPT ![c].why = "access"]
      <4> DEFINE r == [req[c] EXCEPT !.why = "access"]
      <4>1. r \in Requests /\ r.used = req[c].used /\ r.why = "access"
        BY <1>0 DEF Requests
      <4>2. req' = [req EXCEPT ![c] = r]
        BY <3>3
      <4> HIDE DEF r
      <4> QED BY <1>0, <3>1, <3>3, <4>1, <4>2 DEF Goto
    <3> QED BY <2>1, <3>2, <3>3 DEF AccessToken
  <2>2. CASE SkipRefresh(c)
    <3>1. pc[c] = "queued" /\ UNCHANGED loaded /\ Resume(c, Current(Channel[c]))
      BY <2>2 DEF SkipRefresh, tokenVars
    <3>2. Channel[c] = "companion" => loaded'
      BY <3>1 DEF ReasonInv, LoadedInv
    <3>3. /\ Outside(c, Current(Channel[c])) \in Requests /\ Outside(c, 0) \in Requests
      BY <1>0, OutsideType DEF LocalsType
    <3>4. \E token \in {0, Current(Channel[c])}, place \in {"sent", "token"} :
            /\ pc' = [pc EXCEPT ![c] = place]
            /\ req' = [req EXCEPT ![c] = Outside(c, token)]
      BY <3>1 DEF Resume, Send, Goto
    <3>5. \A token \in {0, Current(Channel[c])} :
            /\ Outside(c, token) \in Requests /\ Outside(c, token).used <= bound
            /\ Outside(c, token).why = "access"
      <4>1. \A token \in {0, Current(Channel[c])} :
                Outside(c, token).used = token /\ Outside(c, token).why = "access"
        BY DEF Outside
      <4>2. \A token \in {0, Current(Channel[c])} : token <= bound
        BY <1>0
      <4> QED BY <3>3, <4>1, <4>2
    <3> HIDE DEF bound
    <3> QED BY <3>2, <3>4, <3>5
  <2>3. CASE ShareFailure(c) \/ Answered(c)
    <3>1. /\ NoRequest \in Requests /\ NoRequest.used <= bound /\ NoRequest.why = "access"
      BY <1>0, NoRequestType DEF NoRequest
    <3>2. pc' = [pc EXCEPT ![c] = "idle"] /\ req' = [req EXCEPT ![c] = NoRequest]
      BY <2>3 DEF ShareFailure, Answered, Return, Goto
    <3> HIDE DEF bound
    <3> QED BY <3>1, <3>2
  <2> QED BY <2>1, <2>2, <2>3
<1>4. PICK place \in {"idle", "token", "sent", "queued"}, r \in Requests :
        /\ pc' = [pc EXCEPT ![c] = place] /\ req' = [req EXCEPT ![c] = r]
        /\ r.used <= bound /\ r.why = "access"
        /\ place # "idle" /\ Channel[c] = "companion" => loaded'
  BY <1>3
<1>5. place \notin Refreshing /\ place \notin {"rotate", "rotated", "exchange"}
  BY DEF Refreshing
<1> QED BY <1>1, <1>2, <1>4, <1>5, CallerMoves

LEMMA ReasonBegins == ASSUME TypeOK, ReasonInv, NEW c \in Callers, BeginRefresh(c) PROVE ReasonInv'
<1> USE ChannelAssumption, MaxTokenAssumption
<1>1. /\ pc[c] = "queued" /\ ~Skips(c) /\ UNCHANGED <<sberVars, tokenVars, history>>
      /\ IF Channel[c] = "companion" /\ sberid \notin expired["sberid"]
         THEN Goto(c, "exchange") /\ req' = [req EXCEPT ![c].used = 0]
         ELSE Rotate(c, FALSE)
  BY DEF BeginRefresh
<1>2. /\ req \in [Callers -> Requests] /\ req[c] \in Requests /\ 0 \in Tokens
      /\ Channel[c] \in Flights /\ issued \in Nat /\ sberid \in Tokens \ {0} /\ sberid \in Nat
  BY DEF TypeOK, Tokens
<1>3. Current(Channel[c]) = 0 \/ CauseOf(Channel[c])
  BY <1>1, <1>2 DEF Skips, Valid, CauseOf, ReasonInv, ForcedInv, Requests
<1>6. /\ UNCHANGED <<issued, sberid, disk>> /\ UNCHANGED <<companion, loaded>>
      /\ \A f \in Flights : /\ expired[f] \cap {Current(f)} \subseteq expired'[f]
                            /\ rejected[f] \cap {Current(f)} \subseteq rejected'[f]
  BY <1>1 DEF sberVars, tokenVars, history
<1>4. CASE Goto(c, "exchange") /\ req' = [req EXCEPT ![c].used = 0] /\ Channel[c] = "companion"
  <2> DEFINE r == [req[c] EXCEPT !.used = 0]
  <2>1. r \in Requests /\ r.used = 0
    BY <1>2 DEF Requests
  <2>2. req' = [req EXCEPT ![c] = r] /\ pc' = [pc EXCEPT ![c] = "exchange"]
    BY <1>4 DEF Goto
  <2> HIDE DEF r
  <2>3. loaded /\ (Loaded = 0 \/ CauseOf("companion"))
    BY <1>1, <1>3, <1>4 DEF ReasonInv, LoadedInv, Current
  <2>4. r.used <= IF Channel[c] = "companion" THEN issued ELSE sberid
    BY <1>2, <2>1
  <2> QED BY <1>4, <1>6, <2>1, <2>2, <2>3, <2>4, CallerMoves
<1>5. CASE Rotate(c, FALSE) /\ ~(Channel[c] = "companion" /\ sberid \notin expired["sberid"])
  <2> DEFINE r == [req[c] EXCEPT !.used = 0, !.wire = sberid, !.renewed = FALSE]
  <2>1. r \in Requests /\ r.used = 0
    BY <1>2 DEF Requests
  <2>2. req' = [req EXCEPT ![c] = r] /\ pc' = [pc EXCEPT ![c] = "rotate"]
    BY <1>2, <1>5 DEF Rotate, Goto, Requests
  <2> HIDE DEF r
  <2>3. Channel[c] = "companion" => loaded /\ (Loaded = 0 \/ CauseOf("companion"))
    BY <1>1, <1>3 DEF ReasonInv, LoadedInv, Current
  <2>4. CauseOf("sberid")
    BY <1>2, <1>3, <1>5 DEF Current, CauseOf
  <2>5. r.used <= IF Channel[c] = "companion" THEN issued ELSE sberid
    BY <1>2, <2>1
  <2> QED BY <1>6, <2>1, <2>2, <2>3, <2>4, <2>5, CallerMoves
<1> QED BY <1>1, <1>4, <1>5

\* A refresh that goes on to its other request, or fails.
LEMMA ReasonFails ==
    ASSUME TypeOK, ReasonInv, NEW c \in Callers,
           \/ ServeRotation(c) \/ RotationRefused(c) \/ RotationFails(c)
           \/ ExchangeRejected(c) \/ ExchangeFails(c)
    PROVE  ReasonInv'
<1> USE ChannelAssumption, MaxTokenAssumption
<1>1. /\ req \in [Callers -> Requests] /\ req[c] \in Requests /\ 0 \in Tokens
      /\ Channel[c] \in Flights /\ issued \in Nat /\ sberid \in Tokens \ {0} /\ sberid \in Nat
      /\ req[c].used <= IF Channel[c] = "companion" THEN issued ELSE sberid
      /\ rejected \in [Flights -> SUBSET Tokens]
  BY DEF TypeOK, Tokens, ReasonInv, UsedInv
<1>2. /\ UNCHANGED <<issued, expired, sberid, disk, companion, loaded>>
      /\ \A f \in Flights : rejected[f] \subseteq rejected'[f]
  <2>1. CASE ExchangeRejected(c)
    BY <1>1, <2>1 DEF ExchangeRejected, sberVars, tokenVars
  <2>2. CASE ~ExchangeRejected(c)
    BY <2>2 DEF ServeRotation, RotationRefused, RotationFails, ExchangeFails, sberVars, tokenVars,
       history
  <2> QED BY <2>1, <2>2
<1>3. /\ pc[c] \in Refreshing
      /\ pc[c] # "idle"
  BY DEF ServeRotation, RotationRefused, RotationFails, ExchangeRejected, ExchangeFails, Refreshing
<1>4. Channel[c] = "companion" => loaded /\ (Loaded = 0 \/ CauseOf("companion"))
  BY <1>3 DEF ReasonInv, LoadedInv, CauseInv
<1>8. /\ UNCHANGED <<issued, sberid, disk>> /\ UNCHANGED <<companion, loaded>>
      /\ \A f \in Flights : /\ expired[f] \cap {Current(f)} \subseteq expired'[f]
                            /\ rejected[f] \cap {Current(f)} \subseteq rejected'[f]
  BY <1>2
<1>5. CASE ServeRotation(c)
  <2>1. pc' = [pc EXCEPT ![c] = "rotated"] /\ req' = [req EXCEPT ![c] = req[c]]
    BY <1>1, <1>5 DEF ServeRotation, Goto
  <2>2. CauseOf("sberid")
    BY <1>5 DEF ServeRotation, ReasonInv, CauseInv
  <2>3. req[c].why = "access" \/ "rotated" # "queued"
    OBVIOUS
  <2> QED BY <1>1, <1>2, <1>4, <2>1, <2>2, CallerMoves
<1>6. CASE Return(c)
  <2>1. pc' = [pc EXCEPT ![c] = "idle"] /\ req' = [req EXCEPT ![c] = NoRequest]
    BY <1>6 DEF Return, Goto
  <2>2. /\ NoRequest \in Requests /\ NoRequest.why = "access"
        /\ NoRequest.used <= IF Channel[c] = "companion" THEN issued ELSE sberid
    BY <1>1, NoRequestType DEF NoRequest
  <2>3. "idle" \notin Refreshing
    BY DEF Refreshing
  <2> QED BY <1>8, <2>1, <2>2, <2>3, CallerMoves
<1>7. CASE ExchangeRejected(c) /\ Rotate(c, TRUE)
  <2> DEFINE r == [req[c] EXCEPT !.used = 0, !.wire = sberid, !.renewed = TRUE]
  <2>1. r \in Requests /\ r.used = 0
    BY <1>1 DEF Requests
  <2>2. req' = [req EXCEPT ![c] = r] /\ pc' = [pc EXCEPT ![c] = "rotate"]
    BY <1>1, <1>7 DEF Rotate, Goto, Requests
  <2> HIDE DEF r
  <2>3. sberid \in rejected'["sberid"]
    BY <1>1, <1>7 DEF ExchangeRejected
  <2>4. r.used <= IF Channel[c] = "companion" THEN issued ELSE sberid
    BY <1>1, <2>1
  <2> QED BY <1>4, <1>8, <2>1, <2>2, <2>3, <2>4, CallerMoves
<1> QED
  BY <1>5, <1>6, <1>7 DEF RotationRefused, RotationFails, ExchangeRejected, ExchangeFails, Fail

LEMMA ReasonRefused ==
    ASSUME TypeOK, ReasonInv, NEW c \in Callers, NEW code \in Codes, Refused(c, code)
    PROVE  ReasonInv'
<1> USE ChannelAssumption, MaxTokenAssumption, CodesAssumption
<1>1. /\ req \in [Callers -> Requests] /\ req[c] \in Requests /\ 0 \in Tokens
      /\ Channel[c] \in Flights /\ issued \in Nat /\ sberid \in Nat
      /\ req[c].used <= IF Channel[c] = "companion" THEN issued ELSE sberid
      /\ rejected \in [Flights -> SUBSET Tokens]
  BY DEF TypeOK, Tokens, ReasonInv, UsedInv
<1>2. /\ pc[c] = "sent" /\ UNCHANGED <<issued, expired, sberid, disk, companion, loaded>>
      /\ rejected' = [rejected EXCEPT ![Channel[c]] =
                         (@ \cup {req[c].used}) \cap {Current(Channel[c])}]
  BY DEF Refused, sberVars, tokenVars
<1>3. /\ \A f \in Flights : rejected[f] \cap {Current(f)} \subseteq rejected'[f]
      /\ req[c].used = Current(Channel[c]) => req[c].used \in rejected'[Channel[c]]
  BY <1>1, <1>2
<1>4. Channel[c] = "companion" => loaded
  BY <1>2 DEF ReasonInv, LoadedInv
<1>5. CASE Goto(c, "queued") /\ req' = [req EXCEPT ![c] = Forced(c, code)]
  <2>1. Forced(c, code) \in Requests /\ Forced(c, code).used = req[c].used
    BY <1>1 DEF Requests, Forced
  <2> QED BY <1>1, <1>2, <1>3, <1>4, <1>5, <2>1, CallerMoves DEF Goto, Refreshing
<1>6. CASE Return(c)
  <2>1. pc' = [pc EXCEPT ![c] = "idle"] /\ req' = [req EXCEPT ![c] = NoRequest]
    BY <1>6 DEF Return, Goto
  <2>2. /\ NoRequest \in Requests /\ NoRequest.why = "access"
        /\ NoRequest.used <= IF Channel[c] = "companion" THEN issued ELSE sberid
    BY <1>1, NoRequestType DEF NoRequest
  <2>3. "idle" \notin Refreshing
    BY DEF Refreshing
  <2> QED BY <1>2, <1>3, <2>1, <2>2, <2>3, CallerMoves
<1> QED BY <1>5, <1>6 DEF Refused

\* The SberID token is replaced: nobody was refused with the new one.
LEMMA ReasonRotated ==
    ASSUME IInv, ReasonInv, NEW c \in Callers, RotationArrives(c) PROVE ReasonInv'
<1> USE ChannelAssumption, MaxTokenAssumption DEF IInv
<1>1. /\ pc[c] = "rotated" /\ sberid' = sberid + 1 /\ disk'.companion = disk.companion
      /\ UNCHANGED <<issued, companion, loaded>>
      /\ expired'["companion"] = expired["companion"]
      /\ rejected'["companion"] = rejected["companion"]
  BY DEF RotationArrives, SaveSberId, Replaced, WireInv, TypeOK
<1>2. \A d \in Callers \ {c} : pc[d] \notin Refreshing
  BY <1>1, NoCallerAssumption DEF HolderInv, Refreshing
<1>3. /\ issued \in Nat /\ sberid \in Nat /\ \A d \in Callers : req[d].used \in Nat
      /\ Channel[c] \in Flights /\ req \in [Callers -> Requests] /\ pc \in [Callers -> Places]
  BY DEF TypeOK, Tokens, Requests
<1>4. /\ \A d \in Callers \ {c} : pc'[d] = pc[d] /\ req'[d] = req[d]
      /\ pc'[c] \in {"exchange", "sent", "token"}
      /\ pc'[c] = "exchange" => Channel[c] = "companion"
      /\ req'[c].used <= IF Channel[c] = "companion" THEN issued ELSE sberid'
  <2>1. CASE Channel[c] = "companion"
    <3> DEFINE r == [req[c] EXCEPT !.wire = 0]
    <3>1. req' = [req EXCEPT ![c] = r] /\ pc' = [pc EXCEPT ![c] = "exchange"]
      BY <2>1 DEF RotationArrives, Goto
    <3>2. r.used = req[c].used
      BY <1>3 DEF Requests
    <3> HIDE DEF r
    <3> QED BY <1>3, <2>1, <3>1, <3>2 DEF ReasonInv, UsedInv
  <2>2. CASE Channel[c] # "companion"
    <3>1. Resume(c, sberid + 1)
      BY <1>1, <2>2 DEF RotationArrives, Succeed, WireInv
    <3>2. /\ \A d \in Callers \ {c} : pc'[d] = pc[d] /\ req'[d] = req[d]
          /\ pc'[c] \in {"sent", "token"} /\ req'[c].used \in {0, sberid + 1}
      BY <1>3, <3>1 DEF Resume, Send, Goto, Outside
    <3> QED BY <1>1, <1>3, <2>2, <3>2
  <2> QED BY <2>1, <2>2
<1>5. Loaded' = Loaded /\ Current("companion")' = Current("companion") /\ Current("sberid")' = sberid + 1
  BY <1>1 DEF Loaded, Current
<1>6. LoadedInv'
  BY <1>1, <1>4, <1>5 DEF ReasonInv, LoadedInv
<1>7. UsedInv'
  <2> SUFFICES ASSUME NEW d \in Callers
               PROVE  req'[d].used <= IF Channel[d] = "companion" THEN issued' ELSE sberid'
    BY DEF UsedInv
  <2>1. req[d].used <= IF Channel[d] = "companion" THEN issued ELSE sberid
    BY DEF ReasonInv, UsedInv
  <2> QED BY <1>1, <1>3, <1>4, <2>1
<1>8. ForcedInv'
  <2> SUFFICES ASSUME NEW d \in Callers \ {c}, pc[d] = "queued", req[d].why = "force",
                      req[d].used = Current(Channel[d])'
               PROVE  req[d].used \in rejected'[Channel[d]]
    BY <1>4 DEF ForcedInv
  <2>1. Channel[d] \in {"companion", "sberid"} /\ req[d].used \in Nat
    BY <1>3
  <2>2. CASE Channel[d] = "companion"
    BY <1>1, <1>5, <2>2 DEF ReasonInv, ForcedInv
  <2>3. CASE Channel[d] = "sberid"
    BY <1>3, <1>5, <2>1, <2>3 DEF ReasonInv, UsedInv
  <2> QED BY <2>1, <2>2, <2>3
<1>9. CauseInv'
  <2>1. CauseOf("companion") => CauseOf("companion")'
    BY <1>1, <1>5 DEF CauseOf
  <2>2. Channel[c] = "companion" => Loaded = 0 \/ CauseOf("companion")
    BY <1>1 DEF ReasonInv, CauseInv, Refreshing
  <2> QED BY <1>2, <1>4, <1>5, <2>1, <2>2 DEF CauseInv, Refreshing
<1> QED BY <1>6, <1>7, <1>8, <1>9 DEF ReasonInv

\* The companion token is replaced: nobody was refused with the new one.
LEMMA ReasonExchanged ==
    ASSUME IInv, ReasonInv, NEW c \in Callers, ExchangeArrives(c) PROVE ReasonInv'
<1> USE ChannelAssumption, MaxTokenAssumption DEF IInv
<1>1. /\ pc[c] = "exchange" /\ issued' = issued + 1 /\ companion' = issued + 1
      /\ disk'.companion = issued + 1 /\ UNCHANGED <<sberid, loaded>>
      /\ expired'["sberid"] = expired["sberid"] /\ rejected'["sberid"] = rejected["sberid"]
      /\ Resume(c, issued + 1)
  BY DEF ExchangeArrives, Replaced, TypeOK, Succeed
<1>2. \A d \in Callers \ {c} : pc[d] \notin Refreshing
  BY <1>1, NoCallerAssumption DEF HolderInv, Refreshing
<1>3. /\ issued \in Nat /\ sberid \in Nat /\ \A d \in Callers : req[d].used \in Nat
      /\ req \in [Callers -> Requests] /\ pc \in [Callers -> Places]
  BY DEF TypeOK, Tokens, Requests
<1>4. /\ Channel[c] = "companion" /\ loaded
      /\ \A d \in Callers \ {c} : pc'[d] = pc[d] /\ req'[d] = req[d]
      /\ pc'[c] \in {"sent", "token"} /\ req'[c].used \in {0, issued + 1}
  BY <1>1, <1>3 DEF ReasonInv, LoadedInv, Resume, Send, Goto, Outside
<1>5. Loaded' = issued + 1 /\ Current("companion")' = issued + 1 /\ Current("sberid")' = sberid
  BY <1>1, <1>4 DEF Loaded, Current
<1>6. LoadedInv'
  BY <1>1, <1>3, <1>4 DEF ReasonInv, LoadedInv
<1>7. UsedInv'
  <2> SUFFICES ASSUME NEW d \in Callers
               PROVE  req'[d].used <= IF Channel[d] = "companion" THEN issued' ELSE sberid'
    BY DEF UsedInv
  <2>1. req[d].used <= IF Channel[d] = "companion" THEN issued ELSE sberid
    BY DEF ReasonInv, UsedInv
  <2> QED BY <1>1, <1>3, <1>4, <2>1
<1>8. ForcedInv'
  <2> SUFFICES ASSUME NEW d \in Callers \ {c}, pc[d] = "queued", req[d].why = "force",
                      req[d].used = Current(Channel[d])'
               PROVE  req[d].used \in rejected'[Channel[d]]
    BY <1>4 DEF ForcedInv
  <2>1. Channel[d] \in {"companion", "sberid"} /\ req[d].used \in Nat
    BY <1>3
  <2>2. CASE Channel[d] = "companion"
    BY <1>3, <1>5, <2>1, <2>2 DEF ReasonInv, UsedInv
  <2>3. CASE Channel[d] = "sberid"
    BY <1>1, <1>5, <2>3 DEF ReasonInv, ForcedInv, Current
  <2> QED BY <2>1, <2>2, <2>3
<1>9. CauseInv'
  BY <1>2, <1>4 DEF CauseInv, Refreshing
<1> QED BY <1>6, <1>7, <1>8, <1>9 DEF ReasonInv

LEMMA ReasonNext == ASSUME IInv, ReasonInv, [Next]_vars PROVE ReasonInv'
<1> USE ChannelAssumption
<1>1. ASSUME NEW c \in Callers, AccessToken(c) \/ EnterLock(c) \/ Answer(c) PROVE ReasonInv'
  BY <1>1, ReasonEnters, ReasonBegins, ReasonFails, ReasonRefused, ReasonRotated, ReasonExchanged
     DEF IInv, EnterLock, Answer
<1>2. CASE Restart \/ Reauth
  <2>1. /\ \A c \in Callers : pc'[c] = "idle" /\ req'[c].used = 0
        /\ companion' = 0 /\ ~loaded' /\ issued' = issued /\ sberid' \in Nat
        /\ disk'.companion = disk.companion
    <3>1. CASE Restart
      BY <3>1 DEF Restart, NewProcess, NoRequest, sberVars, IInv, TypeOK, Tokens
    <3>2. CASE Reauth
      BY <3>2 DEF Reauth, NewProcess, NoRequest, IInv, TypeOK, Tokens
    <3> QED BY <1>2, <3>1, <3>2
  <2>2. issued \in Nat
    BY DEF IInv, TypeOK, Tokens
  <2> QED BY <2>1, <2>2 DEF ReasonInv, LoadedInv, UsedInv, ForcedInv, CauseInv, Refreshing
<1>3. CASE Revoke \/ (\E f \in Flights : Expire(f)) \/ UNCHANGED vars
  <2>1. /\ UNCHANGED <<issued, sberid, companion, loaded, disk, pc, req, rejected>>
        /\ \A f \in Flights : expired[f] \subseteq expired'[f]
    BY <1>3 DEF Revoke, Expire, vars, sfVars, sberVars, tokenVars, history, IInv, TypeOK
  <2>2. /\ Loaded' = Loaded
        /\ \A f \in Flights : Current(f)' = Current(f) /\ (CauseOf(f) => CauseOf(f)')
    BY <2>1 DEF Loaded, Current, CauseOf
  <2> QED BY <2>1, <2>2 DEF ReasonInv, LoadedInv, UsedInv, ForcedInv, CauseInv
<1> QED BY <1>1, <1>2, <1>3 DEF Next

\* However many requests are refused with one companion token, one new token is bought;
\* and the one-shot refresh token is spent only for a SberID token that had expired or
\* was refused (force_refresh() and run() in the auth modules).
THEOREM ReplacedOnlyForCause == Spec => ReplacedForCause
<1> DEFINE Cause ==
        /\ companion # 0 /\ companion' # companion /\ companion' # 0
            => companion \in expired["companion"] \cup rejected["companion"]
        /\ sberid' # sberid /\ newest' = newest
            => sberid \in expired["sberid"] \cup rejected["sberid"]
<1>1. ASSUME IInv, ReasonInv, [Next]_vars PROVE [Cause]_vars
  <2> SUFFICES ASSUME Next PROVE Cause
    BY <1>1
  <2>1. companion # 0 => loaded /\ Current("companion") = companion /\ Loaded = companion
    BY <1>1 DEF ReasonInv, LoadedInv, Current, Loaded
  <2>2. ASSUME NEW c \in Callers, AccessToken(c) PROVE Cause
    BY <2>1, <2>2 DEF AccessToken
  <2>3. ASSUME NEW c \in Callers, EnterLock(c) PROVE Cause
    BY <2>3 DEF EnterLock, SkipRefresh, ShareFailure, BeginRefresh, tokenVars
  <2>4. ASSUME NEW c \in Callers, Answer(c) PROVE Cause
    <3>1. CASE ExchangeArrives(c)
      <4>1. pc[c] \in Refreshing /\ Channel[c] = "companion" /\ sberid' = sberid
        BY <1>1, <3>1 DEF ExchangeArrives, Refreshing, ReasonInv, LoadedInv
      <4>2. Loaded = 0 \/ CauseOf("companion")
        BY <1>1, <4>1 DEF ReasonInv, CauseInv
      <4> QED BY <2>1, <4>1, <4>2 DEF CauseOf
    <3>2. CASE RotationArrives(c)
      <4>1. pc[c] = "rotated" /\ companion' = companion
        BY <3>2 DEF RotationArrives
      <4>2. CauseOf("sberid")
        BY <1>1, <4>1 DEF ReasonInv, CauseInv
      <4> QED BY <4>1, <4>2 DEF CauseOf, Current
    <3>3. CASE ~ExchangeArrives(c) /\ ~RotationArrives(c)
      BY <2>4, <3>3 DEF Answer, ServeRotation, RotationRefused, RotationFails, ExchangeRejected,
         ExchangeFails, Answered, Refused, tokenVars
    <3> QED BY <3>1, <3>2, <3>3
  <2>5. CASE Revoke \/ \E f \in Flights : Expire(f)
    BY <2>5 DEF Revoke, Expire, tokenVars
  <2>6. CASE Restart
    BY <1>1, <2>6 DEF Restart, NewProcess, IInv, OwnerInv
  <2>7. CASE Reauth
    BY <1>1, <2>7 DEF Reauth, NewProcess, IInv, TypeOK, Tokens
  <2> QED BY <2>2, <2>3, <2>4, <2>5, <2>6, <2>7 DEF Next
<1>2. Init => IInv /\ ReasonInv
  BY InitIInv, ReasonInit
<1>3. IInv /\ ReasonInv /\ [Next]_vars => (IInv /\ ReasonInv)'
  BY NextIInv, ReasonNext
<1> QED BY <1>1, <1>2, <1>3, PTL DEF Spec, ReplacedForCause
===============================================================================
