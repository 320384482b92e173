------------------------- MODULE CsafrontAuthProofs --------------------------
(***************************************************************************)
(* Proofs about CsafrontAuth, for any number of callers: its type          *)
(* invariant, why a user is asked to log in by SMS again, and why a pair   *)
(* of tokens is replaced.                                                  *)
(***************************************************************************)
EXTENDS CsafrontAuth, TLAPS

Refreshing == {"rotate", "rotated", "kept", "smart"}

\* A caller on a request of a refresh holds the lock, so there is one at most.
HolderInv == \A c \in Callers : pc[c] \in Refreshing => lock = c

FreshInv == \A c \in Callers : pc[c] = "smart" => fresh # 0

\* Memory has the token that Sber will accept, unless a newer one is on the wire, or
\* has arrived and waits in the local of the refresh for the second request.
KeptInv ==
    /\ disk = tokens
    /\ lost \/ dropped \/
          /\ (\A c \in Callers : pc[c] \notin {"rotated", "smart"}) => tokens.refresh = newest
          /\ \A c \in Callers : pc[c] = "smart" => fresh = newest

IInv == TypeOK /\ HolderInv /\ FreshInv /\ KeptInv /\ ReauthExplained

-------------------------------------------------------------------------------
\* What a step may do to the places of the callers.
LEMMA Moved ==
    ASSUME TypeOK, NEW c \in Callers, NEW place, Goto(c, place)
    PROVE  pc'[c] = place /\ \A d \in Callers \ {c} : pc'[d] = pc[d]
BY DEF TypeOK, Goto

LEMMA ReturnType ==
    ASSUME TypeOK, NEW c \in Callers, Return(c)
    PROVE  /\ pc' \in [Callers -> {"idle", "access", "force", "rotate", "rotated", "kept",
                                   "smart", "sent", "resent"}]
           /\ used' \in [Callers -> Tokens]
BY MaxTokenAssumption DEF TypeOK, Return, Goto, Tokens

LEMMA ResumeType ==
    ASSUME TypeOK, NEW c \in Callers, NEW token \in Tokens, Resume(c, token)
    PROVE  /\ pc' \in [Callers -> {"idle", "access", "force", "rotate", "rotated", "kept",
                                   "smart", "sent", "resent"}]
           /\ used' \in [Callers -> Tokens]
BY DEF TypeOK, Resume, Goto

LEMMA EndAttemptType ==
    ASSUME TypeOK, NEW c \in Callers, NEW error \in ErrorKinds, EndAttempt(c, "pair", error, Queued)
    PROVE  SFTypeOK'
BY OneFlightAssumption DEF TypeOK, SFTypeOK, EndAttempt, Queued

LEMMA NextTypeOK == ASSUME TypeOK, FreshInv, [Next]_vars PROVE TypeOK'
<1> USE OneFlightAssumption, MaxTokenAssumption
<1> DEFINE Rest ==
      /\ newest \in Tokens \ {0} /\ issued \in Tokens \ {0} /\ granted \in BOOLEAN
      /\ expired \in SUBSET Tokens /\ rejected \in SUBSET Tokens
      /\ tokens \in Pairs /\ disk \in Pairs /\ fresh \in Tokens
      /\ lost \in BOOLEAN /\ dropped \in BOOLEAN /\ denied \in BOOLEAN
<1>0. Rest
  BY DEF TypeOK
<1>1. ASSUME NEW c \in Callers, AccessToken(c) \/ SkipRefresh(c) \/ ShareFailure(c)
                                    \/ BeginRefresh(c) \/ Answered(c)
      PROVE  TypeOK'
  <2>1. Rest'
    BY <1>0, <1>1 DEF AccessToken, SkipRefresh, ShareFailure, BeginRefresh, Answered, sber, memory,
       history
  <2>2. SFTypeOK'
    BY <1>1 DEF TypeOK, SFTypeOK, AccessToken, SkipRefresh, ShareFailure, BeginRefresh, Answered,
       Queue, Leave, BeginAttempt, ErrorKinds, sfVars
  <2>3. tokens.smart \in Tokens
    BY <1>0 DEF Pairs
  <2>4. /\ pc' \in [Callers -> {"idle", "access", "force", "rotate", "rotated", "kept",
                                "smart", "sent", "resent"}]
        /\ used' \in [Callers -> Tokens]
    BY <1>1, <2>3, ReturnType, ResumeType DEF TypeOK, AccessToken, SkipRefresh, ShareFailure,
       BeginRefresh, Answered, Goto
  <2> QED
    BY <2>1, <2>2, <2>4 DEF TypeOK
<1>2. ASSUME NEW c \in Callers, ServeRotation(c) \/ RotationArrives(c) PROVE TypeOK'
  <2>1. newest' \in Tokens \ {0} /\ fresh' \in Tokens
    BY <1>0, <1>2 DEF ServeRotation, RotationArrives, NewRefresh, Tokens, Pairs, sber, memory
  <2>2. UNCHANGED <<sfVars, granted, issued, expired, tokens, disk, history, used>>
    BY <1>2 DEF ServeRotation, RotationArrives, sber, memory
  <2>3. pc' \in [Callers -> {"idle", "access", "force", "rotate", "rotated", "kept",
                             "smart", "sent", "resent"}]
    BY <1>2 DEF TypeOK, ServeRotation, RotationArrives, Goto
  <2> QED
    BY <2>1, <2>2, <2>3 DEF TypeOK, SFTypeOK, sfVars, history
<1>3. ASSUME NEW c \in Callers, RotationRefused(c) \/ RotationFails(c)
                                    \/ \E error \in {"grant", "other"} : SmartFails(c, error)
      PROVE  TypeOK'
  <2>1. Rest'
    BY <1>0, <1>3 DEF RotationRefused, RotationFails, SmartFails, sber, memory, history
  <2>2. \E error \in ErrorKinds : EndAttempt(c, "pair", error, Queued)
    BY <1>3 DEF RotationRefused, RotationFails, SmartFails, Fail, ErrorKinds
  <2>3. Return(c)
    BY <1>3 DEF RotationRefused, RotationFails, SmartFails, Fail
  <2> QED
    BY <2>1, <2>2, <2>3, EndAttemptType, ReturnType DEF TypeOK
<1>4. ASSUME NEW c \in Callers, SmartArrives(c) PROVE TypeOK'
  <2>1. issued + 1 \in Tokens \ {0} /\ fresh \in Tokens \ {0}
    BY <1>0, <1>4 DEF SmartArrives, FreshInv, Tokens
  <2>2. Rest'
    BY <1>0, <1>4, <2>1 DEF SmartArrives, Save, Pairs, history
  <2>3. EndAttempt(c, "pair", "none", Queued) /\ Resume(c, issued + 1)
    BY <1>4 DEF SmartArrives
  <2>4. "none" \in ErrorKinds
    BY DEF ErrorKinds
  <2> QED
    BY <2>1, <2>2, <2>3, <2>4, EndAttemptType, ResumeType DEF TypeOK
<1>5. ASSUME NEW c \in Callers, Refused(c) PROVE TypeOK'
  <2>1. used[c] \in Tokens
    BY DEF TypeOK
  <2>2. Rest'
    BY <1>0, <1>5, <2>1 DEF Refused, sber, memory
  <2>3. SFTypeOK'
    BY <1>5 DEF TypeOK, SFTypeOK, Refused, Queue
  <2>4. /\ pc' \in [Callers -> {"idle", "access", "force", "rotate", "rotated", "kept",
                                "smart", "sent", "resent"}]
        /\ used' \in [Callers -> Tokens]
    BY <1>5, ReturnType DEF TypeOK, Refused, Goto
  <2> QED
    BY <2>2, <2>3, <2>4 DEF TypeOK
<1>6. CASE Expire \/ Revoke
  <2>1. tokens.smart \in Tokens
    BY <1>0 DEF Pairs
  <2> QED
    BY <1>6, <2>1 DEF TypeOK, SFTypeOK, Expire, Revoke, sfVars, memory, history
<1>7. CASE Restart
  BY <1>7 DEF TypeOK, SFTypeOK, Restart, ErrorKinds, Tokens, sber
<1>8. CASE UNCHANGED vars
  BY <1>8 DEF TypeOK, SFTypeOK, vars, sfVars
<1> QED
  BY <1>1, <1>2, <1>3, <1>4, <1>5, <1>6, <1>7, <1>8 DEF Next, Answer

-------------------------------------------------------------------------------
\* A step that touches neither tokens nor lock, and moves no caller into or out of a
\* refresh, keeps all of it.
LEMMA Outside ==
    ASSUME IInv, NEW c \in Callers,
           pc[c] \notin Refreshing, pc'[c] \notin Refreshing,
           \A d \in Callers \ {c} : pc'[d] = pc[d],
           UNCHANGED <<lock, lastError, newest, granted, tokens, disk, fresh, lost, dropped,
                       denied>>
    PROVE  HolderInv' /\ FreshInv' /\ KeptInv' /\ ReauthExplained'
<1>1. \A d \in Callers : /\ pc'[d] \in Refreshing => pc'[d] = pc[d]
                         /\ pc[d] \in Refreshing => pc'[d] = pc[d]
  OBVIOUS
<1>2. HolderInv' /\ FreshInv'
  BY <1>1 DEF IInv, HolderInv, FreshInv, Refreshing
<1>3. KeptInv'
  BY <1>1 DEF IInv, KeptInv, Refreshing
<1>4. ReauthExplained'
  BY DEF IInv, ReauthExplained
<1> QED
  BY <1>2, <1>3, <1>4

\* Who is on a request of a refresh is there alone.
LEMMA Alone ==
    ASSUME IInv, NEW c \in Callers, pc[c] \in Refreshing \/ lock = NoCaller
    PROVE  \A d \in Callers \ {c} : pc[d] \notin Refreshing
BY NoCallerAssumption DEF IInv, HolderInv

LEMMA StepInv == ASSUME IInv, NEW c \in Callers, Answer(c)
                 PROVE  HolderInv' /\ FreshInv' /\ KeptInv' /\ ReauthExplained'
<1> USE OneFlightAssumption, NoCallerAssumption DEF IInv
<1>1. CASE Answered(c) \/ Refused(c)
  <2>1. pc[c] \notin Refreshing /\ pc'[c] \notin Refreshing
    BY <1>1 DEF TypeOK, Answered, Refused, Return, Goto, Refreshing
  <2>2. \A d \in Callers \ {c} : pc'[d] = pc[d]
    BY <1>1 DEF TypeOK, Answered, Refused, Return, Goto
  <2>3. UNCHANGED <<lock, lastError, newest, granted, tokens, disk, fresh, lost, dropped, denied>>
    BY <1>1 DEF Answered, Refused, sfVars, sber, memory, history
  <2> QED
    BY <2>1, <2>2, <2>3, Outside
<1>2. CASE ~(Answered(c) \/ Refused(c))
  <2>0. pc[c] \in Refreshing
    BY <1>2 DEF Answer, ServeRotation, RotationArrives, RotationRefused, RotationFails,
       SmartArrives, SmartFails, Refreshing
  <2>1. /\ \A d \in Callers \ {c} : pc[d] \notin Refreshing /\ pc'[d] = pc[d]
        /\ lock = c
    <3>1. \A d \in Callers \ {c} : pc'[d] = pc[d]
      BY <1>2 DEF TypeOK, Answer, ServeRotation, RotationArrives, RotationRefused, RotationFails,
         SmartArrives, SmartFails, Fail, Return, Resume, Goto
    <3> QED
      BY <2>0, <3>1, Alone DEF HolderInv
  <2>2. CASE ServeRotation(c)
    <3>1. /\ UNCHANGED <<lock, lastError, granted, tokens, disk, fresh, lost, dropped, denied>>
          /\ pc[c] = "rotate"
          /\ pc'[c] = "rotated" \/ (pc'[c] = "kept" /\ newest' = newest)
      BY <2>2 DEF TypeOK, ServeRotation, Goto, sfVars, memory, history
    <3> QED
      BY <2>1, <3>1 DEF HolderInv, FreshInv, KeptInv, ReauthExplained, Refreshing
  <2>3. CASE RotationArrives(c)
    <3>1. /\ UNCHANGED <<lock, lastError, newest, granted, tokens, disk, lost, dropped, denied>>
          /\ pc'[c] = "smart" /\ pc[c] \in {"rotated", "kept"}
          /\ fresh' = IF pc[c] = "rotated" THEN newest ELSE tokens.refresh
      BY <2>3 DEF TypeOK, RotationArrives, NewRefresh, Goto, sfVars, sber, history
    <3>2. fresh' # 0
      BY <3>1 DEF TypeOK, Pairs
    <3>3. lost \/ dropped \/ fresh' = newest
      BY <2>1, <3>1 DEF KeptInv, Refreshing
    <3> QED
      BY <2>1, <3>1, <3>2, <3>3 DEF HolderInv, FreshInv, KeptInv, ReauthExplained, Refreshing
  <2>4. CASE RotationRefused(c) \/ RotationFails(c)
                \/ \E error \in {"grant", "other"} : SmartFails(c, error)
    <3>1. /\ UNCHANGED <<newest, granted, tokens, disk, fresh>>
          /\ pc'[c] = "idle"
          /\ (lost => lost') /\ (dropped => dropped') /\ (denied => denied')
      BY <2>4 DEF TypeOK, RotationRefused, RotationFails, SmartFails, Fail, Return, Goto, sber,
         memory, history
    <3>2. HolderInv' /\ FreshInv'
      BY <2>1, <3>1 DEF HolderInv, FreshInv, Refreshing
    <3>3. lost' \/ dropped' \/ tokens.refresh = newest
      <4>1. lost \/ dropped => lost' \/ dropped'
        BY <3>1
      <4>2. CASE pc[c] \in {"rotate", "kept"}
        <5>1. \A d \in Callers : pc[d] \notin {"rotated", "smart"}
          BY <2>1, <4>2 DEF Refreshing
        <5> QED
          BY <4>1, <5>1 DEF KeptInv
      <4>3. CASE pc[c] = "rotated"
        BY <2>4, <4>3 DEF RotationRefused, RotationFails, SmartFails
      <4>4. CASE pc[c] = "smart"
        <5>1. dropped' \/ fresh = tokens.refresh
          BY <2>4, <4>4 DEF RotationRefused, RotationFails, SmartFails
        <5>2. lost \/ dropped \/ fresh = newest
          BY <4>4 DEF KeptInv
        <5> QED
          BY <4>1, <5>1, <5>2
      <4> QED
        BY <2>0, <4>2, <4>3, <4>4 DEF Refreshing
    <3>4. KeptInv'
      BY <2>1, <3>1, <3>3 DEF KeptInv, Refreshing
    <3>5. ReauthExplained'
      <4>1. CASE RotationRefused(c)
        BY <3>1, <3>3, <4>1 DEF RotationRefused, ReauthExplained
      <4>2. CASE RotationFails(c)
        BY <4>2 DEF RotationFails, Fail, EndAttempt, ReauthExplained, TypeOK, SFTypeOK
      <4>3. ASSUME NEW error \in {"grant", "other"}, SmartFails(c, error) PROVE ReauthExplained'
        BY <4>3 DEF SmartFails, Fail, EndAttempt, ReauthExplained, TypeOK, SFTypeOK
      <4> QED
        BY <2>4, <4>1, <4>2, <4>3
    <3> QED
      BY <3>2, <3>4, <3>5
  <2>5. CASE SmartArrives(c)
    <3>1. /\ pc[c] = "smart" /\ pc'[c] \notin Refreshing
          /\ tokens'.refresh = fresh /\ disk' = tokens'
          /\ UNCHANGED <<newest, granted, lost, dropped, denied>>
          /\ lastError'["pair"] = "none"
      BY <2>5 DEF TypeOK, SFTypeOK, SmartArrives, Save, Resume, Goto, EndAttempt, Refreshing,
         history
    <3>2. HolderInv' /\ FreshInv'
      BY <2>1, <3>1 DEF HolderInv, FreshInv, Refreshing
    <3>3. KeptInv'
      BY <2>1, <3>1 DEF KeptInv, Refreshing
    <3> QED
      BY <3>1, <3>2, <3>3 DEF ReauthExplained
  <2> QED
    BY <1>2, <2>2, <2>3, <2>4, <2>5 DEF Answer
<1> QED
  BY <1>1, <1>2

LEMMA NextIInv == IInv /\ [Next]_vars => IInv'
<1> SUFFICES ASSUME IInv, [Next]_vars PROVE IInv'
  OBVIOUS
<1> USE OneFlightAssumption, NoCallerAssumption
<1>0. TypeOK'
  BY NextTypeOK DEF IInv
<1>1. ASSUME NEW c \in Callers, AccessToken(c) \/ SkipRefresh(c) \/ ShareFailure(c) PROVE IInv'
  <2>1. pc[c] \notin Refreshing /\ pc'[c] \notin Refreshing
    BY <1>1 DEF IInv, TypeOK, AccessToken, SkipRefresh, ShareFailure, Resume, Return, Goto, Queued,
       Refreshing
  <2>2. \A d \in Callers \ {c} : pc'[d] = pc[d]
    BY <1>1 DEF IInv, TypeOK, AccessToken, SkipRefresh, ShareFailure, Resume, Return, Goto
  <2>3. UNCHANGED <<lock, lastError, newest, granted, tokens, disk, fresh, lost, dropped, denied>>
    BY <1>1 DEF AccessToken, SkipRefresh, ShareFailure, Leave, sber, memory, history
  <2> QED
    BY <1>0, <2>1, <2>2, <2>3, Outside DEF IInv
<1>2. ASSUME NEW c \in Callers, BeginRefresh(c) PROVE IInv'
  <2>1. \A d \in Callers : pc[d] \notin Refreshing
    BY <1>2 DEF IInv, BeginRefresh, LockFree, HolderInv
  <2>2. /\ pc'[c] = "rotate" /\ \A d \in Callers \ {c} : pc'[d] = pc[d]
        /\ lock' = c /\ lastError'["pair"] = "none"
        /\ UNCHANGED <<newest, granted, tokens, disk, fresh, lost, dropped, denied>>
    BY <1>2 DEF IInv, TypeOK, SFTypeOK, BeginRefresh, BeginAttempt, Goto, sber, memory, history
  <2> QED
    BY <1>0, <2>1, <2>2 DEF IInv, HolderInv, FreshInv, KeptInv, ReauthExplained, Refreshing
<1>3. ASSUME NEW c \in Callers, Answer(c) PROVE IInv'
  BY <1>0, <1>3, StepInv DEF IInv
<1>4. CASE Expire \/ Revoke
  BY <1>0, <1>4 DEF IInv, Expire, Revoke, HolderInv, FreshInv, KeptInv, ReauthExplained, sfVars,
     memory, history
<1>5. CASE Restart
  <2>1. /\ \A c \in Callers : pc'[c] = "idle"
        /\ tokens' = disk /\ disk' = disk /\ newest' = newest
        /\ lastError'["pair"] = "none"
        /\ lost' = (lost \/ \E c \in Callers : pc[c] = "rotated")
        /\ dropped' = (dropped \/ \E c \in Callers : pc[c] = "smart" /\ fresh # tokens.refresh)
    BY <1>5 DEF Restart, sber
  <2>2. KeptInv'
    BY <2>1 DEF IInv, KeptInv
  <2> QED
    BY <1>0, <2>1, <2>2 DEF IInv, HolderInv, FreshInv, ReauthExplained, Refreshing
<1>6. CASE UNCHANGED vars
  BY <1>0, <1>6 DEF vars, sfVars, IInv, HolderInv, FreshInv, KeptInv, ReauthExplained
<1> QED
  BY <1>1, <1>2, <1>3, <1>4, <1>5, <1>6 DEF Next

LEMMA InitIInv == Init => IInv
<1> SUFFICES ASSUME Init PROVE IInv
  OBVIOUS
<1> USE OneFlightAssumption, MaxTokenAssumption DEF Init, SFInit
<1>1. TypeOK
  <2>1. 0 \in Tokens /\ 1 \in Tokens
    BY DEF Tokens
  <2>2. [refresh |-> 1, smart |-> 1] \in Pairs
    BY <2>1 DEF Pairs
  <2>3. SFTypeOK
    BY DEF SFTypeOK, ErrorKinds
  <2>4. granted \in BOOLEAN /\ lost \in BOOLEAN /\ dropped \in BOOLEAN /\ denied \in BOOLEAN
    BY Zenon
  <2>5. pc \in [Callers -> {"idle", "access", "force", "rotate", "rotated", "kept",
                            "smart", "sent", "resent"}]
    OBVIOUS
  <2>6. /\ newest \in Tokens \ {0} /\ issued \in Tokens \ {0} /\ fresh \in Tokens
        /\ expired \in SUBSET Tokens /\ rejected \in SUBSET Tokens
        /\ used \in [Callers -> Tokens]
    BY <2>1
  <2> QED
    BY <2>2, <2>3, <2>4, <2>5, <2>6 DEF TypeOK
<1>2. HolderInv /\ FreshInv /\ KeptInv
  BY DEF HolderInv, FreshInv, KeptInv, Refreshing
<1>3. ReauthExplained
  BY DEF ReauthExplained
<1> QED
  BY <1>1, <1>2, <1>3 DEF IInv

-------------------------------------------------------------------------------
\* The manager's state keeps its types (CsafrontAuthManager.__init__()).
THEOREM TypeCorrect == Spec => []TypeOK
<1>1. IInv => TypeOK
  BY DEF IInv
<1> QED
  BY <1>1, InitIInv, NextIInv, PTL DEF Spec

\* A user who logged in by SMS is asked to do so again only if Sber ended the session, an
\* answer was lost on the way, or the second request of a refresh failed after the first had
\* brought a new refresh token (_refresh_tokens() in auth/csafront_manager.py).
THEOREM ReauthForCause == Spec => []ReauthExplained
<1>1. IInv => ReauthExplained
  BY DEF IInv
<1> QED
  BY <1>1, InitIInv, NextIInv, PTL DEF Spec

-------------------------------------------------------------------------------
\* Why a pair is replaced: who forces a refresh holds a refused token, and while a refresh
\* runs the token it will replace is an expired or a refused one.
CauseInv ==
    /\ \A c \in Callers : pc[c] = "force" => used[c] \in rejected
    /\ \A c \in Callers : pc[c] \in Refreshing => tokens.smart \in expired \cup rejected

ReasonInv == IInv /\ CauseInv

LEMMA ReasonInit == Init => ReasonInv
<1> SUFFICES ASSUME Init PROVE ReasonInv
  OBVIOUS
<1>1. CauseInv
  BY DEF Init, CauseInv, Refreshing
<1> QED
  BY <1>1, InitIInv DEF ReasonInv

\* A step of one caller that keeps the pair, and brings it neither to a force nor to a refresh.
LEMMA CauseStands ==
    ASSUME CauseInv, NEW c \in Callers,
           \A d \in Callers \ {c} : pc'[d] = pc[d] /\ used'[d] = used[d],
           pc'[c] = "force" => used'[c] \in rejected',
           pc'[c] \in Refreshing => pc[c] \in Refreshing,
           UNCHANGED <<tokens, expired>>, rejected \subseteq rejected'
    PROVE  CauseInv'
<1>1. \A d \in Callers : pc'[d] = "force" => used'[d] \in rejected'
  BY DEF CauseInv
<1>2. ASSUME NEW d \in Callers, pc'[d] \in Refreshing
      PROVE  tokens'.smart \in expired' \cup rejected'
  <2>1. pc[d] \in Refreshing
    BY <1>2
  <2> QED
    BY <2>1 DEF CauseInv
<1> QED
  BY <1>1, <1>2 DEF CauseInv, Refreshing

\* Nobody else is in a refresh when a new pair arrives, and who brought it has left.
LEMMA CauseArrives ==
    ASSUME ReasonInv, NEW c \in Callers, SmartArrives(c)
    PROVE  CauseInv' /\ tokens.smart \in expired \cup rejected
<1>1. /\ pc[c] = "smart"
      /\ pc'[c] \notin Refreshing \cup {"force"}
      /\ \A d \in Callers \ {c} : pc'[d] = pc[d] /\ used'[d] = used[d]
      /\ rejected' = rejected
  BY DEF SmartArrives, Resume, Goto, ReasonInv, IInv, TypeOK, Refreshing, history
<1>2. \A d \in Callers \ {c} : pc[d] \notin Refreshing
  BY <1>1, Alone DEF ReasonInv, Refreshing
<1>3. tokens.smart \in expired \cup rejected
  BY <1>1 DEF ReasonInv, CauseInv, Refreshing
<1> QED
  BY <1>1, <1>2, <1>3 DEF ReasonInv, CauseInv, Refreshing

\* The refresh that begins has a cause, whichever call asked for it.
LEMMA CauseBegins ==
    ASSUME ReasonInv, NEW c \in Callers, BeginRefresh(c)
    PROVE  CauseInv'
<1>1. /\ c \in Queued /\ ~Skips(c)
      /\ pc'[c] = "rotate"
      /\ \A d \in Callers \ {c} : pc'[d] = pc[d]
      /\ UNCHANGED <<tokens, expired, rejected, used>>
  BY DEF BeginRefresh, Goto, ReasonInv, IInv, TypeOK, sber, memory, history
<1>2. tokens.smart \in expired \cup rejected
  BY <1>1 DEF Queued, Skips, ReasonInv, CauseInv
<1> QED
  BY <1>1, <1>2 DEF ReasonInv, CauseInv, Refreshing

LEMMA ReasonNext ==
    ASSUME ReasonInv, [Next]_vars
    PROVE  /\ ReasonInv'
           /\ tokens'.smart # tokens.smart => tokens.smart \in expired \cup rejected
<1>0. IInv' /\ IInv /\ CauseInv
  BY NextIInv DEF ReasonInv
<1> USE DEF IInv, TypeOK, Refreshing, sfVars, sber, memory, history
<1>1. ASSUME NEW c \in Callers,
             AccessToken(c) \/ SkipRefresh(c) \/ ShareFailure(c) \/ ServeRotation(c)
               \/ RotationArrives(c) \/ RotationRefused(c) \/ RotationFails(c)
               \/ (\E error \in {"grant", "other"} : SmartFails(c, error)) \/ Answered(c)
      PROVE  CauseInv' /\ tokens' = tokens
  <2>1. UNCHANGED <<tokens, expired, rejected>>
    BY <1>1 DEF AccessToken, SkipRefresh, ShareFailure, ServeRotation, RotationArrives,
       RotationRefused, RotationFails, SmartFails, Answered
  <2>2. /\ \A d \in Callers \ {c} : pc'[d] = pc[d] /\ used'[d] = used[d]
        /\ pc'[c] # "force"
        /\ pc'[c] \in Refreshing => pc[c] \in Refreshing
    BY <1>0, <1>1 DEF AccessToken, SkipRefresh, ShareFailure, ServeRotation, RotationArrives,
       RotationRefused, RotationFails, SmartFails, Answered, Fail, Return, Resume, Goto
  <2> QED
    BY <1>0, <2>1, <2>2, CauseStands
<1>2. ASSUME NEW c \in Callers, Refused(c) PROVE CauseInv' /\ tokens' = tokens
  <2>1. UNCHANGED <<tokens, expired>> /\ rejected' = rejected \cup {used[c]}
    BY <1>2 DEF Refused
  <2>2. /\ \A d \in Callers \ {c} : pc'[d] = pc[d] /\ used'[d] = used[d]
        /\ pc'[c] = "force" => used'[c] = used[c]
        /\ pc'[c] \notin Refreshing
    BY <1>0, <1>2 DEF Refused, Return, Goto
  <2> QED
    BY <1>0, <2>1, <2>2, CauseStands
<1>3. ASSUME NEW c \in Callers, BeginRefresh(c) PROVE CauseInv' /\ tokens' = tokens
  BY <1>3, CauseBegins DEF BeginRefresh
<1>4. ASSUME NEW c \in Callers, SmartArrives(c)
      PROVE  CauseInv' /\ tokens.smart \in expired \cup rejected
  BY <1>4, CauseArrives
<1>5. ASSUME Expire \/ Revoke PROVE CauseInv' /\ tokens' = tokens
  BY <1>0, <1>5 DEF Expire, Revoke, CauseInv
<1>6. ASSUME Restart PROVE CauseInv' /\ tokens' = tokens
  <2>1. /\ \A c \in Callers : pc'[c] = "idle"
        /\ tokens' = tokens
    BY <1>0, <1>6 DEF Restart, KeptInv
  <2> QED
    BY <2>1 DEF CauseInv
<1>7. ASSUME UNCHANGED vars PROVE CauseInv' /\ tokens' = tokens
  BY <1>0, <1>7 DEF vars, CauseInv
<1> QED
  BY <1>0, <1>1, <1>2, <1>3, <1>4, <1>5, <1>6, <1>7 DEF Next, Answer, ReasonInv

\* A SmartHomeToken is bought again only if the one in memory had expired or the gateway
\* had refused it, however many requests were refused at once (the skip conditions of
\* access_token() and force_refresh() in auth/csafront_manager.py).
THEOREM PairReplacedOnlyForCause == Spec => PairReplacedForCause
<1>1. ReasonInv /\ [Next]_vars
        => [tokens'.smart # tokens.smart => tokens.smart \in expired \cup rejected]_vars
  BY ReasonNext
<1>2. ReasonInv /\ [Next]_vars => ReasonInv'
  BY ReasonNext
<1> QED
  BY <1>1, <1>2, ReasonInit, PTL DEF Spec, PairReplacedForCause
===============================================================================
