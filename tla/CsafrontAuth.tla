----------------------------- MODULE CsafrontAuth -----------------------------
(***************************************************************************)
(* The SMS-login token provider: CsafrontAuthManager                       *)
(* (auth/csafront_manager.py) and its HACsafrontTokenStore.  One refresh   *)
(* makes two requests: it rotates the CSAFront pair, then buys a           *)
(* SmartHomeToken with the new access token; memory and config entry are   *)
(* written when both have succeeded.                                       *)
(*                                                                         *)
(* Refresh tokens and SmartHomeTokens are numbered as they are issued.     *)
(***************************************************************************)
EXTENDS SingleFlight

CONSTANT MaxToken       \* bound on the tokens of each kind

ASSUME OneFlightAssumption == Flights = {"pair"}
ASSUME MaxTokenAssumption == MaxToken \in Nat \ {0}

VARIABLES
    newest,     \* Sber: the refresh token it will accept
    granted,    \* Sber: the session is alive
    issued,     \* Sber: SmartHomeTokens issued
    expired,    \* the SmartHomeTokens whose CSAFront access has expired
    tokens,     \* CsafrontAuthManager._tokens
    disk,       \* config_entry.data["csafront_tokens"]
    pc, used,   \* per caller: place of its request, token it was signed with
    fresh,      \* new_refresh, a local of the refresh that runs
    lost,       \* history: an answer of the rotation never arrived
    dropped,    \* history: a refresh token that did arrive was forgotten
    denied,     \* history: smarthome/token answered 401 or 403
    rejected    \* history: the SmartHomeTokens the gateway refused

vars == <<sfVars, newest, granted, issued, expired, tokens, disk, pc, used, fresh,
          lost, dropped, denied, rejected>>

Tokens == 0 .. MaxToken
Pairs == [refresh : Tokens \ {0}, smart : Tokens \ {0}]

TypeOK ==
    /\ SFTypeOK
    /\ newest \in Tokens \ {0} /\ issued \in Tokens \ {0} /\ granted \in BOOLEAN
    /\ expired \in SUBSET Tokens /\ rejected \in SUBSET Tokens
    /\ tokens \in Pairs /\ disk \in Pairs
    /\ pc \in [Callers -> {"idle", "access", "force", "rotate", "rotated", "kept",
                           "smart", "sent", "resent"}]
    /\ used \in [Callers -> Tokens] /\ fresh \in Tokens
    /\ lost \in BOOLEAN /\ dropped \in BOOLEAN /\ denied \in BOOLEAN

Init ==
    /\ SFInit
    /\ newest = 1 /\ issued = 1 /\ granted = TRUE
    /\ expired = {} /\ rejected = {}
    /\ tokens = [refresh |-> 1, smart |-> 1] /\ disk = tokens
    /\ pc = [c \in Callers |-> "idle"]
    /\ used = [c \in Callers |-> 0] /\ fresh = 0
    /\ lost = FALSE /\ dropped = FALSE /\ denied = FALSE

-------------------------------------------------------------------------------
Goto(c, place) == pc' = [pc EXCEPT ![c] = place]
Queued == {c \in Callers : pc[c] \in {"access", "force"}}

sber    == <<newest, granted, issued, expired>>
memory  == <<tokens, disk, fresh>>
history == <<lost, dropped, denied, rejected>>

\* access_token(): the CSAFront expiry stands for the SmartHomeToken's own.
AccessToken(c) ==
    /\ pc[c] = "idle"
    /\ \/ /\ tokens.smart \notin expired
          /\ Goto(c, "sent")
          /\ used' = [used EXCEPT ![c] = tokens.smart]
          /\ UNCHANGED missed
       \/ /\ tokens.smart \in expired
          /\ Goto(c, "access")
          /\ Queue(c)
          /\ UNCHANGED used
    /\ UNCHANGED <<lock, lastError, sber, memory, history>>

\* Mutant: force_refresh() never skips.
SkipsOnlyAccess(c) == pc[c] = "access" /\ tokens.smart \notin expired

Skips(c) ==
    \/ pc[c] = "access" /\ tokens.smart \notin expired
    \/ pc[c] = "force" /\ tokens.smart # used[c]

\* run() is over: the request is signed with the pair in memory; the one that
\* forced the refresh is sent for the second and last time.
Resume(c, token) ==
    /\ Goto(c, IF used[c] = 0 THEN "sent" ELSE "resent")
    /\ used' = [used EXCEPT ![c] = token]

\* A neighbour has refreshed; access_token(), called again after a forced
\* refresh, may find that pair expired in its turn.
SkipRefresh(c) ==
    /\ c \in Queued /\ LockFree
    /\ Skips(c)
    /\ IF tokens.smart \in expired
       THEN Goto(c, "access") /\ UNCHANGED used
       ELSE Resume(c, tokens.smart)
    /\ Leave(c)
    /\ UNCHANGED <<sber, memory, history>>

Return(c) == Goto(c, "idle") /\ used' = [used EXCEPT ![c] = 0]

ShareFailure(c) ==
    /\ c \in Queued /\ LockFree
    /\ ~Skips(c) /\ SharesError(c, "pair")
    /\ Return(c)
    /\ Leave(c)
    /\ UNCHANGED <<sber, memory, history>>

\* _refresh_tokens(): the refresh token in memory goes to Sber.
BeginRefresh(c) ==
    /\ c \in Queued /\ LockFree
    /\ ~Skips(c) /\ ~SharesError(c, "pair")
    /\ BeginAttempt(c, "pair")
    /\ Goto(c, "rotate")
    /\ UNCHANGED <<sber, memory, history, used>>

\* The token endpoint issues a new refresh token, or lets the old one stand.
ServeRotation(c) ==
    /\ pc[c] = "rotate"
    /\ granted /\ tokens.refresh = newest
    /\ \/ newest < MaxToken /\ newest' = newest + 1 /\ Goto(c, "rotated")
       \/ newest' = newest /\ Goto(c, "kept")
    /\ UNCHANGED <<sfVars, granted, issued, expired, memory, history, used>>

\* new.get("refresh_token") or the old one
NewRefresh(c) == IF pc[c] = "rotated" THEN newest ELSE tokens.refresh

\* Nothing is written yet.
RotationArrives(c) ==
    /\ pc[c] \in {"rotated", "kept"}
    /\ fresh' = NewRefresh(c)
    /\ Goto(c, "smart")
    /\ UNCHANGED <<sfVars, sber, tokens, disk, history, used>>

Fail(c, error) ==
    /\ EndAttempt(c, "pair", error, Queued)
    /\ Return(c)

\* refresh_csafront(): 400 and 401 are InvalidGrant.
RotationRefused(c) ==
    /\ pc[c] = "rotate"
    /\ ~granted \/ tokens.refresh # newest
    /\ Fail(c, "grant")
    /\ UNCHANGED <<sber, memory, history>>

RotationFails(c) ==
    /\ pc[c] \in {"rotate", "rotated", "kept"}
    /\ Fail(c, "other")
    /\ lost' = (lost \/ pc[c] = "rotated")
    /\ UNCHANGED <<sber, memory, dropped, denied, rejected>>

\* Mutant: the new pair stays in memory.
SaveNothing(pair) == UNCHANGED disk

\* HACsafrontTokenStore.save(), and save_refreshed() once more.
Save(pair) == disk' = pair

\* get_smart_home_token() succeeds: memory and disk take both tokens.
SmartArrives(c) ==
    /\ pc[c] = "smart" /\ issued < MaxToken
    /\ issued' = issued + 1
    /\ tokens' = [refresh |-> fresh, smart |-> issued + 1]
    /\ Save([refresh |-> fresh, smart |-> issued + 1])
    /\ EndAttempt(c, "pair", "none", Queued)
    /\ Resume(c, issued + 1)
    /\ UNCHANGED <<newest, granted, expired, fresh, history>>

\* 401 and 403 are InvalidGrant; a timeout, a 5xx or a bad body is not.  Either
\* way the refresh token that had arrived is gone with the local variable.
SmartFails(c, error) ==
    /\ pc[c] = "smart"
    /\ Fail(c, error)
    /\ dropped' = (dropped \/ fresh # tokens.refresh)
    /\ denied' = (denied \/ error = "grant")
    /\ UNCHANGED <<sber, memory, lost, rejected>>

-------------------------------------------------------------------------------
Answered(c) ==
    /\ pc[c] \in {"sent", "resent"}
    /\ Return(c)
    /\ UNCHANGED <<sfVars, sber, memory, history>>

\* HttpTransport: the first 401 forces a refresh, the second is the request's own.  A 200
\* whose body holds code 16, which forces one as well, is left out.
Refused(c) ==
    /\ pc[c] \in {"sent", "resent"}
    /\ rejected' = rejected \cup {used[c]}
    /\ \/ pc[c] = "sent" /\ Goto(c, "force") /\ Queue(c) /\ UNCHANGED used
       \/ pc[c] = "resent" /\ Return(c) /\ UNCHANGED missed
    /\ UNCHANGED <<lock, lastError, sber, memory, lost, dropped, denied>>

Expire ==
    /\ expired' = expired \cup {tokens.smart}
    /\ UNCHANGED <<sfVars, newest, granted, issued, memory, pc, used, history>>

Revoke ==
    /\ granted' = FALSE
    /\ UNCHANGED <<sfVars, newest, issued, expired, memory, pc, used, history>>

\* A restart or a reload at any moment; the config entry is what remains.
Restart ==
    /\ lock' = NoCaller /\ missed' = {}
    /\ lastError' = [f \in Flights |-> "none"]
    /\ tokens' = disk /\ fresh' = 0
    /\ pc' = [c \in Callers |-> "idle"] /\ used' = [c \in Callers |-> 0]
    /\ lost' = (lost \/ \E c \in Callers : pc[c] = "rotated")
    /\ dropped' = (dropped \/ \E c \in Callers : pc[c] = "smart" /\ fresh # tokens.refresh)
    /\ UNCHANGED <<sber, disk, denied, rejected>>

Answer(c) ==
    \/ ServeRotation(c) \/ RotationArrives(c) \/ RotationRefused(c) \/ RotationFails(c)
    \/ SmartArrives(c) \/ \E error \in {"grant", "other"} : SmartFails(c, error)
    \/ Answered(c) \/ Refused(c)

Next ==
    \/ \E c \in Callers :
        AccessToken(c) \/ SkipRefresh(c) \/ ShareFailure(c) \/ BeginRefresh(c) \/ Answer(c)
    \/ Expire \/ Revoke \/ Restart

Spec == Init /\ [][Next]_vars

-------------------------------------------------------------------------------
\* What the docstring of _refresh_tokens() promises: the rotated refresh token is
\* persisted at once, so that invalid_grant is never the integration's own doing.
\* An answer lost on the way, and a session Sber ended, are not its doing.
RotationIsKept == lastError["pair"] = "grant" => ~granted \/ lost \/ denied

\* What the code delivers: invalid_grant comes from Sber, from a lost answer, or
\* from a refresh token dropped because the second request of a refresh failed.
ReauthExplained == lastError["pair"] = "grant" => ~granted \/ lost \/ denied \/ dropped

\* N refused requests buy one pair: a SmartHomeToken is replaced only if it had
\* expired or the gateway had refused it.
PairReplacedForCause ==
    [][ tokens'.smart # tokens.smart => tokens.smart \in expired \cup rejected ]_vars
===============================================================================
