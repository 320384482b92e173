------------------------------ MODULE TokenAuth ------------------------------
(***************************************************************************)
(* Signing of requests with Sber tokens: AuthManager (auth/manager.py),    *)
(* its persistence in the config entry (_ha_token_store.py) and the retry  *)
(* logic of HttpTransport (transport/http.py) on top of it.                *)
(*                                                                         *)
(* A caller is one HttpTransport.request().  On the "companion" channel it *)
(* signs with the companion token, which is bought with a SberID token; on *)
(* the "sberid" channel (speaker settings) it signs with the SberID token  *)
(* itself.  Both channels live off ONE one-shot SberID refresh token.      *)
(*                                                                         *)
(* SberID tokens are numbered in the order Sber issues them; a rotation    *)
(* is accepted only for the newest one.  Companion tokens are numbered     *)
(* too, and 0 stands for None.                                             *)
(***************************************************************************)
EXTENDS SingleFlight

CONSTANTS
    Channel,    \* Channel[c]: "companion" or "sberid"
    Codes,      \* the refusals Sber answers with: "401", and in-band "16"
    MaxToken    \* bound on the tokens of each kind Sber issues

ASSUME ChannelAssumption ==
    /\ Flights = {"companion", "sberid"}
    /\ Channel \in [Callers -> Flights]
ASSUME CodesAssumption == Codes \subseteq {"401", "16"}
ASSUME MaxTokenAssumption == MaxToken \in Nat \ {0}

VARIABLES
    \* Sber
    newest,     \* the newest SberID token issued under the grant
    granted,    \* the user's grant has not been revoked
    issued,     \* number of companion tokens issued
    expired,    \* per flight: the token in use, once past its expires_at (less the leeway)
    \* the integration's process
    sberid,     \* AuthManager._sberid
    companion,  \* AuthManager._companion, 0 for None
    loaded,     \* AuthManager._loaded
    pc, req,    \* per caller: where its request is, and the request's locals
    \* config_entry.data
    disk,
    \* history, for the properties
    lost,       \* the answer to an accepted rotation never arrived
    rejected,   \* per flight: the token in use, once some answer has refused it
    refused     \* per flight: rotations Sber refused since the process started

sberVars  == <<newest, granted, issued, expired>>
tokenVars == <<sberid, companion, loaded, disk>>
history   == <<lost, rejected, refused>>
vars      == <<sfVars, sberVars, tokenVars, pc, req, history>>

Tokens == 0 .. MaxToken

Places == {"idle",      \* no request
           "token",     \* about to repeat its request after a refusal
           "queued",    \* in run(), waiting for the lock
           "rotate",    \* holding it, the SberID rotation sent
           "rotated",   \* the rotation accepted, its answer not yet here
           "exchange",  \* holding it, the companion exchange sent
           "sent"}      \* the signed request sent

Requests == [why     : {"access", "force"},     \* which public call entered run()
             used    : Tokens,                  \* the token the request was signed with
             wire    : Tokens,                  \* the refresh token of its rotation
             renewed : BOOLEAN,                 \* the exchange is the repeated one
             retried : SUBSET Codes]            \* the refusals no longer retried

NoRequest == [why |-> "access", used |-> 0, wire |-> 0, renewed |-> FALSE, retried |-> {}]

TypeOK ==
    /\ SFTypeOK
    /\ newest \in Tokens \ {0} /\ granted \in BOOLEAN /\ issued \in Tokens
    /\ expired \in [Flights -> SUBSET Tokens]
    /\ sberid \in Tokens \ {0} /\ companion \in Tokens /\ loaded \in BOOLEAN
    /\ disk \in [sberid : Tokens \ {0}, companion : Tokens]
    /\ pc \in [Callers -> Places]
    /\ req \in [Callers -> Requests]
    /\ lost \in BOOLEAN
    /\ rejected \in [Flights -> SUBSET Tokens]
    /\ refused \in [Flights -> 0 .. 2]

Init ==
    /\ SFInit
    /\ newest = 1 /\ granted = TRUE /\ issued = 0
    /\ expired = [f \in Flights |-> {}]
    /\ sberid = 1 /\ companion = 0 /\ loaded = FALSE
    /\ disk = [sberid |-> 1, companion |-> 0]
    /\ pc = [c \in Callers |-> "idle"]
    /\ req = [c \in Callers |-> NoRequest]
    /\ lost = FALSE
    /\ rejected = [f \in Flights |-> {}]
    /\ refused = [f \in Flights |-> 0]

-------------------------------------------------------------------------------
\* The companion token once _ensure_loaded() has run.
Loaded == IF loaded THEN companion ELSE disk.companion

Current(f) == IF f = "companion" THEN Loaded ELSE sberid

Valid(f) == Current(f) # 0 /\ Current(f) \notin expired[f]

\* Mutant: force_refresh() does not compare with the token that was refused.
SkipsOnlyIfValid(c) == req[c].why = "access" /\ Valid(Channel[c])

\* The skip check of the two public calls, evaluated under the lock.
Skips(c) ==
    IF req[c].why = "access"
    THEN Valid(Channel[c])
    ELSE Current(Channel[c]) # 0 /\ Current(Channel[c]) # req[c].used

\* Mutant: each flight has a lock of its own.
MayEnterOwnLock(c) == \A holder \in Callers : lock = holder => Channel[holder] # Channel[c]

\* The two flights are built on the one lock of the AuthManager.
MayEnter(c) == LockFree

Waiting(f) == {c \in Callers : Channel[c] = f /\ pc[c] = "queued"}

Goto(c, place) == pc' = [pc EXCEPT ![c] = place]

\* The request is over, with a result or an exception.
Return(c) == Goto(c, "idle") /\ req' = [req EXCEPT ![c] = NoRequest]

\* Out of run(), a request keeps the refusals it has retried.
Outside(c, token) ==
    [why |-> "access", used |-> token, wire |-> 0, renewed |-> FALSE,
     retried |-> req[c].retried]

\* The request is signed with the token and sent.
Send(c, token) == Goto(c, "sent") /\ req' = [req EXCEPT ![c] = Outside(c, token)]

\* run() returns: access_token() hands out the token, while after
\* force_refresh() the request asks for the token again.
Resume(c, token) ==
    IF req[c].why = "access"
    THEN Send(c, token)
    ELSE Goto(c, "token") /\ req' = [req EXCEPT ![c] = Outside(c, 0)]

-------------------------------------------------------------------------------
(* HttpTransport.request() up to the lock *)

\* A request starts, or is repeated: access_token(), sberid_access_token().
\* _ensure_loaded() takes the lock to read the store, and a valid token is
\* returned without the lock.
AccessToken(c) ==
    /\ pc[c] \in {"idle", "token"}
    /\ Channel[c] = "companion" /\ ~loaded => LockFree
    /\ IF Channel[c] = "companion"
       THEN companion' = Loaded /\ loaded' = TRUE
       ELSE UNCHANGED <<companion, loaded>>
    /\ \/ /\ Valid(Channel[c])
          /\ Send(c, Current(Channel[c]))
          /\ UNCHANGED missed
       \/ /\ ~Valid(Channel[c])
          /\ Goto(c, "queued")
          /\ req' = [req EXCEPT ![c].why = "access"]
          /\ Queue(c)
    /\ UNCHANGED <<lock, lastError, sberVars, sberid, disk, history>>

\* run() under the lock: a neighbour has already renewed the token.
SkipRefresh(c) ==
    /\ pc[c] = "queued" /\ MayEnter(c)
    /\ Skips(c)
    /\ Resume(c, Current(Channel[c]))
    /\ Leave(c)
    /\ UNCHANGED <<sberVars, tokenVars, history>>

\* run() under the lock: a neighbour's failure is this caller's failure.
ShareFailure(c) ==
    /\ pc[c] = "queued" /\ MayEnter(c)
    /\ ~Skips(c) /\ SharesError(c, Channel[c])
    /\ Return(c)
    /\ Leave(c)
    /\ UNCHANGED <<sberVars, tokenVars, history>>

\* refresh_sberid_tokens() with the refresh token in memory; again is TRUE for
\* the rotation that repeats a rejected exchange.
Rotate(c, again) ==
    /\ Goto(c, "rotate")
    /\ req' = [req EXCEPT ![c].used = 0, ![c].wire = sberid, ![c].renewed = again]

\* _refresh_companion() and _refresh_sberid_only(), up to their first request.
BeginRefresh(c) ==
    /\ pc[c] = "queued" /\ MayEnter(c)
    /\ ~Skips(c) /\ ~SharesError(c, Channel[c])
    /\ BeginAttempt(c, Channel[c])
    /\ IF Channel[c] = "companion" /\ sberid \notin expired["sberid"]
       THEN Goto(c, "exchange") /\ req' = [req EXCEPT ![c].used = 0]
       ELSE Rotate(c, FALSE)
    /\ UNCHANGED <<sberVars, tokenVars, history>>

-------------------------------------------------------------------------------
(* The requests of a refresh, and what Sber makes of them.  A refresh token
   works once: Sber rotates the newest one of a live grant and refuses the rest. *)

\* The attempt of c fails: every caller that waits for it will share the error,
\* and c's own request ends with it.
Fail(c, error) ==
    /\ EndAttempt(c, Channel[c], error, Waiting(Channel[c]))
    /\ Return(c)

Succeed(c, token) ==
    /\ EndAttempt(c, Channel[c], "none", Waiting(Channel[c]))
    /\ Resume(c, token)

\* Sber accepts the rotation; its answer is on the way.
ServeRotation(c) ==
    /\ pc[c] = "rotate"
    /\ granted /\ req[c].wire = newest /\ newest < MaxToken
    /\ newest' = newest + 1
    /\ Goto(c, "rotated")
    /\ UNCHANGED <<sfVars, granted, issued, expired, tokenVars, history, req>>

\* The flight's token is replaced: what is known of the old one says nothing more.
Replaced(f) ==
    /\ expired' = [expired EXCEPT ![f] = {}]
    /\ rejected' = [rejected EXCEPT ![f] = {}]

\* Mutant: the rotated token stays in memory.
SaveNothing(token) == UNCHANGED disk

\* _notify_sberid_refreshed() -> HATokenStore.save_sberid()
SaveSberId(token) == disk' = [disk EXCEPT !.sberid = token]

\* The new pair arrives and is persisted in the same step; a companion flight
\* goes on to the exchange.
RotationArrives(c) ==
    /\ pc[c] = "rotated"
    /\ LET token == req[c].wire + 1
       IN  /\ sberid' = token
           /\ SaveSberId(token)
           /\ IF Channel[c] = "companion"
              THEN /\ Goto(c, "exchange")
                   /\ req' = [req EXCEPT ![c].wire = 0]
                   /\ UNCHANGED sfVars
              ELSE Succeed(c, token)
    /\ Replaced("sberid")
    /\ UNCHANGED <<newest, granted, issued, companion, loaded, lost, refused>>

\* invalid_grant: the token was used before, or the grant is gone.
RotationRefused(c) ==
    /\ pc[c] = "rotate"
    /\ ~granted \/ req[c].wire # newest
    /\ Fail(c, "grant")
    /\ refused' = [refused EXCEPT ![Channel[c]] = IF @ < 2 THEN @ + 1 ELSE @]
    /\ UNCHANGED <<sberVars, tokenVars, lost, rejected>>

\* NetworkError, AuthError or ApiError, before or after Sber has rotated the token.
RotationFails(c) ==
    /\ pc[c] \in {"rotate", "rotated"}
    /\ Fail(c, "other")
    /\ lost' = (lost \/ pc[c] = "rotated")
    /\ UNCHANGED <<sberVars, tokenVars, rejected, refused>>

\* exchange_for_companion_token() succeeds; the token is saved to the store.
ExchangeArrives(c) ==
    /\ pc[c] = "exchange" /\ issued < MaxToken
    /\ issued' = issued + 1
    /\ companion' = issued + 1
    /\ disk' = [disk EXCEPT !.companion = issued + 1]
    /\ Succeed(c, issued + 1)
    /\ Replaced("companion")
    /\ UNCHANGED <<newest, granted, sberid, loaded, lost, refused>>

\* The exchange answers AuthError: once, the SberID token is rotated and the
\* exchange repeated; the second AuthError is final.
ExchangeRejected(c) ==
    /\ pc[c] = "exchange"
    /\ rejected' = [rejected EXCEPT !["sberid"] = @ \cup {sberid}]
    /\ \/ ~req[c].renewed /\ Rotate(c, TRUE) /\ UNCHANGED sfVars
       \/ req[c].renewed /\ Fail(c, "other")
    /\ UNCHANGED <<sberVars, tokenVars, lost, refused>>

\* NetworkError or ApiError of the exchange.
ExchangeFails(c) ==
    /\ pc[c] = "exchange"
    /\ Fail(c, "other")
    /\ UNCHANGED <<sberVars, tokenVars, history>>

-------------------------------------------------------------------------------
(* The answer to the signed request *)

\* A success, or an error that is none of the token's business.
Answered(c) ==
    /\ pc[c] = "sent"
    /\ Return(c)
    /\ UNCHANGED <<sfVars, sberVars, tokenVars, history>>

\* One retry after a 401, and one after an in-band code 16.
Retryable(c, code) == code \notin req[c].retried

\* What the request carries into run() to have the refused token replaced; after
\* code 16 it is repeated with skip_auth_retry, and no refusal is retried again.
Forced(c, code) ==
    [why |-> "force", used |-> req[c].used, wire |-> 0, renewed |-> FALSE,
     retried |-> IF code = "16" THEN Codes ELSE req[c].retried \cup {code}]

\* 401, or code 16 inside a 200: the token is renewed and the request repeated;
\* after the retry the refusal is the request's own error.
Refused(c, code) ==
    /\ pc[c] = "sent"
    /\ rejected' = [rejected EXCEPT ![Channel[c]] =
                       (@ \cup {req[c].used}) \cap {Current(Channel[c])}]
    /\ \/ /\ Retryable(c, code)
          /\ req' = [req EXCEPT ![c] = Forced(c, code)]
          /\ Goto(c, "queued")
          /\ Queue(c)
       \/ ~Retryable(c, code) /\ Return(c) /\ UNCHANGED missed
    /\ UNCHANGED <<lock, lastError, sberVars, tokenVars, lost, refused>>

-------------------------------------------------------------------------------
(* Time, Sber and Home Assistant *)

Expire(f) ==
    /\ Current(f) # 0
    /\ expired' = [expired EXCEPT ![f] = @ \cup {Current(f)}]
    /\ UNCHANGED <<sfVars, newest, granted, issued, tokenVars, pc, req, history>>

\* The user logs out everywhere, or Sber drops the session.
Revoke ==
    /\ granted
    /\ granted' = FALSE
    /\ UNCHANGED <<sfVars, newest, issued, expired, tokenVars, pc, req, history>>

\* A new AuthManager reads config_entry.data; every request of the old one is
\* gone, and so is the answer one of them may have been waiting for.
NewProcess(data) ==
    /\ lock' = NoCaller /\ missed' = {}
    /\ lastError' = [f \in Flights |-> "none"]
    /\ disk' = data
    /\ sberid' = data.sberid /\ companion' = 0 /\ loaded' = FALSE
    /\ pc' = [c \in Callers |-> "idle"]
    /\ req' = [c \in Callers |-> NoRequest]
    /\ refused' = [f \in Flights |-> 0]

\* A reload of the entry, a restart of Home Assistant or a crash.
Restart ==
    /\ NewProcess(disk)
    /\ lost' = (lost \/ \E c \in Callers : pc[c] = "rotated")
    /\ UNCHANGED <<sberVars, rejected>>

\* The reauth flow writes the tokens of a new grant and reloads the entry.
Reauth ==
    /\ newest < MaxToken
    /\ newest' = newest + 1 /\ granted' = TRUE
    /\ NewProcess([disk EXCEPT !.sberid = newest + 1])
    /\ lost' = FALSE
    /\ Replaced("sberid")
    /\ UNCHANGED issued

-------------------------------------------------------------------------------
EnterLock(c) == SkipRefresh(c) \/ ShareFailure(c) \/ BeginRefresh(c)

\* The requests on the wire are answered, or fail with a timeout.
Answer(c) ==
    \/ ServeRotation(c) \/ RotationArrives(c) \/ RotationRefused(c) \/ RotationFails(c)
    \/ ExchangeArrives(c) \/ ExchangeRejected(c) \/ ExchangeFails(c)
    \/ Answered(c) \/ \E code \in Codes : Refused(c, code)

Next ==
    \/ \E c \in Callers : AccessToken(c) \/ EnterLock(c) \/ Answer(c)
    \/ \E f \in Flights : Expire(f)
    \/ Revoke \/ Restart \/ Reauth

Spec == Init /\ [][Next]_vars

-------------------------------------------------------------------------------
(* Properties *)

\* The user is asked to log in again (InvalidGrant) only if the grant was
\* revoked or an accepted rotation's answer was lost on the way: two channels,
\* any number of concurrent 401s and restarts never present a used refresh token.
NoSpuriousReauth ==
    \A f \in Flights : lastError[f] = "grant" => ~granted \/ lost

\* A restart at any moment starts from the newest refresh token, unless the
\* answer carrying it is still on the wire or was lost.
DiskSurvivesRestart ==
    \/ lost
    \/ disk.sberid = newest
    \/ \E c \in Callers : pc[c] = "rotated"

\* Once Sber has said invalid_grant to a flight, no request bothers Sber again
\* with that refresh token until the entry is reloaded.
RefusedOnce == \A f \in Flights : refused[f] <= 1

\* N requests refused with the same companion token buy one new token, and the
\* one-shot refresh token is spent only for a SberID token that had expired or
\* that Sber had refused, whichever channel asks.
ReplacedForCause ==
    [][ /\ companion # 0 /\ companion' # companion /\ companion' # 0
            => companion \in expired["companion"] \cup rejected["companion"]
        /\ sberid' # sberid /\ newest' = newest
            => sberid \in expired["sberid"] \cup rejected["sberid"] ]_vars

\* The one lock is held only by a caller whose refresh has a request on the
\* wire: no error, skip or restart leaves it taken, with everybody waiting.
LockHolderWorks == lock # NoCaller => pc[lock] \in {"rotate", "rotated", "exchange"}
===============================================================================
