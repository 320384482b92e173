----------------------------- MODULE LoginFlows -----------------------------
(***************************************************************************)
(* One config flow of the integration: the two ways to sign in, the check  *)
(* of the smart home gateway, and the entry it creates or, as reauth,      *)
(* updates (config_flow.py, auth_view.py, auth_state.py, api.py and the    *)
(* requests of aiosber/auth/csafront.py).  The user may close the dialog   *)
(* while a request is under way.                                           *)
(*                                                                         *)
(* Every sign-in starts a chain of one-time refresh tokens at Sber; using  *)
(* one replaces it.  A token is its chain and its number there.            *)
(***************************************************************************)
EXTENDS Integers, Sequences

CONSTANTS
    Accounts,   \* Sber accounts of the household
    NoAccount,  \* unique_id is None
    MaxLogins,  \* bound on the chains
    MaxRotation \* bound on the rotations of a chain

VARIABLES
    stage,      \* the form or external step shown, or the request awaited
    source,     \* "user" or "reauth"
    method,     \* CONF_AUTH_METHOD, or the choice of the menu
    entry,      \* the config entry: unique_id and tokens, or NoEntry
    uid,        \* unique_id of the flow
    phone,      \* _csafront_phone
    tokens,     \* _csafront_tokens or _sberid_tokens, or NoToken
    stored,     \* what the store of a check under way holds, or NoToken
    ouid,       \* _csafront_ouid is set, with its client and PKCE pair
    challenge,  \* _csafront_email_challenge: none, to be initialized, sent
    pending,    \* the flow is in pending_auth_flows, its client open
    chains,     \* Sber: per sign-in its account and the number of the token in force
    lost        \* history: chains whose last rotation never reached the flow

loginVars == <<stage, source, method, entry, uid, phone, tokens, stored, ouid, challenge,
               pending, chains, lost>>

NoToken == [chain |-> 0, n |-> 0]
NoEntry == [uid |-> NoAccount, tokens |-> NoToken, method |-> "none"]
Newest(c) == [chain |-> c, n |-> chains[c].n]

Init ==
    /\ chains = <<>> /\ lost = {}
    /\ \/ /\ source = "user" /\ entry = NoEntry
          /\ stage = "menu" /\ method = "none"
       \/ /\ source = "reauth"
          /\ \E a \in Accounts \cup {NoAccount}, m \in {"sberid", "sms"} :
                \* an entry of SMS always has the phone for its unique_id
                /\ m = "sms" => a # NoAccount
                /\ entry = [uid |-> a, tokens |-> NoToken, method |-> m]
                /\ method = m
          /\ stage = "confirm"
    /\ uid = NoAccount /\ phone = NoAccount
    /\ tokens = NoToken /\ stored = NoToken
    /\ ouid = FALSE /\ challenge = "none" /\ pending = FALSE

\* _csafront_cleanup()
CleanUp == ouid' = FALSE /\ challenge' = "none" /\ tokens' = NoToken

\* The dialog is closed or the flow has ended: async_remove()
Gone == stage' = "gone" /\ pending' = FALSE

\* Mutant: another account is refused only when an entry is to be created.
OtherOnlyForNew(u) == source = "user" /\ entry.uid = u /\ u # NoAccount

\* _abort_if_other_account()
OtherAccount(u) ==
    IF source = "reauth" THEN entry.uid # NoAccount /\ entry.uid # u
    ELSE entry.uid = u /\ u # NoAccount

\* A sign-in succeeds: Sber starts a chain.
SignsIn(a, t) ==
    /\ Len(chains) < MaxLogins
    /\ chains' = Append(chains, [account |-> a, n |-> 0])
    /\ t = [chain |-> Len(chains) + 1, n |-> 0]

-------------------------------------------------------------------------------
(* Beginning *)

\* async_step_user(), async_step_reauth_confirm()
Choose ==
    /\ stage \in {"menu", "confirm"}
    /\ method' \in IF stage = "menu" THEN {"sberid", "sms"} ELSE {method}
    /\ IF method' = "sms"
       THEN stage' = "phone" /\ UNCHANGED pending
       ELSE stage' = "external" /\ pending' = TRUE
    /\ phone' = IF method' = "sms" /\ source = "reauth" THEN entry.uid ELSE phone
    /\ UNCHANGED <<source, entry, uid, tokens, stored, ouid, challenge, chains, lost>>

Close ==
    /\ stage # "gone"
    /\ Gone
    /\ UNCHANGED <<source, method, entry, uid, phone, tokens, stored, ouid, challenge, chains, lost>>

-------------------------------------------------------------------------------
(* Sber ID *)

\* cleanup_expired(), called by another flow
Expire ==
    /\ pending
    /\ pending' = FALSE
    /\ UNCHANGED <<stage, source, method, entry, uid, phone, tokens, stored, ouid, challenge,
                   chains, lost>>

\* The frontend reads the external step again: _start_external_auth() gives the
\* same address, or begins anew after it expired.
ReadAgain ==
    /\ stage = "external" /\ ~pending
    /\ pending' = TRUE
    /\ UNCHANGED <<stage, source, method, entry, uid, phone, tokens, stored, ouid, challenge,
                   chains, lost>>

\* SberAuthCallbackView.post(), which knows only pending flows: the code is
\* exchanged (SberAPI.authorize_by_url()), then async_step_finish() takes the
\* tokens over and asks for the account.  Without an id_token there is none.
Callback ==
    /\ stage = "external" /\ pending
    /\ pending' = FALSE
    /\ \E a \in Accounts, t \in [chain : 1 .. MaxLogins, n : {0}] :
        /\ SignsIn(a, t)
        /\ \E u \in {a, NoAccount} :
            /\ uid' = u
            /\ IF OtherAccount(u)
               THEN stage' = "gone" /\ UNCHANGED <<tokens, stored>>
               ELSE stage' = "probing-sberid" /\ tokens' = t /\ stored' = NoToken
    /\ UNCHANGED <<source, method, entry, phone, ouid, challenge, lost>>

\* async_step_sberid_retry(); the answer that rotated the tokens may have had no
\* id_token, and without one there is no account to compare.
Retry ==
    /\ stage = "retry"
    /\ IF tokens = NoToken
       THEN stage' = "external" /\ pending' = TRUE /\ UNCHANGED uid
       ELSE /\ uid' \in IF tokens.n = 0 THEN {uid} ELSE {uid, NoAccount}
            /\ stage' = IF OtherAccount(uid') THEN "gone" ELSE "probing-sberid"
            /\ UNCHANGED pending
    /\ UNCHANGED <<source, method, entry, phone, tokens, stored, ouid, challenge, chains, lost>>

-------------------------------------------------------------------------------
(* SMS and e-mail codes *)

\* _csafront_send_otp()
Sends(place) == CleanUp /\ stage' = place

\* async_step_sms_phone(); a phone that is no phone only repeats the form
EnterPhone ==
    /\ stage = "phone"
    /\ \E p \in Accounts :
        /\ uid' = p
        /\ IF OtherAccount(p)
           THEN Gone /\ UNCHANGED <<phone, tokens, ouid, challenge>>
           ELSE Sends("sending") /\ phone' = p /\ UNCHANGED pending
    /\ UNCHANGED <<source, method, entry, stored, chains, lost>>

\* async_step_sms_otp() with the box "resend"
Resend ==
    /\ stage = "sms"
    /\ Sends("resending")
    /\ UNCHANGED <<source, method, entry, uid, phone, stored, pending, chains, lost>>

\* send_otp(): a failure closes the client.
Sent ==
    /\ stage \in {"sending", "resending"}
    /\ \/ stage' = "sms" /\ ouid' = TRUE
       \/ stage' = (IF stage = "sending" THEN "phone" ELSE "sms") /\ ouid' = FALSE
    /\ UNCHANGED <<source, method, entry, uid, phone, tokens, stored, challenge, pending, chains, lost>>

\* A code that was accepted is not asked for again.
AsksTheCode == tokens = NoToken

\* The forms for the code: it is checked, or only the gateway once more.
EnterCode ==
    /\ stage \in {"sms", "email"}
    /\ IF AsksTheCode
       THEN /\ ouid /\ challenge # "due"
            /\ stage' = IF stage = "sms" THEN "verifying-sms" ELSE "verifying-email"
            /\ UNCHANGED stored
       ELSE /\ stage' = IF stage = "sms" THEN "probing-sms" ELSE "probing-email"
            /\ stored' = NoToken
    /\ UNCHANGED <<source, method, entry, uid, phone, tokens, ouid, challenge, pending, chains, lost>>

\* verify_otp(): the code is wrong, the operation has expired, the factor is not
\* supported, or an e-mail is due as well.
Verified ==
    /\ stage \in {"verifying-sms", "verifying-email"}
    /\ LET form == IF stage = "verifying-sms" THEN "sms" ELSE "email" IN
        \/ stage' = form /\ UNCHANGED <<tokens, ouid, challenge>>
        \/ stage' = form /\ CleanUp
        \/ /\ form = "sms"
           /\ challenge' \in {"due", "sent"}
           /\ stage' = IF challenge' = "due" THEN "initializing" ELSE "email"
           /\ UNCHANGED <<tokens, ouid>>
        \/ stage' = (IF form = "sms" THEN "exchanging-sms" ELSE "exchanging-email")
           /\ ouid' = FALSE /\ challenge' = "none" /\ UNCHANGED tokens
    /\ UNCHANGED <<source, method, entry, uid, phone, stored, pending, chains, lost>>

\* exchange_authcode(), get_smart_home_token(): when one fails the code is lost.
Exchanged ==
    /\ stage \in {"exchanging-sms", "exchanging-email"}
    /\ \/ /\ \E t \in [chain : 1 .. MaxLogins, n : {0}] :
                SignsIn(phone, t) /\ tokens' = t
          /\ stage' = IF stage = "exchanging-sms" THEN "probing-sms" ELSE "probing-email"
          /\ stored' = NoToken
       \/ /\ stage' = IF stage = "exchanging-sms" THEN "sms" ELSE "email"
          /\ UNCHANGED <<tokens, stored, chains>>
    /\ UNCHANGED <<source, method, entry, uid, phone, ouid, challenge, pending, lost>>

\* initialize_email_otp(), also by the box "resend" of the e-mail form
SendEmail ==
    /\ \/ stage = "initializing" /\ stage' = "email"
       \/ stage = "email" /\ ouid /\ stage' = stage
    /\ \/ challenge' = "sent" /\ UNCHANGED <<tokens, ouid>>
       \/ CleanUp
       \/ UNCHANGED <<tokens, ouid, challenge>>
    /\ UNCHANGED <<source, method, entry, uid, phone, stored, pending, chains, lost>>

-------------------------------------------------------------------------------
(* The check of the gateway, and the entry *)

Probing == {"probing-sberid", "probing-sms", "probing-email"}

\* Mutant: the flow keeps the token it had before the check.
TokenBefore == tokens

\* store.load() or the token from before; _async_remember_sberid_tokens()
TokenAfter == IF stored = NoToken THEN tokens ELSE stored

\* During the check the managers may use the refresh token, and Sber takes the newest
\* of a chain only.
Used(c) ==
    /\ stage \in Probing
    /\ c = tokens.chain /\ chains[c].n < MaxRotation
    /\ (IF stored = NoToken THEN tokens ELSE stored) = Newest(c)
    /\ chains' = [chains EXCEPT ![c].n = @ + 1]

\* The new token is kept by the check, in its store or in the flow.
Rotates(c) ==
    /\ Used(c)
    /\ stored' = [chain |-> c, n |-> chains[c].n + 1]
    /\ UNCHANGED <<stage, source, method, entry, uid, phone, tokens, ouid, challenge, pending, lost>>

\* _flow_error(): refused credentials are dropped, in other cases the check can be
\* repeated with what it left, from the form it began at.
Fails ==
    /\ stage \in Probing
    /\ tokens' \in {NoToken, TokenAfter}
    /\ stored' = NoToken
    /\ stage' = CASE stage = "probing-sms" -> "sms"
                   [] stage = "probing-email" -> "email"
                   [] OTHER -> "retry"
    /\ UNCHANGED <<source, method, entry, uid, phone, ouid, challenge, pending>>

ProbeFails == Fails /\ UNCHANGED <<chains, lost>>

\* The token was used, but the answer is lost; or, in the CSAFront manager, the request
\* for the smart home token fails, and the new refresh token goes with it.
LosesRotation(c) == Used(c) /\ Fails /\ lost' = lost \cup {c}

\* async_create_entry(), async_update_reload_and_abort().  The gateway looks at the
\* access token only: it answers also when the refresh token is used up.
ProbeSucceeds ==
    /\ stage \in Probing
    /\ Gone
    /\ stored' = NoToken
    /\ IF OtherAccount(uid)
       THEN UNCHANGED entry
       ELSE entry' = [uid |-> uid, tokens |-> TokenAfter, method |-> method]
    /\ UNCHANGED <<source, method, uid, phone, tokens, ouid, challenge, chains, lost>>

Next ==
    \/ Choose \/ Close
    \/ Expire \/ ReadAgain \/ Callback \/ Retry
    \/ EnterPhone \/ Resend \/ Sent \/ EnterCode \/ Verified \/ Exchanged \/ SendEmail
    \/ \E c \in DOMAIN chains : Rotates(c) \/ LosesRotation(c)
    \/ ProbeFails \/ ProbeSucceeds

Spec == Init /\ [][Next]_loginVars

-------------------------------------------------------------------------------

\* A flow saves the last token of its chain that ever reached it, whichever checks rotated
\* it, failed and were repeated in between, and for the account the entry is of.  That is
\* Sber's newest, so that no new sign-in is due after some minutes; only when a rotation
\* was lost on the way is it the one before.
LastReceived(c) == IF c \in lost THEN [Newest(c) EXCEPT !.n = @ - 1] ELSE Newest(c)
SavesWhatWorks ==
    entry' # entry =>
        /\ entry'.tokens = LastReceived(entry'.tokens.chain)
        /\ entry.uid # NoAccount => chains[entry'.tokens.chain].account = entry.uid

SavedLoginWorks == [][SavesWhatWorks]_loginVars
===============================================================================
