----------------------------- MODULE SingleFlight -----------------------------
(***************************************************************************)
(* The single flight of aiosber/auth/_single_flight.py: one asyncio.Lock,  *)
(* shared by the flights of a token provider, under which a refresh runs,  *)
(* and the rule that gives a failed attempt to everyone who waited for it. *)
(*                                                                         *)
(* The code compares the attempt counter it saw before it queued with the  *)
(* one it finds under the lock.  Only the outcome of that comparison       *)
(* matters, so the model keeps it: missed is the set of callers that       *)
(* queued before the last attempt of their flight ended.                   *)
(***************************************************************************)
EXTENDS Naturals, FiniteSets

CONSTANTS
    Callers,    \* coroutines that ask for a token
    Flights,    \* the SingleFlightRefresh instances that share the lock
    NoCaller    \* nobody holds the lock

ASSUME NoCallerAssumption == NoCaller \notin Callers

VARIABLES
    lock,       \* the asyncio.Lock: its holder or NoCaller
    lastError,  \* per flight: _last_error, as a kind
    missed      \* callers for which seen_attempt # _attempts

sfVars == <<lock, lastError, missed>>

\* "grant": InvalidGrant; "other": AuthError, ApiError, NetworkError.
ErrorKinds == {"none", "grant", "other"}

SFTypeOK ==
    /\ lock \in Callers \cup {NoCaller}
    /\ lastError \in [Flights -> ErrorKinds]
    /\ missed \in SUBSET Callers

SFInit ==
    /\ lock = NoCaller
    /\ lastError = [f \in Flights |-> "none"]
    /\ missed = {}

-------------------------------------------------------------------------------
\* run(): the counter is read before the lock is awaited.
Queue(c) == missed' = missed \ {c}

\* The caller leaves run() without an attempt of its own.
Leave(c) == missed' = missed \ {c} /\ UNCHANGED <<lock, lastError>>

\* Mutant: an InvalidGrant is shared like any other error, only with waiters.
SharesErrorOnlyWithWaiters(c, f) == lastError[f] # "none" /\ c \in missed

\* _run_locked(): the error this caller gets without a request of its own.
SharesError(c, f) ==
    /\ lastError[f] # "none"
    /\ c \in missed \/ lastError[f] = "grant"

\* async with self._lock
LockFree == lock = NoCaller

\* _run_locked() starts its own attempt, the lock being free.
BeginAttempt(c, f) ==
    /\ lock' = c
    /\ lastError' = [lastError EXCEPT ![f] = "none"]
    /\ missed' = missed \ {c}

\* Mutant: a failed attempt leaves the lock taken.
EndAttemptKeepsLock(c, f, error, waiting) ==
    /\ lock' = IF error = "none" THEN NoCaller ELSE lock
    /\ lastError' = [lastError EXCEPT ![f] = error]
    /\ missed' = missed \cup waiting

\* The attempt ends (error is "none" when it succeeded): _attempts += 1, which
\* every caller still queued on the flight will notice, and the lock is released.
EndAttempt(c, f, error, waiting) ==
    /\ lock' = NoCaller
    /\ lastError' = [lastError EXCEPT ![f] = error]
    /\ missed' = missed \cup waiting
===============================================================================
