----------------------------- MODULE AdminToken -----------------------------
(***************************************************************************)
(* The admin token of account-svc (services/keycloak_admin.py): one cached *)
(* token per process, which coroutines that find it stale fetch anew, each *)
(* on its own, because the lock is not held during the round trip.  Times  *)
(* are seconds; a coroutine only gives way where it awaits HTTP.           *)
(***************************************************************************)
EXTENDS Integers

CONSTANTS
  Callers,      \* calls of send_verification_email at the same time
  MARGIN,       \* a token is fresh for callers when it lasts longer than this
  FetchTimeout, \* seconds of a round trip to the token endpoint
  UseTimeout,   \* seconds of the call that the token is for
  Lifetimes,    \* values of expires_in
  None,
  MaxClock,     \* bound: seconds
  MaxSends      \* bound: calls in all

ASSUME TokenAssumption ==
  /\ FetchTimeout \in Nat
  /\ UseTimeout \in Nat
  /\ MARGIN \in Nat
  /\ MARGIN >= FetchTimeout + UseTimeout
  /\ Lifetimes \subseteq {l \in Nat : l > FetchTimeout + UseTimeout}

VARIABLES
  clock,
  cache,   \* _TOKEN_CACHE: a token with the expiry noted for it, or None
  caller,  \* each caller: what it waits for, since when, and the token at hand
  sends    \* number of calls so far (bound)

tvars == <<clock, cache, caller, sends>>

(* until: expires_at, by the clock of this process once the answer is here;  *)
(* expiry: when Keycloak stops accepting the token.                          *)
Idle == [at |-> "idle"]
Using(token) == [at |-> "use", since |-> clock, token |-> token]

Init ==
  /\ clock = 0
  /\ cache = None
  /\ caller = [c \in Callers |-> Idle]
  /\ sends = 0

\* Variant: a token counts as fresh up to its last second.
Fresh_NoMargin(entry) == entry # None /\ entry.until > clock

Fresh(entry) == entry # None /\ entry.until > clock + MARGIN

(* Fast path, and the check under the lock: nothing happens between the two. *)
Call(c) ==
  /\ caller[c].at = "idle"
  /\ sends < MaxSends
  /\ sends' = sends + 1
  /\ caller' = [caller EXCEPT ![c] =
       IF Fresh(cache) THEN Using([expiry |-> cache.expiry])
       ELSE [at |-> "fetch", since |-> clock]]
  /\ UNCHANGED <<clock, cache>>

(* Keycloak issues a token some time during the round trip. *)
Issue(c) ==
  /\ caller[c].at = "fetch"
  /\ \E l \in Lifetimes :
       caller' = [caller EXCEPT ![c] =
         [at |-> "answered", since |-> @.since, lifetime |-> l, expiry |-> clock + l]]
  /\ UNCHANGED <<clock, cache, sends>>

(* Network error, a status other than 200, or no token in the answer.        *)
FetchFails(c) ==
  /\ caller[c].at \in {"fetch", "answered"}
  /\ caller' = [caller EXCEPT ![c] = Idle]
  /\ UNCHANGED <<clock, cache, sends>>

(* The answer is stored unless another coroutine has refreshed the cache     *)
(* meanwhile; either way it is the cached token that is returned.            *)
Receive(c) ==
  /\ caller[c].at = "answered"
  /\ LET entry == IF Fresh(cache) THEN cache
                  ELSE [expiry |-> caller[c].expiry, until |-> clock + caller[c].lifetime]
     IN /\ cache' = entry
        /\ caller' = [caller EXCEPT ![c] = Using([expiry |-> entry.expiry])]
  /\ UNCHANGED <<clock, sends>>

(* Sent or not: any other answer than 200 or 204 is only logged.             *)
Sent(c) ==
  /\ caller[c].at = "use"
  /\ caller' = [caller EXCEPT ![c] = Idle]
  /\ UNCHANGED <<clock, cache, sends>>

(* httpx gives up when the time of a call is over. *)
Limit(c) == IF caller[c].at = "use" THEN UseTimeout ELSE FetchTimeout

Tick ==
  /\ clock < MaxClock
  /\ \A c \in Callers : caller[c].at # "idle" => clock < caller[c].since + Limit(c)
  /\ clock' = clock + 1
  /\ UNCHANGED <<cache, caller, sends>>

(* The cache is in the memory of the process. *)
Restart ==
  /\ cache' = None
  /\ caller' = [c \in Callers |-> Idle]
  /\ UNCHANGED <<clock, sends>>

Next ==
  \/ Tick
  \/ Restart
  \/ \E c \in Callers : Call(c) \/ Issue(c) \/ FetchFails(c) \/ Receive(c) \/ Sent(c)

Spec == Init /\ [][Next]_tvars

-----------------------------------------------------------------------------
(* No call to the admin API carries a token that Keycloak refuses, however   *)
(* long the round trips take and whichever coroutine's token won the cache.  *)
TokenLive == \A c \in Callers : caller[c].at = "use" => clock < caller[c].token.expiry
=============================================================================
