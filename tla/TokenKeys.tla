------------------------------ MODULE TokenKeys -----------------------------
(***************************************************************************)
(* The verification of Keycloak's tokens in one process of any service     *)
(* (security/jwks.py): the keys of a realm are cached by a PyJWKClient,    *)
(* and the client itself by a TTLCache.  PyJWT and cachetools are external:*)
(* a client keeps the last key set it has fetched for its lifespan, and    *)
(* fetches again when a key is missing.  Times are seconds; a thread that  *)
(* fetches runs next to the event loop.                                    *)
(***************************************************************************)
EXTENDS Integers, FiniteSets

CONSTANTS
  Requests,   \* tokens that are verified at the same time
  Lifespan,   \* ttl of the TTLCache and lifespan of a client's key set
  Timeout,    \* seconds of a fetch
  None,
  MaxClock,   \* bound: seconds
  MaxKeys,    \* bound: keys in all
  MaxTokens   \* bound: verifications in all

KeysAssumption ==
  /\ IsFiniteSet(Requests)
  /\ None \notin Nat \cup [keys : SUBSET Nat, until : Nat]
  /\ Lifespan \in Nat \ {0}
  /\ Timeout \in Nat
  /\ MaxKeys \in Nat \ {0}

VARIABLES
  clock,
  newest,     \* keys are numbered; Keycloak signs with this one
  withdrawn,  \* withdrawn[k]: when Keycloak stopped publishing key k, or None
  clients,    \* the PyJWKClients that are in use, each with its key set
  cached,     \* the one in _JWK_CLIENT_CACHE and when it expires
  verify,     \* each request: its token's key, its client, and where it stands
  tokens      \* number of verifications so far (bound)

kvars == <<clock, newest, withdrawn, clients, cached, verify, tokens>>

Keys == 1 .. MaxKeys
Ids == 1 .. Cardinality(Requests) + 1
Idle == [step |-> "idle", key |-> 1]
Published == {k \in 1 .. newest : withdrawn[k] = None}

Init ==
  /\ clock = 0
  /\ newest = 1
  /\ withdrawn = [k \in Keys |-> None]
  /\ clients = [i \in Ids |-> None]
  /\ cached = [id |-> 1, expires |-> 0]
  /\ verify = [r \in Requests |-> Idle]
  /\ tokens = 0

-----------------------------------------------------------------------------
(* Keycloak: a new key signs at once, the one before is published a while.   *)
Rotate ==
  /\ newest < MaxKeys
  /\ newest' = newest + 1
  /\ UNCHANGED <<clock, withdrawn, clients, cached, verify, tokens>>

Withdraw(k) ==
  /\ k \in Published \ {newest}
  /\ withdrawn' = [withdrawn EXCEPT ![k] = clock]
  /\ UNCHANGED <<clock, newest, clients, cached, verify, tokens>>

-----------------------------------------------------------------------------
At(r, step) == verify[r].step = step

Working == {"look", "fetch", "answered", "missed"}
InUse(i) == \E r \in Requests : verify[r].step \in Working /\ verify[r].client = i

(* A client that knows no keys yet takes the place in the cache; one that    *)
(* nobody uses any longer is gone.                                           *)
NewClient ==
  LET id == CHOOSE i \in Ids : ~InUse(i) IN
  /\ cached' = [id |-> id, expires |-> clock + Lifespan]
  /\ clients' = [i \in Ids |-> IF InUse(i) THEN clients[i] ELSE None]

(* verify begins with _get_jwk_client, for a token signed by key k.          *)
Verify(r, k) ==
  /\ At(r, "idle")
  /\ tokens < MaxTokens
  /\ tokens' = tokens + 1
  /\ IF clock < cached.expires THEN UNCHANGED <<clients, cached>> ELSE NewClient
  /\ verify' = [verify EXCEPT ![r] =
       [step |-> "look", key |-> k, client |-> cached'.id, got |-> {}, again |-> FALSE,
        since |-> 0, fails |-> 0, retried |-> FALSE]]
  /\ UNCHANGED <<clock, newest, withdrawn>>

Step(r, step) == [verify[r] EXCEPT !.step = step, !.got = {}, !.since = 0]
Refuse(r) == [step |-> "refused", key |-> verify[r].key, fails |-> verify[r].fails]
Accept(r) == [step |-> "accepted", key |-> verify[r].key, at |-> clock]
Fetch(r, again) == [Step(r, "fetch") EXCEPT !.again = again, !.since = clock]

Usable(set) == set # None /\ (set # None => clock <= set.until)

(* get_signing_key_from_jwt, in a thread: the set at hand, or else fetch it; *)
(* and once more when the key is not in the set.                             *)
Look(r) ==
  /\ At(r, "look")
  /\ LET set == clients[verify[r].client] IN
     verify' = [verify EXCEPT ![r] =
       IF ~Usable(set) THEN Fetch(r, FALSE)
       ELSE IF verify[r].key \in set.keys THEN Accept(r)
       ELSE Fetch(r, TRUE)]
  /\ UNCHANGED <<clock, newest, withdrawn, clients, cached, tokens>>

(* Keycloak answers with the keys it publishes, some time during the fetch. *)
Publish(r) ==
  /\ At(r, "fetch")
  /\ verify' = [verify EXCEPT ![r].step = "answered", ![r].got = Published]
  /\ UNCHANGED <<clock, newest, withdrawn, clients, cached, tokens>>

(* The answer is kept in the client, even over one that was read later.      *)
Receive(r) ==
  /\ At(r, "answered")
  /\ clients' = [clients EXCEPT ![verify[r].client] =
       [keys |-> verify[r].got, until |-> clock + Lifespan]]
  /\ verify' = [verify EXCEPT ![r] =
       IF verify[r].key \in verify[r].got THEN Accept(r)
       ELSE IF verify[r].again THEN Step(r, "missed")
       ELSE Fetch(r, TRUE)]
  /\ UNCHANGED <<clock, newest, withdrawn, cached, tokens>>

(* No answer, or none in time: the client forgets its keys as well.          *)
FetchFails(r) ==
  /\ verify[r].step \in {"fetch", "answered"}
  /\ clients' = [clients EXCEPT ![verify[r].client] = None]
  /\ verify' = [verify EXCEPT ![r] = Step(r, "missed"), ![r].fails = @ + 1]
  /\ UNCHANGED <<clock, newest, withdrawn, cached, tokens>>

\* Variant: the first error refuses the token.
Retry_Never(r) ==
  /\ At(r, "missed")
  /\ verify' = [verify EXCEPT ![r] = Refuse(r)]
  /\ UNCHANGED <<clock, newest, withdrawn, clients, cached, tokens>>

(* PyJWKClientError, once: the client in the cache is dropped, even one that *)
(* another request has just made, and a new one is asked.                    *)
Retry(r) ==
  /\ At(r, "missed")
  /\ IF verify[r].retried
     THEN verify' = [verify EXCEPT ![r] = Refuse(r)] /\ UNCHANGED <<clients, cached>>
     ELSE /\ NewClient
          /\ verify' = [verify EXCEPT ![r] = Step(r, "look"), ![r].again = FALSE,
                                      ![r].retried = TRUE, ![r].client = cached'.id]
  /\ UNCHANGED <<clock, newest, withdrawn, tokens>>

(* The request goes on, as the user or as nobody. *)
Done(r) ==
  /\ verify[r].step \in {"accepted", "refused"}
  /\ verify' = [verify EXCEPT ![r] = Idle]
  /\ UNCHANGED <<clock, newest, withdrawn, clients, cached, tokens>>

(* Only a fetch takes time. *)
Tick ==
  /\ clock < MaxClock
  /\ \A r \in Requests :
       /\ verify[r].step \in {"fetch", "answered"} => clock < verify[r].since + Timeout
       /\ verify[r].step \in {"idle", "fetch", "answered"}
  /\ clock' = clock + 1
  /\ UNCHANGED <<newest, withdrawn, clients, cached, verify, tokens>>

Next ==
  \/ Tick \/ Rotate \/ \E k \in Keys : Withdraw(k)
  \/ \E r \in Requests :
       \/ \E k \in 1 .. newest : Verify(r, k)
       \/ Look(r) \/ Publish(r) \/ Receive(r) \/ FetchFails(r) \/ Retry(r) \/ Done(r)

Spec == Init /\ [][Next]_kvars

-----------------------------------------------------------------------------
(* Verification follows the rotation of keys.  A token whose key is still    *)
(* published is refused only when two fetches failed for it, however the     *)
(* clients of other requests come and go; and a withdrawn key is accepted    *)
(* for the lifespan of one key set and the time of one fetch at most,        *)
(* although an answer may be stored over a later one.                        *)
KeysFollowed ==
  \A r \in Requests : LET at == withdrawn[verify[r].key] IN
    /\ At(r, "refused") => at # None \/ verify[r].fails = 2
    /\ At(r, "accepted") /\ at # None => verify[r].at <= at + Timeout + Lifespan
=============================================================================
