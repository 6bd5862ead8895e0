------------------------------ MODULE Sessions ------------------------------
(***************************************************************************)
(* The sessions of one user of account-svc (core/deps.py, core/redis.py,   *)
(* core/session_cookie.py, endpoints/auth.py, and auth/jit.py of the       *)
(* shared package).  A request authenticates with a session cookie or a    *)
(* Keycloak token; both are refused when they are older than the last      *)
(* sign-out, which is a stamp in Redis.  The first request with a token    *)
(* creates the user's row, and the parallel first requests of a page race  *)
(* to do so.  Times are whole seconds, as in the code.                     *)
(***************************************************************************)
EXTENDS Integers, FiniteSets

CONSTANTS
  Requests,                \* the requests that may be open at the same time
  SESSION_COOKIE_MAX_AGE,
  LEEWAY,                  \* seconds a cookie is accepted past its exp
  TokenAge,                \* seconds a Keycloak token is accepted, its leeway included
  EmailKeyAge,             \* ex of the key verify-email:sent:<sub>
  Outages,                 \* states Redis may be in besides "up"
  None,
  MaxTime,                 \* bound: seconds
  MaxLogins,               \* bound: tokens issued
  MaxCalls                 \* bound: requests in all

SessionAssumption ==
  /\ SESSION_COOKIE_MAX_AGE \in Nat \ {0}
  /\ LEEWAY \in Nat
  /\ TokenAge \in 0 .. SESSION_COOKIE_MAX_AGE - 1
  /\ EmailKeyAge \in Nat \ {0}
  /\ Outages \subseteq {"down", "off"}
  /\ None \notin Requests \cup Nat
  /\ None \notin [at : Nat, until : Nat] \cup [verified : BOOLEAN]
  /\ None \notin [iat : Nat, verified : BOOLEAN] \cup [iat : Nat, root : Nat]

VARIABLES
  now,        \* the clock
  redis,      \* "up", "down" (calls raise) or "off" (no client since start-up)
  stamp,      \* sess:revoked:<sub>: [at, until], or None
  sent,       \* verify-email:sent:<sub>: the time until which it is kept, or None
  tokens,     \* Keycloak tokens that were issued
  cookies,    \* session cookies that were issued; root: the sign-in they stem from
  confirmed,  \* the user has followed the verification link
  user,       \* the committed row of auth.users, or None
  adding,     \* the request whose INSERT of that row is not committed, or None
  req,        \* the open requests
  calls,      \* number of requests so far (bound)
  signedOut,  \* history: the time of the last sign-out that was recorded, or -1
  emails,     \* history: first-login e-mails while Redis was up; another link is out;
              \* how often the key lapsed while a first login was still possible
  lost        \* history: a first request was refused although the row exists

svars == <<now, redis, stamp, sent, tokens, cookies, confirmed, user, adding, req, calls,
           signedOut, emails, lost>>

Idle == [step |-> "idle"]

Init ==
  /\ now = 0
  /\ redis \in {"up"} \cup Outages
  /\ stamp = None
  /\ sent = None
  /\ tokens = {}
  /\ cookies = {}
  /\ confirmed = FALSE
  /\ user = None
  /\ adding = None
  /\ req = [r \in Requests |-> Idle]
  /\ calls = 0
  /\ signedOut = -1
  /\ emails = [first |-> 0, again |-> FALSE, lapsed |-> 0]
  /\ lost = FALSE

-----------------------------------------------------------------------------
(* Around the service: the clock (a Redis key lapses some time in the second *)
(* in which its time to live ends), Redis itself, and Keycloak.              *)
Kept(key, until) ==
  IF key = None \/ (key # None /\ now' < until) THEN {key}
  ELSE IF now' = until THEN {key, None} ELSE {None}

\* The user's row is not committed, or a request that missed it is still on.
FirstAccess ==
  user = None \/ \E r \in Requests : req[r].step \in {"insert", "recover", "email"}

Tick ==
  /\ now < MaxTime
  /\ now' = now + 1
  /\ stamp' \in Kept(stamp, stamp.until)
  /\ sent' \in Kept(sent, sent)
  /\ emails' = IF sent # None /\ sent' = None /\ FirstAccess
               THEN [emails EXCEPT !.lapsed = @ + 1] ELSE emails
  /\ UNCHANGED <<redis, tokens, cookies, confirmed, user, adding, req, calls, signedOut, lost>>

RedisFails ==
  /\ redis = "up"
  /\ "down" \in Outages
  /\ redis' = "down"
  /\ UNCHANGED <<now, stamp, sent, tokens, cookies, confirmed, user, adding, req, calls, signedOut, emails, lost>>

RedisReturns ==
  /\ redis = "down"
  /\ redis' = "up"
  /\ UNCHANGED <<now, stamp, sent, tokens, cookies, confirmed, user, adding, req, calls, signedOut, emails, lost>>

KeycloakSignIn ==
  /\ Cardinality(tokens) < MaxLogins
  /\ tokens' = tokens \cup {[iat |-> now, verified |-> confirmed]}
  /\ UNCHANGED <<now, redis, stamp, sent, cookies, confirmed, user, adding, req, calls, signedOut, emails, lost>>

FollowLink ==
  /\ emails.first > 0 \/ emails.again
  /\ ~confirmed
  /\ confirmed' = TRUE
  /\ emails' = [emails EXCEPT !.again = FALSE]
  /\ UNCHANGED <<now, redis, stamp, sent, tokens, cookies, user, adding, req, calls, signedOut, lost>>

-----------------------------------------------------------------------------
(* verify_session, and what is left of a JWT: signature and claims are       *)
(* genuine, so only time decides.                                            *)
CookieLive(c) == c.iat + SESSION_COOKIE_MAX_AGE >= now - LEEWAY
TokenLive(t) == t.iat + TokenAge >= now

(* is_session_revoked, once Redis has answered *)
Revoked(iat) == redis = "up" /\ stamp # None /\ iat < stamp.at

At(r, step) == req[r].step = step
Set(r, q) == req' = [req EXCEPT ![r] = q]
Go(r, step) == Set(r, [req[r] EXCEPT !.step = step])

(* The request is answered with an error, or its process is gone: what it    *)
(* has not committed is rolled back.                                         *)
Drop(r) ==
  /\ Set(r, Idle)
  /\ adding' = IF adding = r THEN None ELSE adding

Arrive(r, op) ==
  /\ At(r, "idle")
  /\ calls < MaxCalls
  /\ calls' = calls + 1
  /\ \E c \in cookies \cup {None}, t \in tokens \cup {None} :
       Set(r, [step |-> "cookie", op |-> op, cookie |-> c, token |-> t])
  /\ UNCHANGED <<now, redis, stamp, sent, tokens, cookies, confirmed, user, adding, signedOut, emails, lost>>

(* What a request authenticated with, when, and which sign-out was the last. *)
Accept(r, iat, root, with) ==
  Set(r, [step |-> "user", op |-> req[r].op, token |-> req[r].token, iat |-> iat, root |-> root,
          with |-> with, when |-> now, after |-> signedOut])

(* _resolve_user_id, path A.  An error of Redis is not caught here.          *)
ByCookie(r) ==
  /\ At(r, "cookie")
  /\ LET c == req[r].cookie IN
     IF c = None \/ (c # None /\ ~CookieLive(c)) THEN Go(r, "bearer")
     ELSE IF redis = "down" THEN Set(r, Idle)                            \* 500
     ELSE IF Revoked(c.iat) THEN Go(r, "bearer")
     ELSE Accept(r, c.iat, c.root, "cookie")
  /\ UNCHANGED <<now, redis, stamp, sent, tokens, cookies, confirmed, user, adding, calls, signedOut, emails, lost>>

(* _resolve_user_id, path B.  Here every error is a 401. *)
ByToken(r) ==
  /\ At(r, "bearer")
  /\ LET t == req[r].token IN
     IF t = None \/ (t # None /\ (~TokenLive(t) \/ redis = "down" \/ Revoked(t.iat)))
     THEN Set(r, Idle)
     ELSE Accept(r, t.iat, t.iat, "bearer")
  /\ UNCHANGED <<now, redis, stamp, sent, tokens, cookies, confirmed, user, adding, calls, signedOut, emails, lost>>

(* get_current_user: the row, or for a token the attempt to create it. *)
FindUser(r) ==
  /\ At(r, "user")
  /\ IF user # None THEN Go(r, "run")
     ELSE IF req[r].with = "cookie" THEN Set(r, Idle)                    \* 401
     ELSE Go(r, "insert")
  /\ UNCHANGED <<now, redis, stamp, sent, tokens, cookies, confirmed, user, adding, calls, signedOut, emails, lost>>

(* jit_provision_user: the flush waits for an uncommitted row with the same  *)
(* e-mail address, and fails if that row is committed.                       *)
Insert(r) ==
  /\ At(r, "insert")
  /\ adding = None
  /\ IF user = None
     THEN adding' = r /\ Go(r, "email")
     ELSE adding' = adding /\ Go(r, "recover")
  /\ UNCHANGED <<now, redis, stamp, sent, tokens, cookies, confirmed, user, calls, signedOut, emails, lost>>

(* After the rollback the row of the winner is selected. *)
Recover(r) ==
  /\ At(r, "recover")
  /\ IF user = None THEN Set(r, Idle) /\ lost' = TRUE
     ELSE Go(r, "email") /\ lost' = lost
  /\ UNCHANGED <<now, redis, stamp, sent, tokens, cookies, confirmed, user, adding, calls, signedOut, emails>>

\* Variant: the key is set without NX.
FirstEmail_NoNx(r) ==
  /\ At(r, "email")
  /\ LET verified == IF user = None THEN req[r].token.verified ELSE user.verified IN
     IF verified
     THEN UNCHANGED <<sent, emails>>
     ELSE /\ sent' = IF redis = "up" THEN now + EmailKeyAge ELSE sent
          /\ emails' \in {emails, IF redis = "up" THEN [emails EXCEPT !.first = @ + 1]
                                        ELSE [emails EXCEPT !.again = ~confirmed]}
  /\ Go(r, "run")
  /\ UNCHANGED <<now, redis, stamp, tokens, cookies, confirmed, user, adding, calls, signedOut, lost>>

(* _send_first_verification_email: SET NX picks one of the racing requests;  *)
(* without Redis each of them sends.  Keycloak may refuse.                   *)
FirstEmail(r) ==
  /\ At(r, "email")
  /\ LET verified == IF user = None THEN req[r].token.verified ELSE user.verified
         won == redis # "up" \/ sent = None IN
     IF verified \/ ~won
     THEN UNCHANGED <<sent, emails>>
     ELSE /\ sent' = IF redis = "up" THEN now + EmailKeyAge ELSE sent
          /\ emails' \in {emails, IF redis = "up" THEN [emails EXCEPT !.first = @ + 1]
                                        ELSE [emails EXCEPT !.again = ~confirmed]}
  /\ Go(r, "run")
  /\ UNCHANGED <<now, redis, stamp, tokens, cookies, confirmed, user, adding, calls, signedOut, lost>>

Row(r) == IF user = None THEN [verified |-> req[r].token.verified] ELSE user

(* resend_verification is one of the other routes: a link for a user whose   *)
(* address is not verified, as often as it is asked for; once the address is *)
(* confirmed at Keycloak, a link does nothing.                               *)
Resend(r) ==
  emails' \in IF req[r].op = "other" /\ ~Row(r).verified
              THEN {emails, [emails EXCEPT !.again = ~confirmed]} ELSE {emails}

(* The body of a route and the commit at its end.  me takes over             *)
(* email_verified from a token that comes with the request, whatever the     *)
(* request authenticated with, and issues a cookie that is as old as now.    *)
Run(r) ==
  /\ At(r, "run")
  /\ Resend(r)
  /\ LET fresh == req[r].token # None /\ (req[r].token # None => TokenLive(req[r].token)) IN
     /\ user' = IF req[r].op = "me" /\ fresh THEN [verified |-> req[r].token.verified] ELSE Row(r)
     /\ cookies' = IF req[r].op = "me" THEN cookies \cup {[iat |-> now, root |-> req[r].root]} ELSE cookies
  /\ Drop(r)
  /\ UNCHANGED <<now, redis, stamp, sent, tokens, confirmed, calls, signedOut, lost>>

(* A request that fails before its commit matters when it has added the row. *)
Abort(r) ==
  /\ adding = r
  /\ Drop(r)
  /\ UNCHANGED <<now, redis, stamp, sent, tokens, cookies, confirmed, user, calls, signedOut, emails, lost>>

-----------------------------------------------------------------------------
\* Variant: the stamp is the second of the sign-out, not the one after.
Revoke_ThisSecond ==
  /\ redis # "down"
  /\ IF redis = "up"
     THEN /\ stamp' = [at |-> now, until |-> now + SESSION_COOKIE_MAX_AGE]
          /\ signedOut' = now
     ELSE UNCHANGED <<stamp, signedOut>>
  /\ UNCHANGED <<now, redis, sent, tokens, cookies, confirmed, user, adding, req, emails, lost>>

(* revoke_session: nothing is kept without Redis, and an error is raised     *)
(* when it is down (no step).                                                *)
Revoke ==
  /\ redis # "down"
  /\ IF redis = "up"
     THEN /\ stamp' = [at |-> now + 1, until |-> now + SESSION_COOKIE_MAX_AGE]
          /\ signedOut' = now
     ELSE UNCHANGED <<stamp, signedOut>>
  /\ UNCHANGED <<now, redis, sent, tokens, cookies, confirmed, user, adding, req, emails, lost>>

(* clear_session, for a cookie that verifies, and backchannel_logout, for a  *)
(* logout token of Keycloak's.                                               *)
ClearSession ==
  /\ calls < MaxCalls
  /\ calls' = calls + 1
  /\ \E c \in cookies : CookieLive(c)
  /\ Revoke

BackchannelLogout ==
  /\ calls < MaxCalls
  /\ calls' = calls + 1
  /\ tokens # {}
  /\ Revoke

Next ==
  \/ Tick \/ RedisFails \/ RedisReturns \/ KeycloakSignIn \/ FollowLink
  \/ ClearSession \/ BackchannelLogout
  \/ \E r \in Requests :
       \/ Arrive(r, "me") \/ Arrive(r, "other")
       \/ ByCookie(r) \/ ByToken(r) \/ FindUser(r) \/ Insert(r) \/ Recover(r) \/ FirstEmail(r)
       \/ Run(r) \/ Abort(r)

Spec == Init /\ [][Next]_svars

-----------------------------------------------------------------------------
Accepted(r) == req[r].step \in {"user", "insert", "recover", "email", "run"}

(* A request that was let in holds a credential that is younger than the     *)
(* last sign-out on record, with one exception: a cookie of the last seconds *)
(* before the sign-out is good again once the stamp has lapsed, for the      *)
(* leeway that verify_session grants.  (is_session_revoked, revoke_session)  *)
RevokedIsRefused ==
  \A r \in Requests : Accepted(r) =>
    \/ req[r].iat > req[r].after
    \/ /\ req[r].with = "cookie"
       /\ req[r].when \in req[r].after + SESSION_COOKIE_MAX_AGE
                       .. req[r].iat + SESSION_COOKIE_MAX_AGE + LEEWAY

(* Of the parallel first requests of a user exactly one creates the row and  *)
(* none is turned away because another was faster.  As long as Redis answers *)
(* they send one verification e-mail between them, and one more only each    *)
(* time the key of the last one lapses while there is no committed row, or a *)
(* request that missed it is still on.                                       *)
(* (jit_provision_user, _send_first_verification_email)                      *)
FirstLogin ==
  /\ ~lost
  /\ emails.first <= emails.lapsed + 1

(* "a user who called /auth/session/clear could otherwise ... receive a      *)
(* fresh session cookie with a new iat, bypassing the Redis revocation       *)
(* stamp" (deps.py): no request is let in by a session that is older than    *)
(* the last sign-out.  It is violated: see the README.                       *)
SignedOutStaysOut ==
  \A r \in Requests : Accepted(r) => req[r].root > req[r].after
=============================================================================
