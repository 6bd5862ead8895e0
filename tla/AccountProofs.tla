---------------------------- MODULE AccountProofs ----------------------------
(***************************************************************************)
(* What holds of Sessions, TokenKeys and AdminToken for every number of    *)
(* requests and callers, all ages, leeways, lifetimes, margins and time    *)
(* limits, and all bounds.                                                 *)
(***************************************************************************)
EXTENDS Account, FiniteSetTheorems, TLAPS

-----------------------------------------------------------------------------
(* Sessions: the invariant *)

Stamps  == [at : Nat, until : Nat]
Tokens  == [iat : Nat, verified : BOOLEAN]
Cookies == [iat : Nat, root : Nat]
UserRows == [verified : BOOLEAN]
Mails   == [first : Nat, again : BOOLEAN, lapsed : Nat]

\* A request that has not authenticated yet, and one that was let in.
Coming == [step : {"cookie", "bearer"}, op : {"me", "other"},
           cookie : Cookies \cup {None}, token : Tokens \cup {None}]
LetIn  == [step : {"user", "insert", "recover", "email", "run"}, op : {"me", "other"},
           token : Tokens \cup {None}, iat : Nat, root : Nat,
           with : {"cookie", "bearer"}, when : Nat, after : Int]

SessionTypeOK ==
  /\ now \in Nat
  /\ redis \in {"up", "down", "off"}
  /\ stamp \in Stamps \cup {None}
  /\ sent \in Nat \cup {None}
  /\ tokens \subseteq Tokens
  /\ cookies \subseteq Cookies
  /\ confirmed \in BOOLEAN
  /\ user \in UserRows \cup {None}
  /\ adding \in Requests \cup {None}
  /\ req \in [Requests -> {Login!Idle} \cup Coming \cup LetIn]
  /\ signedOut \in Int
  /\ emails \in Mails
  /\ lost \in BOOLEAN

\* The last sign-out is stamped in Redis until every cookie that is older than
\* it has passed its exp; no sign-out is on record without Redis.
StampKept ==
  /\ signedOut <= now
  /\ redis = "off" => signedOut = -1
  /\ \/ signedOut = -1
     \/ stamp # None /\ stamp.at = signedOut + 1 /\ stamp.until = signedOut + SESSION_COOKIE_MAX_AGE
     \/ stamp = None /\ now >= signedOut + SESSION_COOKIE_MAX_AGE

\* The user's row is added by one request at a time, the one that waits to
\* commit it, and only while there is none.
OneAdds ==
  /\ adding # None => user = None /\ req[adding].step \in {"email", "run"}
  /\ \A r \in Requests :
       /\ user = None /\ req[r].step \in {"email", "run"} => adding = r
       /\ req[r].step = "recover" => user # None

\* Who comes without a row has a token to make one of.
TokenAtHand ==
  \A r \in Requests :
    req[r].step \in {"user", "insert", "recover", "email", "run"} =>
      \/ req[r].with = "bearer" /\ req[r].token # None
      \/ req[r].with = "cookie" /\ req[r].step \in {"user", "run"}
                                /\ (req[r].step = "run" => user # None)

\* The last first e-mail is out while the key is kept, or it was the last one that
\* there can be.
SentOnce ==
  \/ emails.first <= emails.lapsed
  \/ emails.first = emails.lapsed + 1 /\ (sent # None \/ ~Login!FirstAccess)

SessionInv ==
  /\ SessionTypeOK /\ StampKept /\ OneAdds /\ TokenAtHand /\ SentOnce
  /\ ~lost /\ Login!RevokedIsRefused

-----------------------------------------------------------------------------
(* Who may pass: a credential that is older than the last sign-out is        *)
(* revoked, unless the stamp of the sign-out has lapsed.                     *)
LEMMA NotRevoked ==
  ASSUME Login!SessionAssumption, SessionTypeOK, StampKept, redis # "down",
         NEW iat \in Nat, ~Login!Revoked(iat)
  PROVE  iat > signedOut \/ now >= signedOut + SESSION_COOKIE_MAX_AGE
BY DEF Login!SessionAssumption, SessionTypeOK, StampKept, Login!Revoked, Stamps

LEMMA SessionInit == Login!SessionAssumption /\ Login!Init => SessionInv
<1>. SUFFICES ASSUME Login!SessionAssumption, Login!Init PROVE SessionInv
  OBVIOUS
<1>1. \A r \in Requests : req[r] = Login!Idle /\ req[r].step = "idle"
  BY DEF Login!Init, Login!Idle
<1>2. redis \in {"up", "down", "off"} /\ emails.first = 0 /\ emails.lapsed = 0
  BY DEF Login!SessionAssumption, Login!Init
<1>3. emails \in Mails
  BY DEF Login!Init, Mails
<1>4. SessionTypeOK
  <2>1. req \in [Requests -> {Login!Idle} \cup Coming \cup LetIn]
    <3>1. req = [r \in Requests |-> Login!Idle]
      BY DEF Login!Init
    <3>. QED
      BY <3>1
  <2>2. now \in Nat /\ signedOut \in Int
    BY DEF Login!Init
  <2>5. sent = None /\ confirmed \in BOOLEAN /\ lost \in BOOLEAN
    BY Zenon DEF Login!Init
  <2>3. tokens \subseteq Tokens /\ cookies \subseteq Cookies
    BY DEF Login!Init
  <2>4. stamp \in Stamps \cup {None} /\ user \in UserRows \cup {None} /\ adding \in Requests \cup {None}
    BY DEF Login!Init
  <2>. QED
    BY <1>2, <1>3, <2>1, <2>2, <2>3, <2>4, <2>5 DEF SessionTypeOK
<1>5. StampKept /\ SentOnce /\ ~lost
  BY <1>2 DEF Login!SessionAssumption, Login!Init, StampKept, SentOnce
<1>6. OneAdds /\ TokenAtHand /\ Login!RevokedIsRefused
  BY <1>1 DEF Login!Init, OneAdds, TokenAtHand, Login!RevokedIsRefused, Login!Accepted
<1>. QED
  BY <1>4, <1>5, <1>6 DEF SessionInv

\* A step that sends no first e-mail, keeps the key and lets nobody in for the
\* first time.
LEMMA SentKept ==
  ASSUME SentOnce, sent' = sent, emails'.first = emails.first, emails'.lapsed = emails.lapsed,
         user' # None \/ user' = user,
         \A r \in Requests : req'[r].step \in {"insert", "recover", "email"} =>
           Login!FirstAccess
  PROVE  SentOnce'
<1>1. Login!FirstAccess' => Login!FirstAccess
  BY DEF Login!FirstAccess
<1>. QED
  BY <1>1 DEF SentOnce

LEMMA TickStep ==
  ASSUME Login!SessionAssumption, SessionInv, Login!Tick
  PROVE  SessionInv'
<1>1. /\ now' = now + 1
      /\ stamp' \in {stamp, None} /\ sent' \in {sent, None}
      /\ stamp # None /\ stamp' = None => now + 1 >= stamp.until
      /\ emails' = IF sent # None /\ sent' = None /\ Login!FirstAccess
                    THEN [emails EXCEPT !.lapsed = @ + 1] ELSE emails
      /\ UNCHANGED <<redis, tokens, cookies, confirmed, user, adding, req, calls, signedOut, lost>>
  BY DEF Login!Tick, Login!Kept, SessionInv, SessionTypeOK, Stamps
<1>2. SessionTypeOK'
  <2>1. emails' \in Mails
    BY <1>1 DEF SessionInv, SessionTypeOK, Mails
  <2>. QED
    BY <1>1, <2>1 DEF SessionInv, SessionTypeOK
<1>3. StampKept'
  BY <1>1 DEF Login!SessionAssumption, SessionInv, SessionTypeOK, StampKept, Stamps
<1>4. OneAdds' /\ TokenAtHand' /\ ~lost' /\ Login!RevokedIsRefused'
  BY <1>1 DEF SessionInv, OneAdds, TokenAtHand, Login!RevokedIsRefused, Login!Accepted
<1>5. SentOnce'
  <2>1. Login!FirstAccess' <=> Login!FirstAccess
    BY <1>1 DEF Login!FirstAccess
  <2>2. CASE sent # None /\ sent' = None /\ Login!FirstAccess
    <3>1. emails'.first = emails.first /\ emails'.lapsed = emails.lapsed + 1
      BY <1>1, <2>2 DEF SessionInv, SessionTypeOK, Mails
    <3>. QED
      BY <2>2, <3>1 DEF SessionInv, SentOnce, SessionTypeOK, Mails
  <2>3. CASE ~(sent # None /\ sent' = None /\ Login!FirstAccess)
    <3>1. emails' = emails
      BY <1>1, <2>3
    <3>. QED
      BY <1>1, <2>1, <2>3, <3>1 DEF SessionInv, SentOnce
  <2>. QED
    BY <2>2, <2>3
<1>. QED
  BY <1>2, <1>3, <1>4, <1>5 DEF SessionInv

\* Redis fails or returns, Keycloak signs the user in, the link is followed.
LEMMA AroundStep ==
  ASSUME Login!SessionAssumption, SessionInv,
         Login!RedisFails \/ Login!RedisReturns \/ Login!KeycloakSignIn \/ Login!FollowLink
  PROVE  SessionInv'
<1>1. /\ UNCHANGED <<now, stamp, sent, cookies, user, adding, req, calls, signedOut, lost>>
      /\ emails'.first = emails.first /\ emails'.lapsed = emails.lapsed
      /\ redis' = "off" => redis = "off"
  BY DEF Mails, Login!RedisFails, Login!RedisReturns, Login!KeycloakSignIn, Login!FollowLink, SessionInv, SessionTypeOK
<1>2. SessionTypeOK'
  <2>1. CASE Login!RedisFails \/ Login!RedisReturns
    BY <2>1 DEF Login!RedisFails, Login!RedisReturns, SessionInv, SessionTypeOK
  <2>2. CASE Login!KeycloakSignIn
    <3>1. [iat |-> now, verified |-> confirmed] \in Tokens
      BY DEF SessionInv, SessionTypeOK, Tokens
    <3>. QED
      BY <2>2, <3>1 DEF Login!KeycloakSignIn, SessionInv, SessionTypeOK
  <2>3. CASE Login!FollowLink
    <3>1. [emails EXCEPT !.again = FALSE] \in Mails
      BY DEF SessionInv, SessionTypeOK, Mails
    <3>. QED
      BY <2>3, <3>1 DEF Login!FollowLink, SessionInv, SessionTypeOK
  <2>. QED
    BY <2>1, <2>2, <2>3
<1>3. StampKept'
  BY <1>1 DEF SessionInv, SessionTypeOK, StampKept
<1>4. OneAdds' /\ TokenAtHand' /\ SentOnce' /\ ~lost' /\ Login!RevokedIsRefused'
  BY <1>1 DEF SessionInv, OneAdds, TokenAtHand, SentOnce, Login!FirstAccess, Login!RevokedIsRefused, Login!Accepted
<1>. QED
  BY <1>2, <1>3, <1>4 DEF SessionInv

LEMMA RevokeStep ==
  ASSUME Login!SessionAssumption, SessionInv, Login!ClearSession \/ Login!BackchannelLogout
  PROVE  SessionInv'
<1>1. Login!Revoke
  BY DEF Login!ClearSession, Login!BackchannelLogout
<1>2. /\ UNCHANGED <<now, redis, sent, tokens, cookies, confirmed, user, adding, req, emails, lost>>
      /\ \/ UNCHANGED <<stamp, signedOut>>
         \/ /\ redis = "up" /\ signedOut' = now
            /\ stamp' = [at |-> now + 1, until |-> now + SESSION_COOKIE_MAX_AGE]
  BY <1>1 DEF Login!Revoke
<1>3. SessionTypeOK'
  BY <1>2 DEF Login!SessionAssumption, SessionInv, SessionTypeOK, Stamps
<1>4. StampKept'
  <2>1. CASE UNCHANGED <<stamp, signedOut>>
    BY <1>2, <2>1 DEF SessionInv, SessionTypeOK, StampKept
  <2>2. CASE /\ redis = "up" /\ signedOut' = now
             /\ stamp' = [at |-> now + 1, until |-> now + SESSION_COOKIE_MAX_AGE]
    <3>1. stamp' \in Stamps /\ stamp' # None
      BY <2>2 DEF Login!SessionAssumption, SessionInv, SessionTypeOK, Stamps
    <3>. QED
      BY <1>2, <2>2, <3>1 DEF SessionInv, SessionTypeOK, StampKept
  <2>. QED
    BY <1>2, <2>1, <2>2
<1>5. OneAdds' /\ TokenAtHand' /\ SentOnce' /\ ~lost' /\ Login!RevokedIsRefused'
  BY <1>2 DEF SessionInv, OneAdds, TokenAtHand, SentOnce, Login!FirstAccess, Login!RevokedIsRefused, Login!Accepted
<1>. QED
  BY <1>3, <1>4, <1>5 DEF SessionInv

-----------------------------------------------------------------------------
(* One request moves.                                                        *)
LEMMA OneMoves ==
  ASSUME SessionTypeOK, NEW r \in Requests, NEW q, Login!Set(r, q)
  PROVE  /\ req'[r] = q
         /\ \A p \in Requests : p # r => req'[p] = req[p]
         /\ q \in {Login!Idle} \cup Coming \cup LetIn => req' \in [Requests -> {Login!Idle} \cup Coming \cup LetIn]
BY DEF SessionTypeOK, Login!Set

LEMMA WhereItStands ==
  ASSUME SessionTypeOK, NEW r \in Requests
  PROVE  /\ req[r].step = "idle" => req[r] = Login!Idle
         /\ req[r].step \in {"cookie", "bearer"} => req[r] \in Coming
         /\ Login!Accepted(r) => req[r] \in LetIn
<1>1. req[r] \in {Login!Idle} \cup Coming \cup LetIn
  BY DEF SessionTypeOK
<1>2. Login!Idle.step = "idle"
  BY DEF Login!Idle
<1>. QED
  BY <1>1, <1>2 DEF Login!Accepted, Coming, LetIn

\* A request that was let in goes on to another step.
LEMMA GoesOn ==
  ASSUME SessionTypeOK, NEW r \in Requests, Login!Accepted(r),
         NEW step \in {"user", "insert", "recover", "email", "run"}, Login!Go(r, step)
  PROVE  /\ req' \in [Requests -> {Login!Idle} \cup Coming \cup LetIn]
         /\ req'[r].step = step
         /\ req'[r].with = req[r].with /\ req'[r].token = req[r].token /\ req'[r].iat = req[r].iat
         /\ req'[r].when = req[r].when /\ req'[r].after = req[r].after
         /\ \A p \in Requests : p # r => req'[p] = req[p]
<1>1. req[r] \in LetIn
  BY WhereItStands
<1>2. [req[r] EXCEPT !.step = step] \in LetIn
  BY <1>1 DEF LetIn
<1>. QED
  BY <1>1, <1>2, OneMoves DEF Login!Go, LetIn

\* One that is answered, or whose process is gone.
LEMMA Ends ==
  ASSUME SessionTypeOK, NEW r \in Requests, Login!Set(r, Login!Idle)
  PROVE  /\ req' \in [Requests -> {Login!Idle} \cup Coming \cup LetIn]
         /\ req'[r] = Login!Idle /\ req'[r].step = "idle"
         /\ \A p \in Requests : p # r => req'[p] = req[p]
BY OneMoves DEF Login!Idle

LEMMA ArriveStep ==
  ASSUME Login!SessionAssumption, SessionInv, NEW r \in Requests, NEW op \in {"me", "other"}, Login!Arrive(r, op)
  PROVE  SessionInv'
<1>. PICK c \in cookies \cup {None}, t \in tokens \cup {None} :
        Login!Set(r, [step |-> "cookie", op |-> op, cookie |-> c, token |-> t])
  BY DEF Login!Arrive
<1>. DEFINE q == [step |-> "cookie", op |-> op, cookie |-> c, token |-> t]
<1>1. q \in Coming
  BY DEF Coming, SessionInv, SessionTypeOK
<1>2. /\ req'[r] = q /\ req'[r].step = "cookie"
      /\ \A p \in Requests : p # r => req'[p] = req[p]
      /\ req' \in [Requests -> {Login!Idle} \cup Coming \cup LetIn]
  BY <1>1, OneMoves DEF SessionInv
<1>3. UNCHANGED <<now, redis, stamp, sent, tokens, cookies, confirmed, user, adding, signedOut, emails, lost>>
  BY DEF Login!Arrive
<1>4. Login!At(r, "idle")
  BY DEF Login!Arrive
<1>. HIDE DEF q
<1>5. SessionTypeOK' /\ StampKept' /\ SentOnce' /\ ~lost'
  BY <1>2, <1>3 DEF SessionInv, SessionTypeOK, StampKept, SentOnce, Login!FirstAccess
<1>6. OneAdds' /\ TokenAtHand' /\ Login!RevokedIsRefused'
  BY <1>2, <1>3, <1>4 DEF SessionInv, OneAdds, TokenAtHand, Login!RevokedIsRefused, Login!Accepted, Login!At, SessionTypeOK
<1>. QED
  BY <1>5, <1>6 DEF SessionInv

(* What becomes of a request that is not let in. *)
LEMMA NotLetIn ==
  ASSUME SessionInv, NEW r \in Requests, req[r].step \in {"cookie", "bearer"},
         Login!Set(r, Login!Idle) \/ Login!Go(r, "bearer"),
         UNCHANGED <<now, redis, stamp, sent, tokens, cookies, confirmed, user, adding, signedOut, emails, lost>>
  PROVE  SessionInv'
<1>1. req[r] \in Coming
  BY WhereItStands DEF SessionInv
<1>2. [req[r] EXCEPT !.step = "bearer"] \in Coming /\ [req[r] EXCEPT !.step = "bearer"].step = "bearer"
  BY <1>1 DEF Coming
<1>3. /\ req'[r].step \in {"idle", "bearer"}
      /\ \A p \in Requests : p # r => req'[p] = req[p]
      /\ req' \in [Requests -> {Login!Idle} \cup Coming \cup LetIn]
  <2>1. CASE Login!Set(r, Login!Idle)
    BY <2>1, Ends DEF SessionInv
  <2>2. CASE Login!Go(r, "bearer")
    BY <2>2, <1>2, OneMoves DEF SessionInv, Login!Go
  <2>. QED
    BY <2>1, <2>2
<1>5. SessionTypeOK' /\ StampKept' /\ SentOnce' /\ ~lost'
  BY <1>3 DEF SessionInv, SessionTypeOK, StampKept, SentOnce, Login!FirstAccess
<1>6. OneAdds' /\ TokenAtHand' /\ Login!RevokedIsRefused'
  BY <1>3 DEF SessionInv, OneAdds, TokenAtHand, Login!RevokedIsRefused, Login!Accepted, SessionTypeOK
<1>. QED
  BY <1>5, <1>6 DEF SessionInv

\* And of one that is, with a credential that may pass.
LEMMA IsLetIn ==
  ASSUME SessionInv, NEW r \in Requests, req[r].step \in {"cookie", "bearer"},
         NEW iat \in Nat, NEW root \in Nat, NEW with \in {"cookie", "bearer"},
         with = "bearer" => req[r].token # None,
         \/ iat > signedOut
         \/ with = "cookie" /\ now >= signedOut + SESSION_COOKIE_MAX_AGE
                            /\ now <= iat + SESSION_COOKIE_MAX_AGE + LEEWAY,
         Login!Accept(r, iat, root, with),
         UNCHANGED <<now, redis, stamp, sent, tokens, cookies, confirmed, user, adding, signedOut, emails, lost>>,
         Login!SessionAssumption
  PROVE  SessionInv'
<1>. DEFINE q == [step |-> "user", op |-> req[r].op, token |-> req[r].token, iat |-> iat, root |-> root,
                  with |-> with, when |-> now, after |-> signedOut]
<1>1. req[r] \in Coming
  BY WhereItStands DEF SessionInv
<1>2. q \in LetIn
  BY <1>1 DEF SessionInv, SessionTypeOK, Coming, LetIn
<1>3. /\ req'[r] = q
      /\ \A p \in Requests : p # r => req'[p] = req[p]
      /\ req' \in [Requests -> {Login!Idle} \cup Coming \cup LetIn]
  BY <1>2, OneMoves DEF SessionInv, Login!Accept
<1>4. /\ req'[r].step = "user" /\ req'[r].with = with /\ req'[r].token = req[r].token
      /\ req'[r].iat = iat /\ req'[r].when = now /\ req'[r].after = signedOut
  BY <1>3
<1>. HIDE DEF q
<1>5. SessionTypeOK' /\ StampKept' /\ ~lost'
  BY <1>3 DEF SessionInv, SessionTypeOK, StampKept
<1>6. OneAdds' /\ TokenAtHand'
  BY <1>3, <1>4 DEF SessionInv, OneAdds, TokenAtHand, SessionTypeOK
<1>7. Login!RevokedIsRefused'
  BY <1>3, <1>4 DEF SessionInv, Login!RevokedIsRefused, Login!Accepted, SessionTypeOK, Login!SessionAssumption
<1>8. SentOnce'
  BY <1>3, <1>4, SentKept DEF SessionInv, Login!FirstAccess
<1>. QED
  BY <1>5, <1>6, <1>7, <1>8 DEF SessionInv

LEMMA ByCookieStep ==
  ASSUME Login!SessionAssumption, SessionInv, NEW r \in Requests, Login!ByCookie(r)
  PROVE  SessionInv'
<1>. DEFINE c == req[r].cookie
<1>1. /\ req[r].step = "cookie" /\ c \in Cookies \cup {None}
      /\ UNCHANGED <<now, redis, stamp, sent, tokens, cookies, confirmed, user, adding, signedOut, emails, lost>>
  BY WhereItStands DEF Login!ByCookie, Login!At, SessionInv, Coming
<1>2. CASE Login!Set(r, Login!Idle) \/ Login!Go(r, "bearer")
  BY <1>1, <1>2, NotLetIn
<1>3. CASE c # None /\ Login!CookieLive(c) /\ redis # "down" /\ ~Login!Revoked(c.iat) /\ Login!Accept(r, c.iat, c.root, "cookie")
  <2>1. c.iat \in Nat /\ c.root \in Nat
    BY <1>1, <1>3 DEF Cookies
  <2>2. c.iat > signedOut \/ now >= signedOut + SESSION_COOKIE_MAX_AGE
    BY <1>3, <2>1, NotRevoked DEF SessionInv
  <2>3. now <= c.iat + SESSION_COOKIE_MAX_AGE + LEEWAY
    BY <1>3, <2>1 DEF Login!CookieLive, Login!SessionAssumption, SessionInv, SessionTypeOK
  <2>. QED
    BY <1>1, <1>3, <2>1, <2>2, <2>3, IsLetIn
<1>. QED
  BY <1>2, <1>3 DEF Login!ByCookie

LEMMA ByTokenStep ==
  ASSUME Login!SessionAssumption, SessionInv, NEW r \in Requests, Login!ByToken(r)
  PROVE  SessionInv'
<1>. DEFINE t == req[r].token
<1>1. /\ req[r].step = "bearer" /\ t \in Tokens \cup {None}
      /\ UNCHANGED <<now, redis, stamp, sent, tokens, cookies, confirmed, user, adding, signedOut, emails, lost>>
  BY WhereItStands DEF Login!ByToken, Login!At, SessionInv, Coming
<1>2. CASE Login!Set(r, Login!Idle)
  BY <1>1, <1>2, NotLetIn
<1>3. CASE t # None /\ Login!TokenLive(t) /\ redis # "down" /\ ~Login!Revoked(t.iat) /\ Login!Accept(r, t.iat, t.iat, "bearer")
  <2>1. t.iat \in Nat
    BY <1>1, <1>3 DEF Tokens
  <2>2. t.iat > signedOut \/ now >= signedOut + SESSION_COOKIE_MAX_AGE
    BY <1>3, <2>1, NotRevoked DEF SessionInv
  <2>3. t.iat > signedOut
    BY <1>3, <2>1, <2>2 DEF Login!TokenLive, Login!SessionAssumption, SessionInv, SessionTypeOK
  <2>. QED
    BY <1>1, <1>3, <2>1, <2>3, IsLetIn
<1>. QED
  BY <1>2, <1>3 DEF Login!ByToken

-----------------------------------------------------------------------------
(* The row of the user.                                                      *)
LEMMA FindUserStep ==
  ASSUME Login!SessionAssumption, SessionInv, NEW r \in Requests, Login!FindUser(r)
  PROVE  SessionInv'
<1>1. /\ req[r].step = "user" /\ Login!Accepted(r)
      /\ UNCHANGED <<now, redis, stamp, sent, tokens, cookies, confirmed, user, adding, signedOut, emails, lost>>
  BY DEF Login!FindUser, Login!At, Login!Accepted
<1>2. CASE Login!Set(r, Login!Idle)
  <2>1. /\ req'[r].step = "idle"
        /\ \A p \in Requests : p # r => req'[p] = req[p]
        /\ req' \in [Requests -> {Login!Idle} \cup Coming \cup LetIn]
    BY <1>2, Ends DEF SessionInv
  <2>. QED
    BY <1>1, <2>1 DEF SessionInv, SessionTypeOK, StampKept, SentOnce, Login!FirstAccess, OneAdds, TokenAtHand,
                      Login!RevokedIsRefused, Login!Accepted
<1>3. CASE user # None /\ Login!Go(r, "run")
  <2>1. /\ req'[r].step = "run" /\ UNCHANGED <<req[r].with, req[r].token, req[r].iat, req[r].when, req[r].after>>
        /\ \A p \in Requests : p # r => req'[p] = req[p]
        /\ req' \in [Requests -> {Login!Idle} \cup Coming \cup LetIn]
    BY <1>1, <1>3, GoesOn DEF SessionInv
  <2>2. SessionTypeOK' /\ StampKept' /\ SentOnce' /\ ~lost'
    BY <1>1, <2>1 DEF SessionInv, SessionTypeOK, StampKept, SentOnce, Login!FirstAccess
  <2>3. OneAdds' /\ TokenAtHand' /\ Login!RevokedIsRefused'
    BY <1>1, <1>3, <2>1 DEF SessionInv, SessionTypeOK, OneAdds, TokenAtHand, Login!RevokedIsRefused, Login!Accepted
  <2>. QED
    BY <2>2, <2>3 DEF SessionInv
<1>4. CASE user = None /\ req[r].with # "cookie" /\ Login!Go(r, "insert")
  <2>1. /\ req'[r].step = "insert" /\ UNCHANGED <<req[r].with, req[r].token, req[r].iat, req[r].when, req[r].after>>
        /\ \A p \in Requests : p # r => req'[p] = req[p]
        /\ req' \in [Requests -> {Login!Idle} \cup Coming \cup LetIn]
    BY <1>1, <1>4, GoesOn DEF SessionInv
  <2>2. SessionTypeOK' /\ StampKept' /\ ~lost'
    BY <1>1, <2>1 DEF SessionInv, SessionTypeOK, StampKept
  <2>3. OneAdds' /\ TokenAtHand' /\ Login!RevokedIsRefused'
    BY <1>1, <1>4, <2>1 DEF SessionInv, SessionTypeOK, OneAdds, TokenAtHand, Login!RevokedIsRefused, Login!Accepted
  <2>4. SentOnce'
    BY <1>1, <1>4, SentKept DEF SessionInv, Login!FirstAccess
  <2>. QED
    BY <2>2, <2>3, <2>4 DEF SessionInv
<1>. QED
  BY <1>2, <1>3, <1>4 DEF Login!FindUser

\* A step of a request that was let in, and what it has to show.
LEMMA LetInMoves ==
  ASSUME SessionInv, NEW r \in Requests, Login!Accepted(r), NEW step \in {"recover", "email", "run"}, Login!Go(r, step),
         req[r].with = "bearer",
         UNCHANGED <<now, redis, stamp, tokens, cookies, confirmed, user, signedOut>>,
         adding' \in {adding, r}, emails' \in Mails, sent' \in Nat \cup {None},
         OneAdds', SentOnce', ~lost', lost' \in BOOLEAN
  PROVE  SessionInv'
<1>1. /\ req'[r].step = step /\ UNCHANGED <<req[r].with, req[r].token, req[r].iat, req[r].when, req[r].after>>
      /\ \A p \in Requests : p # r => req'[p] = req[p]
      /\ req' \in [Requests -> {Login!Idle} \cup Coming \cup LetIn]
  BY GoesOn DEF SessionInv
<1>2. SessionTypeOK' /\ StampKept'
  BY <1>1 DEF SessionInv, SessionTypeOK, StampKept
<1>3. TokenAtHand' /\ Login!RevokedIsRefused'
  BY <1>1 DEF SessionInv, SessionTypeOK, TokenAtHand, Login!RevokedIsRefused, Login!Accepted
<1>. QED
  BY <1>2, <1>3 DEF SessionInv

LEMMA InsertStep ==
  ASSUME Login!SessionAssumption, SessionInv, NEW r \in Requests, Login!Insert(r)
  PROVE  SessionInv'
<1>1. /\ req[r].step = "insert" /\ Login!Accepted(r) /\ adding = None
      /\ UNCHANGED <<now, redis, stamp, sent, tokens, cookies, confirmed, user, signedOut, emails, lost>>
  BY DEF Login!Insert, Login!At, Login!Accepted
<1>2. req[r].with = "bearer"
  BY <1>1 DEF SessionInv, TokenAtHand
<1>3. CASE user = None /\ adding' = r /\ Login!Go(r, "email")
  <2>1. req'[r].step = "email" /\ \A p \in Requests : p # r => req'[p] = req[p]
    BY <1>1, <1>3, GoesOn DEF SessionInv
  <2>2. OneAdds'
    BY <1>1, <1>3, <2>1 DEF SessionInv, OneAdds, Login!SessionAssumption
  <2>3. /\ emails' \in Mails /\ sent' \in Nat \cup {None} /\ lost' \in BOOLEAN
        /\ SentOnce' /\ ~lost'
    BY <1>1 DEF SessionInv, SessionTypeOK, SentOnce, Login!FirstAccess
  <2>. QED
    BY <1>1, <1>2, <1>3, <2>2, <2>3, LetInMoves
<1>4. CASE user # None /\ adding' = adding /\ Login!Go(r, "recover")
  <2>1. req'[r].step = "recover" /\ \A p \in Requests : p # r => req'[p] = req[p]
    BY <1>1, <1>4, GoesOn DEF SessionInv
  <2>2. OneAdds'
    BY <1>1, <1>4, <2>1 DEF SessionInv, OneAdds
  <2>3. /\ emails' \in Mails /\ sent' \in Nat \cup {None} /\ lost' \in BOOLEAN
        /\ SentOnce' /\ ~lost'
    BY <1>1 DEF SessionInv, SessionTypeOK, SentOnce, Login!FirstAccess
  <2>. QED
    BY <1>1, <1>2, <1>4, <2>2, <2>3, LetInMoves
<1>. QED
  BY <1>3, <1>4 DEF Login!Insert

LEMMA RecoverStep ==
  ASSUME Login!SessionAssumption, SessionInv, NEW r \in Requests, Login!Recover(r)
  PROVE  SessionInv'
<1>1. /\ req[r].step = "recover" /\ Login!Accepted(r)
      /\ UNCHANGED <<now, redis, stamp, sent, tokens, cookies, confirmed, user, adding, signedOut, emails>>
  BY DEF Login!Recover, Login!At, Login!Accepted
<1>2. req[r].with = "bearer" /\ user # None
  BY <1>1 DEF SessionInv, TokenAtHand, OneAdds
<1>3. Login!Go(r, "email") /\ lost' = lost
  BY <1>2 DEF Login!Recover
<1>4. req'[r].step = "email" /\ \A p \in Requests : p # r => req'[p] = req[p]
  BY <1>1, <1>3, GoesOn DEF SessionInv
<1>5. OneAdds'
  BY <1>1, <1>2, <1>4 DEF SessionInv, OneAdds
<1>6. /\ emails' \in Mails /\ sent' \in Nat \cup {None} /\ lost' \in BOOLEAN
      /\ SentOnce' /\ ~lost'
  BY <1>1, <1>3 DEF SessionInv, SessionTypeOK, SentOnce, Login!FirstAccess
<1>. QED
  BY <1>1, <1>2, <1>3, <1>5, <1>6, LetInMoves

LEMMA FirstEmailStep ==
  ASSUME Login!SessionAssumption, SessionInv, NEW r \in Requests, Login!FirstEmail(r)
  PROVE  SessionInv'
<1>1. /\ req[r].step = "email" /\ Login!Accepted(r) /\ Login!Go(r, "run")
      /\ UNCHANGED <<now, redis, stamp, tokens, cookies, confirmed, user, adding, signedOut, lost>>
  BY DEF Login!FirstEmail, Login!At, Login!Accepted
<1>2. req[r].with = "bearer"
  BY <1>1 DEF SessionInv, TokenAtHand
<1>3. req'[r].step = "run" /\ \A p \in Requests : p # r => req'[p] = req[p]
  BY <1>1, GoesOn DEF SessionInv
<1>4. OneAdds'
  BY <1>1, <1>3 DEF SessionInv, OneAdds
<1>5. /\ emails' \in Mails /\ sent' \in Nat \cup {None}
      /\ SentOnce'
  <2>1. CASE UNCHANGED <<sent, emails>>
    <3>1. SentOnce'
      BY <1>1, <1>3, <2>1, SentKept DEF SessionInv, Login!FirstAccess
    <3>. QED
      BY <2>1, <3>1 DEF SessionInv, SessionTypeOK
  <2>2. CASE /\ redis = "up" /\ sent = None /\ sent' = now + EmailKeyAge
             /\ emails' \in {emails, [emails EXCEPT !.first = @ + 1]}
    <3>1. Login!FirstAccess
      BY <1>1 DEF Login!FirstAccess
    <3>2. emails.first <= emails.lapsed
      BY <2>2, <3>1 DEF SessionInv, SentOnce
    <3>3. sent' \in Nat /\ sent' # None
      BY <2>2 DEF Login!SessionAssumption, SessionInv, SessionTypeOK
    <3>4. /\ emails' \in Mails /\ emails'.lapsed = emails.lapsed
          /\ emails'.first \in {emails.first, emails.first + 1}
      BY <2>2 DEF SessionInv, SessionTypeOK, Mails
    <3>5. emails.first \in Nat /\ emails.lapsed \in Nat
      BY DEF SessionInv, SessionTypeOK, Mails
    <3>6. SentOnce'
      BY <3>2, <3>3, <3>4, <3>5 DEF SentOnce
    <3>. QED
      BY <3>3, <3>4, <3>6
  <2>3. CASE sent' = sent /\ emails' \in {emails, [emails EXCEPT !.again = ~confirmed]}
    <3>1. /\ emails' \in Mails /\ emails'.first = emails.first
          /\ emails'.lapsed = emails.lapsed
      BY <2>3 DEF SessionInv, SessionTypeOK, Mails
    <3>2. SentOnce'
      BY <1>1, <1>3, <2>3, <3>1, SentKept DEF SessionInv, Login!FirstAccess
    <3>. QED
      BY <2>3, <3>1, <3>2 DEF SessionInv, SessionTypeOK
  <2>. QED
    BY <2>1, <2>2, <2>3 DEF Login!FirstEmail, SessionInv, SessionTypeOK
<1>. QED
  BY <1>1, <1>2, <1>4, <1>5, LetInMoves DEF SessionInv, SessionTypeOK

LEMMA RunStep ==
  ASSUME Login!SessionAssumption, SessionInv, NEW r \in Requests, Login!Run(r)
  PROVE  SessionInv'
<1>1. /\ req[r].step = "run" /\ Login!Accepted(r) /\ Login!Set(r, Login!Idle) /\ Login!Resend(r)
      /\ adding' = IF adding = r THEN None ELSE adding
      /\ UNCHANGED <<now, redis, stamp, sent, tokens, confirmed, signedOut, lost>>
  BY DEF Login!Run, Login!At, Login!Accepted, Login!Drop
<1>2. /\ req'[r].step = "idle"
      /\ \A p \in Requests : p # r => req'[p] = req[p]
      /\ req' \in [Requests -> {Login!Idle} \cup Coming \cup LetIn]
  BY <1>1, Ends DEF SessionInv
<1>3. req[r] \in LetIn
  BY <1>1, WhereItStands DEF SessionInv
<1>4. user' \in UserRows
  <2>1. req[r].token # None => [verified |-> req[r].token.verified] \in UserRows
    BY <1>3 DEF LetIn, Tokens, UserRows
  <2>2. user = None => req[r].token # None
    BY <1>1 DEF SessionInv, TokenAtHand
  <2>3. Login!Row(r) \in UserRows
    BY <2>1, <2>2 DEF Login!Row, SessionInv, SessionTypeOK
  <2>. QED
    BY <2>1, <2>3 DEF Login!Run
<1>5. cookies' \subseteq Cookies
  <2>1. [iat |-> now, root |-> req[r].root] \in Cookies
    BY <1>3 DEF LetIn, Cookies, SessionInv, SessionTypeOK
  <2>. QED
    BY <2>1 DEF Login!Run, SessionInv, SessionTypeOK
<1>6. emails' \in Mails /\ emails'.first = emails.first /\ emails'.lapsed = emails.lapsed
  BY <1>1 DEF Login!Resend, SessionInv, SessionTypeOK, Mails
<1>7. user' # None
  BY <1>4 DEF UserRows, Login!SessionAssumption
<1>8. adding' = None
  BY <1>1 DEF SessionInv, OneAdds
<1>9. SessionTypeOK' /\ StampKept' /\ ~lost'
  BY <1>1, <1>2, <1>4, <1>5, <1>6, <1>8 DEF SessionInv, SessionTypeOK, StampKept
<1>10. OneAdds' /\ TokenAtHand' /\ Login!RevokedIsRefused'
  BY <1>1, <1>2, <1>7, <1>8 DEF SessionInv, OneAdds, TokenAtHand, Login!RevokedIsRefused, Login!Accepted, SessionTypeOK
<1>11. SentOnce'
  BY <1>1, <1>2, <1>6, <1>7, SentKept DEF SessionInv, Login!FirstAccess
<1>. QED
  BY <1>9, <1>10, <1>11 DEF SessionInv

LEMMA AbortStep ==
  ASSUME Login!SessionAssumption, SessionInv, NEW r \in Requests, Login!Abort(r)
  PROVE  SessionInv'
<1>1. /\ Login!Set(r, Login!Idle) /\ adding = r /\ adding' = None
      /\ UNCHANGED <<now, redis, stamp, sent, tokens, cookies, confirmed, user, signedOut, emails, lost>>
  BY DEF Login!Abort, Login!Drop
<1>2. /\ req'[r].step = "idle"
      /\ \A p \in Requests : p # r => req'[p] = req[p]
      /\ req' \in [Requests -> {Login!Idle} \cup Coming \cup LetIn]
  BY <1>1, Ends DEF SessionInv
<1>3. SessionTypeOK' /\ StampKept' /\ SentOnce' /\ ~lost'
  BY <1>1, <1>2 DEF SessionInv, SessionTypeOK, StampKept, SentOnce, Login!FirstAccess
<1>4. OneAdds' /\ TokenAtHand' /\ Login!RevokedIsRefused'
  BY <1>1, <1>2 DEF SessionInv, OneAdds, TokenAtHand, Login!RevokedIsRefused, Login!Accepted, SessionTypeOK
<1>. QED
  BY <1>3, <1>4 DEF SessionInv

LEMMA SessionStep ==
  Login!SessionAssumption /\ SessionInv /\ [Login!Next]_Login!svars => SessionInv'
<1>. SUFFICES ASSUME Login!SessionAssumption, SessionInv, [Login!Next]_Login!svars PROVE SessionInv'
  OBVIOUS
<1>1. CASE Login!Tick
  BY <1>1, TickStep
<1>2. CASE Login!RedisFails \/ Login!RedisReturns \/ Login!KeycloakSignIn \/ Login!FollowLink
  BY <1>2, AroundStep
<1>3. CASE Login!ClearSession \/ Login!BackchannelLogout
  BY <1>3, RevokeStep
<1>4. CASE \E r \in Requests : Login!Arrive(r, "me") \/ Login!Arrive(r, "other")
  BY <1>4, ArriveStep
<1>5. CASE \E r \in Requests : Login!ByCookie(r) \/ Login!ByToken(r)
  BY <1>5, ByCookieStep, ByTokenStep
<1>6. CASE \E r \in Requests : Login!FindUser(r) \/ Login!Insert(r) \/ Login!Recover(r)
  BY <1>6, FindUserStep, InsertStep, RecoverStep
<1>7. CASE \E r \in Requests : Login!FirstEmail(r) \/ Login!Run(r) \/ Login!Abort(r)
  BY <1>7, FirstEmailStep, RunStep, AbortStep
<1>8. CASE UNCHANGED Login!svars
  BY <1>8 DEF Login!svars, SessionInv, SessionTypeOK, StampKept, OneAdds, TokenAtHand, SentOnce, Login!FirstAccess,
              Login!RevokedIsRefused, Login!Accepted
<1>. QED
  BY <1>1, <1>2, <1>3, <1>4, <1>5, <1>6, <1>7, <1>8 DEF Login!Next

(* A request is let in only with a credential younger than the last sign-out *)
(* on record, or with a cookie of its last LEEWAY seconds after the stamp    *)
(* has lapsed, however Redis fails and returns between the two.              *)
(* (core/redis.py, deps.py: revoke_session, _resolve_user_id)                *)
THEOREM RevokedStaysOut == Login!SessionAssumption /\ Login!Spec => []RevokedIsRefused
<1>. SUFFICES ASSUME Login!SessionAssumption PROVE Login!Spec => []RevokedIsRefused
  OBVIOUS
<1>1. Login!Init => SessionInv
  BY SessionInit
<1>2. SessionInv /\ [Login!Next]_Login!svars => SessionInv'
  BY SessionStep
<1>3. SessionInv => RevokedIsRefused
  BY DEF SessionInv, RevokedIsRefused
<1>. QED
  BY <1>1, <1>2, <1>3, PTL DEF Login!Spec

(* Of any number of parallel first requests one makes the row and none is    *)
(* turned away because another was faster.  While Redis answers one e-mail   *)
(* is sent, and one more only when its key lapses before the row is          *)
(* committed and the requests that missed it are through.  (auth/jit.py,     *)
(* deps.py: _send_first_verification_email)                                  *)
THEOREM FirstLoginOnce == Login!SessionAssumption /\ Login!Spec => [](SessionTypeOK /\ FirstLogin)
<1>. SUFFICES ASSUME Login!SessionAssumption PROVE Login!Spec => [](SessionTypeOK /\ FirstLogin)
  OBVIOUS
<1>1. Login!Init => SessionInv
  BY SessionInit
<1>2. SessionInv /\ [Login!Next]_Login!svars => SessionInv'
  BY SessionStep
<1>3. SessionInv => SessionTypeOK /\ FirstLogin
  BY DEF SessionInv, SessionTypeOK, Mails, SentOnce, FirstLogin, Login!FirstLogin
<1>. QED
  BY <1>1, <1>2, <1>3, PTL DEF Login!Spec

-----------------------------------------------------------------------------
(* TokenKeys: the invariant *)

KeySets == [keys : SUBSET Realm!Keys, until : Nat]
Waiting == [step : Realm!Working, key : Realm!Keys, client : Realm!Ids, got : SUBSET Realm!Keys,
            again : BOOLEAN, since : Nat, fails : Nat, retried : BOOLEAN]
Refusal == [step : {"refused"}, key : Realm!Keys, fails : Nat]
Passing == [step : {"accepted"}, key : Realm!Keys, at : Nat]

RealmTypeOK ==
  /\ keyClock \in Nat
  /\ newest \in Realm!Keys
  /\ withdrawn \in [Realm!Keys -> Nat \cup {None}]
  /\ clients \in [Realm!Ids -> KeySets \cup {None}]
  /\ cached \in [id : Realm!Ids, expires : Nat]
  /\ verify \in [Requests -> {Realm!Idle} \cup Waiting \cup Refusal \cup Passing]

\* A set that names a withdrawn key lapses within a lifespan and a fetch.
Dated(set) ==
  set # None =>
    /\ set.until <= keyClock + Lifespan
    /\ \A k \in set.keys : withdrawn[k] # None => set.until <= withdrawn[k] + Timeout + Lifespan

\* A fetch is open for Timeout at most, and its answer is read after it began.
Timely(v) ==
  v.step \in {"fetch", "answered"} =>
    /\ v.since <= keyClock /\ keyClock <= v.since + Timeout
    /\ v.step = "answered" =>
         \A k \in v.got : withdrawn[k] # None => v.since <= withdrawn[k]

\* A token whose key is published waits for what will show the key, unless a
\* fetch fails: the first failure is followed by the one retry.
Found(v) ==
  v.step \in Realm!Working /\ withdrawn[v.key] = None =>
    /\ v.step = "answered" => v.key \in v.got
    /\ v.fails = (IF v.retried THEN 1 ELSE 0) + (IF v.step = "missed" THEN 1 ELSE 0)

Judged(v) ==
  /\ v.step = "refused" => withdrawn[v.key] # None \/ v.fails = 2
  /\ v.step = "accepted" =>
       /\ v.at <= keyClock
       /\ withdrawn[v.key] # None => v.at <= withdrawn[v.key] + Timeout + Lifespan

RealmInv ==
  /\ RealmTypeOK
  /\ \A i \in Realm!Ids : Dated(clients[i])
  /\ \A r \in Requests : Timely(verify[r]) /\ Found(verify[r]) /\ Judged(verify[r])
                          /\ verify[r].key <= newest

-----------------------------------------------------------------------------
\* The operators of FiniteSets that TokenKeys uses are those of this module.
LEMMA SameOperators ==
  /\ Realm!IsFiniteSet(Requests) <=> IsFiniteSet(Requests)
  /\ Realm!Cardinality(Requests) = Cardinality(Requests)
<1>1. Realm!IsFiniteSet(Requests) <=> IsFiniteSet(Requests)
  BY DEF Realm!IsFiniteSet, IsFiniteSet
<1>2. Realm!Cardinality(Requests) = Cardinality(Requests)
  BY DEF Realm!Cardinality, Cardinality
<1>. QED
  BY <1>1, <1>2

LEMMA RealmInit == Realm!KeysAssumption /\ Realm!Init => RealmInv
<1>. SUFFICES ASSUME Realm!KeysAssumption, Realm!Init PROVE RealmInv
  OBVIOUS
<1>1. \A r \in Requests : verify[r] = Realm!Idle /\ verify[r].step = "idle" /\ verify[r].key = 1
  BY DEF Realm!Init, Realm!Idle
<1>2. 1 \in Realm!Ids /\ 1 \in Realm!Keys
  <2>1. Cardinality(Requests) \in Nat
    BY FS_CardinalityType, SameOperators DEF Realm!KeysAssumption
  <2>. QED
    BY <2>1, SameOperators DEF Realm!KeysAssumption, Realm!Ids, Realm!Keys
<1>3. verify \in [Requests -> {Realm!Idle} \cup Waiting \cup Refusal \cup Passing]
  BY <1>1 DEF Realm!Init
<1>4. RealmTypeOK
  BY <1>2, <1>3 DEF Realm!Init, RealmTypeOK
<1>5. \A i \in Realm!Ids : Dated(clients[i])
  BY DEF Realm!Init, Dated
<1>. QED
  BY <1>1, <1>4, <1>5 DEF Realm!Init, RealmInv, Timely, Found, Judged, Realm!Working

\* There is always a client that no request holds: there are more places than
\* requests.
LEMMA FreeClient ==
  ASSUME Realm!KeysAssumption
  PROVE  \E i \in Realm!Ids : ~Realm!InUse(i)
<1>. SUFFICES ASSUME \A i \in Realm!Ids : Realm!InUse(i) PROVE FALSE
  OBVIOUS
<1>. DEFINE holder == [i \in Realm!Ids |->
       CHOOSE r \in Requests : verify[r].step \in Realm!Working /\ verify[r].client = i]
<1>1. \A i \in Realm!Ids : holder[i] \in Requests /\ verify[holder[i]].client = i
  BY DEF Realm!InUse
<1>2. holder \in [Realm!Ids -> Requests]
  BY <1>1
<1>3. IsFiniteSet(Requests) /\ Cardinality(Requests) \in Nat
  BY FS_CardinalityType, SameOperators DEF Realm!KeysAssumption
<1>4. IsFiniteSet(Realm!Ids) /\ Cardinality(Realm!Ids) = Cardinality(Requests) + 1
  <2>. DEFINE n == Cardinality(Requests) + 1
  <2>1. n \in Int /\ 1 \in Int /\ ~(1 > n) /\ n - 1 + 1 = n
    BY <1>3
  <2>. HIDE DEF n
  <2>2. IsFiniteSet(1 .. n) /\ Cardinality(1 .. n) = n
    BY <2>1, FS_Interval
  <2>. QED
    BY <2>2, SameOperators DEF n, Realm!Ids
<1>5. Cardinality(Requests) < Cardinality(Realm!Ids)
  BY <1>3, <1>4
<1>. HIDE DEF holder
<1>6. \E i, j \in Realm!Ids : i # j /\ holder[i] = holder[j]
  BY <1>2, <1>3, <1>4, <1>5, FS_PigeonHole
<1>. QED
  BY <1>1, <1>6

LEMMA NewClientIn ==
  ASSUME Realm!KeysAssumption, RealmTypeOK, Realm!NewClient
  PROVE  /\ cached' \in [id : Realm!Ids, expires : Nat] /\ cached'.id \in Realm!Ids
         /\ clients' \in [Realm!Ids -> KeySets \cup {None}]
         /\ \A i \in Realm!Ids : clients'[i] \in {clients[i], None}
<1>. DEFINE id == CHOOSE i \in Realm!Ids : ~Realm!InUse(i)
<1>1. id \in Realm!Ids
  BY FreeClient
<1>. HIDE DEF id
<1>2. cached' = [id |-> id, expires |-> keyClock + Lifespan]
  BY DEF Realm!NewClient, id
<1>3. cached' \in [id : Realm!Ids, expires : Nat] /\ cached'.id \in Realm!Ids
  BY <1>1, <1>2 DEF RealmTypeOK, Realm!KeysAssumption
<1>4. clients' = [i \in Realm!Ids |-> IF Realm!InUse(i) THEN clients[i] ELSE None]
  BY DEF Realm!NewClient
<1>. QED
  BY <1>3, <1>4 DEF RealmTypeOK

(* What stays true of the other requests and of the sets at hand.            *)
LEMMA OneVerifies ==
  ASSUME RealmInv, NEW r \in Requests,
         UNCHANGED <<keyClock, newest, withdrawn>>,
         cached' \in [id : Realm!Ids, expires : Nat],
         clients' \in [Realm!Ids -> KeySets \cup {None}],
         \A i \in Realm!Ids : Dated(clients[i])',
         NEW v, verify' = [verify EXCEPT ![r] = v],
         v \in {Realm!Idle} \cup Waiting \cup Refusal \cup Passing,
         Timely(v), Found(v), Judged(v), v.key <= newest
  PROVE  RealmInv'
<1>1. verify'[r] = v /\ \A p \in Requests : p # r => verify'[p] = verify[p]
  BY DEF RealmInv, RealmTypeOK
<1>2. RealmTypeOK'
  BY DEF RealmInv, RealmTypeOK
<1>3. \A p \in Requests : Timely(verify[p])' /\ Found(verify[p])' /\ Judged(verify[p])'
                          /\ verify'[p].key <= newest'
  <2>. SUFFICES ASSUME NEW p \in Requests
                PROVE  (Timely(verify[p]) /\ Found(verify[p]) /\ Judged(verify[p]) /\ verify[p].key <= newest)'
    OBVIOUS
  <2>1. CASE p = r
    BY <1>1, <2>1 DEF Timely, Found, Judged
  <2>2. CASE p # r
    BY <1>1, <2>2 DEF RealmInv, Timely, Found, Judged
  <2>. QED
    BY <2>1, <2>2
<1>. QED
  BY <1>2, <1>3 DEF RealmInv

LEMMA SetsStay ==
  ASSUME RealmInv, UNCHANGED <<keyClock, withdrawn>>,
         \A i \in Realm!Ids : clients'[i] \in {clients[i], None}
  PROVE  \A i \in Realm!Ids : Dated(clients[i])'
BY DEF RealmInv, Dated

\* A request that waits for its key.
LEMMA WhoWaits ==
  ASSUME RealmInv, NEW r \in Requests, verify[r].step \in Realm!Working
  PROVE  /\ verify[r] \in Waiting
         /\ verify[r].key \in Realm!Keys /\ verify[r].client \in Realm!Ids
         /\ verify[r].got \subseteq Realm!Keys /\ verify[r].fails \in Nat
         /\ verify[r].retried \in BOOLEAN /\ verify[r].since \in Nat
<1>1. verify[r] \in {Realm!Idle} \cup Waiting \cup Refusal \cup Passing
  BY DEF RealmInv, RealmTypeOK
<1>2. verify[r] \in Waiting
  BY <1>1 DEF Realm!Idle, Realm!Working, Refusal, Passing
<1>. QED
  BY <1>2 DEF Waiting

(* Keycloak and the clock.                                                   *)
LEMMA AroundRealm ==
  ASSUME Realm!KeysAssumption, RealmInv,
         Realm!Tick \/ Realm!Rotate \/ \E k \in Realm!Keys : Realm!Withdraw(k)
  PROVE  RealmInv'
<1>1. CASE Realm!Tick
  <2>1. keyClock' = keyClock + 1 /\ UNCHANGED <<newest, withdrawn, clients, cached, verify, verified>>
    BY <1>1 DEF Realm!Tick
  <2>2. RealmTypeOK'
    BY <2>1 DEF RealmInv, RealmTypeOK
  <2>3. \A i \in Realm!Ids : Dated(clients[i])'
    <3>. SUFFICES ASSUME NEW i \in Realm!Ids, clients[i] # None PROVE Dated(clients[i])'
      BY <2>1 DEF Dated
    <3>1. clients[i].until \in Nat
      BY DEF RealmInv, RealmTypeOK, KeySets
    <3>. QED
      BY <2>1, <3>1 DEF RealmInv, RealmTypeOK, Dated, Realm!KeysAssumption
  <2>4. \A r \in Requests : Timely(verify[r])' /\ Found(verify[r])' /\ Judged(verify[r])'
                            /\ verify'[r].key <= newest'
    <3>. SUFFICES ASSUME NEW r \in Requests
                  PROVE  (Timely(verify[r]) /\ Found(verify[r]) /\ Judged(verify[r]) /\ verify[r].key <= newest)'
      OBVIOUS
    <3>1. /\ verify[r].step \in {"fetch", "answered"} => keyClock < verify[r].since + Timeout
          /\ verify[r].step \in {"idle", "fetch", "answered"}
      BY <1>1 DEF Realm!Tick
    <3>2. verify[r].step \in {"fetch", "answered"} => verify[r].since \in Nat
      BY WhoWaits DEF Realm!Working
    <3>. QED
      BY <2>1, <3>1, <3>2 DEF RealmInv, RealmTypeOK, Timely, Found, Judged, Realm!KeysAssumption
  <2>. QED
    BY <2>2, <2>3, <2>4 DEF RealmInv
<1>2. CASE Realm!Rotate
  <2>1. newest' = newest + 1 /\ newest < MaxKeys
        /\ UNCHANGED <<keyClock, withdrawn, clients, cached, verify, verified>>
    BY <1>2 DEF Realm!Rotate
  <2>2. newest \in Nat /\ newest' \in Realm!Keys /\ \A r \in Requests : verify[r].key \in Nat
    <3>1. newest \in Nat /\ newest >= 1 /\ newest' \in Realm!Keys
      BY <2>1 DEF RealmInv, RealmTypeOK, Realm!Keys, Realm!KeysAssumption
    <3>2. \A r \in Requests : verify[r].key \in Nat
      BY DEF RealmInv, RealmTypeOK, Realm!Idle, Waiting, Refusal, Passing, Realm!Keys
    <3>. QED
      BY <3>1, <3>2
  <2>3. RealmTypeOK'
    BY <2>1, <2>2 DEF RealmInv, RealmTypeOK
  <2>4. \A r \in Requests : verify[r].key <= newest'
    BY <2>1, <2>2 DEF RealmInv
  <2>. QED
    BY <2>1, <2>3, <2>4 DEF RealmInv, Dated, Timely, Found, Judged
<1>3. ASSUME NEW k \in Realm!Keys, Realm!Withdraw(k)
      PROVE  RealmInv'
  <2>1. /\ withdrawn[k] = None /\ withdrawn' = [withdrawn EXCEPT ![k] = keyClock]
        /\ UNCHANGED <<keyClock, newest, clients, cached, verify, verified>>
    BY <1>3 DEF Realm!Withdraw, Realm!Published
  <2>2. /\ withdrawn'[k] = keyClock /\ keyClock # None
        /\ \A j \in Realm!Keys : j # k => withdrawn'[j] = withdrawn[j]
        /\ keyClock \in Nat
    BY <2>1 DEF RealmInv, RealmTypeOK, Realm!KeysAssumption
  <2>3. RealmTypeOK'
    BY <2>1, <2>2 DEF RealmInv, RealmTypeOK
  <2>4. \A i \in Realm!Ids : Dated(clients[i])'
    <3>. SUFFICES ASSUME NEW i \in Realm!Ids, clients[i] # None PROVE Dated(clients[i])'
      BY <2>1 DEF Dated
    <3>1. clients[i].until \in Nat /\ clients[i].keys \subseteq Realm!Keys
      BY DEF RealmInv, RealmTypeOK, KeySets
    <3>2. Dated(clients[i])
      BY DEF RealmInv
    <3>. QED
      BY <2>1, <2>2, <3>1, <3>2 DEF Dated, Realm!KeysAssumption
  <2>5. \A r \in Requests : Timely(verify[r])' /\ Found(verify[r])' /\ Judged(verify[r])'
                            /\ verify'[r].key <= newest'
    <3>. SUFFICES ASSUME NEW r \in Requests
                  PROVE  (Timely(verify[r]) /\ Found(verify[r]) /\ Judged(verify[r]) /\ verify[r].key <= newest)'
      OBVIOUS
    <3>1. Timely(verify[r]) /\ Found(verify[r]) /\ Judged(verify[r]) /\ verify[r].key <= newest
      BY DEF RealmInv
    <3>2. Timely(verify[r])'
      <4>1. verify[r].step \in {"fetch", "answered"} => verify[r].got \subseteq Realm!Keys
        BY WhoWaits DEF Realm!Working
      <4>. QED
        BY <2>1, <2>2, <3>1, <4>1 DEF Timely
    <3>3. verify[r].key \in Realm!Keys
      BY DEF RealmInv, RealmTypeOK, Realm!Idle, Waiting, Refusal, Passing, Realm!Keys, Realm!KeysAssumption
    <3>4. Found(verify[r])'
      BY <2>1, <2>2, <3>1, <3>3 DEF Found
    <3>5. Judged(verify[r])'
      <4>1. verify[r].step = "accepted" => verify[r].at \in Nat
        BY DEF RealmInv, RealmTypeOK, Realm!Idle, Waiting, Refusal, Passing, Realm!Working
      <4>. QED
        BY <2>1, <2>2, <3>1, <3>3, <4>1 DEF Judged, Realm!KeysAssumption
    <3>. QED
      BY <2>1, <3>1, <3>2, <3>4, <3>5
  <2>. QED
    BY <2>3, <2>4, <2>5 DEF RealmInv
<1>. QED
  BY <1>1, <1>2, <1>3

LEMMA VerifyStep ==
  ASSUME Realm!KeysAssumption, RealmInv, NEW r \in Requests, NEW k \in 1 .. newest, Realm!Verify(r, k)
  PROVE  RealmInv'
<1>. DEFINE v == [step |-> "look", key |-> k, client |-> cached'.id, got |-> {}, again |-> FALSE,
                  since |-> 0, fails |-> 0, retried |-> FALSE]
<1>1. /\ cached' \in [id : Realm!Ids, expires : Nat] /\ cached'.id \in Realm!Ids
      /\ clients' \in [Realm!Ids -> KeySets \cup {None}]
      /\ \A i \in Realm!Ids : clients'[i] \in {clients[i], None}
  <2>1. CASE UNCHANGED <<clients, cached>>
    BY <2>1 DEF RealmInv, RealmTypeOK
  <2>2. CASE Realm!NewClient
    BY <2>2, NewClientIn DEF RealmInv
  <2>. QED
    BY <2>1, <2>2 DEF Realm!Verify
<1>2. UNCHANGED <<keyClock, newest, withdrawn>> /\ verify' = [verify EXCEPT ![r] = v]
  BY DEF Realm!Verify
<1>3. k \in Realm!Keys /\ k <= newest
  BY DEF RealmInv, RealmTypeOK, Realm!Keys, Realm!KeysAssumption
<1>4. v \in Waiting
  BY <1>1, <1>3 DEF Waiting, Realm!Working
<1>5. Timely(v) /\ Found(v) /\ Judged(v) /\ v.key <= newest
  BY <1>3 DEF Timely, Found, Judged
<1>. HIDE DEF v
<1>6. \A i \in Realm!Ids : Dated(clients[i])'
  BY <1>1, <1>2, SetsStay
<1>. QED
  BY <1>1, <1>2, <1>4, <1>5, <1>6, OneVerifies

\* The states a request that waits goes on to.
LEMMA NextStates ==
  ASSUME Realm!KeysAssumption, RealmInv, NEW r \in Requests, verify[r].step \in Realm!Working
  PROVE  /\ \A step \in Realm!Working : LET v == Realm!Step(r, step) IN
              /\ v \in Waiting /\ v.step = step /\ v.key = verify[r].key /\ v.got = {}
              /\ v.fails = verify[r].fails /\ v.retried = verify[r].retried
         /\ \A again \in BOOLEAN : LET v == Realm!Fetch(r, again) IN
              /\ v \in Waiting /\ v.step = "fetch" /\ v.key = verify[r].key /\ v.got = {}
              /\ v.fails = verify[r].fails /\ v.retried = verify[r].retried /\ v.since = keyClock
         /\ LET v == Realm!Accept(r) IN
              v \in Passing /\ v.step = "accepted" /\ v.key = verify[r].key /\ v.at = keyClock
         /\ LET v == Realm!Refuse(r) IN
              v \in Refusal /\ v.step = "refused" /\ v.key = verify[r].key /\ v.fails = verify[r].fails
<1>1. verify[r] \in Waiting /\ verify[r].key \in Realm!Keys /\ verify[r].fails \in Nat /\ keyClock \in Nat
  BY WhoWaits DEF RealmInv, RealmTypeOK
<1>2. \A step \in Realm!Working : LET v == Realm!Step(r, step) IN
        /\ v \in Waiting /\ v.step = step /\ v.key = verify[r].key /\ v.got = {}
        /\ v.fails = verify[r].fails /\ v.retried = verify[r].retried
  BY <1>1 DEF Realm!Step, Waiting
<1>3. \A again \in BOOLEAN : LET v == Realm!Fetch(r, again) IN
        /\ v \in Waiting /\ v.step = "fetch" /\ v.key = verify[r].key /\ v.got = {}
        /\ v.fails = verify[r].fails /\ v.retried = verify[r].retried /\ v.since = keyClock
  BY <1>1 DEF Realm!Step, Realm!Fetch, Waiting, Realm!Working
<1>4. LET v == Realm!Accept(r) IN
        v \in Passing /\ v.step = "accepted" /\ v.key = verify[r].key /\ v.at = keyClock
  BY <1>1 DEF Realm!Accept, Passing
<1>5. LET v == Realm!Refuse(r) IN
        v \in Refusal /\ v.step = "refused" /\ v.key = verify[r].key /\ v.fails = verify[r].fails
  BY <1>1 DEF Realm!Refuse, Refusal
<1>. QED
  BY <1>2, <1>3, <1>4, <1>5

LEMMA LookStep ==
  ASSUME Realm!KeysAssumption, RealmInv, NEW r \in Requests, Realm!Look(r)
  PROVE  RealmInv'
<1>. DEFINE set == clients[verify[r].client]
            v == IF ~Realm!Usable(set) THEN Realm!Fetch(r, FALSE)
                 ELSE IF verify[r].key \in set.keys THEN Realm!Accept(r)
                 ELSE Realm!Fetch(r, TRUE)
<1>1. /\ verify[r].step = "look" /\ verify[r].step \in Realm!Working
      /\ UNCHANGED <<keyClock, newest, withdrawn, clients, cached>>
      /\ verify' = [verify EXCEPT ![r] = v]
  BY DEF Realm!Look, Realm!At, Realm!Working
<1>2. /\ Found(verify[r]) /\ verify[r].key \in Realm!Keys /\ verify[r].client \in Realm!Ids
      /\ verify[r].key <= newest
  BY <1>1, WhoWaits DEF RealmInv
<1>3. CASE v \in {Realm!Fetch(r, FALSE), Realm!Fetch(r, TRUE)}
  <2>1. /\ v \in Waiting /\ v.step = "fetch" /\ v.key = verify[r].key
        /\ v.fails = verify[r].fails /\ v.retried = verify[r].retried /\ v.since = keyClock
    BY <1>1, <1>3, NextStates
  <2>. HIDE DEF v
  <2>2. Timely(v) /\ Found(v) /\ Judged(v) /\ v.key <= newest
    BY <1>1, <1>2, <2>1 DEF Timely, Found, Judged, RealmInv, RealmTypeOK, Realm!KeysAssumption
  <2>3. \A i \in Realm!Ids : Dated(clients[i])'
    BY <1>1 DEF RealmInv, Dated
  <2>. QED
    BY <1>1, <2>1, <2>2, <2>3, OneVerifies DEF RealmInv, RealmTypeOK
<1>4. CASE Realm!Usable(set) /\ verify[r].key \in set.keys /\ v = Realm!Accept(r)
  <2>1. v \in Passing /\ v.step = "accepted" /\ v.key = verify[r].key /\ v.at = keyClock
    BY <1>1, <1>4, NextStates
  <2>2. set # None /\ keyClock <= set.until
    BY <1>4 DEF Realm!Usable
  <2>3. set \in KeySets /\ Dated(set)
    BY <1>2, <2>2 DEF RealmInv, RealmTypeOK
  <2>4. withdrawn[v.key] # None => keyClock <= withdrawn[v.key] + Timeout + Lifespan
    <3>1. set.until \in Nat /\ keyClock \in Nat /\ withdrawn[v.key] \in Nat \cup {None}
      BY <1>2, <2>1, <2>3 DEF KeySets, RealmInv, RealmTypeOK
    <3>. QED
      BY <1>4, <2>1, <2>2, <2>3, <3>1 DEF Dated, Realm!KeysAssumption
  <2>. HIDE DEF v, set
  <2>5. Timely(v) /\ Found(v) /\ Judged(v) /\ v.key <= newest
    BY <1>2, <2>1, <2>4 DEF Timely, Found, Judged, Realm!Working, RealmInv, RealmTypeOK
  <2>6. \A i \in Realm!Ids : Dated(clients[i])'
    BY <1>1 DEF RealmInv, Dated
  <2>. QED
    BY <1>1, <2>1, <2>5, <2>6, OneVerifies DEF RealmInv, RealmTypeOK
<1>. QED
  BY <1>3, <1>4

LEMMA PublishStep ==
  ASSUME Realm!KeysAssumption, RealmInv, NEW r \in Requests, Realm!Publish(r)
  PROVE  RealmInv'
<1>. DEFINE v == [verify[r] EXCEPT !.step = "answered", !.got = Realm!Published]
<1>1. /\ verify[r].step = "fetch" /\ verify[r].step \in Realm!Working
      /\ UNCHANGED <<keyClock, newest, withdrawn, clients, cached>>
      /\ verify' = [verify EXCEPT ![r].step = "answered", ![r].got = Realm!Published]
  BY DEF Realm!Publish, Realm!At, Realm!Working
<1>2. /\ verify[r] \in Waiting /\ verify[r].key \in Realm!Keys /\ verify[r].key <= newest
      /\ Timely(verify[r]) /\ Found(verify[r])
  BY <1>1, WhoWaits DEF RealmInv
<1>3. verify' = [verify EXCEPT ![r] = v]
  BY <1>1, <1>2 DEF RealmInv, RealmTypeOK, Waiting
<1>4. Realm!Published \subseteq Realm!Keys
  BY DEF Realm!Published, Realm!Keys, RealmInv, RealmTypeOK, Realm!KeysAssumption
<1>5. /\ v \in Waiting /\ v.step = "answered" /\ v.key = verify[r].key /\ v.got = Realm!Published
      /\ v.fails = verify[r].fails /\ v.retried = verify[r].retried /\ v.since = verify[r].since
  BY <1>2, <1>4 DEF Waiting, Realm!Working
<1>. HIDE DEF v
<1>6. withdrawn[v.key] = None => v.key \in v.got
  BY <1>2, <1>5 DEF Realm!Published, Realm!Keys, RealmInv, RealmTypeOK, Realm!KeysAssumption
<1>7. \A k \in v.got : withdrawn[k] = None
  BY <1>5 DEF Realm!Published
<1>8. Timely(v) /\ Found(v) /\ Judged(v) /\ v.key <= newest
  BY <1>1, <1>2, <1>5, <1>6, <1>7 DEF Timely, Found, Judged
<1>9. \A i \in Realm!Ids : Dated(clients[i])'
  BY <1>1 DEF RealmInv, Dated
<1>. QED
  BY <1>1, <1>3, <1>5, <1>8, <1>9, OneVerifies DEF RealmInv, RealmTypeOK

LEMMA ReceiveStep ==
  ASSUME Realm!KeysAssumption, RealmInv, NEW r \in Requests, Realm!Receive(r)
  PROVE  RealmInv'
<1>. DEFINE set == [keys |-> verify[r].got, until |-> keyClock + Lifespan]
            v == IF verify[r].key \in verify[r].got THEN Realm!Accept(r)
                 ELSE IF verify[r].again THEN Realm!Step(r, "missed")
                 ELSE Realm!Fetch(r, TRUE)
<1>1. /\ verify[r].step = "answered" /\ verify[r].step \in Realm!Working
      /\ UNCHANGED <<keyClock, newest, withdrawn, cached>>
      /\ clients' = [clients EXCEPT ![verify[r].client] = set]
      /\ verify' = [verify EXCEPT ![r] = v]
  BY DEF Realm!Receive, Realm!At, Realm!Working
<1>2. /\ verify[r].key \in Realm!Keys /\ verify[r].client \in Realm!Ids /\ verify[r].got \subseteq Realm!Keys
      /\ verify[r].since \in Nat /\ verify[r].key <= newest
      /\ Timely(verify[r]) /\ Found(verify[r])
  BY <1>1, WhoWaits DEF RealmInv
<1>3. set \in KeySets /\ set.until = keyClock + Lifespan /\ set.keys = verify[r].got
  BY <1>2 DEF KeySets, RealmInv, RealmTypeOK, Realm!KeysAssumption
<1>4. \A k \in verify[r].got : withdrawn[k] # None => keyClock <= withdrawn[k] + Timeout
  <2>. SUFFICES ASSUME NEW k \in verify[r].got, withdrawn[k] # None PROVE keyClock <= withdrawn[k] + Timeout
    OBVIOUS
  <2>1. withdrawn[k] \in Nat /\ keyClock \in Nat /\ Timeout \in Nat
    BY <1>2 DEF RealmInv, RealmTypeOK, Realm!KeysAssumption
  <2>. QED
    BY <1>1, <1>2, <2>1 DEF Timely
<1>. HIDE DEF set
<1>5. clients' \in [Realm!Ids -> KeySets \cup {None}]
  BY <1>1, <1>3 DEF RealmInv, RealmTypeOK
<1>6. \A i \in Realm!Ids : Dated(clients[i])'
  <2>. SUFFICES ASSUME NEW i \in Realm!Ids PROVE Dated(clients[i])'
    OBVIOUS
  <2>1. CASE i = verify[r].client
    <3>1. clients'[i] = set
      BY <1>1, <2>1 DEF RealmInv, RealmTypeOK
    <3>2. \A k \in set.keys : withdrawn[k] # None => set.until <= withdrawn[k] + Timeout + Lifespan
      <4>. SUFFICES ASSUME NEW k \in set.keys, withdrawn[k] # None
                    PROVE  set.until <= withdrawn[k] + Timeout + Lifespan
        OBVIOUS
      <4>1. withdrawn[k] \in Nat /\ keyClock \in Nat /\ Timeout \in Nat /\ Lifespan \in Nat
        BY <1>2, <1>3 DEF RealmInv, RealmTypeOK, Realm!KeysAssumption
      <4>. QED
        BY <1>3, <1>4, <4>1
    <3>. QED
      BY <1>1, <1>3, <3>1, <3>2 DEF Dated, RealmInv, RealmTypeOK, Realm!KeysAssumption
  <2>2. CASE i # verify[r].client
    BY <1>1, <2>2 DEF RealmInv, RealmTypeOK, Dated
  <2>. QED
    BY <2>1, <2>2
<1>7. v \in Waiting \cup Passing /\ Timely(v) /\ Found(v) /\ Judged(v) /\ v.key <= newest
  <2>1. CASE verify[r].key \in verify[r].got /\ v = Realm!Accept(r)
    <3>1. v \in Passing /\ v.step = "accepted" /\ v.key = verify[r].key /\ v.at = keyClock
      BY <1>1, <2>1, NextStates
    <3>. HIDE DEF v
    <3>2. withdrawn[v.key] \in Nat \cup {None} /\ keyClock \in Nat /\ Timeout \in Nat /\ Lifespan \in Nat
      BY <1>2, <3>1 DEF RealmInv, RealmTypeOK, Realm!KeysAssumption
    <3>. QED
      BY <1>2, <1>4, <2>1, <3>1, <3>2 DEF Timely, Found, Judged, Realm!Working
  <2>2. CASE verify[r].key \notin verify[r].got /\ v = Realm!Step(r, "missed")
    <3>1. v \in Waiting /\ v.step = "missed" /\ v.key = verify[r].key
      BY <1>1, <2>2, NextStates DEF Realm!Working
    <3>2. withdrawn[v.key] # None
      BY <1>1, <1>2, <2>2, <3>1 DEF Found
    <3>. QED
      BY <1>2, <3>1, <3>2 DEF Timely, Found, Judged
  <2>3. CASE verify[r].key \notin verify[r].got /\ v = Realm!Fetch(r, TRUE)
    <3>1. v \in Waiting /\ v.step = "fetch" /\ v.key = verify[r].key /\ v.since = keyClock
      BY <1>1, <2>3, NextStates
    <3>2. withdrawn[v.key] # None
      BY <1>1, <1>2, <2>3, <3>1 DEF Found
    <3>3. keyClock \in Nat /\ Timeout \in Nat
      BY DEF RealmInv, RealmTypeOK, Realm!KeysAssumption
    <3>. HIDE DEF v
    <3>. QED
      BY <1>2, <3>1, <3>2, <3>3 DEF Timely, Found, Judged
  <2>. QED
    BY <2>1, <2>2, <2>3
<1>. HIDE DEF v
<1>. QED
  BY <1>1, <1>5, <1>6, <1>7, OneVerifies DEF RealmInv, RealmTypeOK

LEMMA FetchFailsStep ==
  ASSUME Realm!KeysAssumption, RealmInv, NEW r \in Requests, Realm!FetchFails(r)
  PROVE  RealmInv'
<1>. DEFINE v == [Realm!Step(r, "missed") EXCEPT !.fails = @ + 1]
<1>1. /\ verify[r].step \in {"fetch", "answered"} /\ verify[r].step \in Realm!Working
      /\ UNCHANGED <<keyClock, newest, withdrawn, cached>>
      /\ clients' = [clients EXCEPT ![verify[r].client] = None]
      /\ verify' = [verify EXCEPT ![r] = Realm!Step(r, "missed"), ![r].fails = @ + 1]
  BY DEF Realm!FetchFails, Realm!Working
<1>2. /\ verify[r].key <= newest /\ Found(verify[r]) /\ verify[r].fails \in Nat
      /\ verify[r].client \in Realm!Ids /\ verify[r].retried \in BOOLEAN
  BY <1>1, WhoWaits DEF RealmInv
<1>3. /\ Realm!Step(r, "missed") \in Waiting /\ Realm!Step(r, "missed").step = "missed"
      /\ Realm!Step(r, "missed").key = verify[r].key
      /\ Realm!Step(r, "missed").fails = verify[r].fails
      /\ Realm!Step(r, "missed").retried = verify[r].retried
  BY <1>1, NextStates DEF Realm!Working
<1>4. verify' = [verify EXCEPT ![r] = v]
  BY <1>1, <1>3 DEF RealmInv, RealmTypeOK
<1>5. /\ v \in Waiting /\ v.step = "missed" /\ v.key = verify[r].key
      /\ v.fails = verify[r].fails + 1 /\ v.retried = verify[r].retried
  BY <1>2, <1>3 DEF Waiting
<1>. HIDE DEF v
<1>6. Timely(v) /\ Found(v) /\ Judged(v) /\ v.key <= newest
  BY <1>1, <1>2, <1>5 DEF Timely, Found, Judged
<1>7. clients' \in [Realm!Ids -> KeySets \cup {None}] /\ \A i \in Realm!Ids : clients'[i] \in {clients[i], None}
  BY <1>1, <1>2 DEF RealmInv, RealmTypeOK
<1>8. \A i \in Realm!Ids : Dated(clients[i])'
  BY <1>1, <1>7, SetsStay
<1>. QED
  BY <1>1, <1>4, <1>5, <1>6, <1>7, <1>8, OneVerifies DEF RealmInv, RealmTypeOK

LEMMA RetryStep ==
  ASSUME Realm!KeysAssumption, RealmInv, NEW r \in Requests, Realm!Retry(r)
  PROVE  RealmInv'
<1>1. /\ verify[r].step = "missed" /\ verify[r].step \in Realm!Working
      /\ UNCHANGED <<keyClock, newest, withdrawn>>
  BY DEF Realm!Retry, Realm!At, Realm!Working
<1>2. verify[r].key <= newest /\ Found(verify[r]) /\ verify[r].fails \in Nat /\ verify[r].retried \in BOOLEAN
  BY <1>1, WhoWaits DEF RealmInv
<1>3. CASE verify[r].retried
  <2>. DEFINE v == Realm!Refuse(r)
  <2>1. verify' = [verify EXCEPT ![r] = v] /\ UNCHANGED <<clients, cached>>
    BY <1>3 DEF Realm!Retry
  <2>2. v \in Refusal /\ v.step = "refused" /\ v.key = verify[r].key /\ v.fails = verify[r].fails
    BY <1>1, NextStates
  <2>. HIDE DEF v
  <2>3. Timely(v) /\ Found(v) /\ Judged(v) /\ v.key <= newest
    BY <1>1, <1>2, <1>3, <2>2 DEF Timely, Found, Judged, Realm!Working
  <2>4. \A i \in Realm!Ids : Dated(clients[i])'
    BY <1>1, <2>1 DEF RealmInv, Dated
  <2>. QED
    BY <1>1, <2>1, <2>2, <2>3, <2>4, OneVerifies DEF RealmInv, RealmTypeOK
<1>4. CASE ~verify[r].retried
  <2>. DEFINE v == [Realm!Step(r, "look") EXCEPT !.again = FALSE, !.retried = TRUE, !.client = cached'.id]
  <2>1. /\ Realm!NewClient
        /\ verify' = [verify EXCEPT ![r] = Realm!Step(r, "look"), ![r].again = FALSE,
                                    ![r].retried = TRUE, ![r].client = cached'.id]
    BY <1>4 DEF Realm!Retry
  <2>2. /\ Realm!Step(r, "look") \in Waiting /\ Realm!Step(r, "look").step = "look"
        /\ Realm!Step(r, "look").key = verify[r].key
        /\ Realm!Step(r, "look").fails = verify[r].fails
    BY <1>1, NextStates DEF Realm!Working
  <2>3. /\ cached' \in [id : Realm!Ids, expires : Nat] /\ cached'.id \in Realm!Ids
        /\ clients' \in [Realm!Ids -> KeySets \cup {None}]
        /\ \A i \in Realm!Ids : clients'[i] \in {clients[i], None}
    BY <2>1, NewClientIn DEF RealmInv
  <2>4. verify' = [verify EXCEPT ![r] = v]
    BY <2>1, <2>2 DEF RealmInv, RealmTypeOK
  <2>5. /\ v \in Waiting /\ v.step = "look" /\ v.key = verify[r].key
        /\ v.fails = verify[r].fails /\ v.retried = TRUE
    BY <2>2, <2>3 DEF Waiting
  <2>. HIDE DEF v
  <2>6. Timely(v) /\ Found(v) /\ Judged(v) /\ v.key <= newest
    BY <1>1, <1>2, <1>4, <2>5 DEF Timely, Found, Judged
  <2>7. \A i \in Realm!Ids : Dated(clients[i])'
    BY <1>1, <2>3, SetsStay
  <2>. QED
    BY <1>1, <2>3, <2>4, <2>5, <2>6, <2>7, OneVerifies
<1>. QED
  BY <1>2, <1>3, <1>4

LEMMA VerifiedStep ==
  ASSUME Realm!KeysAssumption, RealmInv, NEW r \in Requests, Realm!Done(r)
  PROVE  RealmInv'
<1>1. /\ UNCHANGED <<keyClock, newest, withdrawn, clients, cached>>
      /\ verify' = [verify EXCEPT ![r] = Realm!Idle]
  BY DEF Realm!Done
<1>2. Realm!Idle.step = "idle" /\ Realm!Idle.key = 1 /\ 1 <= newest
  BY DEF Realm!Idle, RealmInv, RealmTypeOK, Realm!Keys, Realm!KeysAssumption
<1>3. Timely(Realm!Idle) /\ Found(Realm!Idle) /\ Judged(Realm!Idle)
  BY <1>2 DEF Timely, Found, Judged, Realm!Working
<1>4. \A i \in Realm!Ids : Dated(clients[i])'
  BY <1>1 DEF RealmInv, Dated
<1>. QED
  BY <1>1, <1>2, <1>3, <1>4, OneVerifies DEF RealmInv, RealmTypeOK

LEMMA RealmStep ==
  Realm!KeysAssumption /\ RealmInv /\ [Realm!Next]_Realm!kvars => RealmInv'
<1>. SUFFICES ASSUME Realm!KeysAssumption, RealmInv, [Realm!Next]_Realm!kvars PROVE RealmInv'
  OBVIOUS
<1>1. CASE Realm!Tick \/ Realm!Rotate \/ \E k \in Realm!Keys : Realm!Withdraw(k)
  BY <1>1, AroundRealm
<1>2. CASE \E r \in Requests : \E k \in 1 .. newest : Realm!Verify(r, k)
  BY <1>2, VerifyStep
<1>3. CASE \E r \in Requests : Realm!Look(r) \/ Realm!Publish(r) \/ Realm!Receive(r)
  BY <1>3, LookStep, PublishStep, ReceiveStep
<1>4. CASE \E r \in Requests : Realm!FetchFails(r) \/ Realm!Retry(r) \/ Realm!Done(r)
  BY <1>4, FetchFailsStep, RetryStep, VerifiedStep
<1>5. CASE UNCHANGED Realm!kvars
  BY <1>5 DEF Realm!kvars, RealmInv, RealmTypeOK, Dated, Timely, Found, Judged
<1>. QED
  BY <1>1, <1>2, <1>3, <1>4, <1>5 DEF Realm!Next

(* However many requests share the cached client and replace it under each   *)
(* other, a published key is refused only after two failed fetches, and a    *)
(* withdrawn one is accepted for Timeout + Lifespan seconds at most.         *)
(* (security/jwks.py)                                                        *)
THEOREM RotationFollowed == Realm!KeysAssumption /\ Realm!Spec => []KeysFollowed
<1>. SUFFICES ASSUME Realm!KeysAssumption PROVE Realm!Spec => []KeysFollowed
  OBVIOUS
<1>1. Realm!Init => RealmInv
  BY RealmInit
<1>2. RealmInv /\ [Realm!Next]_Realm!kvars => RealmInv'
  BY RealmStep
<1>3. RealmInv => KeysFollowed
  BY DEF RealmInv, Judged, KeysFollowed, Realm!KeysFollowed, Realm!At
<1>. QED
  BY <1>1, <1>2, <1>3, PTL DEF Realm!Spec

-----------------------------------------------------------------------------
(* The admin token: the invariant *)

TokenEntries == [expiry : Int, until : Int]
CallerStates ==
  {Idle} \cup [at : {"fetch"}, since : Int]
         \cup [at : {"answered"}, since : Int, lifetime : Lifetimes, expiry : Int]
         \cup [at : {"use"}, since : Int, token : [expiry : Int]]

TokenTypeOK ==
  /\ clock \in Nat
  /\ cache \in TokenEntries \cup {None}
  /\ caller \in [Callers -> CallerStates]

\* The expiry noted is later than the one Keycloak has, but by no more than a
\* round trip.
CacheHonest == cache # None => cache.expiry >= cache.until - FetchTimeout

\* Every round trip is younger than its time limit, and its answer carries the
\* lifetime as of some moment since it began.
FetchTimely ==
  \A c \in Callers : caller[c].at \in {"fetch", "answered"} =>
    /\ caller[c].since <= clock
    /\ clock <= caller[c].since + FetchTimeout
    /\ caller[c].at = "answered" => caller[c].expiry >= caller[c].since + caller[c].lifetime

\* A token is good until its call has timed out.
UseTimely ==
  \A c \in Callers : caller[c].at = "use" =>
    /\ clock <= caller[c].since + UseTimeout
    /\ caller[c].token.expiry > caller[c].since + UseTimeout

TokenInv == TokenTypeOK /\ CacheHonest /\ FetchTimely /\ UseTimely

-----------------------------------------------------------------------------
(* A token that is fresh in an honest cache outlives any call. *)
LEMMA FreshOutlivesUse ==
  ASSUME TokenTypeOK, CacheHonest, Fresh(cache)
  PROVE  cache \in TokenEntries /\ cache.expiry > clock + UseTimeout
<1>1. cache \in TokenEntries /\ cache.until > clock + MARGIN
  BY DEF Fresh, TokenTypeOK
<1>2. cache.expiry >= cache.until - FetchTimeout
  BY DEF CacheHonest, Fresh
<1>. QED
  BY <1>1, <1>2, TokenAssumption DEF TokenEntries, TokenTypeOK

LEMMA TokenInit == Init => TokenInv
  BY DEF Init, TokenInv, TokenTypeOK, CallerStates, CacheHonest, FetchTimely, UseTimely, Idle

LEMMA TokenCallStep ==
  ASSUME TokenInv, NEW c \in Callers, Call(c)
  PROVE  TokenInv'
<1>. DEFINE new == IF Fresh(cache) THEN Using([expiry |-> cache.expiry])
                   ELSE [at |-> "fetch", since |-> clock]
<1>1. /\ clock' = clock /\ cache' = cache
      /\ caller' = [caller EXCEPT ![c] = new]
  BY DEF Call
<1>2. new \in CallerStates
  BY FreshOutlivesUse DEF TokenInv, TokenTypeOK, CallerStates, Using, TokenEntries
<1>3. TokenTypeOK'
  BY <1>1, <1>2 DEF TokenInv, TokenTypeOK
<1>4. CacheHonest'
  BY <1>1 DEF TokenInv, CacheHonest
<1>5. FetchTimely'
  BY <1>1, TokenAssumption DEF TokenInv, FetchTimely, TokenTypeOK, Using
<1>6. UseTimely'
  BY <1>1, FreshOutlivesUse, TokenAssumption DEF TokenInv, UseTimely, TokenTypeOK, Using
<1>. QED
  BY <1>3, <1>4, <1>5, <1>6 DEF TokenInv

LEMMA TokenIssueStep ==
  ASSUME TokenInv, NEW c \in Callers, Issue(c)
  PROVE  TokenInv'
<1>1. PICK l \in Lifetimes :
        caller' = [caller EXCEPT ![c] =
          [at |-> "answered", since |-> caller[c].since, lifetime |-> l, expiry |-> clock + l]]
  BY DEF Issue
<1>2. clock' = clock /\ cache' = cache /\ caller[c].at = "fetch"
  BY DEF Issue
<1>3. l \in Nat
  BY TokenAssumption
<1>4. caller[c].since \in Int
  BY <1>2 DEF TokenInv, TokenTypeOK, CallerStates, Idle
<1>5. TokenTypeOK'
  BY <1>1, <1>2, <1>3, <1>4 DEF TokenInv, TokenTypeOK, CallerStates
<1>6. CacheHonest' /\ UseTimely'
  BY <1>1, <1>2 DEF TokenInv, CacheHonest, UseTimely, TokenTypeOK
<1>7. FetchTimely'
  BY <1>1, <1>2, <1>3, <1>4 DEF TokenInv, FetchTimely, TokenTypeOK
<1>. QED
  BY <1>5, <1>6, <1>7 DEF TokenInv

LEMMA TokenReceiveStep ==
  ASSUME TokenInv, NEW c \in Callers, Receive(c)
  PROVE  TokenInv'
<1>. DEFINE kept == IF Fresh(cache) THEN cache
                    ELSE [expiry |-> caller[c].expiry, until |-> clock + caller[c].lifetime]
<1>1. /\ clock' = clock /\ cache' = kept /\ caller[c].at = "answered"
      /\ caller' = [caller EXCEPT ![c] = Using([expiry |-> kept.expiry])]
  BY DEF Receive
<1>2. /\ caller[c].since \in Int /\ caller[c].expiry \in Int
      /\ caller[c].lifetime \in Nat
      /\ caller[c].lifetime > FetchTimeout + UseTimeout
  <2>1. caller[c] \in [at : {"answered"}, since : Int, lifetime : Lifetimes, expiry : Int]
    BY <1>1 DEF TokenInv, TokenTypeOK, CallerStates, Idle
  <2>. QED
    BY <2>1, TokenAssumption
<1>3. /\ kept \in TokenEntries
      /\ kept.expiry > clock + UseTimeout
      /\ kept # None => kept.expiry >= kept.until - FetchTimeout
  <2>1. CASE Fresh(cache)
    BY <2>1, FreshOutlivesUse DEF TokenInv, CacheHonest
  <2>2. CASE ~Fresh(cache)
    <3>1. /\ kept.expiry = caller[c].expiry /\ kept.until = clock + caller[c].lifetime
          /\ kept \in TokenEntries
      BY <1>2, <2>2 DEF TokenEntries, TokenInv, TokenTypeOK
    <3>2. /\ caller[c].expiry >= caller[c].since + caller[c].lifetime
          /\ clock <= caller[c].since + FetchTimeout
      BY <1>1 DEF TokenInv, FetchTimely
    <3>. QED
      BY <1>2, <3>1, <3>2, TokenAssumption DEF TokenInv, TokenTypeOK
  <2>. QED
    BY <2>1, <2>2
<1>. HIDE DEF kept
<1>4. TokenTypeOK'
  BY <1>1, <1>3 DEF TokenInv, TokenTypeOK, CallerStates, Using, TokenEntries
<1>5. CacheHonest'
  BY <1>1, <1>3 DEF CacheHonest
<1>6. FetchTimely'
  BY <1>1 DEF TokenInv, FetchTimely, TokenTypeOK, Using
<1>7. UseTimely'
  BY <1>1, <1>3, TokenAssumption DEF TokenInv, UseTimely, TokenTypeOK, Using
<1>. QED
  BY <1>4, <1>5, <1>6, <1>7 DEF TokenInv

\* A caller that stops waiting, with or without success.
LEMMA TokenLeaveStep ==
  ASSUME TokenInv, NEW c \in Callers, FetchFails(c) \/ Sent(c)
  PROVE  TokenInv'
<1>1. clock' = clock /\ cache' = cache /\ caller' = [caller EXCEPT ![c] = Idle]
  BY DEF FetchFails, Sent
<1>2. TokenTypeOK'
  BY <1>1 DEF TokenInv, TokenTypeOK, CallerStates
<1>3. CacheHonest' /\ FetchTimely' /\ UseTimely'
  BY <1>1 DEF TokenInv, TokenTypeOK, CacheHonest, FetchTimely, UseTimely, Idle
<1>. QED
  BY <1>2, <1>3 DEF TokenInv

LEMMA TokenTickStep == ASSUME TokenInv, Tick PROVE TokenInv'
<1>1. clock' = clock + 1 /\ cache' = cache /\ caller' = caller
  BY DEF Tick
<1>2. \A c \in Callers : caller[c].at \in {"fetch", "answered", "use"} =>
        caller[c].since \in Int /\ clock < caller[c].since + Limit(c)
  BY DEF Tick, TokenInv, TokenTypeOK, CallerStates, Idle
<1>3. TokenTypeOK' /\ CacheHonest'
  BY <1>1 DEF TokenInv, TokenTypeOK, CacheHonest
<1>4. FetchTimely'
  BY <1>1, <1>2, TokenAssumption DEF TokenInv, TokenTypeOK, FetchTimely, Limit
<1>5. UseTimely'
  BY <1>1, <1>2, TokenAssumption DEF TokenInv, TokenTypeOK, UseTimely, Limit
<1>. QED
  BY <1>3, <1>4, <1>5 DEF TokenInv

LEMMA TokenRestartStep == ASSUME TokenInv, Restart PROVE TokenInv'
  BY DEF Restart, TokenInv, TokenTypeOK, CallerStates, CacheHonest, FetchTimely, UseTimely, Idle

LEMMA TokenStep == TokenInv /\ [Next]_tvars => TokenInv'
<1>. SUFFICES ASSUME TokenInv, [Next]_tvars PROVE TokenInv'
  OBVIOUS
<1>1. CASE Tick
  BY <1>1, TokenTickStep
<1>2. CASE Restart
  BY <1>2, TokenRestartStep
<1>3. ASSUME NEW c \in Callers, Call(c) \/ Issue(c) \/ FetchFails(c) \/ Receive(c) \/ Sent(c)
      PROVE  TokenInv'
  BY <1>3, TokenCallStep, TokenIssueStep, TokenReceiveStep, TokenLeaveStep
<1>4. CASE UNCHANGED tvars
  BY <1>4 DEF tvars, TokenInv, TokenTypeOK, CacheHonest, FetchTimely, UseTimely
<1>. QED
  BY <1>1, <1>2, <1>3, <1>4 DEF Next

-----------------------------------------------------------------------------
\* Every reachable state is well typed and keeps the times noted in it honest.
THEOREM TokenTypeCorrect == Spec => []TokenInv
<1>1. Init => TokenInv
  BY TokenInit
<1>2. TokenInv /\ [Next]_tvars => TokenInv'
  BY TokenStep
<1>. QED
  BY <1>1, <1>2, PTL DEF Spec

\* No call to the admin API carries a token that Keycloak refuses, whatever the
\* coroutines and the lengths of their round trips (keycloak_admin.py).
THEOREM TokenAlwaysLive == Spec => []TokenLive
<1>1. TokenInv => TokenLive
  <2>. SUFFICES ASSUME TokenInv, NEW c \in Callers, caller[c].at = "use"
                PROVE  clock < caller[c].token.expiry
    BY DEF TokenLive
  <2>1. caller[c].since \in Int /\ caller[c].token.expiry \in Int
    BY DEF TokenInv, TokenTypeOK, CallerStates, Idle
  <2>. QED
    BY <2>1, TokenAssumption DEF TokenInv, TokenTypeOK, UseTimely
<1>. QED
  BY <1>1, TokenTypeCorrect, PTL
=============================================================================
