------------------------------ MODULE Account -------------------------------
(***************************************************************************)
(* What one user has: the tool groups and other rows of account-svc, the   *)
(* sessions, the keys that tokens are verified with, the admin token that  *)
(* sends the verification e-mail, and the orders at payments-svc.  No two  *)
(* of these share a row, a key in Redis or a variable of a process.        *)
(***************************************************************************)
EXTENDS AdminToken

CONSTANTS
  Requests, Null,
  GroupNames, Tools, GroupLists, MAX_TOOL_GROUPS_PER_USER, MAX_TOOLS_PER_GROUP, MaxCreates,
    MaxGroupRequests,
  Fields, Required, Values, FavoriteTools, StepLists, SHARE_EXPIRE_DAYS, MaxDays, MaxRowRequests,
  SESSION_COOKIE_MAX_AGE, LEEWAY, TokenAge, EmailKeyAge, Outages, MaxTime, MaxLogins, MaxCalls,
  Scoped, Unscoped, Packs, Pro, Picks, OrderLists, ALWAYS_FREE_TOOL_IDS, Regions, Strict,
    ORDER_RATE_LIMIT_PER_MINUTE, MaxAsks, MaxReleases, MaxMinutes,
  Lifespan, Timeout, MaxKeyTime, MaxKeys, MaxTokens

VARIABLES
  groups, groupReq, made, groupsBegun, raced,
  kind, settings, template, favorites, pipeline, entry, share, day, open, begun, views,
  now, redis, stamp, sent, tokens, cookies, confirmed, user, adding, req, calls,
    signedOut, emails, lost,
  minute, region, release, counter, orders, ask, asks, answers,
  keyClock, newest, withdrawn, clients, cached, verify, verified

Groups == INSTANCE ToolGroups WITH
  Names <- GroupNames, ToolLists <- GroupLists, MaxRequests <- MaxGroupRequests, req <- groupReq, begun <- groupsBegun
Rows == INSTANCE Workspace WITH Tools <- FavoriteTools, MaxRequests <- MaxRowRequests
Login == INSTANCE Sessions
Shop == INSTANCE Storefront WITH ToolLists <- OrderLists
Realm == INSTANCE TokenKeys WITH MaxClock <- MaxKeyTime, clock <- keyClock, tokens <- verified

-----------------------------------------------------------------------------
\* Distinct names, and a cap that only concurrent requests can exceed.
GroupsBounded == Groups!GroupsBounded
\* One order of the groups and of their tools, and exact caps, without races.
PlacesDistinct == Groups!PlacesDistinct
\* The steps of a pipeline are those of one request; every view is counted.
StepsWhole == Rows!StepsWhole
\* A partial update changes no field that it does not name.
OnlyNamedFields == Rows!OnlyNamedFields
\* No credential that is older than the sign-out on record is accepted.
RevokedIsRefused == Login!RevokedIsRefused
\* Parallel first requests create one row; each life of the key sends one e-mail.
FirstLogin == Login!FirstLogin
\* A published key is accepted, a withdrawn one for a bounded time.
KeysFollowed == Realm!KeysFollowed
\* An order is for what was asked, and paying it grants just that.
OrderAsAsked == Shop!OrderAsAsked
=============================================================================
