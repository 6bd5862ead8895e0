# TLA+ verification of fixmytext-backend

TLA+ modules of the parts of this repository where concurrent requests,
transactions, redelivered events and failures meet, model-checked with TLC and,
for the core, proved with TLAPS. Paths below are relative to the
repository.

Contents: 1 the system, 2 the modules, 3 the runs, 4 the proofs,
5 what the code does against its documents, 6 plan, 7 not modelled.

## 1. The system

Four FastAPI services behind a gateway share one PostgreSQL database (schemas
`auth`, `billing`, `activity`), one Redis, one Keycloak realm and a library,
`src/shared/fixmytext_shared`. A browser calls account-svc (sessions, tiers,
workspace, history, share), payments-svc (orders, passes, Pro, referrals,
entitlements), text-svc (the text tools) and ai-svc (AI tools, and a job queue
with a worker). text-svc and ai-svc ask payments-svc over HTTP
(`/internal/v1/check-access`, `/internal/v1/check-visitor-access`) before a tool runs. Razorpay calls the webhook of
payments-svc; payments-svc calls Razorpay. Every request handler is one database
transaction on a pooled connection, READ COMMITTED, committed at its end or at
named points; nothing in process memory is shared but caches and fallbacks.

| Component | State | Operations | What is hard | What makes it correct |
|---|---|---|---|---|
| payment fulfilment | `payment_fulfillments`, `payment_events`, entitlement rows | verify (Pro, pass/credit), webhook, fulfil, refund, welcome gift | the two paths race; Razorpay redelivers; refund and commit are not atomic; lock orders differ | granted exactly once; gift once; 2xx only when settled; money back exactly once |
| Pro plan | `subscriptions` | checkout, fulfil with lazy flip, cancel, subscription events | a row read without a lock, and written after a halt; boundary of the period; one-active index | each payment adds a period; no paid order dropped and one row grants access, but for a halted row that comes back |
| entitlement gate | `user_passes`, `user_credits`, `user_tool_usage`, `user_daily_logins` | check-access; grants; daily login | read-then-write over several statements; SKIP LOCKED; midnight | caps; priority order; each call spends what it answers |
| visitor quota | `visitor_usage`, its daily counter | check-access for visitors | a lock on a row that does not exist yet; two lookups | a row's and an address's free uses |
| referrals | columns of `auth.users`, `user_credits` | get code, claim | the lock does not refresh the loaded row; mutual claims deadlock | rewarded once; payouts backed; no self-referral |
| weekly spin | `user_spin_log`, `user_daily_logins` | spin, record a login | only the primary key excludes a second spin; it waits for the first | one reward a week |
| order creation and validation | Razorpay orders | create, look up, validate amount and scope | an unpaid order is given again; prices change with a release; answers are lost | the order is for what was asked, and pays for that |
| order rate limit | Redis counters | INCR, EXPIRE | a crash between the two | at most that many orders in a window |
| shared rate limiter | Redis sorted sets; a dictionary per process | hit, fall back | time read before the script; fallback per process | at most `max_requests` in a window, and as many for each memory |
| sessions and sign-out | Redis revocation stamps, cookie | authenticate, `/auth/me`, sign out, back-channel logout | grain of one second; two leeways; check and cookie are apart | nothing older than the last sign-out is let in |
| Keycloak admin client | cached token | get, use, refresh | fetched outside the lock, dated late, shared | no call carries a dead token |
| shared authentication | `auth.users`, key cache | verify token, provision a user | two first requests insert; keys rotate while clients are replaced | one row and one e-mail; verification follows the rotation |
| user workspace | tool groups, preferences, settings, favorites, pipelines, templates | create, rename, reorder, add, remove, delete | caps, places and rows are read, then written | bounded overrun; one order; steps of one request; no field changed unasked |
| history and share links | `operation_history`, `shared_results` | insert, list, view, delete | expiry; counter of views | each answered view is counted |
| text tools | – | 106 functions on a text | encodings that must be undone; tools that guess a direction; boundaries of lines | round trips; conservation of lines; clean-up that settles |
| entitlement clients | – | HTTP check with a timeout | the answer is lost, the use is spent | fail closed: nothing served unpaid |
| AI tools and jobs | Redis job keys | enqueue, run, retry, status | worker restarts, results lapse, who may read | a result for its caller only, after a use |
| catalog and regions; middleware, logging, configuration; schemas and migrations; gateway | constants and declarations | – | – | – |

`PROJECT.json` lists the components with their sources and status, and the
hazards at their lines with the properties that would catch them.

## 2. The modules

| Module | Models |
|---|---|
| `PaymentLedger` | what captured money is promised: one settlement per payment, a gift with the first grant |
| `Fulfillment` | `fulfillment_service.py`, the two verify endpoints, the webhook; refines `PaymentLedger` |
| `ProAccess` | what a buyer of Pro is promised: a full period per payment |
| `ProSubscription` | subscription rows: checkout, fulfilment, cancel, subscription events; refines `ProAccess` |
| `ToolQuota` | what a tool call may spend |
| `Entitlement` | `check_tool_access` of `pass_service.py`, its transaction, the grants around it; refines `ToolQuota` |
| `VisitorQuota` | `check_visitor_access` |
| `Referral` | `get_or_create_referral_code`, `claim_referral` |
| `WeeklySpin` | `spin_wheel`, `record_daily_login`, `/subscription/status` |
| `Storefront` | `/passes/order`, `/passes/credit-order`, `/subscription/checkout`; `order_validation.py`, `razorpay_service.py`, `rate_limit.py`, regions |
| `ToolGroups` | the tool-group routes of `user_data.py` |
| `Workspace` | its other routes; `history.py`, `share.py` |
| `Sessions` | `deps.py`, `redis.py`, `session_cookie.py`, `auth.py` of account-svc; `jit.py` |
| `TokenKeys` | `security/jwks.py` |
| `AdminToken` | `keycloak_admin.py` |
| `RateLimiter` | `rate_limit/redis_limiter.py`, `rate_limit/memory.py` |
| `ToolCalls` | a call in text-svc or ai-svc from its rate limit to its result: entitlement clients, run, stream, queue, worker, job status |
| `Text`, `TextCase`, `TextLines`, `TextClean`, `TextCodecs`, `TextEscapes`, `TextCiphers` | 98 of the 106 tools of `text_service.py`, as operators on sequences of code points |
| `AiOffline` | the fallbacks of `ai_service.py`, which answer while no model provider does |
| `TextTools` | a pipeline of requests to text-svc and to ai-svc offline: validation of the fields, the handler, the next request |
| `FulfillmentProofs`, `ProSubscriptionProofs`, `EntitlementProofs` | theorems about the module they are named after |
| `RewardsProofs` | theorems about `Referral` and `WeeklySpin` |
| `AccountProofs`, `RowsProofs` | theorems about `Sessions`, `TokenKeys` and `AdminToken`; about `ToolGroups`, `Workspace` and `Storefront` |
| `ToolProofs` | theorems about `ToolCalls`, `RateLimiter` and `VisitorQuota` |
| `TextProofs` | theorems about `TextTools`, `TextLines` and `TextCiphers` |
| `MCFulfillment`, `MCProSubscription`, `MCEntitlement`, `MCReferral`, `MCSessions`, `MCTextTools` | values of the constants for TLC |
| `Rewards`, `MCRewards` | `Referral` and `WeeklySpin` side by side, and in one run |
| `ToolGate`, `MCTools` | `ToolCalls`, `VisitorQuota` and `RateLimiter` side by side, and with `TextTools` in one run |
| `Account`, `MCAccount` | `AdminToken`, `ToolGroups`, `Workspace`, `Sessions`, `Storefront` and `TokenKeys` side by side, and in one run |

`Rewards`, `ToolGate` and `Account` declare the constants and variables of components that
share no row, no key and no variable of a process, instantiate their modules, and name their
properties; the theorems are about the same instances. In a run a behaviour picks one of them (`part`) and follows it; the others stay
in their initial states. This is the disjoint sum of their state spaces, which
shows what a run of each would show. No composition is claimed by it.

Definitions named `X_Something` before a definition `X` are variants: what `X`
would be with a plausible bug. No specification uses them; each shows that a
property would notice.

**How code becomes actions.** A request is a slot with a step (`pc`); an action
is one statement against the database (or Redis, Razorpay, Keycloak) with the
Python around it up to the next statement. Between two statements any other
request may run. What a transaction has written and not committed is visible
to others only as a lock: an inserted unique key, an updated row, `FOR UPDATE`, and
the `FOR KEY SHARE` that PostgreSQL takes on a referenced row in a foreign-key
check. A statement that needs a lock that another transaction holds is not
enabled; once it is, it sees the committed row (READ COMMITTED re-evaluates the
`WHERE`). A commit publishes everything at once; a failure or a crash only
releases the locks.

**`Fulfillment`.** `VerifyPayment(t, p, matches)` starts a verify call: the
signature and the captured state are checked by Razorpay's client and taken as
given, `matches` says whether the body agrees with the order, and payments
outside `Payable` fail the validation of amount and scope and go to the refund.
`Webhook(t, e)` starts a delivery; `InsertEvent`, `EventUserFk`, `LockUser`,
`InsertLedger`, `GrantEntitlement`, `CommitGrant` follow
`subscription.py:385-640` and `fulfillment_service.py:45-199`; `InsertRefund`,
`RefundUserFk`, `RefundAccepted`, `RefundRejected`, `CommitRefund` follow
`fulfillment_service.py:202-262`. The lost race for a key is an early return of the
same action: `already_fulfilled` after `InsertLedger`, `duplicate` after
`InsertEvent`, and the audit row in a transaction of its own
(`AuditDuplicate`). `held[t]` is the set of locks of the slot, `Blockers(t)` who it
waits for, `DeadlockAbort` PostgreSQL's detector, `Crash` a process that dies
(also: a reply of Razorpay that is lost after the refund was made). Razorpay is
external: it refunds a payment once, turns down a second refund, and redelivers
an event until it gets a 2xx (`acked`). User ids in order notes are of four
kinds: known, well formed without a row, absent, malformed.

**`ProSubscription`.** One user, since every statement filters on the user id.
A fulfilment is `LockUser`, `SelectRow`, then `Extend` or `Insert` (which flips
a stale active row first), under the row lock of the user; `cancel_pro` reads
and writes a row without one, in two steps; a subscription event (cancelled or halted) holds the
share lock. Both write by primary key whatever the row has become (`Overwrite`), so that a
cancellation can make a halted row `cancelled`, which counts for access again: `revived` are
those rows. `Extend` and `Insert` set a row active, and the one-active index may refuse that
(`Refuse`): the payment is then reported as already fulfilled, and `dropped` remembers it. A
webhook whose flush fails answers 500 instead and is delivered again, which is `Abort`.
Time is days, `at` is the time the fulfilment read before its queries.

**`Entitlement`, `VisitorQuota`, `Referral`, `WeeklySpin`.** `wrote[q]` is the row an
open transaction has written, which is the lock the others see. `at` and `day`
are the times a request has read and goes on using. `seen[t]` in `Referral` is the
user row as the session loaded it while authenticating; the later `FOR UPDATE`
takes the lock and returns the loaded object. In `WeeklySpin`, `key[r]` is the
primary key of the row a request has inserted or waits for. `passServed`,
`served` and `firsts` are history: what requests were told. What a user has left is a set
of units, each pack's credits (`CreditsLeft`) and the free uses taken (`FreeTaken`), and the abstract
quota sees their numbers.

**`Storefront`.** One user at all replicas. `ask[r]` goes through the counter (`Count`,
`Expire`: two commands, and a crash may come between), the look-up of unpaid
orders by receipt, and the order. A price is the triple of item, region
and release, so that two prices are equal only when the code cannot tell them
apart; `release` is that of the process. Razorpay may create an order and lose the
answer. `Scope` is what validation grants when the order is paid.

**`ToolGroups`, `Workspace`.** A request holds what its earlier statements have
read (`req`, `open`), and writes from that. `raced` records that requests have
overlapped: `PlacesDistinct` is claimed without it, since the code locks
nothing, and `GroupsBounded` says how far the overlap can go. A place in a list is the number of what comes
before it (`Positions`, `Ordered`). In `Workspace`,
`kind` picks the table that a behaviour is about; `settings` stands for preferences and
UI settings, a required column among the others.

**`Sessions`.** A request brings a cookie, a token or both; `ByCookie` and
`ByToken` are the two paths of `_resolve_user_id`, `FindUser`, `Insert`,
`Recover` the row of the user, `FirstEmail` the SET NX that picks who sends, `Run` the
route and its commit. `sent` is the second until which that key lives (`EmailKeyAge`, `ex=3600` at
`deps.py:140`), and `Tick` lets it lapse; `emails.lapsed` counts how often it did while a first login
was still possible (`FirstAccess`: no committed row, or a request that missed it). `iat` is the credential's, `root` the sign-in it stems
from, `when` and `after` are history: the second it was let in and the last sign-out
recorded then. Redis is up, down (calls raise) or off.

**`TokenKeys`, `AdminToken`.** Caches in the memory of one process. A fetch takes
time during which other requests run: in a thread (keys) or at an `await`
(admin token). Nothing else takes time. `withdrawn` says when a key was rotated out.

**`RateLimiter`.** `Arrive` reads the clock, `Script` runs in Redis at a later moment, or
never; `Lost` is an answer that does not come back although the script ran.
`memories` counts the processes' windows that were started, and `late` are requests
whose script ran after their clock had moved on.

**`ToolCalls`.** A call is limited, asks the gate (`Allow` and `Deny` are the transaction
in payments-svc, `GateTimeout` the caller giving up before or after it), and is
served directly, as a stream, or by a job. `WorkerStops` and `Start` give the
at-least-once of the queue; `Lapse` is the end of a result's life. `Entitlement` decides
there; here the answer is either one it can give.

**Text.** A character is its code point and a text a sequence of them, so that
lengths, boundaries and ranges are those of the code. Tools with more
than ASCII tables (accents, emoji, typographic quotes) have a few
representatives of each class. A call is `Results(step, text)`, a set, because one tool
is random. A decoder that raises is the response 400 (`failed`), a field that does not fit the
422 (`refused`). `AiOffline` takes sentences as the code cuts them, a phrase it adds as one
element and a word of the emotion table as a number.

## 3. The runs

| Run | Instance | Shows |
|---|---|---|
| FulfillmentSafety | one buyer, two payable payments, an event each, two deliveries and a verify call at once, one crash, one turned-down refund | `GrantedOnce`, `WelcomeOnce`, `ImplementsLedger` |
| FulfillmentMixed | payments with each kind of notes, none payable; `payment.authorized` before `payment.captured`; two deliveries and a verify call; one turned-down refund | `AckedIsSettled`, `ReplyMatchesLedger`, `RefundedMoneyIsRecorded` |
| FulfillmentLiveness | two payments, one of them unpayable, one delivery and one verify call at a time, one crash, one turned-down refund | `GrantedOrMoneyBack`, `RequestsEnd` |
| ProSafety | three orders, three rows, two cancels, two events, each cancelled or halted, six days, period 3, window 1 | `PaidIsGranted`, `OneInPeriod`, `CancelKeepsAccess`, `ImplementsProAccess` |
| EntitlementMidnight | two requests, a pass with one use a day, one free use and one more after a login, two midnights | `PassCap`, `DailyOverrun`, `PassOverrun` |
| EntitlementDay | two requests, an always-free tool and another, two passes of different size and end, a pack of two credits, a Pro plan that ends, one day | `PassesFirst`, `RequestsEnd`, `ImplementsQuota` |
| Rewards | three users, one claim each at once, two of them ask for a code, two codes, cap 1; three spins or logins at once, weeks of two days, three days | `RewardedOnce`, `PayoutsBacked`, `OneSpinAWeek`, `ClaimsEnd` |
| Tools | the texts of up to 8 characters over small alphabets that `MCTextTools` lists for each tool; two calls of five tools with two tries of a job; two visitors at one address, two requests, two days, two free uses; two replicas, three requests, a limit of 1 in 2 of 4 seconds | `DecodesBack`, `CiphersInvert`, `NamesAgree`, `LinesConserved`, `CleanupSettles`, `TablesHold`, `ServedIsPaid`, `AddressLimit`, `WindowCap` |
| Account | two requests at once in each part: tool groups with three names and caps of 2, four requests, three of them creates; other rows with five requests and three days; sessions with two sign-ins, Redis failing and an e-mail key of one second, three requests of an address that stays unconfirmed or two of one that may be confirmed; the admin token with six calls in ten seconds; two orders, two releases, a limit of 1; two keys, three tokens, three seconds | `GroupsBounded`, `PlacesDistinct`, `StepsWhole`, `OnlyNamedFields`, `RevokedIsRefused`, `FirstLogin`, `TokenLive`, `OrderAsAsked`, `KeysFollowed` |
| RefundRetry | one unpayable payment, one crash | violates `CapturedIsSettled` |
| ReferralTwice | two claims of one user at once | violates `RewardedOnce` |
| SignedOut | two requests at once, one sign-in, three requests in all, no leeway, Redis up | violates `SignedOutStaysOut` |

Most runs take up to a minute on two cores; Tools takes about two and Account about three.

**Why the bounds are enough.** Fulfilment conflicts are between requests for
the same payment or the same user: two deliveries and one verify call give
every pair of paths, and the third request is the bystander whose lock closes a
cycle. Two payments of one buyer are what the gift can go wrong with.
`MaxCrashes` and `MaxRejects` bound the failures, 1 each: the code keeps nothing but
the database between attempts, so a second failure meets a state that the first
one left. `MaxTime` of `ProSafety` covers two whole periods, with the third
order in the second; a halt, a new purchase and the stale cancellation of the halted row take two
orders, and the third is the one that is then dropped. Two requests and one use a day reach each bound of
`EntitlementMidnight`: a request that carries yesterday's date sets the pass back, so that three uses of
one day are served (`PassOverrun` allows 1 + 1 * 2), and two midnights put a date on either side of that day. Two visitors share an address and two
requests can make at most two rows for it. A group cap of 2 with three names, three creates and two
requests at once reaches the overrun of one that `GroupsBounded` allows: a third group is there in the run. Names are
interchangeable, so the run takes unused ones in order (`NamesInOrder`). An e-mail key of one second lapses
while a first login that has sent its message is rolled back and repeated, so that a second message is sent. The two
seconds of a cookie's life with a leeway of one reach the moment after the stamp has
lapsed. A limiter window of two seconds in four lets a window end and a late
script land in the next. `Lifespan` and `Timeout` of 1 in three seconds let a key
set be refetched once before and once after a rotation. Texts of three to
five characters contain every pair of neighbours, an empty line,
a line end at either end, a group that must be padded (base64 pads after
three bytes, base32 after five, of which UTF-8 needs one to three for each
character); what a tool does to a longer text is what it does to its lines, words or groups.

**Fairness, and why the code justifies it.** Strong fairness of `Step(t)`:
uvicorn keeps running its handlers, and PostgreSQL serves the waiters of a row
lock or unique key in order, so a statement that can go on again and again does.
Weak fairness of `DeadlockAbort`: PostgreSQL's detector runs after
`deadlock_timeout`. Strong fairness of a delivery of every event without a 2xx:
Razorpay retries (its retry horizon is longer than the bounded failures).
Verify calls start finitely often (`<>[]`): a client that repeats a mismatched
verify for ever could be the survivor of every deadlock with the delivery. No
fairness is assumed for starting claims, tool calls or orders, none for
crashes, and none at all in `Tools`, `Account` and the spins of `Rewards`.
`CHECK_DEADLOCK FALSE` in ProSafety, Tools, Account and SignedOut: there the
clock, the texts or the bounded requests really end. The other runs check
for deadlock, and the deadlocks of PostgreSQL are steps of the models.

**Properties worth a second look.** `AckedIsSettled` depends on the answer
`duplicate` being given only when the *committed* event row exists.
`PassesFirst` relates a step to the state of all passes at that moment, although
the request looked at them one at a time. `AddressLimit` counts the uses of an
address and compares with the rows there are, which racing first requests add. `PassOverrun` says how
many uses of a day requests at work at midnight can win, a bound that is reached. `PaidIsGranted` and `OneInPeriod` hold
up to one order of events, which they name. `ServedIsPaid` joins a reader of a result with
a use consumed in another service, across a timeout in between. `OrderAsAsked` compares an
order that another request made with what this one asked. `KeysFollowed`
bounds how long a withdrawn key is accepted although a slow answer may be stored
over a faster, later one: the lifespan of a key set and one fetch. `RevokedIsRefused`
names its exception: a cookie is accepted for `LEEWAY` seconds after its
expiry, and the stamp lapses before they are over (`session_cookie.py`, `redis.py`).

## 4. The proofs

Each holds for every value of the constants that the named assumptions allow:
any number of users, payments, events, requests, passes, packs, days and failures.

| Theorem | States | From |
|---|---|---|
| `TypeCorrect`, `ExactlyOnceGrant`, `OneWelcomeGift`, `Refinement` | `[]TypeOK`, `[]GrantedOnce`, `[]WelcomeOnce`, `ImplementsLedger` | `GrantInv` |
| `AckedMeansSettled` | `[]AckedIsSettled` | `AckInv`, if events have distinct ids (`DistinctKeys`) |
| `RefundsOnRecord` | no refund on record that was not made; refunds off the record are at most as many as crashes and lost answers | `RefundInv` |
| `BothOnlyAfterCrash` | payments with both the entitlement and the money back are at most as many as crashes and lost answers | the same |
| `MoneyBackRecorded` | `[]RefundedMoneyIsRecorded` | the same, if `MaxCrashes = 0` |
| `NoRefundAfterGrant` | the money of a granted payment goes back in no step | `GrantInv` |
| `OnlyTwoDeadlocks` | a set of transactions that wait for each other holds one of two pairs | `LockInv` |
| `RepliesAreTrue` | `[]ReplyMatchesLedger` | `ReplyInv` |
| `PlanTypeCorrect` | `[]TypeOK` of `ProSubscription` | `TypeInv` |
| `NoPaymentDropped`, `OnePlan` | `PaidIsGranted`, `[]OneInPeriod`: a paid order is dropped only when it would renew a row in `revived`, and of the other rows one at most grants access | `PlanInv`, whatever is halted |
| `CancelAnswerKept`, `NoPaidDaysLost` | `[]CancelKeepsAccess` (until a plan is halted), `ImplementsProAccess` (after a halt each grant still gives a full period from its day) | the same |
| `EntitlementTypeCorrect`, `PassCapHolds`, `DailyOverrunBounded` | `[]TypeOK`, `[]PassCap`, `[]DailyOverrun` of `Entitlement` | `TypeInv`, `PassInv`, `OverrunInv` |
| `PassOverrunBounded` | `[]PassOverrun`: the uses of a pass in a day, with requests at work at midnight | `MidnightInv` |
| `PassUsesInADay`, `PassesComeFirst` | `[]PassUsesPerDay`, `PassesFirst` | `DayInv`, `Tried`, if no request is at work at midnight (`QuietMidnight`) |
| `NoSelfReferral`, `RewardsPerClaim` | fresh codes, nobody refers themselves; at most one reward for each claim of a user | `ReferralInv`, `RewardsCounted` |
| `RewardedExactlyOnce`, `ReferrersPaidOnce` | `[]RewardedOnce`, `[]PayoutsBacked` and the overrun of the cap | the same and `PayoutInv`, if a user sends one claim at a time (`OneAtATime`) |
| `OneRewardAWeek` | `[]OneSpinAWeek` of `WeeklySpin` | `SpinInv` |
| `ClaimDeadlocksAreMutual` | claims that wait for each other are a ring of users who claim each other's codes | `ReferralInv` |
| `GateNeverDeadlocks` | of any set of requests at the gate one waits for none of the set | `TypeInv` of `Entitlement` |
| `OnlyPaidIsServed` | `[]ServedIsPaid` of `ToolCalls` | `CallsInv` |
| `RevokedStaysOut`, `FirstLoginOnce` | `[]RevokedIsRefused`, `[]FirstLogin` of `Sessions` | `SessionInv` |
| `RotationFollowed` | `[]KeysFollowed` of `TokenKeys` | `RealmInv` |
| `GateKeepsQuota` | `ImplementsQuota`: `Entitlement` refines `ToolQuota` | `QuotaInv` |
| `AddressesAreLimited` | `[]AddressLimit` of `VisitorQuota` | `VisitorInv` (`VisitorAssumption`) |
| `WindowsAreCapped` | `[]WindowCap` of `RateLimiter` | `LimiterInv` (`LimiterAssumption`) |
| `GroupsStayBounded`, `PlacesApart` | `[]GroupsBounded`, `[]PlacesDistinct` of `ToolGroups` | `CapInv`, `PlacesInv` (`GroupAssumption`) |
| `StepsComeWhole` | the steps of a pipeline are those of some requests, each list of them there as a whole (`ListsWhole`) | `RowsInv` (`WorkspaceAssumption`) |
| `StepsOfOneRequest` | `[]StepsWhole` of `Workspace` | the same, if any two lists of steps that clients send share a place (`CommonPlace`) |
| `UpdatesAreNamed` | `OnlyNamedFields` of `Workspace` | no invariant: every action |
| `OrdersAreAsAsked` | `[]OrderAsAsked` of `Storefront` | `ShopInv` (`StorefrontAssumption`) |
| `ExpiryOfOwnWindow`, `CounterStuckForGood` | the expiry of a rate-limit counter is set by the request that began it; without one it stays and never falls | `WindowInv` of `Storefront` (`None \notin Counters`) |
| `FavoritesAllFirst` | every favorite of `Workspace` has order 0 | `FavoritesInv` |
| `LetterCiphersInvert` | `[](Letterwise => CiphersInvert)` of `TextTools` | `CipherInv` |
| `SortsAreStable`, `ColumnsAreStable` | the sorts of lines, and the order of columns, for every input | `PlacingStable` |
| `TokenTypeCorrect`, `TokenAlwaysLive` | types and honest times; `[]TokenLive` | `TokenInv`, if the margin covers a fetch and a use (`TokenAssumption`) |

*Fulfilment.* `GrantedOnce` alone is not inductive: a request about to grant
must be known to be the only one. `OwnsLedgerKey` says it holds the unique key
and no settled row exists; `OneOwner` that a key has one holder; `OwnsUserRow`
that the gift was decided under the row lock, so nobody else of that user can
have been granted since. For `AckedIsSettled`, `OwnsEventKey` and
`RecordedIsSettled` add that the event id is held from the insert to the
commit. The fallback id (`subscription.py:362`) can be shared by two events, so
`DistinctKeys` is a hypothesis and not an assumption of the module.

*Refunds and replies.* `LostRefunds` are the payments whose money is back while the
ledger has no row and no request is about to write one. Only a crash or a lost
answer after the call to Razorpay adds to them, and to one payment each, since the caller
holds the ledger key: their number is at most `crashes`, with no hypothesis, and
none without crashes. The hypothesis of `MoneyBackRecorded` is what *RefundRetry* shows to
be needed. `ReplyInv` ties what a caller is told to the status it read; statuses do not
change once they are settled (`LedgerMonotone`).

*Pro plan.* `ActiveIsLatest` (the active row ends after every other row there
is) makes the renewed row and the row that decides the access the same one;
`SelectedIsLatest` keeps that true between the query and the write;
`FlippedIsOver` covers the cancel request that writes a row which was flipped
meanwhile. Halts are in all of this. A halted row stays behind the active one for good, unless a cancellation
that had read it before writes it: the invariants leave out those rows (`revived`), and only a renewal of one of
them can meet another active row. `EndIsLatest` (no row, flipped or not, ends after the access) holds until the first halt,
and with it the answers to cancel requests and the exact sum of the periods paid for.

*Entitlement.* `Shape` says that a written row is locked by one request, a
credit that was taken is there, and a request that has decided is at its commit;
that is why a balance never goes negative. `DailyOverrun` counts: a
request in flight for a tool and a day was admitted when the counter was below
its allowance, so counter plus requests in flight is at most the limit plus
the number of requests less one (`Admitted`), by induction over the
steps with the cardinality lemmas of `FiniteSetTheorems`.

`PassOverrun` counts how often a pass can start its day anew. On a day `d`, only a request at work that carries an earlier
date (`Early`) can take the date of the pass back, and each does it once, since it commits and the next one reads today's
date: the uses of `d` are at most a full count for each request that is `Early` no longer, and the current count. When
`d` is over, requests that still carry it (`Late`) bring one use each (`ServedOn`). With `n` requests and a cap of `k` that is at most
`k * n + n - 1`.

The two theorems about whole days assume that the day does not change while a request
is between its reading of the date and its commit. A request of the old day would
set the date of a pass back, and its count to one. `PassUsesPerDay` follows from `ServedToday`
(the uses of today are the pass's count, if its date is today), `PassesFirst` from `Tried` (a
request that is past a pass has seen it full, of no use to its tool, or locked by
another request).

*The gate as a quota.* `ToolQuota` has one balance and one number of free uses, `Entitlement` rows of
packs and counters of tools and days. `CreditsLeft` and `FreeTaken` are unions of the rows' units, so
that a commit of a credit, a free use or a grant of a pack adds or removes exactly the units of the row
it writes, and the balance changes by their number. `QuotaInv` adds that the unions are finite and that a
request without an answer is one that is still at work; a step before the commit is then a stutter.

*Visitors.* `RoomLeft` holds because the row of a visitor is locked from the count to the commit, over
midnight too. `UsesCounted` makes the counter of a row and a day the number of uses served on it. The
unlocked case is a visitor without a row: `Adding` are the requests that looked when the address had
none, and rows and such requests together are at most the requests (`RowsFew`), which bounds
the free uses of the address by that many rows.

*Referrals.* The row a claim works on is the one its session loaded at authentication.
`Unaware` counts the open claims of a user that loaded no referral; each adds one reward
at most, which bounds the rewards by the claims with no hypothesis, and one claim at a time makes it
exactly one. *ReferralTwice* is the counterexample without it. The own-code check reads the
old row as well; it suffices, since a claim can only name a code that was handed out before its
session loaded the user, and a code is stored before it is handed out (`CodesFresh`, `OwnCodeSeen`).

*Weekly spin.* An insert waits for whoever holds its key, so at most one open
transaction has written the row of a week, and its reward is granted by the transaction that commits it.

*Deadlocks.* A wait is read off the guards: `Blockers` are the transactions that hold what a statement is not
enabled without. A cycle needs members that hold one lock and want another, and `LockInv` says at which step a
transaction holds which lock, and that a delivery refunds only an order that fails the validation. Followed
around a cycle, this leaves the two pairs of `OnlyTwoDeadlocks`. In `Referral` a
claim holds its user's row when it wants the share of the referrer's, so a cycle is a ring of claims of one
another's codes. At the gate a written row is followed by the commit, so whoever is waited for does not wait.

*Money and entitlement.* `KeptBoth` is a part of `LostRefunds`: a payment that was granted has a ledger row of the
grant, so its refund is not on record. `NoRefundAfterGrant` says that the refund came first.

*Tool calls.* `GateBooks` relates the consumed uses to the gate's answers, those included that
arrive after the client gave up; `BehindGate` says that only an allowed call runs, and `OwnResults`
that a job's result is that of the call which enqueued it, after any number of restarts.

*Rate limiter.* `LetPass` names who let each request pass, Redis or one of the memories, and each of them
still holds what counts of what it let pass: so no window has more than `max_requests` from one of them.
Requests whose script ran late are counted apart, since they are in a past window.

*Tool groups.* The check and the insert are apart, so `RoomSeen` counts groups together with the
requests that have seen room: the last one to look saw room for itself, and the sum exceeds the cap by
less than the number of requests. `PlacesInv` is about the time in which no two requests have overlapped: what
the open request has read is then what is there (`Reads`), up to the rewritten places, which must
be spread again. That is a fact about ranks: under a total order, elements differ in the number of
those before them (`RanksDiffer`), for the first places of a deduplicated list
(`PositionsGood`) and for a reordered one with the groups it does not list (`OrderedApart`).

*Pipelines and links.* Two updates may read the same steps and both replace them. `RowsInv` says that the steps there
are, and those that a request has read, are whole lists as requests sent them, each place taken once: a request deletes what it has read,
row by row, and what it has read is a union of whole lists. What keeps the lists to one is the unique index on a step's place: if two lists share a
place, the second insert collides. That they do is `CommonPlace`, true of clients that number from 0, which no schema
enforces (`user_data.py:766`): without it lists of two updates that share no place are both stored, and `StepsComeWhole`, which does not
assume it, is what is left.

*Orders.* A receipt tells the wanted item and tools apart (`Genuine`), and an order keeps the want it was
made for; whichever request finds it by its receipt asked for the same. The assumption says that no
pass is both scoped and not, and that Pro is neither a pass nor a pack.

*Counters and favorites.* `WindowInv` says that the request with an expiry to set is the one whose INCR made the counter
and that the counter's window is still its own, since a counter without an expiry is not replaced. The same invariant
makes a stuck counter permanent: no action but the expiry takes it away. `FavoritesInv` adds to the orders in the table
the ones that requests have computed and not yet written.

*Texts.* A letter's replacement depends on its place and never on the text, and the key of Vigenère moves on the
letters only, which encryption leaves letters (`VigenereUndone`). So an inverse pair undoes each
position, and `Letterwise` names the pairs; É and é are outside it for Vigenère, which shifts them within A to Z.
`Stable` is what Python promises of `sorted`; `PlacingStable` shows it of the ranks that
`SortedPositions` counts, for any order of keys without ties of a third kind (`KeyOrder`), and the order of
folded lines is one: code points decide at the first difference, which exists by the well-foundedness of `<`.

*Sessions.* `SessionInv` says that a credential which passed the stamp check is younger than the stamp or within
the leeway of its end, that one request at most is adding a user's row at a time, and that first e-mails are at most one more than the
times the key lapsed while a first login was possible, that one only while the key is there or no first login is
possible any more (`SentOnce`).

*Token keys.* A client that was replaced while it fetched still holds the keys it had when it was
made: the invariant dates each client and each fetch, and a refused token has seen its
client and the replacement fail. The bound for withdrawn keys is the lifespan of the cache after
one fetch that began before the withdrawal.

*Admin token.* `CacheHonest` says that the expiry noted for the cached token is
later than Keycloak's by at most one round trip, since it is dated at arrival;
`FetchTimely` and `UseTimely` that round trips end by their timeout. A token that
is fresh by the margin then outlives its call. The assumption says what the code
relies on: its 30 seconds against timeouts of 10 and 5 (`keycloak_admin.py:65, 109`),
and lifetimes longer than these.

*Only model-checked:* the liveness properties `GrantedOrMoneyBack`, `RequestsEnd` and `ClaimsEnd` (the
prover does not handle ENABLED and the fairness of these actions), and the text tools, `DecodesBack` to
`TablesHold`, but for the part of `CiphersInvert` above: splits, joins, filters and decoders are folds, and what a
fold does to a text of any length needs induction over data. So do the numbers by which `sort-numeric` and the rail
fence sort. The runs whose violation is expected refute one instance, which needs no proof.

## 5. The code against its documents

Three runs end in a violation of what the repository says; `PROJECT.json` has the
lines under "findings".

1. *RefundRetry.* Razorpay refunds, the commit is lost: the retry asks for a
   second refund, is turned down, rolls its ledger row back and answers 500,
   again and again. The comment says a retry safely re-attempts. The customer
   has the money (`GrantedOrMoneyBack` holds); the ledger never says so.
2. *ReferralTwice.* Two claims of one user are both rewarded: the lock is
   taken, but the loaded row is not refreshed.
3. *SignedOut.* `/auth/me` checks the revocation stamp when it authenticates and
   issues its cookie at the end. A sign-out between the two does not touch that
   cookie, whose `iat` is after the stamp: the session goes on. The comment at `deps.py:94` wants to
   exclude exactly a cookie that bypasses the stamp.

### Seen while modelling

In the models as the code has them, where they have them:

- Payments: after a lost refund commit, a verify call with a matching body can still grant
  the payment; a redelivered event with malformed notes answers 500 for ever
  (`subscription.py:417`); an event of a user without a row is answered `duplicate` and
  leaves no audit row; verify says success to a caller whose payment was
  refunded; the renewal window is checked when the order is made and not when it is
  paid (`subscription.py:126`); `cancel_pro` can overwrite a halt. If a new plan was bought meanwhile, two rows are then in their
  period, and the next paid order may select the one that came back: setting it active trips the one-active index, and verify
  answers `already_fulfilled` without a grant (`subscription.py:267-276`), although the comment at
  `fulfillment_service.py:117-121` says that "updating in place sidesteps the one-active-subscription partial unique index entirely"
  (`PaidIsGranted` and `OneInPeriod` name the case, and the run reaches it). account-svc and payments-svc derive
  the tier from different queries (`auth.py:43`).
- Entitlements: a request that read the date before midnight and updates its pass after
  others used it on the new day sets the date back, and the pass gives its uses again
  (`pass_service.py:349`; `PassOverrun` says how many, and the run reaches that number; with `QuietMidnight` it is none); a credit row
  locked by another request counts as empty, and the user is turned away with
  credits left (`pass_service.py:383`); concurrent claims of one code all find its owner below
  the cap (`:818`); two requests for a code can each hand out a different one, only one of
  which works; the daily limit can be overrun (`DailyOverrun` says by how much).
- Rate limits: the order counter that is raised before a crash never expires, and the user
  is turned away until somebody deletes the key (`rate_limit.py:32`). A request whose
  script runs late is counted in the past.
- Accounts: the places of a pipeline's steps are the client's (`user_data.py:766`), so that two updates that
  use different ones are both stored; a first login that sent its e-mail and was rolled back sends a second one when it is
  repeated after the key's hour (`deps.py:140`); every favorite gets order 0 (`user_data.py:356`, `max or -1`); an explicit null in a required
  column takes the default on the first write and is a 500 later; the lock in `jwks.verify`
  covers no `await`, so every racing request still makes a client of its own (`jwks.py:29`); a
  Redis that fails is a 500 with a cookie, a 401 with a token and a 500 on sign-out, where the comments say
  fail-open; a token from before the verification sets `is_email_verified` back to
  false; a subject that is new at Keycloak with a known e-mail address is refused for good.
- Tools: a stream of an AI tool with an argument is a 500 after its use was consumed
  (`Streamable`); `ALWAYS_FREE_TOOL_IDS` of text-svc holds no id that is registered; three dots become two (`normalize-punctuation`);
  an empty delimiter, a non-ASCII Playfair key and a lone carriage return in a CSV are 500;
  `csv-to-table` drops cells beyond its header; NATO words with spaces,
  multi-line Brainfuck and runs of spaces in Morse do not come back. Offline,
  "shorten-for-tweet" drops the last word of a text that was short enough, "fix-grammar"
  leaves the first letter small after leading white space, and the keyword "looking forward" of the
  sentiment, two words, is never found.

## 6. Plan

Done, in the order of what a mistake costs: fulfilment, Pro plan, entitlement gate,
visitor quota, referrals; then rate limits, tool calls and jobs, sessions and
caches, workspace, orders, spins, and the text tools. Left:

1. Proofs: every invariant and action property of the runs but those of the text tools is proved, and of the texts
   what holds letter by letter and the sorts. Left is type correctness of the rows in `Account`, `ToolGate` and
   `Rewards` as theorems of their own where an invariant has only the part it needs.
2. Liveness of `ToolCalls`: a queued job ends as long as the worker is restarted.
3. `ToolCalls` over `ToolQuota` in place of its free choice of the gate's answer.
4. The remaining converters of text-svc, over trees in place of their texts.

## 7. Not modelled

The signature check, the amounts of prices (symbols), the look-up of a region by address, JWT
claims and legacy tokens, prompts and AI providers, pure I/O, log records,
headers, migrations (their unique indexes and foreign keys are in the models),
gateway configuration, the gamification routes (they keep nothing). Of text-svc: small caps and upside down (tables), strip-markdown,
the JSON formatter and the JSON, YAML, XML and CSV-to-JSON converters (their parsers are
libraries), and the time limit of a tool. Of ai-svc's fallbacks: those of the keyword
extractor, a library. The fallback event id that two events can share
(`subscription.py:362`) and orders with `PASS_ORDER_STRICT_TOOL_SCOPE` off are in no run. Redis loses no data while it is down.
The times of HTTP calls are bounded by their timeouts as a whole, although httpx and
urllib count each phase. Redis runs a command or a script as one step, and its
expiry is on time. PostgreSQL is taken at READ COMMITTED as its documentation
has it; replication and failover are left out.
