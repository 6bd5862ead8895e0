----------------------------- MODULE Storefront -----------------------------
(***************************************************************************)
(* How one user of payments-svc gets an order to pay (POST /passes/order,  *)
(* POST /passes/credit-order and POST /subscription/checkout), and what    *)
(* paying it will grant (services/order_validation.py).  An unpaid order   *)
(* with the same receipt is given again instead of a new one.  Requests    *)
(* run in different processes, and Razorpay's answers may be lost.         *)
(***************************************************************************)
EXTENDS Integers, FiniteSets, SequencesExt

CONSTANTS
  Requests,            \* requests for an order at the same time
  Scoped,              \* passes for a number of tools, Picks[i] of them
  Unscoped,            \* passes for all tools
  Packs,               \* credit packs
  Pro,                 \* the item of a Pro order
  Picks,
  ToolLists,           \* the lists of tools that requests carry
  ALWAYS_FREE_TOOL_IDS,
  Regions,             \* REGIONS, each with a currency of its own
  Strict,              \* PASS_ORDER_STRICT_TOOL_SCOPE
  ORDER_RATE_LIMIT_PER_MINUTE,
  None,
  MaxAsks,             \* bound: requests in all
  MaxReleases,         \* bound: releases with other prices
  MaxMinutes           \* bound: minutes

Passes == Scoped \cup Unscoped
Items == Passes \cup Packs \cup {Pro}

StorefrontAssumption ==
  /\ Picks \in [Scoped -> Nat \ {0}]
  /\ Scoped \cap Unscoped = {}
  /\ Pro \notin Passes \cup Packs
  /\ {"IN", "US"} \subseteq Regions
  /\ Strict \in BOOLEAN

VARIABLES
  minute,
  region,    \* users.region, or None
  release,   \* the prices of the processes that start now
  counter,   \* ratelimit:order:<user>: [n, expires], or None
  orders,    \* the user's orders at Razorpay
  ask,       \* the open requests
  asks,      \* number of requests so far (bound)
  answers    \* history: orders that were answered, each with what was asked

ovars == <<minute, region, release, counter, orders, ask, asks, answers>>

Idle == [step |-> "idle"]
Never == -1

Init ==
  /\ minute = 0
  /\ region \in {None, "US"}
  /\ release = 0
  /\ counter = None
  /\ orders = <<>>
  /\ ask = [r \in Requests |-> Idle]
  /\ asks = 0
  /\ answers = {}

-----------------------------------------------------------------------------
(* pass_catalog.py and PRO_PLAN_PRICES: each region has a price and currency *)
(* of its own, and a release may change prices.                              *)
Price(item, reg, rel) == <<item, reg, rel>>
Currency(reg) == reg

(* validate_tool_selection: the canonical list, or None for a 400.           *)
Distinct(s) ==
  FoldLeft(LAMBDA acc, t : IF Contains(acc, t) THEN acc ELSE Append(acc, t), <<>>, s)

Selection(item, tools) ==
  IF item \notin Scoped THEN <<>>
  ELSE IF ToSet(tools) \cap ALWAYS_FREE_TOOL_IDS = {} /\ Len(Distinct(tools)) = Picks[item]
       THEN Distinct(tools)
       ELSE None

(* resolve_user_region, without looking up an address; a Pro order takes the *)
(* stored region and has another default.                                    *)
Resolved(explicit, stored) ==
  IF explicit # None THEN explicit ELSE IF stored # None THEN stored ELSE "US"
ProRegion(stored) == IF stored # None THEN stored ELSE "IN"

\* Variant: an order for other tools has the same receipt.
Receipt_NoScope(item, tools) == <<item, None>>

SortedForm(s) == [t \in ToSet(s) |-> Cardinality({i \in DOMAIN s : s[i] = t})]

(* The item and, for a pass, a hash of its tools, sorted.                    *)
Receipt(item, tools) ==
  <<item, IF item \in Passes THEN SortedForm(tools) ELSE None>>

-----------------------------------------------------------------------------
At(r, step) == ask[r].step = step
Set(r, q) == ask' = [ask EXCEPT ![r] = q]
Go(r, step) == Set(r, [ask[r] EXCEPT !.step = step])
Drop(r) == Set(r, Idle)

(* A process prices by the release it was started from.                      *)
Arrive(r) ==
  /\ At(r, "idle")
  /\ asks < MaxAsks
  /\ asks' = asks + 1
  /\ \E item \in Items, tools \in ToolLists, explicit \in Regions \cup {None} :
       /\ item \notin Passes => tools = <<>>
       /\ item = Pro => explicit = None
       /\ Set(r, [step |-> "incr", item |-> item, tools |-> tools, explicit |-> explicit,
                  stored |-> region, release |-> release])
  /\ UNCHANGED <<minute, region, release, counter, orders, answers>>

(* check_rate_limit: INCR.  Everything goes through when Redis is away.      *)
Count(r) ==
  /\ At(r, "incr")
  /\ LET n == IF counter = None THEN 1 ELSE counter.n + 1 IN
     \/ Go(r, "order") /\ UNCHANGED counter
     \/ /\ counter' = [n |-> n, expires |-> IF counter = None THEN Never ELSE counter.expires]
        /\ IF n = 1 THEN Go(r, "expire")
           ELSE IF n > ORDER_RATE_LIMIT_PER_MINUTE THEN Drop(r)           \* 429
           ELSE Go(r, "order")
  /\ UNCHANGED <<minute, region, release, orders, asks, answers>>

(* EXPIRE, unless Redis fails here: then the counter stays for good.         *)
Expire(r) ==
  /\ At(r, "expire")
  /\ \/ counter' = IF counter = None THEN None ELSE [counter EXCEPT !.expires = minute + 1]
     \/ UNCHANGED counter
  /\ Go(r, "order")
  /\ UNCHANGED <<minute, region, release, orders, asks, answers>>

(* The order that is wanted, once the request has passed its checks; the     *)
(* renewal window of an active plan may be closed.                           *)
Prepare(r) ==
  /\ At(r, "order")
  /\ LET q == ask[r]
         tools == IF q.item \in Passes /\ Strict THEN Selection(q.item, q.tools) ELSE q.tools
         reg == IF q.item = Pro THEN ProRegion(q.stored) ELSE Resolved(q.explicit, q.stored)
     IN IF tools = None
        THEN Drop(r)                                                      \* 400
        ELSE \/ q.item = Pro /\ Drop(r)                                   \* 400
             \/ Set(r, [step |-> "list", item |-> q.item, tools |-> tools, stored |-> q.stored,
                        region |-> reg, release |-> q.release])
  /\ UNCHANGED <<minute, region, release, counter, orders, asks, answers>>

Wanted(r) ==
  [item |-> ask[r].item, tools |-> ask[r].tools,
   receipt |-> Receipt(ask[r].item, ask[r].tools),
   amount |-> Price(ask[r].item, ask[r].region, ask[r].release),
   currency |-> Currency(ask[r].region)]

(* The answer, and the commit of a region that has changed.                  *)
Answer(r, id) ==
  /\ answers' = answers \cup
       {[id |-> id, item |-> ask[r].item, tools |-> ask[r].tools,
         region |-> ask[r].region, release |-> ask[r].release]}
  /\ region' = IF ask[r].item = Pro \/ ask[r].region = ask[r].stored THEN region
               ELSE ask[r].region
  /\ Drop(r)

Reusable(o, w) ==
  /\ o.status = "created"
  /\ o.want.receipt = w.receipt
  /\ o.want.amount = w.amount
  /\ o.want.currency = w.currency

(* create_order: an unpaid order with this receipt, amount and currency, if  *)
(* the list can be had and shows one.                                        *)
FindOrder(r) ==
  /\ At(r, "list")
  /\ \/ \E id \in DOMAIN orders : Reusable(orders[id], Wanted(r)) /\ Answer(r, id)
     \/ Go(r, "create") /\ UNCHANGED <<region, answers>>
  /\ UNCHANGED <<minute, release, counter, orders, asks>>

NewOrder(r) == Append(orders, [want |-> Wanted(r), status |-> "created"])

CreateOrder(r) ==
  /\ At(r, "create")
  /\ orders' = NewOrder(r)
  /\ Answer(r, Len(orders) + 1)
  /\ UNCHANGED <<minute, release, counter, asks>>

(* 502: Razorpay refused, or has made the order and the answer is lost.      *)
CreateFails(r) ==
  /\ At(r, "create")
  /\ orders' \in {orders, NewOrder(r)}
  /\ Drop(r)
  /\ UNCHANGED <<minute, region, release, counter, asks, answers>>

(* The process stops: what is in Redis and at Razorpay stays.                *)
Crash(r) ==
  /\ ~At(r, "idle")
  /\ Drop(r)
  /\ UNCHANGED <<minute, region, release, counter, orders, asks, answers>>

-----------------------------------------------------------------------------
(* The customer pays, or tries to; prices change; a minute passes.           *)
Checkout(id, status) ==
  /\ \E a \in answers : a.id = id
  /\ orders[id].status \in {"created", "attempted"}
  /\ orders[id].status # status
  /\ orders' = [orders EXCEPT ![id].status = status]
  /\ UNCHANGED <<minute, region, release, counter, ask, asks, answers>>

Release ==
  /\ release < MaxReleases
  /\ release' = release + 1
  /\ UNCHANGED <<minute, region, counter, orders, ask, asks, answers>>

Minute ==
  /\ minute < MaxMinutes
  /\ minute' = minute + 1
  /\ counter' = IF counter # None /\ counter.expires = minute' THEN None ELSE counter
  /\ UNCHANGED <<region, release, orders, ask, asks, answers>>

Next ==
  \/ Release \/ Minute
  \/ \E id \in DOMAIN orders, status \in {"attempted", "paid"} : Checkout(id, status)
  \/ \E r \in Requests :
       Arrive(r) \/ Count(r) \/ Expire(r) \/ Prepare(r) \/ FindOrder(r) \/ CreateOrder(r)
         \/ CreateFails(r) \/ Crash(r)

Spec == Init /\ [][Next]_ovars

-----------------------------------------------------------------------------
(* validate_order_scope_and_amount and validate_pro_amount, with the prices  *)
(* of a release: the tools that are granted, "*" for all, or None when the   *)
(* payment has to be refunded.                                               *)
Scope(want, rel) ==
  IF want.amount # Price(want.item, want.currency, rel) THEN None
  ELSE IF want.item \in Unscoped THEN {"*"}
  ELSE IF want.item \notin Scoped THEN {}
  ELSE IF Len(want.tools) = Picks[want.item] THEN ToSet(want.tools)
  ELSE None

(* The order a request is answered, new or reused, is for what was asked: the*)
(* item, its tools and the price of the region.  With the strict check, what *)
(* is paid for it can be granted as long as prices stay, and grants exactly  *)
(* those tools.  (idempotency_key, create_order, validate_tool_selection)    *)
OrderAsAsked ==
  \A a \in answers : LET want == orders[a.id].want IN
    /\ want.item = a.item
    /\ want.amount = Price(a.item, a.region, a.release)
    /\ ToSet(want.tools) = ToSet(a.tools)
    /\ Strict => Scope(want, a.release)
                   = CASE a.item \in Unscoped -> {"*"}
                       [] a.item \in Scoped -> ToSet(a.tools)
                       [] OTHER -> {}
=============================================================================
