------------------------------- MODULE Sales -------------------------------
(***************************************************************************)
(* The shop of the panel: quotes, orders, wallet, card receipts, coupons   *)
(* and plan capacity (runtime/sales.py with the handlers of                *)
(* runtime/sales_worker.py that call it).                                  *)
(*                                                                         *)
(* Every Telegram update and every request of the web panel runs in one    *)
(* SQLite write transaction and a ValueError rolls the whole of it back,   *)
(* so an update is one atomic action whose guard collects every check the  *)
(* handler makes, and a refused update changes nothing.  The bot worker,   *)
(* the web panel and the administrators' chats take such steps in any      *)
(* order.                                                                  *)
(*                                                                         *)
(* A row that does not exist yet is a row of the table with the status     *)
(* "none"; ids are abstract.  Texts, labels, protocols, inbounds, volume   *)
(* and duration of a plan are left out (DisplayNames and Provision model   *)
(* what depends on them); seconds are abstracted to ticks of `now'.        *)
(***************************************************************************)
EXTENDS Integers, FiniteSets, Functions

CONSTANTS
  Users, Plans, Codes, QuoteIds, TopupIds,
  InitialPlans,      \* what the administrator had saved at the start
  InitialSettings,   \* the settings that are switched on at the start
  Edited,            \* the plans an administrator edits, hides or deletes
  MaxQty,            \* largest quantity of a bulk quote (20 in the code)
  QuoteLife,         \* ticks a quote lives (900 seconds)
  MaxTime,           \* bound: the clock stops here
  Prices, Capacities,\* what an administrator can enter for a plan
  CouponTerms,       \* the [percent, credit, uses, expires] they can enter
  Amounts,           \* amounts of top-ups, transfers and credits
  CreditRefs,        \* references of the web panel's credit requests
  TransferIds,       \* update ids that carry a transfer
  Referrer,          \* who invited each user, or None
  Commission,        \* setting "commission", in percent
  ResellerDiscount,  \* setting "reseller_discount", in percent
  Toggleable,        \* the settings an administrator switches in this model
  Managed,           \* the users an administrator blocks or makes resellers
  None

Features == {"buy", "renew", "wallet", "card", "discounts", "transfer",
             "trial", "reseller", "bulk", "referrals", "self_delete"}

OrderIds == (QuoteIds \X (0 .. MaxQty - 1)) \cup ({"trial"} \X Users)
ServiceIds == OrderIds      \* a new order gives its service a fresh id

Percent == 0 .. 100

ASSUME SalesAssumption ==
  /\ None \notin Users \cup Plans \cup Codes \cup QuoteIds \cup OrderIds
  /\ MaxQty \in Nat \ {0} /\ QuoteLife \in Nat /\ MaxTime \in Nat
  /\ Prices \subseteq Nat /\ Capacities \subseteq Nat
  /\ InitialPlans \in [Plans -> [status : {"none", "active", "inactive"}, price : Nat,
                                 capacity : Nat, is_trial : BOOLEAN]]
  /\ CouponTerms \subseteq [percent : Percent, credit : Nat, uses : Nat, expires : Nat]
  /\ Amounts \subseteq Nat \ {0}
  /\ Referrer \in [Users -> Users \cup {None}]
  /\ Commission \in Percent /\ ResellerDiscount \in Percent
  /\ InitialSettings \subseteq Features /\ Toggleable \subseteq Features
  /\ Edited \subseteq Plans /\ Managed \subseteq Users
  /\ "trial" \notin QuoteIds

VARIABLES
  now,        \* the clock
  enabled,    \* settings that are switched on
  plans, users, coupons, redeemed, quotes, orders, topups, services,
  balance, ledger

vars == <<now, enabled, plans, users, coupons, redeemed, quotes, orders,
          topups, services, balance, ledger>>
money_vars == <<balance, ledger>>
shop_vars == <<plans, coupons, redeemed, quotes, orders, topups, services>>

-----------------------------------------------------------------------------
(* Rows *)

Idle == [kind |-> "idle"]
States ==                                  \* users.state, the pending prompt
  {Idle} \cup [kind : {"coupon_prompt", "transfer", "wallet_amount"}]
  \cup [kind : {"coupon"}, code : Codes]
  \cup [kind : {"planname"}, plan : Plans, qty : 1 .. MaxQty, code : Codes \cup {None}]
  \cup [kind : {"orderreceipt"}, order : OrderIds]
  \cup [kind : {"wallet_method", "receipt"}, amount : Nat]

User == [blocked : BOOLEAN, reseller : BOOLEAN, state : States]
Plan == [status : {"none", "active", "inactive"}, price : Nat, capacity : Nat, is_trial : BOOLEAN]
Quote == [user : Users \cup {None}, plan : Plans \cup {None}, snapshot : Plan,
          renew : ServiceIds \cup {None}, qty : 1 .. MaxQty, expires : Nat]
OrderStatus == {"none", "awaiting_receipt", "receipt_review", "paid", "review",
                "fulfilled", "cancelled"}
Order == [user : Users \cup {None}, plan : Plans \cup {None}, price : Nat,
          status : OrderStatus, service : ServiceIds \cup {None},
          renew : ServiceIds \cup {None}, coupon : Codes \cup {None}]
Topup == [user : Users \cup {None}, amount : Nat,
          status : {"none", "pending", "approved", "rejected"},
          order : OrderIds \cup {None}]
Service == [user : Users \cup {None}, plan : Plans \cup {None},
            status : {"none", "active", "deleted"}]
References ==                              \* ledger.reference, UNIQUE
  ({"debit", "commission"} \X OrderIds) \cup ({"topup"} \X TopupIds)
  \cup ({"gift"} \X Codes \X Users) \cup ({"transfer"} \X TransferIds \X {"out", "in"})
  \cup ({"admin"} \X CreditRefs)

NoPlan == [status |-> "none", price |-> 0, capacity |-> 0, is_trial |-> FALSE]
NoQuote == [user |-> None, plan |-> None, snapshot |-> NoPlan,
            renew |-> None, qty |-> 1, expires |-> 0]
NoOrder == [user |-> None, plan |-> None, price |-> 0, status |-> "none",
            service |-> None, renew |-> None, coupon |-> None]
NoTopup == [user |-> None, amount |-> 0, status |-> "none", order |-> None]
NoService == [user |-> None, plan |-> None, status |-> "none"]
NoCoupon == [percent |-> 0, credit |-> 0, uses |-> 0, expires |-> 0]

Init ==
  /\ now = 1 /\ enabled = InitialSettings
  /\ plans = InitialPlans
  /\ users = [u \in Users |-> [blocked |-> FALSE, reseller |-> FALSE, state |-> Idle]]
  /\ coupons = [c \in Codes |-> NoCoupon] /\ redeemed = {}
  /\ quotes = [q \in QuoteIds |-> NoQuote]
  /\ orders = [o \in OrderIds |-> NoOrder]
  /\ topups = [t \in TopupIds |-> NoTopup]
  /\ services = [s \in ServiceIds |-> NoService]
  /\ balance = [u \in Users |-> 0] /\ ledger = {}

-----------------------------------------------------------------------------
(* Helpers *)

Set(u, st) == users' = [users EXCEPT ![u].state = st]

Exists(o) == orders[o].status # "none"
Live(o) == orders[o].status \notin {"none", "cancelled"}

\* Orders that take a place of plan p: renewals and cancelled orders do not.
Sold(p) == {o \in OrderIds : orders[o].plan = p /\ orders[o].renew = None /\ Live(o)}

HasHistory(p) == \E o \in OrderIds : Exists(o) /\ orders[o].plan = p

\* Orders that keep a service from being renewed again.
Open == {"paid", "review", "awaiting_receipt", "receipt_review"}
OpenRenewals(s) == {o \in OrderIds : orders[o].service = s /\ orders[o].status \in Open}

\* One call of money: a reference that is already posted is ignored, a
\* balance never goes below zero.
Money(u, amount, ref) ==
  IF \E e \in ledger : e.ref = ref THEN UNCHANGED money_vars
  ELSE /\ balance[u] + amount >= 0
       /\ balance' = [balance EXCEPT ![u] = @ + amount]
       /\ ledger' = ledger \cup {[ref |-> ref, user |-> u, amount |-> amount]}

Cut(price, percent) == (price * (100 - percent)) \div 100

\* Mutant of Redeemable: the uses left are not looked at.
RedeemableWithoutLimit(c, u) ==
  /\ coupons[c].expires = 0 \/ coupons[c].expires > now
  /\ <<c, u>> \notin redeemed

Redeemable(c, u) ==
  /\ coupons[c].uses > 0
  /\ coupons[c].expires = 0 \/ coupons[c].expires > now
  /\ <<c, u>> \notin redeemed

\* The coupon an order takes with it from the buyer's state, or None.
AppliedCoupon(u) ==
  IF /\ users[u].state.kind = "coupon" /\ "discounts" \in enabled
     /\ Redeemable(users[u].state.code, u)
  THEN users[u].state.code ELSE None

Redeem(c, u) ==
  /\ redeemed' = redeemed \cup {<<c, u>>}
  /\ coupons' = [coupons EXCEPT ![c].uses = @ - 1]

\* Mutant of RestoreCoupon: the row is freed, the use is not given back.
RestoreCouponLosesUse(o) ==
  LET r == orders[o] IN
  /\ redeemed' = IF r.coupon # None THEN redeemed \ {<<r.coupon, r.user>>} ELSE redeemed
  /\ UNCHANGED coupons

\* restore_reserved_coupon: only an order that waits for its receipt.
RestoreCoupon(o) ==
  LET r == orders[o] IN
  IF /\ r.status \in {"awaiting_receipt", "receipt_review"}
     /\ r.coupon # None /\ <<r.coupon, r.user>> \in redeemed
  THEN /\ redeemed' = redeemed \ {<<r.coupon, r.user>>}
       /\ coupons' = [coupons EXCEPT ![r.coupon].uses = @ + 1]
  ELSE UNCHANGED <<redeemed, coupons>>

-----------------------------------------------------------------------------
(* The buyer's chat *)

\* Every command that drops the pending prompt (home, plans, services...).
Home(u) ==
  /\ ~users[u].blocked
  /\ Set(u, Idle)
  /\ UNCHANGED <<now, enabled, shop_vars, money_vars>>

AskCoupon(u) ==
  /\ ~users[u].blocked /\ "discounts" \in enabled
  /\ Set(u, [kind |-> "coupon_prompt"])
  /\ UNCHANGED <<now, enabled, shop_vars, money_vars>>

\* A gift code pays at once; a discount code waits in the buyer's state and
\* reserves nothing yet.
EnterCoupon(u, c) ==
  /\ ~users[u].blocked /\ users[u].state.kind = "coupon_prompt" /\ "discounts" \in enabled
  /\ Redeemable(c, u)
  /\ IF coupons[c].credit > 0
     THEN /\ Money(u, coupons[c].credit, <<"gift", c, u>>)
          /\ Redeem(c, u) /\ Set(u, Idle)
     ELSE /\ Set(u, [kind |-> "coupon", code |-> c])
          /\ UNCHANGED <<money_vars, coupons, redeemed>>
  /\ UNCHANGED <<now, enabled, plans, quotes, orders, topups, services>>

\* choose: and bulk:, the coupon is parked in the prompt for the name.
ChoosePlan(u, p, qty) ==
  /\ ~users[u].blocked
  /\ plans[p].status = "active" /\ ~plans[p].is_trial
  /\ qty > 1 => {"bulk", "reseller"} \subseteq enabled /\ users[u].reseller
  /\ Set(u, [kind |-> "planname", plan |-> p, qty |-> qty,
             code |-> IF users[u].state.kind = "coupon" THEN users[u].state.code ELSE None])
  /\ UNCHANGED <<now, enabled, shop_vars, money_vars>>

NewQuote(u, q, p, renew, qty) ==
  /\ quotes[q] = NoQuote /\ \A i \in 0 .. MaxQty - 1 : ~Exists(<<q, i>>)
  /\ plans[p].status = "active" /\ ~plans[p].is_trial
  /\ quotes' = [quotes EXCEPT ![q] = [user |-> u, plan |-> p, snapshot |-> plans[p],
                                      renew |-> renew, qty |-> qty, expires |-> now + QuoteLife]]

\* The name arrives: the quote is written and the coupon taken back.
NamePlan(u, q) ==
  LET st == users[u].state IN
  /\ ~users[u].blocked /\ st.kind = "planname"
  /\ NewQuote(u, q, st.plan, None, st.qty)
  /\ Set(u, IF st.code = None THEN Idle ELSE [kind |-> "coupon", code |-> st.code])
  /\ UNCHANGED <<now, enabled, plans, coupons, redeemed, orders, topups, services,
                 money_vars>>

AskRenewal(u, s, q) ==
  /\ ~users[u].blocked
  /\ services[s].user = u /\ services[s].status = "active"
  /\ NewQuote(u, q, services[s].plan, s, 1)
  /\ UNCHANGED <<now, enabled, users, plans, coupons, redeemed, orders, topups, services,
                 money_vars>>

\* Mutant of QuoteUsable: the plan is not compared with the snapshot.
QuoteUsableUnchecked(u, q, card) ==
  /\ ~users[u].blocked
  /\ quotes[q].user = u /\ quotes[q].expires >= now
  /\ plans[quotes[q].plan].status = "active"
  /\ card => quotes[q].qty = 1 /\ "card" \in enabled

\* The checks of purchase_quote.
QuoteUsable(u, q, card) ==
  /\ ~users[u].blocked
  /\ quotes[q].user = u /\ quotes[q].expires >= now
  /\ plans[quotes[q].plan].status = "active"
  /\ plans[quotes[q].plan] = quotes[q].snapshot
  /\ quotes[q].qty > 1 => {"bulk", "reseller"} \subseteq enabled /\ users[u].reseller
  /\ card => quotes[q].qty = 1 /\ "card" \in enabled

\* What the i-th order of a quote costs: only the first takes the coupon.
OrderPrice(u, p, i) ==
  LET base == IF users[u].reseller /\ "reseller" \in enabled
              THEN Cut(plans[p].price, ResellerDiscount) ELSE plans[p].price
      c == AppliedCoupon(u)
  IN IF i = 0 /\ c # None THEN Cut(base, coupons[c].percent) ELSE base

\* Mutant of Total: the coupon is taken off every order of the quote.
TotalCutTwice(u, p, qty) == qty * OrderPrice(u, p, 0)

\* What the orders of a quote cost together.
Total(u, p, qty) == OrderPrice(u, p, 0) + (qty - 1) * OrderPrice(u, p, 1)

\* Mutants of Orderable: the places are compared off by one; a service may be
\* renewed twice at once.
OrderableOneMore(u, p, renew, qty) ==
  plans[p].capacity > 0 => Cardinality(Sold(p)) <= plans[p].capacity
OrderableTwice(u, p, renew, qty) ==
  renew # None => services[renew].user = u /\ services[renew].status = "active"

\* The checks of order that depend on the shop and not on the buyer's money.
Orderable(u, p, renew, qty) ==
  /\ "buy" \in enabled
  /\ IF renew # None
     THEN /\ "renew" \in enabled /\ OpenRenewals(renew) = {}
          /\ services[renew].user = u /\ services[renew].status = "active"
     ELSE plans[p].capacity > 0 => Cardinality(Sold(p)) + qty <= plans[p].capacity

\* order, once for each index of the quote, in one transaction.
PlaceOrders(u, q, card) ==
  LET Q == quotes[q]
      coupon == AppliedCoupon(u)
      total == Total(u, Q.plan, Q.qty)
      New(i) == [user |-> u, plan |-> Q.plan, price |-> OrderPrice(u, Q.plan, i),
                 status |-> IF card THEN "awaiting_receipt" ELSE "paid",
                 service |-> IF Q.renew # None THEN Q.renew ELSE <<q, i>>,
                 renew |-> Q.renew, coupon |-> IF i = 0 THEN coupon ELSE None]
      placed == {q} \X (0 .. Q.qty - 1)
  IN /\ Orderable(u, Q.plan, Q.renew, Q.qty)
     /\ IF coupon # None THEN Redeem(coupon, u) ELSE UNCHANGED <<coupons, redeemed>>
     /\ IF card THEN UNCHANGED money_vars
        ELSE /\ balance[u] >= total
             /\ balance' = [balance EXCEPT ![u] = @ - total]
             /\ ledger' = ledger \cup {[ref |-> <<"debit", o>>, user |-> u,
                                       amount |-> -OrderPrice(u, Q.plan, o[2])] : o \in placed}
     /\ orders' = [o \in OrderIds |-> IF o \in placed THEN New(o[2]) ELSE orders[o]]

\* buy: and renewok:.  An order that exists already is returned as it is.
Buy(u, q) ==
  /\ QuoteUsable(u, q, FALSE)
  /\ \/ Exists(<<q, 0>>) /\ UNCHANGED <<users, coupons, redeemed, orders, money_vars>>
     \/ ~Exists(<<q, 0>>) /\ PlaceOrders(u, q, FALSE) /\ Set(u, Idle)
  /\ UNCHANGED <<now, enabled, plans, quotes, topups, services>>

\* cardbuy: reserves the order and asks for the receipt.
CardBuy(u, q) ==
  /\ QuoteUsable(u, q, TRUE)
  /\ \/ /\ orders[<<q, 0>>].status = "awaiting_receipt"
        /\ UNCHANGED <<coupons, redeemed, orders, money_vars>>
     \/ ~Exists(<<q, 0>>) /\ PlaceOrders(u, q, TRUE)
  /\ Set(u, [kind |-> "orderreceipt", order |-> <<q, 0>>])
  /\ UNCHANGED <<now, enabled, plans, quotes, topups, services>>

SendOrderReceipt(u, t) ==
  LET o == users[u].state.order IN
  /\ ~users[u].blocked /\ users[u].state.kind = "orderreceipt"
  /\ orders[o].user = u /\ orders[o].status = "awaiting_receipt"
  /\ topups[t] = NoTopup
  /\ topups' = [topups EXCEPT ![t] = [user |-> u, amount |-> orders[o].price,
                                      status |-> "pending", order |-> o]]
  /\ orders' = [orders EXCEPT ![o].status = "receipt_review"]
  /\ Set(u, Idle)
  /\ UNCHANGED <<now, enabled, plans, coupons, redeemed, quotes, services, money_vars>>

AskTopup(u) ==
  /\ ~users[u].blocked /\ {"wallet", "card"} \subseteq enabled
  /\ Set(u, [kind |-> "wallet_amount"])
  /\ UNCHANGED <<now, enabled, shop_vars, money_vars>>

EnterAmount(u, amount) ==
  /\ ~users[u].blocked /\ {"wallet", "card"} \subseteq enabled
  /\ users[u].state.kind = "wallet_amount"
  /\ Set(u, [kind |-> "wallet_method", amount |-> amount])
  /\ UNCHANGED <<now, enabled, shop_vars, money_vars>>

WalletCard(u) ==
  /\ ~users[u].blocked /\ {"wallet", "card"} \subseteq enabled
  /\ users[u].state.kind = "wallet_method"
  /\ Set(u, [kind |-> "receipt", amount |-> users[u].state.amount])
  /\ UNCHANGED <<now, enabled, shop_vars, money_vars>>

SendReceipt(u, t) ==
  /\ ~users[u].blocked /\ {"wallet", "card"} \subseteq enabled
  /\ users[u].state.kind = "receipt"
  /\ topups[t] = NoTopup
  /\ topups' = [topups EXCEPT ![t] = [user |-> u, amount |-> users[u].state.amount,
                                      status |-> "pending", order |-> None]]
  /\ Set(u, Idle)
  /\ UNCHANGED <<now, enabled, plans, coupons, redeemed, quotes, orders, services,
                 money_vars>>

AskTransfer(u) ==
  /\ ~users[u].blocked /\ "transfer" \in enabled
  /\ Set(u, [kind |-> "transfer"])
  /\ UNCHANGED <<now, enabled, shop_vars, money_vars>>

\* An update is handled once, so its transfer id is fresh (UpdateQueue).
Transfer(u, target, amount, id) ==
  /\ ~users[u].blocked /\ users[u].state.kind = "transfer" /\ "transfer" \in enabled
  /\ target # u /\ \A e \in ledger : e.ref # <<"transfer", id, "out">>
  /\ balance[u] >= amount
  /\ balance' = [balance EXCEPT ![u] = @ - amount, ![target] = @ + amount]
  /\ ledger' = ledger \cup {[ref |-> <<"transfer", id, "out">>, user |-> u, amount |-> -amount],
                            [ref |-> <<"transfer", id, "in">>, user |-> target, amount |-> amount]}
  /\ Set(u, Idle)
  /\ UNCHANGED <<now, enabled, shop_vars>>

\* The one free trial of a user; it holds a place of its plan.
TakeTrial(u, p) ==
  LET o == <<"trial", u>> IN
  /\ ~users[u].blocked /\ "trial" \in enabled /\ ~Exists(o)
  /\ plans[p].status = "active" /\ plans[p].is_trial
  /\ plans[p].capacity > 0 => Cardinality(Sold(p)) < plans[p].capacity
  /\ orders' = [orders EXCEPT ![o] = [user |-> u, plan |-> p, price |-> 0, status |-> "paid",
                                      service |-> o, renew |-> None, coupon |-> None]]
  /\ Set(u, Idle)
  /\ UNCHANGED <<now, enabled, plans, coupons, redeemed, quotes, topups, services,
                 money_vars>>

DeleteService(u, s) ==
  /\ ~users[u].blocked /\ "self_delete" \in enabled
  /\ services[s].user = u /\ services[s].status = "active"
  /\ services' = [services EXCEPT ![s].status = "deleted"]
  /\ UNCHANGED <<now, enabled, users, plans, coupons, redeemed, quotes, orders, topups,
                 money_vars>>

-----------------------------------------------------------------------------
(* Administrators, in the web panel or in the bot *)

\* A receipt is decided once.  A linked receipt settles its order and leaves
\* the wallet alone; any other receipt fills the wallet.
DecideReceipt(t, approve) ==
  LET r == topups[t] IN
  /\ r.status = "pending"
  /\ topups' = [topups EXCEPT ![t].status = IF approve THEN "approved" ELSE "rejected"]
  /\ IF r.order # None
     THEN /\ orders[r.order].status = "receipt_review"
          /\ orders[r.order].price = r.amount /\ orders[r.order].user = r.user
          /\ orders' = [orders EXCEPT ![r.order].status = IF approve THEN "paid" ELSE "cancelled"]
          /\ IF approve THEN UNCHANGED <<redeemed, coupons>> ELSE RestoreCoupon(r.order)
          /\ UNCHANGED money_vars
     ELSE /\ IF approve THEN Money(r.user, r.amount, <<"topup", t>>) ELSE UNCHANGED money_vars
          /\ UNCHANGED <<orders, redeemed, coupons>>
  /\ UNCHANGED <<now, enabled, plans, users, quotes, services>>

\* Mutants of CancelOrder: the linked receipt stays pending; paid orders are
\* cancelled too, without a refund.
CancelOrderKeepsReceipt(o) ==
  /\ orders[o].status \in {"awaiting_receipt", "receipt_review"}
  /\ RestoreCoupon(o)
  /\ orders' = [orders EXCEPT ![o].status = "cancelled"]
  /\ UNCHANGED <<now, enabled, plans, users, quotes, topups, services, money_vars>>
CancelOrderPaid(o) ==
  /\ orders[o].status \in Open
  /\ RestoreCoupon(o)
  /\ orders' = [orders EXCEPT ![o].status = "cancelled"]
  /\ UNCHANGED <<now, enabled, plans, users, quotes, topups, services, money_vars>>

CancelOrder(o) ==
  /\ orders[o].status \in {"awaiting_receipt", "receipt_review"}
  /\ RestoreCoupon(o)
  /\ topups' = [t \in TopupIds |-> IF topups[t].order = o /\ topups[t].status = "pending"
                                   THEN [topups[t] EXCEPT !.status = "rejected"] ELSE topups[t]]
  /\ orders' = [orders EXCEPT ![o].status = "cancelled"]
  /\ UNCHANGED <<now, enabled, plans, users, quotes, services, money_vars>>

\* Mutant of RetryOrder: the status of the order is not compared.
RetryOrderAny(o) ==
  /\ Exists(o) /\ orders' = [orders EXCEPT ![o].status = "paid"]
  /\ UNCHANGED <<now, enabled, plans, users, coupons, redeemed, quotes, topups, services,
                 money_vars>>

RetryOrder(o) ==
  /\ orders[o].status = "review"
  /\ orders' = [orders EXCEPT ![o].status = "paid"]
  /\ UNCHANGED <<now, enabled, plans, users, coupons, redeemed, quotes, topups, services,
                 money_vars>>

Credit(u, amount, ref) ==
  /\ Money(u, amount, <<"admin", ref>>)
  /\ UNCHANGED <<now, enabled, users, shop_vars>>

SaveCoupon(c, terms) ==
  /\ coupons' = [coupons EXCEPT ![c] = terms]
  /\ UNCHANGED <<now, enabled, plans, users, redeemed, quotes, orders, topups, services,
                 money_vars>>

\* An active trial plan switches the trial menu on.
TrialMenu(plan) ==
  enabled' = IF plan.is_trial /\ plan.status = "active" THEN enabled \cup {"trial"} ELSE enabled

SavePlan(p, price, capacity, active, is_trial) ==
  LET plan == [status |-> IF active THEN "active" ELSE "inactive",
               price |-> IF is_trial THEN 0 ELSE price,
               capacity |-> capacity, is_trial |-> is_trial]
  IN /\ plans[p].status # "none" =>
          /\ plans[p].is_trial # is_trial => ~HasHistory(p)
          /\ capacity > 0 => Cardinality(Sold(p)) <= capacity
     /\ plans' = [plans EXCEPT ![p] = plan]
     /\ TrialMenu(plan)
     /\ UNCHANGED <<now, users, coupons, redeemed, quotes, orders, topups, services,
                    money_vars>>

TogglePlan(p, active) ==
  LET plan == [plans[p] EXCEPT !.status = IF active THEN "active" ELSE "inactive"]
  IN /\ plans[p].status # "none"
     /\ plans' = [plans EXCEPT ![p] = plan]
     /\ TrialMenu(plan)
     /\ UNCHANGED <<now, users, coupons, redeemed, quotes, orders, topups, services,
                    money_vars>>

DeletePlan(p) ==
  /\ plans[p].status # "none" /\ ~HasHistory(p)
  /\ plans' = [plans EXCEPT ![p] = NoPlan]
  /\ quotes' = [q \in QuoteIds |-> IF quotes[q].plan = p THEN NoQuote ELSE quotes[q]]
  /\ UNCHANGED <<now, enabled, users, coupons, redeemed, orders, topups, services,
                 money_vars>>

SetUser(u, blocked, reseller) ==
  /\ users' = [users EXCEPT ![u].blocked = blocked, ![u].reseller = reseller]
  /\ UNCHANGED <<now, enabled, shop_vars, money_vars>>

ToggleSetting(f) ==
  /\ enabled' = IF f \in enabled THEN enabled \ {f} ELSE enabled \cup {f}
  /\ UNCHANGED <<now, users, shop_vars, money_vars>>

-----------------------------------------------------------------------------
(* The provisioning loop of the worker, seen from the shop *)

Fulfil(o) ==
  LET r == orders[o]
      inviter == Referrer[r.user]
  IN /\ r.status \in {"paid", "review"}
     /\ services' = [services EXCEPT ![r.service] =
                       [user |-> r.user, plan |-> r.plan, status |-> "active"]]
     /\ orders' = [orders EXCEPT ![o].status = "fulfilled"]
     /\ IF "referrals" \in enabled /\ inviter # None /\ r.price > 0
        THEN Money(inviter, (r.price * Commission) \div 100, <<"commission", o>>)
        ELSE UNCHANGED money_vars
     /\ UNCHANGED <<now, enabled, plans, users, coupons, redeemed, quotes, topups>>

FailProvision(o) ==
  /\ orders[o].status \in {"paid", "review"}
  /\ orders' = [orders EXCEPT ![o].status = "review"]
  /\ UNCHANGED <<now, enabled, plans, users, coupons, redeemed, quotes, topups, services,
                 money_vars>>

Tick ==
  /\ now < MaxTime /\ now' = now + 1
  /\ UNCHANGED <<enabled, users, shop_vars, money_vars>>

-----------------------------------------------------------------------------
BuyerNext ==
  \E u \in Users :
    \/ Home(u) \/ AskCoupon(u) \/ AskTopup(u) \/ WalletCard(u) \/ AskTransfer(u)
    \/ \E c \in Codes : EnterCoupon(u, c)
    \/ \E p \in Plans, qty \in 1 .. MaxQty : ChoosePlan(u, p, qty)
    \/ \E q \in QuoteIds : NamePlan(u, q) \/ Buy(u, q) \/ CardBuy(u, q)
    \/ \E s \in ServiceIds, q \in QuoteIds : AskRenewal(u, s, q)
    \/ \E t \in TopupIds : SendOrderReceipt(u, t) \/ SendReceipt(u, t)
    \/ \E a \in Amounts : EnterAmount(u, a)
    \/ \E v \in Users, a \in Amounts, id \in TransferIds : Transfer(u, v, a, id)
    \/ \E p \in Plans : TakeTrial(u, p)
    \/ \E s \in ServiceIds : DeleteService(u, s)

AdminNext ==
  \/ \E t \in TopupIds, approve \in BOOLEAN : DecideReceipt(t, approve)
  \/ \E o \in OrderIds : CancelOrder(o) \/ RetryOrder(o)
  \/ \E u \in Users, a \in Amounts, ref \in CreditRefs : Credit(u, a, ref) \/ Credit(u, -a, ref)
  \/ \E c \in Codes, terms \in CouponTerms : SaveCoupon(c, terms)
  \/ \E p \in Edited, price \in Prices, cap \in Capacities, active, trial \in BOOLEAN :
       SavePlan(p, price, cap, active, trial)
  \/ \E p \in Edited, active \in BOOLEAN : TogglePlan(p, active)
  \/ \E p \in Edited : DeletePlan(p)
  \/ \E u \in Managed, blocked, reseller \in BOOLEAN : SetUser(u, blocked, reseller)
  \/ \E f \in Toggleable : ToggleSetting(f)

WorkerNext == \E o \in OrderIds : Fulfil(o) \/ FailProvision(o)

Next == BuyerNext \/ AdminNext \/ WorkerNext \/ Tick

Spec == Init /\ [][Next]_vars

-----------------------------------------------------------------------------
(* Properties *)

\* The tables hold rows of their types: in particular no balance, no price
\* and no number of uses left of a coupon is ever negative.
TypeOK ==
  /\ now \in 1 .. MaxTime + 1 /\ enabled \subseteq Features
  /\ plans \in [Plans -> Plan] /\ users \in [Users -> User]
  /\ coupons \in [Codes -> [percent : Percent, credit : Nat, uses : Nat, expires : Nat]]
  /\ redeemed \subseteq Codes \X Users
  /\ quotes \in [QuoteIds -> Quote] /\ orders \in [OrderIds -> Order]
  /\ topups \in [TopupIds -> Topup] /\ services \in [ServiceIds -> Service]
  /\ balance \in [Users -> Nat]
  /\ ledger \subseteq [ref : References, user : Users, amount : Int]

\* A reference is posted once: nothing is paid, gifted or transferred twice
\* when its request is repeated (money, sales.py:191).
PostedOnce == \A d, e \in ledger : d.ref = e.ref => d = e

Posted(u) ==
  SumFunctionOnSet([e \in ledger |-> e.amount], {e \in ledger : e.user = u})

\* The wallet of a user is the sum of the user's ledger, and a reference is
\* posted once: no path pays, refunds, gifts or transfers outside the ledger
\* or twice (money, sales.py:191).
BalanceIsLedger == (\A u \in Users : balance[u] = Posted(u)) /\ PostedOnce

Debited(o) == \E e \in ledger : e.ref = <<"debit", o>>
ReceiptApproved(o) == \E t \in TopupIds : topups[t].order = o /\ topups[t].status = "approved"
Settled(o) == orders[o].status \in {"paid", "review", "fulfilled"}

\* An order is worked on exactly when it has been paid for: by a wallet debit
\* of its price, by an approved receipt over its price, or as the one free
\* trial; never from two of these sources, and a cancelled order by none.
PaidFromOneSource ==
  \A o \in OrderIds :
    /\ Settled(o) <=> Debited(o) \/ ReceiptApproved(o) \/ (o[1] = "trial" /\ Exists(o))
    /\ ~(Debited(o) /\ ReceiptApproved(o))
    /\ \A e \in ledger : e.ref = <<"debit", o>> =>
         e.user = orders[o].user /\ e.amount = -orders[o].price
    /\ \A t \in TopupIds : topups[t].order = o =>
         topups[t].user = orders[o].user /\ topups[t].amount = orders[o].price

\* An order waits for a decision exactly when one pending receipt is linked to
\* it: a decision or a cancellation never leaves one of the two behind, and an
\* order has at most one receipt (decide_receipt, cancel_order, orderreceipt).
ReceiptMatchesOrder ==
  \A o \in OrderIds :
    /\ (orders[o].status = "receipt_review") <=>
         \E t \in TopupIds : topups[t].order = o /\ topups[t].status = "pending"
    /\ \A s, t \in TopupIds : topups[s].order = o /\ topups[t].order = o => s = t

Holders(c) == {o \in OrderIds : Live(o) /\ orders[o].coupon = c}

\* A coupon a living order was discounted by is marked as redeemed by its
\* buyer and discounts no other living order of that buyer, whatever orders
\* were cancelled or rejected before (order, restore_reserved_coupon).
CouponHeldOnce ==
  \A c \in Codes : \A o \in Holders(c) :
    /\ <<c, orders[o].user>> \in redeemed
    /\ \A p \in Holders(c) : orders[p].user = orders[o].user => p = o

RedeemedBy(c) == {u \in Users : <<c, u>> \in redeemed}

\* The uses left of a coupon and the users who redeemed it move together:
\* only an administrator who saves the coupon changes their sum.
CouponConserved ==
  [][\A c \in Codes :
       \/ coupons'[c].uses + Cardinality(RedeemedBy(c)') = coupons[c].uses + Cardinality(RedeemedBy(c))
       \/ \E terms \in CouponTerms : SaveCoupon(c, terms)]_vars

\* Through rejections and cancellations, by buyers and administrators, a coupon
\* discounts one living order of a buyer, and no use of it is lost or gained.
CouponsAccounted == []CouponHeldOnce /\ CouponConserved

\* A plan never sells more places than it has, through bulk purchases, card
\* orders, cancellations, trials and later edits of the plan by administrators.
CapacityRespected ==
  \A p \in Plans : plans[p].capacity > 0 => Cardinality(Sold(p)) <= plans[p].capacity

\* A service has at most one order in progress, and every order that renews it
\* is an order of its owner (order, sales.py:506-508).
OneOrderPerService ==
  \A s \in ServiceIds :
    /\ Cardinality(OpenRenewals(s)) <= 1
    /\ \A o \in OrderIds : Exists(o) /\ orders[o].service = s /\ services[s].status # "none" =>
         orders[o].user = services[s].user

\* What order checks before it takes an order stays true afterwards, whatever is
\* edited, hidden, deleted or paid twice: places of plans and one renewal a time.
PlacesKept == CapacityRespected /\ OneOrderPerService

\* The buyer pays no more than the price the quote showed, although the plan,
\* the coupons and the settings are edited while the quote is open.
PriceAsQuoted ==
  \A q \in QuoteIds, i \in 0 .. MaxQty - 1 :
    Exists(<<q, i>>) => orders[<<q, i>>].price <= quotes[q].snapshot.price

\* Sales keeps the promise of SaleContract about every order.
Phase(o) ==
  CASE orders[o].status = "none" -> "none"
    [] orders[o].status \in {"awaiting_receipt", "receipt_review"} -> "held"
    [] orders[o].status \in {"paid", "review"} -> "settled"
    [] orders[o].status = "fulfilled" -> "delivered"
    [] OTHER -> "void"
SourceOf(o) ==
  {s \in {"wallet", "receipt", "free"} :
     \/ s = "wallet" /\ Debited(o)
     \/ s = "receipt" /\ ReceiptApproved(o)
     \/ s = "free" /\ o[1] = "trial" /\ Exists(o)}
Contract == INSTANCE SaleContract WITH
  Orders <- OrderIds, Sources <- {"wallet", "receipt", "free"},
  phase <- [o \in OrderIds |-> Phase(o)], source <- [o \in OrderIds |-> SourceOf(o)]

\* Every order is settled once from one source, and only settled orders are
\* delivered: the shop implements SaleContract.
KeepsContract == Contract!Spec
=============================================================================
