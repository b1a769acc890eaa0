---------------------------- MODULE SalesProofs ----------------------------
(***************************************************************************)
(* The shop for every number of users, plans, quotes, coupons and          *)
(* receipts: its tables keep their types (TypeOK), every order is paid for *)
(* from exactly one source (PaidFromOneSource) and agrees with its receipt *)
(* (ReceiptMatchesOrder), and the shop implements SaleContract             *)
(* (KeepsContract).  What an order was promised stays true afterwards:     *)
(* nobody pays more than the quote showed (PriceAsQuoted), a coupon        *)
(* discounts one living order of a buyer and none of its uses is lost      *)
(* (CouponsAccounted), plans sell no more places than they have and a      *)
(* service has one order in progress (PlacesKept); and every wallet is the *)
(* sum of its ledger (BalanceIsLedger).                                    *)
(*                                                                         *)
(* Prices, coupons and places speak of what the tables say of each other,  *)
(* so the steps of the shop are first put into the few forms in which they *)
(* change tables (TableSteps), and for the wallets into those in which     *)
(* they move money (MoneySteps); each part of the invariant is then shown  *)
(* against these forms.                                                    *)
(***************************************************************************)
EXTENDS Sales, Sums

\* Rows that exist name a user, a plan and a service.
RowsFilled ==
  /\ \A q \in QuoteIds : quotes[q].user # None => quotes[q].plan \in Plans
  /\ \A o \in OrderIds : Exists(o) =>
       orders[o].user \in Users /\ orders[o].plan \in Plans /\ orders[o].service \in ServiceIds
  /\ \A t \in TopupIds : topups[t].status # "none" => topups[t].user \in Users
  /\ \A s \in ServiceIds : services[s].status # "none" => services[s].plan \in Plans

TypeInv == TypeOK /\ RowsFilled

-----------------------------------------------------------------------------
\* A percentage off a price leaves a natural number (Cut).
LEMMA CutType ==
  ASSUME NEW price \in Nat, NEW percent \in Percent
  PROVE  Cut(price, percent) \in Nat
<1>1. 100 - percent \in Nat
  BY DEF Percent
<1>2. price * (100 - percent) \in Nat
  BY <1>1
<1> QED
  BY <1>2 DEF Cut

\* Rows are what their types say: the forms in which the proofs use them.
LEMMA StateFacts ==
  ASSUME NEW st \in States
  PROVE  /\ st.kind = "coupon" => st.code \in Codes
         /\ st.kind = "planname" => st.plan \in Plans /\ st.qty \in 1 .. MaxQty
                                    /\ st.code \in Codes \cup {None}
         /\ st.kind = "orderreceipt" => st.order \in OrderIds
         /\ st.kind \in {"wallet_method", "receipt"} => st.amount \in Nat
BY DEF States, Idle

LEMMA StateTypes ==
  /\ Idle \in States
  /\ [kind |-> "coupon_prompt"] \in States /\ [kind |-> "transfer"] \in States
  /\ [kind |-> "wallet_amount"] \in States
  /\ \A c \in Codes : [kind |-> "coupon", code |-> c] \in States
  /\ \A p \in Plans, n \in 1 .. MaxQty, c \in Codes \cup {None} :
       [kind |-> "planname", plan |-> p, qty |-> n, code |-> c] \in States
  /\ \A o \in OrderIds : [kind |-> "orderreceipt", order |-> o] \in States
  /\ \A a \in Nat : [kind |-> "wallet_method", amount |-> a] \in States
                    /\ [kind |-> "receipt", amount |-> a] \in States
BY DEF States, Idle

\* The prompt of a user can be set to any state (Set).
LEMMA SetType ==
  ASSUME users \in [Users -> User], NEW u \in Users, NEW st \in States, Set(u, st)
  PROVE  users' \in [Users -> User]
BY DEF Set, User

\* A call of money keeps balances natural and the ledger typed (Money).
LEMMA MoneyType ==
  ASSUME TypeOK, NEW u \in Users, NEW amount \in Int, NEW ref \in References,
         Money(u, amount, ref)
  PROVE  /\ balance' \in [Users -> Nat]
         /\ ledger' \subseteq [ref : References, user : Users, amount : Int]
<1> USE DEF TypeOK
<1>1. CASE \E e \in ledger : e.ref = ref
  BY <1>1 DEF Money, money_vars
<1>2. CASE ~\E e \in ledger : e.ref = ref
  <2>1. /\ balance[u] + amount >= 0
        /\ balance' = [balance EXCEPT ![u] = @ + amount]
        /\ ledger' = ledger \cup {[ref |-> ref, user |-> u, amount |-> amount]}
    BY <1>2 DEF Money
  <2> QED
    BY <2>1
<1> QED
  BY <1>1, <1>2

CouponRow == [percent : Percent, credit : Nat, uses : Nat, expires : Nat]

LEMMA RedeemType ==
  ASSUME TypeOK, NEW c \in Codes, NEW u \in Users, coupons[c].uses > 0, Redeem(c, u)
  PROVE  redeemed' \subseteq Codes \X Users /\ coupons' \in [Codes -> CouponRow]
<1>1. coupons[c].uses - 1 \in Nat
  BY DEF TypeOK
<1> QED
  BY <1>1 DEF Redeem, TypeOK, CouponRow

LEMMA RestoreType ==
  ASSUME TypeOK, NEW o \in OrderIds, RestoreCoupon(o)
  PROVE  redeemed' \subseteq Codes \X Users /\ coupons' \in [Codes -> CouponRow]
<1> DEFINE c == orders[o].coupon
<1> USE DEF TypeOK, CouponRow
<1>1. c \in Codes \cup {None}
  BY DEF Order
<1>2. CASE UNCHANGED <<redeemed, coupons>>
  BY <1>2
<1>3. CASE /\ c # None
           /\ redeemed' = redeemed \ {<<c, orders[o].user>>}
           /\ coupons' = [coupons EXCEPT ![c].uses = @ + 1]
  <2>1. c \in Codes
    BY <1>1, <1>3
  <2>2. coupons[c].uses + 1 \in Nat
    BY <2>1
  <2> HIDE DEF c
  <2> QED
    BY <1>3, <2>1, <2>2
<1> QED
  BY <1>2, <1>3 DEF RestoreCoupon

\* The coupon an order takes is one that has uses left (AppliedCoupon).
LEMMA AppliedCouponType ==
  ASSUME TypeOK, NEW u \in Users
  PROVE  /\ AppliedCoupon(u) \in Codes \cup {None}
         /\ AppliedCoupon(u) # None => coupons[AppliedCoupon(u)].uses > 0
                                       /\ AppliedCoupon(u) \in Codes
<1>1. users[u].state \in States
  BY DEF TypeOK, User
<1>2. users[u].state.kind = "coupon" => users[u].state.code \in Codes
  BY <1>1, StateFacts
<1> QED
  BY <1>2 DEF AppliedCoupon, Redeemable

\* What an order costs is a natural number (OrderPrice).
LEMMA OrderPriceType ==
  ASSUME TypeOK, NEW u \in Users, NEW p \in Plans, NEW i
  PROVE  OrderPrice(u, p, i) \in Nat
<1> DEFINE base == IF users[u].reseller /\ "reseller" \in enabled
                   THEN Cut(plans[p].price, ResellerDiscount) ELSE plans[p].price
<1>1. plans[p].price \in Nat
  BY DEF TypeOK, Plan
<1>2. base \in Nat
  BY <1>1, CutType, SalesAssumption
<1> HIDE DEF base
<1>3. ASSUME AppliedCoupon(u) # None
      PROVE  Cut(base, coupons[AppliedCoupon(u)].percent) \in Nat
  <2>1. AppliedCoupon(u) \in Codes
    BY <1>3, AppliedCouponType
  <2>2. coupons[AppliedCoupon(u)].percent \in Percent
    BY <2>1 DEF TypeOK
  <2> QED
    BY <1>2, <2>2, CutType
<1>4. OrderPrice(u, p, i) = IF i = 0 /\ AppliedCoupon(u) # None
                            THEN Cut(base, coupons[AppliedCoupon(u)].percent) ELSE base
  BY DEF OrderPrice, base
<1> QED
  BY <1>2, <1>3, <1>4

\* The rows written by a purchase are typed and filled (PlaceOrders).
LEMMA PlaceOrdersType ==
  ASSUME TypeInv, NEW u \in Users, NEW q \in QuoteIds, NEW card \in BOOLEAN,
         quotes[q].user = u, PlaceOrders(u, q, card)
  PROVE  /\ orders' \in [OrderIds -> Order]
         /\ \A o \in OrderIds : orders'[o].status # "none" =>
              orders'[o].user \in Users /\ orders'[o].plan \in Plans
              /\ orders'[o].service \in ServiceIds
         /\ redeemed' \subseteq Codes \X Users /\ coupons' \in [Codes -> CouponRow]
         /\ balance' \in [Users -> Nat]
         /\ ledger' \subseteq [ref : References, user : Users, amount : Int]
<1> DEFINE Q == quotes[q]
           coupon == AppliedCoupon(u)
           total == Total(u, Q.plan, Q.qty)
           New(i) == [user |-> u, plan |-> Q.plan, price |-> OrderPrice(u, Q.plan, i),
                      status |-> IF card THEN "awaiting_receipt" ELSE "paid",
                      service |-> IF Q.renew # None THEN Q.renew ELSE <<q, i>>,
                      renew |-> Q.renew, coupon |-> IF i = 0 THEN coupon ELSE None]
           placed == {q} \X (0 .. Q.qty - 1)
<1>1. /\ Q.plan \in Plans /\ Q.qty \in 1 .. MaxQty /\ Q.renew \in ServiceIds \cup {None}
      /\ Q \in Quote
  <2>1. Q \in Quote
    BY DEF TypeInv, TypeOK
  <2>2. Q.user # None
    BY SalesAssumption
  <2> QED
    BY <2>1, <2>2 DEF Quote, TypeInv, RowsFilled
<1>2. coupon \in Codes \cup {None}
  BY AppliedCouponType DEF TypeInv
<1>3. \A i : OrderPrice(u, Q.plan, i) \in Nat
  BY <1>1, OrderPriceType DEF TypeInv
<1>4. \A i \in 0 .. Q.qty - 1 : <<q, i>> \in OrderIds
  BY <1>1, SalesAssumption DEF OrderIds
<1>5. \A o \in placed : o \in OrderIds /\ o = <<q, o[2]>> /\ o[2] \in 0 .. Q.qty - 1
  BY <1>4
<1>6. \A o \in placed : New(o[2]) \in Order /\ New(o[2]).service \in ServiceIds
  <2> TAKE o \in placed
  <2>1. OrderPrice(u, Q.plan, o[2]) \in Nat
    BY <1>3
  <2>2. (IF Q.renew # None THEN Q.renew ELSE <<q, o[2]>>) \in ServiceIds
    BY <1>1, <1>5 DEF ServiceIds
  <2>3. (IF o[2] = 0 THEN coupon ELSE None) \in Codes \cup {None}
    BY <1>2
  <2>4. (IF card THEN "awaiting_receipt" ELSE "paid") \in OrderStatus
    BY DEF OrderStatus
  <2> HIDE DEF coupon, Q
  <2> QED
    BY <1>1, <2>1, <2>2, <2>3, <2>4 DEF Order
<1>7. orders' = [o \in OrderIds |-> IF o \in placed THEN New(o[2]) ELSE orders[o]]
  BY DEF PlaceOrders
<1>8. orders \in [OrderIds -> Order]
  BY DEF TypeInv, TypeOK
<1>9. /\ orders' \in [OrderIds -> Order]
      /\ \A o \in OrderIds : orders'[o].status # "none" =>
              orders'[o].user \in Users /\ orders'[o].plan \in Plans
              /\ orders'[o].service \in ServiceIds
  <2>1. \A o \in placed : New(o[2]).user = u /\ New(o[2]).plan = Q.plan
    OBVIOUS
  <2> HIDE DEF New, placed
  <2>2. orders' \in [OrderIds -> Order]
    BY <1>6, <1>7, <1>8
  <2>3. ASSUME NEW o \in OrderIds, orders'[o].status # "none"
        PROVE  orders'[o].user \in Users /\ orders'[o].plan \in Plans
               /\ orders'[o].service \in ServiceIds
    BY <1>1, <1>6, <1>7, <2>1, <2>3 DEF TypeInv, RowsFilled, Exists
  <2> QED
    BY <2>2, <2>3
<1>10. redeemed' \subseteq Codes \X Users /\ coupons' \in [Codes -> CouponRow]
  <2>1. CASE coupon # None
    BY <2>1, AppliedCouponType, RedeemType DEF PlaceOrders, TypeInv
  <2>2. CASE coupon = None
    BY <2>2 DEF PlaceOrders, TypeInv, TypeOK, CouponRow
  <2> QED
    BY <2>1, <2>2
<1>11. /\ balance' \in [Users -> Nat]
       /\ ledger' \subseteq [ref : References, user : Users, amount : Int]
  <2>1. CASE card
    BY <2>1 DEF PlaceOrders, TypeInv, TypeOK, money_vars
  <2>2. CASE ~card
    <3>1. total \in Int
      <4>1. Q.qty - 1 \in Int /\ OrderPrice(u, Q.plan, 0) \in Int
            /\ OrderPrice(u, Q.plan, 1) \in Int
        BY <1>1, <1>3
      <4> HIDE DEF Q
      <4> QED
        BY <4>1 DEF Total
    <3>2. /\ balance[u] >= total /\ balance' = [balance EXCEPT ![u] = @ - total]
          /\ ledger' = ledger \cup {[ref |-> <<"debit", o>>, user |-> u,
                                     amount |-> -OrderPrice(u, Q.plan, o[2])] : o \in placed}
      BY <2>2 DEF PlaceOrders
    <3>3. balance \in [Users -> Nat]
          /\ ledger \subseteq [ref : References, user : Users, amount : Int]
      BY DEF TypeInv, TypeOK
    <3> HIDE DEF total
    <3>4. balance' \in [Users -> Nat]
      BY <3>1, <3>2, <3>3
    <3>5. \A o \in placed : <<"debit", o>> \in References
      BY <1>5 DEF References
    <3>6. \A o \in placed : -OrderPrice(u, Q.plan, o[2]) \in Int
      BY <1>3
    <3> HIDE DEF placed, Q
    <3> QED
      BY <3>2, <3>3, <3>4, <3>5, <3>6
  <2> QED
    BY <2>1, <2>2
<1> QED
  BY <1>9, <1>10, <1>11

-----------------------------------------------------------------------------
\* The initial tables are typed.
LEMMA InitType == Init => TypeInv
BY SalesAssumption, StateTypes
   DEF Init, TypeInv, TypeOK, RowsFilled, Exists, User, Plan, Quote, Order, Topup, Service,
       OrderStatus, NoPlan, NoQuote, NoOrder, NoTopup, NoService, NoCoupon, ServiceIds, Percent

\* A step that only changes prompts, settings or the clock keeps all types.
LEMMA ChatType ==
  ASSUME TypeInv, users' \in [Users -> User], enabled' \subseteq Features,
         now' \in 1 .. MaxTime + 1,
         UNCHANGED <<shop_vars, money_vars>>
  PROVE  TypeInv'
BY DEF TypeInv, TypeOK, RowsFilled, Exists, shop_vars, money_vars

\* Steps of the buyers that write no row.
LEMMA PromptType ==
  ASSUME TypeInv, NEW u \in Users,
         \/ Home(u) \/ AskCoupon(u) \/ AskTopup(u) \/ WalletCard(u) \/ AskTransfer(u)
         \/ \E p \in Plans, qty \in 1 .. MaxQty : ChoosePlan(u, p, qty)
         \/ \E a \in Amounts : EnterAmount(u, a)
  PROVE  TypeInv'
<1>1. /\ users \in [Users -> User] /\ users[u].state \in States
      /\ UNCHANGED <<now, enabled>> => enabled' \subseteq Features /\ now' \in 1 .. MaxTime + 1
  BY DEF TypeInv, TypeOK, User
<1>2. CASE Home(u)
  BY <1>1, <1>2, StateTypes, SetType, ChatType DEF Home
<1>3. CASE AskCoupon(u)
  BY <1>1, <1>3, StateTypes, SetType, ChatType DEF AskCoupon
<1>4. CASE AskTopup(u)
  BY <1>1, <1>4, StateTypes, SetType, ChatType DEF AskTopup
<1>5. CASE WalletCard(u)
  BY <1>1, <1>5, StateTypes, StateFacts, SetType, ChatType DEF WalletCard
<1>6. CASE AskTransfer(u)
  BY <1>1, <1>6, StateTypes, SetType, ChatType DEF AskTransfer
<1>7. ASSUME NEW p \in Plans, NEW qty \in 1 .. MaxQty, ChoosePlan(u, p, qty)
      PROVE  TypeInv'
  <2>1. (IF users[u].state.kind = "coupon" THEN users[u].state.code ELSE None)
          \in Codes \cup {None}
    BY <1>1, StateFacts
  <2>2. users' \in [Users -> User]
    BY <1>1, <1>7, <2>1, StateTypes, SetType DEF ChoosePlan
  <2> QED
    BY <1>1, <1>7, <2>2, ChatType DEF ChoosePlan
<1>8. ASSUME NEW a \in Amounts, EnterAmount(u, a) PROVE TypeInv'
  BY <1>1, <1>8, SalesAssumption, StateTypes, SetType, ChatType DEF EnterAmount
<1> QED
  BY <1>2, <1>3, <1>4, <1>5, <1>6, <1>7, <1>8

\* A quote is written as a filled row (NewQuote).
LEMMA NewQuoteType ==
  ASSUME TypeInv, NEW u \in Users, NEW q \in QuoteIds, NEW p \in Plans,
         NEW renew \in ServiceIds \cup {None}, NEW qty \in 1 .. MaxQty,
         NewQuote(u, q, p, renew, qty)
  PROVE  /\ quotes' \in [QuoteIds -> Quote]
         /\ \A r \in QuoteIds : quotes'[r].user # None => quotes'[r].plan \in Plans
<1>1. /\ plans[p] \in Plan /\ now + QuoteLife \in Nat
      /\ quotes \in [QuoteIds -> Quote]
  BY SalesAssumption DEF TypeInv, TypeOK
<1> DEFINE row == [user |-> u, plan |-> p, snapshot |-> plans[p],
                   renew |-> renew, qty |-> qty, expires |-> now + QuoteLife]
<1>2. row \in Quote /\ row.plan = p
  BY <1>1 DEF Quote
<1>3. quotes' = [quotes EXCEPT ![q] = row]
  BY DEF NewQuote
<1> HIDE DEF row
<1> QED
  BY <1>1, <1>2, <1>3 DEF TypeInv, RowsFilled

\* Steps of the buyers that write quotes, orders, receipts and the wallet.
LEMMA BuyerType ==
  ASSUME TypeInv, BuyerNext
  PROVE  TypeInv'
<1> SUFFICES ASSUME NEW u \in Users,
      \/ Home(u) \/ AskCoupon(u) \/ AskTopup(u) \/ WalletCard(u) \/ AskTransfer(u)
      \/ \E c \in Codes : EnterCoupon(u, c)
      \/ \E p \in Plans, qty \in 1 .. MaxQty : ChoosePlan(u, p, qty)
      \/ \E q \in QuoteIds : NamePlan(u, q) \/ Buy(u, q) \/ CardBuy(u, q)
      \/ \E s \in ServiceIds, q \in QuoteIds : AskRenewal(u, s, q)
      \/ \E t \in TopupIds : SendOrderReceipt(u, t) \/ SendReceipt(u, t)
      \/ \E a \in Amounts : EnterAmount(u, a)
      \/ \E v \in Users, a \in Amounts, id \in TransferIds : Transfer(u, v, a, id)
      \/ \E p \in Plans : TakeTrial(u, p)
      \/ \E s \in ServiceIds : DeleteService(u, s)
    PROVE TypeInv'
  BY DEF BuyerNext
<1>1. /\ users \in [Users -> User] /\ users[u] \in User /\ users[u].state \in States
  BY DEF TypeInv, TypeOK, User
<1>2. /\ users[u].state.kind = "planname" =>
           users[u].state.plan \in Plans /\ users[u].state.qty \in 1 .. MaxQty
           /\ users[u].state.code \in Codes \cup {None}
      /\ users[u].state.kind = "orderreceipt" => users[u].state.order \in OrderIds
      /\ users[u].state.kind = "receipt" => users[u].state.amount \in Nat
  BY <1>1, StateFacts
<1> USE DEF TypeInv, TypeOK, RowsFilled, Exists, money_vars
<1>3. ASSUME NEW c \in Codes, EnterCoupon(u, c) PROVE TypeInv'
  <2>1. users' \in [Users -> User]
    BY <1>1, <1>3, StateTypes, SetType DEF EnterCoupon
  <2>2. CASE coupons[c].credit > 0
    <3>1. /\ Money(u, coupons[c].credit, <<"gift", c, u>>)
          /\ Redeem(c, u) /\ coupons[c].uses > 0 /\ coupons[c].credit \in Int
      BY <1>3, <2>2 DEF EnterCoupon, Redeemable
    <3>2. <<"gift", c, u>> \in References
      BY DEF References
    <3>3. /\ balance' \in [Users -> Nat]
          /\ ledger' \subseteq [ref : References, user : Users, amount : Int]
      BY <3>1, <3>2, MoneyType
    <3>4. redeemed' \subseteq Codes \X Users /\ coupons' \in [Codes -> CouponRow]
      BY <3>1, RedeemType
    <3> QED
      BY <1>3, <2>1, <3>3, <3>4 DEF EnterCoupon, CouponRow
  <2>3. CASE ~(coupons[c].credit > 0)
    BY <1>3, <2>1, <2>3 DEF EnterCoupon
  <2> QED
    BY <2>2, <2>3
<1>4. ASSUME NEW q \in QuoteIds, NamePlan(u, q) PROVE TypeInv'
  <2>1. users[u].state.code # None /\ users[u].state.kind = "planname" => users[u].state.code \in Codes
    BY <1>2
  <2>2. users' \in [Users -> User]
    BY <1>1, <1>4, <2>1, StateTypes, SetType DEF NamePlan
  <2>3. /\ quotes' \in [QuoteIds -> Quote]
        /\ \A r \in QuoteIds : quotes'[r].user # None => quotes'[r].plan \in Plans
    BY <1>2, <1>4, NewQuoteType DEF NamePlan
  <2> QED
    BY <1>4, <2>2, <2>3 DEF NamePlan
<1>5. ASSUME NEW q \in QuoteIds, Buy(u, q) PROVE TypeInv'
  <2>1. quotes[q].user = u
    BY <1>5 DEF Buy, QuoteUsable
  <2>2. CASE UNCHANGED <<users, coupons, redeemed, orders, money_vars>>
    BY <1>5, <2>1, <2>2 DEF Buy
  <2>3. CASE PlaceOrders(u, q, FALSE) /\ Set(u, Idle)
    <3>1. users' \in [Users -> User]
      BY <1>1, <2>3, StateTypes, SetType
    <3>2. /\ orders' \in [OrderIds -> Order]
          /\ \A o \in OrderIds : orders'[o].status # "none" =>
               orders'[o].user \in Users /\ orders'[o].plan \in Plans
               /\ orders'[o].service \in ServiceIds
          /\ redeemed' \subseteq Codes \X Users /\ coupons' \in [Codes -> CouponRow]
          /\ balance' \in [Users -> Nat]
          /\ ledger' \subseteq [ref : References, user : Users, amount : Int]
      BY <2>1, <2>3, PlaceOrdersType
    <3> QED
      BY <1>5, <2>1, <3>1, <3>2 DEF Buy, CouponRow
  <2> QED
    BY <1>5, <2>2, <2>3 DEF Buy
<1>6. ASSUME NEW q \in QuoteIds, CardBuy(u, q) PROVE TypeInv'
  <2>1. quotes[q].user = u
    BY <1>6 DEF CardBuy, QuoteUsable
  <2>2. <<q, 0>> \in OrderIds
    BY SalesAssumption DEF OrderIds
  <2>3. users' \in [Users -> User]
    BY <1>1, <1>6, <2>2, StateTypes, SetType DEF CardBuy
  <2>4. CASE UNCHANGED <<coupons, redeemed, orders, money_vars>>
    BY <1>6, <2>3, <2>4 DEF CardBuy
  <2>5. CASE PlaceOrders(u, q, TRUE)
    <3>2. /\ orders' \in [OrderIds -> Order]
          /\ \A o \in OrderIds : orders'[o].status # "none" =>
               orders'[o].user \in Users /\ orders'[o].plan \in Plans
               /\ orders'[o].service \in ServiceIds
          /\ redeemed' \subseteq Codes \X Users /\ coupons' \in [Codes -> CouponRow]
          /\ balance' \in [Users -> Nat]
          /\ ledger' \subseteq [ref : References, user : Users, amount : Int]
      BY <2>1, <2>5, PlaceOrdersType
    <3> QED
      BY <1>6, <2>3, <3>2 DEF CardBuy, CouponRow
  <2> QED
    BY <1>6, <2>4, <2>5 DEF CardBuy
<1>7. ASSUME NEW s \in ServiceIds, NEW q \in QuoteIds, AskRenewal(u, s, q) PROVE TypeInv'
  <2>1. NewQuote(u, q, services[s].plan, s, 1) /\ services[s].plan \in Plans
    BY <1>7 DEF AskRenewal
  <2>2. s \in ServiceIds \cup {None} /\ 1 \in 1 .. MaxQty
    BY SalesAssumption
  <2>3. /\ quotes' \in [QuoteIds -> Quote]
        /\ \A r \in QuoteIds : quotes'[r].user # None => quotes'[r].plan \in Plans
    BY <2>1, <2>2, NewQuoteType
  <2> QED
    BY <1>7, <2>3 DEF AskRenewal
<1>8. ASSUME NEW t \in TopupIds, SendOrderReceipt(u, t) PROVE TypeInv'
  <2> DEFINE o == users[u].state.order
  <2>1. o \in OrderIds
    BY <1>2, <1>8 DEF SendOrderReceipt
  <2>2. users' \in [Users -> User]
    BY <1>1, <1>8, StateTypes, SetType DEF SendOrderReceipt
  <2>3. /\ topups' = [topups EXCEPT ![t] = [user |-> u, amount |-> orders[o].price,
                                            status |-> "pending", order |-> o]]
        /\ orders' = [orders EXCEPT ![o].status = "receipt_review"]
        /\ orders[o].status = "awaiting_receipt"
    BY <1>8 DEF SendOrderReceipt
  <2> HIDE DEF o
  <2>4. orders[o].price \in Nat /\ orders[o] \in Order
    BY <2>1 DEF Order
  <2>5. [user |-> u, amount |-> orders[o].price, status |-> "pending", order |-> o] \in Topup
    BY <2>1, <2>4 DEF Topup
  <2>6. /\ topups' \in [TopupIds -> Topup]
        /\ \A r \in TopupIds : topups'[r].status # "none" => topups'[r].user \in Users
    BY <2>3, <2>5
  <2>7. /\ orders' \in [OrderIds -> Order]
        /\ \A r \in OrderIds : orders'[r].status # "none" =>
             orders'[r].user \in Users /\ orders'[r].plan \in Plans
             /\ orders'[r].service \in ServiceIds
    BY <2>1, <2>3, <2>4 DEF Order, OrderStatus
  <2> QED
    BY <1>8, <2>2, <2>6, <2>7 DEF SendOrderReceipt
<1>9. ASSUME NEW t \in TopupIds, SendReceipt(u, t) PROVE TypeInv'
  <2>1. users[u].state.amount \in Nat
    BY <1>2, <1>9 DEF SendReceipt
  <2>2. users' \in [Users -> User]
    BY <1>1, <1>9, StateTypes, SetType DEF SendReceipt
  <2>3. /\ topups' \in [TopupIds -> Topup]
        /\ \A r \in TopupIds : topups'[r].status # "none" => topups'[r].user \in Users
    BY <1>9, <2>1 DEF SendReceipt, Topup
  <2> QED
    BY <1>9, <2>2, <2>3 DEF SendReceipt
<1>10. ASSUME NEW v \in Users, NEW a \in Amounts, NEW id \in TransferIds, Transfer(u, v, a, id)
       PROVE  TypeInv'
  <2>1. a \in Nat /\ balance[u] - a \in Nat /\ u # v
    BY <1>10, SalesAssumption DEF Transfer
  <2>2. users' \in [Users -> User]
    BY <1>1, <1>10, StateTypes, SetType DEF Transfer
  <2>3. balance' \in [Users -> Nat]
    BY <1>10, <2>1 DEF Transfer
  <2>4. <<"transfer", id, "out">> \in References /\ <<"transfer", id, "in">> \in References
    BY DEF References
  <2>5. ledger' \subseteq [ref : References, user : Users, amount : Int]
    <3> DEFINE paid == [ref |-> <<"transfer", id, "out">>, user |-> u, amount |-> -a]
               got == [ref |-> <<"transfer", id, "in">>, user |-> v, amount |-> a]
    <3>1. {paid, got} \subseteq [ref : References, user : Users, amount : Int]
      BY <2>1, <2>4
    <3>2. ledger' = ledger \cup {paid, got}
      BY <1>10 DEF Transfer
    <3> HIDE DEF paid, got
    <3> QED
      BY <3>1, <3>2
  <2> QED
    BY <1>10, <2>2, <2>3, <2>5 DEF Transfer, shop_vars
<1>11. ASSUME NEW p \in Plans, TakeTrial(u, p) PROVE TypeInv'
  <2> DEFINE o == <<"trial", u>>
             row == [user |-> u, plan |-> p, price |-> 0, status |-> "paid",
                     service |-> o, renew |-> None, coupon |-> None]
  <2>1. o \in OrderIds
    BY DEF OrderIds
  <2>2. row \in Order
    BY <2>1 DEF Order, OrderStatus, ServiceIds
  <2>3. users' \in [Users -> User]
    BY <1>1, <1>11, StateTypes, SetType DEF TakeTrial
  <2>4. orders' = [orders EXCEPT ![o] = row]
    BY <1>11 DEF TakeTrial
  <2>5. row.user = u /\ row.plan = p /\ row.service \in ServiceIds
    BY <2>1 DEF ServiceIds
  <2> HIDE DEF row, o
  <2>6. /\ orders' \in [OrderIds -> Order]
        /\ \A r \in OrderIds : orders'[r].status # "none" =>
             orders'[r].user \in Users /\ orders'[r].plan \in Plans
             /\ orders'[r].service \in ServiceIds
    BY <2>1, <2>2, <2>4, <2>5
  <2> QED
    BY <1>11, <2>3, <2>6 DEF TakeTrial
<1>12. ASSUME NEW s \in ServiceIds, DeleteService(u, s) PROVE TypeInv'
  BY <1>12 DEF DeleteService, Service
<1> QED
  BY <1>3, <1>4, <1>5, <1>6, <1>7, <1>8, <1>9, <1>10, <1>11, <1>12, PromptType

-----------------------------------------------------------------------------
\* An order that only takes another status keeps its user, its plan and its service.
LEMMA RestatusType ==
  ASSUME TypeInv, NEW o \in OrderIds, NEW s \in OrderStatus,
         orders[o].status # "none", orders' = [orders EXCEPT ![o].status = s]
  PROVE  /\ orders' \in [OrderIds -> Order]
         /\ \A x \in OrderIds : orders'[x].status # "none" =>
              orders'[x].user \in Users /\ orders'[x].plan \in Plans
              /\ orders'[x].service \in ServiceIds
<1>1. PICK row : row = [orders[o] EXCEPT !.status = s]
  OBVIOUS
<1>2. /\ orders \in [OrderIds -> Order]
      /\ \A x \in OrderIds : orders[x].status # "none" =>
           orders[x].user \in Users /\ orders[x].plan \in Plans
           /\ orders[x].service \in ServiceIds
  BY DEF TypeInv, TypeOK, RowsFilled, Exists
<1>3. orders[o] \in Order
  BY <1>2
<1>4. /\ row \in Order /\ row.status = s /\ row.user = orders[o].user
      /\ row.plan = orders[o].plan /\ row.service = orders[o].service
  BY <1>1, <1>3 DEF Order
<1>5. orders' = [orders EXCEPT ![o] = row]
  BY <1>1
<1> QED
  BY <1>2, <1>4, <1>5

\* Steps of administrators.
LEMMA AdminType ==
  ASSUME TypeInv, AdminNext
  PROVE  TypeInv'
<1> USE DEF TypeInv, TypeOK, RowsFilled, Exists, money_vars, shop_vars
<1>1. ASSUME NEW t \in TopupIds, NEW approve \in BOOLEAN, DecideReceipt(t, approve)
      PROVE  TypeInv'
  <2> DEFINE r == topups[t]
  <2>1. /\ r \in Topup /\ r.user \in Users /\ r.amount \in Int
        /\ r.order \in OrderIds \cup {None}
    BY <1>1 DEF DecideReceipt, Topup
  <2>2. /\ topups' \in [TopupIds -> Topup]
        /\ \A x \in TopupIds : topups'[x].status # "none" => topups'[x].user \in Users
    BY <1>1, <2>1 DEF DecideReceipt, Topup
  <2>3. CASE r.order # None
    <3>1. r.order \in OrderIds /\ orders[r.order].status = "receipt_review"
          /\ orders[r.order] \in Order
      BY <1>1, <2>1, <2>3 DEF DecideReceipt
    <3>2. orders' = [orders EXCEPT ![r.order].status = IF approve THEN "paid" ELSE "cancelled"]
          /\ UNCHANGED <<balance, ledger>>
          /\ IF approve THEN UNCHANGED <<redeemed, coupons>> ELSE RestoreCoupon(r.order)
      BY <1>1, <2>3 DEF DecideReceipt
    <3> HIDE DEF r
    <3>3. /\ orders' \in [OrderIds -> Order]
          /\ \A x \in OrderIds : orders'[x].status # "none" =>
               orders'[x].user \in Users /\ orders'[x].plan \in Plans
               /\ orders'[x].service \in ServiceIds
      BY <3>1, <3>2 DEF Order, OrderStatus
    <3>4. redeemed' \subseteq Codes \X Users /\ coupons' \in [Codes -> CouponRow]
      BY <3>1, <3>2, RestoreType DEF CouponRow
    <3> QED
      BY <1>1, <2>2, <3>2, <3>3, <3>4 DEF DecideReceipt, CouponRow
  <2>4. CASE r.order = None
    <3>1. <<"topup", t>> \in References
      BY DEF References
    <3>2. /\ balance' \in [Users -> Nat]
          /\ ledger' \subseteq [ref : References, user : Users, amount : Int]
      <4>1. CASE approve
        BY <1>1, <2>1, <2>4, <3>1, <4>1, MoneyType DEF DecideReceipt
      <4>2. CASE ~approve
        BY <1>1, <2>4, <4>2 DEF DecideReceipt
      <4> QED
        BY <4>1, <4>2
    <3> QED
      BY <1>1, <2>2, <2>4, <3>2 DEF DecideReceipt
  <2> QED
    BY <2>3, <2>4
<1>2. ASSUME NEW o \in OrderIds, CancelOrder(o) PROVE TypeInv'
  <2>1. redeemed' \subseteq Codes \X Users /\ coupons' \in [Codes -> CouponRow]
    BY <1>2, RestoreType DEF CancelOrder
  <2>2. /\ topups' \in [TopupIds -> Topup]
        /\ \A x \in TopupIds : topups'[x].status # "none" => topups'[x].user \in Users
    BY <1>2 DEF CancelOrder, Topup
  <2>3. /\ orders' \in [OrderIds -> Order]
        /\ \A x \in OrderIds : orders'[x].status # "none" =>
             orders'[x].user \in Users /\ orders'[x].plan \in Plans
             /\ orders'[x].service \in ServiceIds
    <3>1. /\ orders[o].status # "none"
          /\ orders' = [orders EXCEPT ![o].status = "cancelled"]
      BY <1>2 DEF CancelOrder
    <3> QED
      BY <3>1, RestatusType DEF OrderStatus
  <2> QED
    BY <1>2, <2>1, <2>2, <2>3 DEF CancelOrder, CouponRow
<1>3. ASSUME NEW o \in OrderIds, RetryOrder(o) PROVE TypeInv'
  <2>1. orders[o].status # "none" /\ orders' = [orders EXCEPT ![o].status = "paid"]
    BY <1>3 DEF RetryOrder
  <2>2. /\ orders' \in [OrderIds -> Order]
        /\ \A x \in OrderIds : orders'[x].status # "none" =>
             orders'[x].user \in Users /\ orders'[x].plan \in Plans
             /\ orders'[x].service \in ServiceIds
    BY <2>1, RestatusType DEF OrderStatus
  <2> QED
    BY <1>3, <2>2 DEF RetryOrder
<1>4. ASSUME NEW u \in Users, NEW a \in Amounts, NEW ref \in CreditRefs,
             Credit(u, a, ref) \/ Credit(u, -a, ref)
      PROVE  TypeInv'
  <2>1. a \in Int /\ -a \in Int /\ <<"admin", ref>> \in References
    BY SalesAssumption DEF References
  <2>2. /\ balance' \in [Users -> Nat]
        /\ ledger' \subseteq [ref : References, user : Users, amount : Int]
    BY <1>4, <2>1, MoneyType DEF Credit
  <2> QED
    BY <1>4, <2>2 DEF Credit
<1>5. ASSUME NEW c \in Codes, NEW terms \in CouponTerms, SaveCoupon(c, terms) PROVE TypeInv'
  BY <1>5, SalesAssumption DEF SaveCoupon
<1>6. ASSUME NEW p \in Edited, NEW price \in Prices, NEW cap \in Capacities,
             NEW active \in BOOLEAN, NEW trial \in BOOLEAN, SavePlan(p, price, cap, active, trial)
      PROVE  TypeInv'
  <2>1. price \in Nat /\ cap \in Nat /\ p \in Plans
    BY SalesAssumption
  <2> DEFINE plan == [status |-> IF active THEN "active" ELSE "inactive",
                      price |-> IF trial THEN 0 ELSE price,
                      capacity |-> cap, is_trial |-> trial]
  <2>2. plan \in Plan
    BY <2>1 DEF Plan
  <2>3. plans' = [plans EXCEPT ![p] = plan] /\ TrialMenu(plan)
    BY <1>6 DEF SavePlan
  <2> HIDE DEF plan
  <2>4. plans' \in [Plans -> Plan] /\ enabled' \subseteq Features
    BY <2>2, <2>3 DEF TrialMenu, Features
  <2> QED
    BY <1>6, <2>4 DEF SavePlan
<1>7. ASSUME NEW p \in Edited, NEW active \in BOOLEAN, TogglePlan(p, active) PROVE TypeInv'
  <2>1. p \in Plans /\ plans[p] \in Plan
    BY SalesAssumption
  <2> DEFINE plan == [plans[p] EXCEPT !.status = IF active THEN "active" ELSE "inactive"]
  <2>2. plan \in Plan
    BY <2>1 DEF Plan
  <2>3. plans' = [plans EXCEPT ![p] = plan] /\ TrialMenu(plan)
    BY <1>7 DEF TogglePlan
  <2> HIDE DEF plan
  <2>4. plans' \in [Plans -> Plan] /\ enabled' \subseteq Features
    BY <2>2, <2>3 DEF TrialMenu, Features
  <2> QED
    BY <1>7, <2>4 DEF TogglePlan
<1>8. ASSUME NEW p \in Edited, DeletePlan(p) PROVE TypeInv'
  <2>1. NoPlan \in Plan /\ NoQuote \in Quote /\ NoQuote.user = None
    BY SalesAssumption DEF NoPlan, Plan, NoQuote, Quote
  <2> QED
    BY <1>8, <2>1 DEF DeletePlan
<1>9. ASSUME NEW u \in Managed, NEW blocked \in BOOLEAN, NEW reseller \in BOOLEAN,
             SetUser(u, blocked, reseller)
      PROVE  TypeInv'
  BY <1>9, SalesAssumption DEF SetUser, User
<1>10. ASSUME NEW f \in Toggleable, ToggleSetting(f) PROVE TypeInv'
  BY <1>10, SalesAssumption DEF ToggleSetting
<1> QED
  BY <1>1, <1>2, <1>3, <1>4, <1>5, <1>6, <1>7, <1>8, <1>9, <1>10 DEF AdminNext

\* Steps of the provisioning loop.
LEMMA WorkerType ==
  ASSUME TypeInv, NEW o \in OrderIds, Fulfil(o) \/ FailProvision(o)
  PROVE  TypeInv'
<1> USE DEF TypeInv, TypeOK, RowsFilled, Exists, money_vars
<1>1. CASE FailProvision(o)
  <2>1. orders[o].status # "none" /\ orders' = [orders EXCEPT ![o].status = "review"]
    BY <1>1 DEF FailProvision
  <2>2. /\ orders' \in [OrderIds -> Order]
        /\ \A x \in OrderIds : orders'[x].status # "none" =>
             orders'[x].user \in Users /\ orders'[x].plan \in Plans
             /\ orders'[x].service \in ServiceIds
    BY <2>1, RestatusType DEF OrderStatus
  <2> QED
    BY <1>1, <2>2 DEF FailProvision
<1>2. CASE Fulfil(o)
  <2> DEFINE r == orders[o]
             inviter == Referrer[r.user]
             fee == (r.price * Commission) \div 100
  <2>1. /\ r \in Order /\ r.user \in Users /\ r.plan \in Plans /\ r.service \in ServiceIds
        /\ r.price \in Nat
    BY <1>2 DEF Fulfil, Order
  <2>2. /\ orders' \in [OrderIds -> Order]
        /\ \A x \in OrderIds : orders'[x].status # "none" =>
             orders'[x].user \in Users /\ orders'[x].plan \in Plans
             /\ orders'[x].service \in ServiceIds
    <3>1. /\ orders[o].status # "none"
          /\ orders' = [orders EXCEPT ![o].status = "fulfilled"]
      BY <1>2 DEF Fulfil
    <3> QED
      BY <3>1, RestatusType DEF OrderStatus
  <2>3. /\ services' \in [ServiceIds -> Service]
        /\ \A s \in ServiceIds : services'[s].status # "none" => services'[s].plan \in Plans
    BY <1>2, <2>1 DEF Fulfil, Service
  <2>4. /\ balance' \in [Users -> Nat]
        /\ ledger' \subseteq [ref : References, user : Users, amount : Int]
    <3>1. CASE UNCHANGED <<balance, ledger>>
      BY <3>1
    <3>2. CASE inviter # None /\ Money(inviter, fee, <<"commission", o>>)
      <4>1. inviter \in Users
        BY <2>1, <3>2, SalesAssumption
      <4>2. Commission \in Int
        BY SalesAssumption DEF Percent
      <4>3. r.price * Commission \in Int
        BY <2>1, <4>2
      <4>4. fee \in Int
        BY <4>3
      <4>5. <<"commission", o>> \in References
        BY DEF References
      <4> HIDE DEF inviter, fee
      <4> QED
        BY <3>2, <4>1, <4>4, <4>5, MoneyType
    <3> QED
      BY <1>2, <3>1, <3>2 DEF Fulfil
  <2> QED
    BY <1>2, <2>2, <2>3, <2>4 DEF Fulfil
<1> QED
  BY <1>1, <1>2

\* Every step keeps the types.
LEMMA NextType == TypeInv /\ [Next]_vars => TypeInv'
<1> SUFFICES ASSUME TypeInv, [Next]_vars PROVE TypeInv'
  OBVIOUS
<1>1. CASE Tick
  <2>1. users' \in [Users -> User] /\ enabled' \subseteq Features /\ now' \in 1 .. MaxTime + 1
    BY <1>1, SalesAssumption DEF Tick, TypeInv, TypeOK
  <2> QED
    BY <1>1, <2>1, ChatType DEF Tick
<1>2. CASE UNCHANGED vars
  BY <1>2 DEF vars, TypeInv, TypeOK, RowsFilled, Exists
<1> QED
  BY <1>1, <1>2, BuyerType, AdminType, WorkerType DEF Next, WorkerNext

\* The tables keep their types: no balance, price or number of uses is ever
\* negative, whoever buys, pays, edits and delivers in whatever order.
THEOREM SalesTypes == Spec => []TypeOK
<1>1. TypeInv => TypeOK
  BY DEF TypeInv
<1> QED
  BY <1>1, InitType, NextType, PTL DEF Spec

-----------------------------------------------------------------------------
(* Payment and receipts                                                    *)
(*                                                                         *)
(* Both properties speak of one order at a time, so the proof does: a step *)
(* leaves an order alone (Same), or it is the one step that moves it.      *)
(* What makes the two inductive is that no receipt exists before its order *)
(* waits for a decision (Early), and that the orders of a quote are placed *)
(* together (AllOrNone), so that a purchase writes only rows that were not *)
(* there.                                                                  *)

\* The parts of the two properties that speak of order o.
PaidOnce(o) ==
  /\ Settled(o) <=> Debited(o) \/ ReceiptApproved(o) \/ (o[1] = "trial" /\ Exists(o))
  /\ ~(Debited(o) /\ ReceiptApproved(o))
  /\ \A e \in ledger : e.ref = <<"debit", o>> =>
       e.user = orders[o].user /\ e.amount = -orders[o].price
  /\ \A t \in TopupIds : topups[t].order = o =>
       topups[t].user = orders[o].user /\ topups[t].amount = orders[o].price

ReceiptFits(o) ==
  /\ (orders[o].status = "receipt_review") <=>
       \E t \in TopupIds : topups[t].order = o /\ topups[t].status = "pending"
  /\ \A s, t \in TopupIds : topups[s].order = o /\ topups[t].order = o => s = t

\* A receipt is linked only to an order that has left "awaiting_receipt".
Early(o) ==
  \A t \in TopupIds : topups[t].order = o =>
    orders[o].status \notin {"none", "awaiting_receipt"}

OrderFine(o) == PaidOnce(o) /\ ReceiptFits(o) /\ Early(o)

\* The orders of a quote are placed together.
AllOrNone ==
  \A q \in QuoteIds, i \in 0 .. MaxQty - 1 : Exists(<<q, i>>) => Exists(<<q, 0>>)

PaidInv == TypeInv /\ AllOrNone /\ \A o \in OrderIds : OrderFine(o)

\* A step leaves order o, its receipts and its debits alone.
Same(o) ==
  /\ orders'[o] = orders[o]
  /\ \A t \in TopupIds : topups[t].order = o \/ topups'[t].order = o => topups'[t] = topups[t]
  /\ \A e : e.ref = <<"debit", o>> => (e \in ledger <=> e \in ledger')

-----------------------------------------------------------------------------
LEMMA SameFine ==
  ASSUME NEW o \in OrderIds, OrderFine(o), Same(o)
  PROVE  OrderFine(o)'
<1>1. Debited(o)' <=> Debited(o)
  BY DEF Same, Debited
<1>2. ReceiptApproved(o)' <=> ReceiptApproved(o)
  BY DEF Same, ReceiptApproved
<1>3. (Settled(o)' <=> Settled(o)) /\ (Exists(o)' <=> Exists(o))
  BY DEF Same, Settled, Exists
<1>4. PaidOnce(o)'
  BY <1>1, <1>2, <1>3 DEF OrderFine, PaidOnce, Same
<1>5. ReceiptFits(o)' /\ Early(o)'
  BY DEF OrderFine, ReceiptFits, Early, Same
<1> QED
  BY <1>4, <1>5 DEF OrderFine

\* No order ever disappears, so a purchase finds all orders of its quote or
\* none of them.
LEMMA AllOrNoneKept ==
  ASSUME AllOrNone, TypeInv, \A o \in OrderIds : Exists(o)' <=> Exists(o)
  PROVE  AllOrNone'
<1>1. \A q \in QuoteIds, i \in 0 .. MaxQty - 1 : <<q, i>> \in OrderIds /\ <<q, 0>> \in OrderIds
  BY SalesAssumption DEF OrderIds
<1> QED
  BY <1>1 DEF AllOrNone

\* A posting of money that is not an order's debit.
LEMMA MoneyPosts ==
  ASSUME NEW u, NEW amount, NEW ref, Money(u, amount, ref), NEW o, ref # <<"debit", o>>
  PROVE  \A e : e.ref = <<"debit", o>> => (e \in ledger <=> e \in ledger')
BY DEF Money, money_vars

\* What a purchase of user u writes: the orders `placed', which were not there
\* before, and a debit over the price of each of them unless the card pays.
Writes(placed, u, card) ==
  /\ \A o \in placed :
       /\ ~Exists(o) /\ o[1] # "trial" /\ orders'[o].user = u
       /\ orders'[o].status = IF card THEN "awaiting_receipt" ELSE "paid"
  /\ \A o \in OrderIds \ placed : orders'[o] = orders[o]
  /\ card => ledger' = ledger
  /\ ~card =>
       /\ \A o \in placed : \E e \in ledger' : e.ref = <<"debit", o>>
       /\ \A e \in ledger', o \in OrderIds : e.ref = <<"debit", o>> =>
            \/ e \in ledger
            \/ o \in placed /\ e.user = u /\ e.amount = -orders'[o].price
       /\ ledger \subseteq ledger'

LEMMA PlacedRows ==
  ASSUME PaidInv, NEW u \in Users, NEW q \in QuoteIds, NEW card \in BOOLEAN,
         quotes[q].user = u, ~Exists(<<q, 0>>), PlaceOrders(u, q, card)
  PROVE  \E placed : /\ placed \subseteq OrderIds /\ Writes(placed, u, card) /\ AllOrNone'
                     /\ placed = {q} \X (0 .. quotes[q].qty - 1)
<1> DEFINE Q == quotes[q]
           placed == {q} \X (0 .. Q.qty - 1)
<1>1. Q.qty \in 1 .. MaxQty
  BY DEF PaidInv, TypeInv, TypeOK, Quote
<1>2. \A i \in 0 .. Q.qty - 1 : <<q, i>> \in OrderIds /\ ~Exists(<<q, i>>)
  BY <1>1, SalesAssumption DEF OrderIds, PaidInv, AllOrNone
<1>3. \A o \in placed : /\ o \in OrderIds /\ o = <<q, o[2]>> /\ o[2] \in 0 .. Q.qty - 1
                        /\ o[1] = q
  BY <1>2
<1>4. placed \in SUBSET OrderIds
  BY <1>3
<1>5. \A o \in placed :
        /\ ~Exists(o) /\ o[1] # "trial" /\ orders'[o].user = u
        /\ orders'[o].price = OrderPrice(u, Q.plan, o[2])
        /\ orders'[o].status = IF card THEN "awaiting_receipt" ELSE "paid"
  BY <1>2, <1>3, SalesAssumption DEF PlaceOrders
<1>6. \A o \in OrderIds \ placed : orders'[o] = orders[o]
  BY DEF PlaceOrders
<1>7. card => ledger' = ledger
  BY DEF PlaceOrders, money_vars
<1>8. ASSUME ~card
      PROVE  /\ \A o \in placed : \E e \in ledger' : e.ref = <<"debit", o>>
             /\ \A e \in ledger', o \in OrderIds : e.ref = <<"debit", o>> =>
                  \/ e \in ledger
                  \/ o \in placed /\ e.user = u /\ e.amount = -orders'[o].price
             /\ ledger \subseteq ledger'
  <2> DEFINE Posting(o) == [ref |-> <<"debit", o>>, user |-> u,
                            amount |-> -OrderPrice(u, Q.plan, o[2])]
  <2>1. ledger' = ledger \cup {Posting(o) : o \in placed}
    BY <1>8 DEF PlaceOrders
  <2>2. \A o \in placed : /\ Posting(o).ref = <<"debit", o>> /\ Posting(o).user = u
                          /\ Posting(o).amount = -orders'[o].price
    BY <1>5
  <2> HIDE DEF Posting, placed
  <2>3. \A o \in placed : \E e \in ledger' : e.ref = <<"debit", o>>
    BY <2>1, <2>2
  <2>4. ASSUME NEW e \in ledger', NEW o \in OrderIds, e.ref = <<"debit", o>>, e \notin ledger
        PROVE  o \in placed /\ e.user = u /\ e.amount = -orders'[o].price
    <3>1. PICK x \in placed : e = Posting(x)
      BY <2>1, <2>4
    <3>2. x = o
      BY <2>2, <2>4, <3>1
    <3> QED
      BY <2>2, <3>1, <3>2
  <2> QED
    BY <2>1, <2>3, <2>4
<1>9. AllOrNone'
  <2> SUFFICES ASSUME NEW p \in QuoteIds, NEW i \in 0 .. MaxQty - 1, Exists(<<p, i>>)'
               PROVE  Exists(<<p, 0>>)'
    BY DEF AllOrNone
  <2>1. <<p, i>> \in OrderIds /\ <<p, 0>> \in OrderIds
    BY SalesAssumption DEF OrderIds
  <2>2. CASE p = q
    <3>1. <<p, 0>> \in placed
      BY <1>1, <2>2
    <3> QED
      BY <1>5, <3>1 DEF Exists
  <2>3. CASE p # q
    <3>1. <<p, i>> \notin placed /\ <<p, 0>> \notin placed
      BY <2>3
    <3> QED
      BY <1>6, <2>1, <3>1 DEF Exists, PaidInv, AllOrNone
  <2> QED
    BY <2>2, <2>3
<1> HIDE DEF placed
<1>10. Writes(placed, u, card)
  BY <1>5, <1>6, <1>7, <1>8 DEF Writes
<1> QED
  BY <1>4, <1>9, <1>10 DEF placed

\* A purchase keeps every order fine.
LEMMA PurchaseFine ==
  ASSUME PaidInv, NEW u \in Users, NEW q \in QuoteIds, NEW card \in BOOLEAN,
         quotes[q].user = u, ~Exists(<<q, 0>>), PlaceOrders(u, q, card), topups' = topups
  PROVE  AllOrNone' /\ \A o \in OrderIds : OrderFine(o)'
<1>1. PICK placed : placed \subseteq OrderIds /\ Writes(placed, u, card) /\ AllOrNone'
  BY PlacedRows
<1> USE DEF Writes
<1>2. ASSUME NEW o \in OrderIds \ placed PROVE OrderFine(o)'
  <2>1. Same(o)
    BY <1>1 DEF Same
  <2> QED
    BY <2>1, SameFine DEF PaidInv
<1>3. ASSUME NEW o \in placed PROVE OrderFine(o)'
  <2>1. OrderFine(o) /\ orders[o].status = "none"
    BY <1>1 DEF PaidInv, Exists
  <2>2. \A t \in TopupIds : topups[t].order # o
    BY <2>1 DEF OrderFine, Early
  <2>3. ~Debited(o) /\ ~ReceiptApproved(o)
    BY <2>1 DEF OrderFine, PaidOnce, Settled
  <2>4. ~ReceiptApproved(o)' /\ Early(o)'
    BY <2>2 DEF ReceiptApproved, Early
  <2>5. ReceiptFits(o)'
    BY <1>1, <2>2 DEF ReceiptFits
  <2>6. Debited(o)' <=> ~card
    BY <1>1, <2>3 DEF Debited
  <2>7. Settled(o)' <=> ~card
    BY <1>1 DEF Settled
  <2>8. \A e \in ledger' : e.ref = <<"debit", o>> =>
          e.user = orders'[o].user /\ e.amount = -orders'[o].price
    BY <1>1, <2>3 DEF Debited
  <2>9. PaidOnce(o)'
    BY <1>1, <2>2, <2>4, <2>6, <2>7, <2>8 DEF PaidOnce
  <2> QED
    BY <2>4, <2>5, <2>9 DEF OrderFine
<1> QED
  BY <1>1, <1>2, <1>3

-----------------------------------------------------------------------------
\* The debits of orders are the same before and after a step.
DebitsKept ==
  \A o \in OrderIds : \A e : e.ref = <<"debit", o>> => (e \in ledger <=> e \in ledger')

OthersFine == AllOrNone' /\ \A o \in OrderIds : OrderFine(o)'

\* A step that writes no order and no linked receipt keeps every order fine.
LEMMA OrdersAlone ==
  ASSUME PaidInv, orders' = orders, DebitsKept,
         \A o \in OrderIds, t \in TopupIds :
           topups[t].order = o \/ topups'[t].order = o => topups'[t] = topups[t]
  PROVE  OthersFine
<1>1. \A o \in OrderIds : Same(o)
  BY DEF Same, DebitsKept
<1>2. \A o \in OrderIds : OrderFine(o)'
  BY <1>1, SameFine DEF PaidInv
<1>3. AllOrNone'
  BY AllOrNoneKept DEF PaidInv, Exists
<1> QED
  BY <1>2, <1>3 DEF OthersFine

\* A step that moves the one order x, without creating it, and the receipts of
\* x only: what is left to show is that x is fine.
LEMMA OneOrder ==
  ASSUME PaidInv, NEW x \in OrderIds, DebitsKept,
         \A o \in OrderIds \ {x} : orders'[o] = orders[o],
         \A t \in TopupIds : topups[t].order = x \/ topups'[t].order = x \/ topups'[t] = topups[t],
         \A t \in TopupIds : topups[t].order \in OrderIds \ {x} \/ topups'[t].order \in OrderIds \ {x}
                               => topups'[t] = topups[t],
         Exists(x)' <=> Exists(x) \/ x[1] = "trial",
         OrderFine(x)'
  PROVE  OthersFine
<1>1. ASSUME NEW o \in OrderIds, o # x PROVE OrderFine(o)'
  <2>1. Same(o)
    BY <1>1 DEF Same, DebitsKept
  <2> QED
    BY <2>1, SameFine DEF PaidInv
<1>2. AllOrNone'
  <2> SUFFICES ASSUME NEW q \in QuoteIds, NEW i \in 0 .. MaxQty - 1, Exists(<<q, i>>)'
               PROVE  Exists(<<q, 0>>)'
    BY DEF AllOrNone
  <2>1. <<q, i>> \in OrderIds /\ <<q, 0>> \in OrderIds /\ q # "trial"
    BY SalesAssumption DEF OrderIds
  <2>2. \A o \in {<<q, i>>, <<q, 0>>} : Exists(o)' <=> Exists(o)
    BY <2>1 DEF Exists
  <2> QED
    BY <2>2 DEF PaidInv, AllOrNone
<1> QED
  BY <1>1, <1>2 DEF OthersFine

\* The worker and a retry move an order among the statuses of paid orders.
LEMMA WorkedOn ==
  ASSUME PaidInv, NEW x \in OrderIds, NEW st \in {"paid", "review", "fulfilled"},
         orders[x].status \in {"paid", "review"},
         orders' = [orders EXCEPT ![x].status = st], topups' = topups, DebitsKept
  PROVE  OthersFine
<1>1. /\ orders'[x] = [orders[x] EXCEPT !.status = st] /\ orders[x] \in Order
      /\ \A o \in OrderIds \ {x} : orders'[o] = orders[o]
  BY DEF PaidInv, TypeInv, TypeOK
<1>2. /\ orders'[x].status = st /\ orders'[x].user = orders[x].user
      /\ orders'[x].price = orders[x].price
  BY <1>1 DEF Order
<1>3. OrderFine(x)
  BY DEF PaidInv
<1>4. Settled(x) /\ Settled(x)' /\ Exists(x) /\ Exists(x)'
  BY <1>2 DEF Settled, Exists
<1>5. (Debited(x)' <=> Debited(x)) /\ (ReceiptApproved(x)' <=> ReceiptApproved(x))
  BY DEF Debited, ReceiptApproved, DebitsKept
<1>6. PaidOnce(x)'
  BY <1>2, <1>3, <1>4, <1>5 DEF OrderFine, PaidOnce, DebitsKept
<1>7. ReceiptFits(x)' /\ Early(x)'
  BY <1>2, <1>3 DEF OrderFine, ReceiptFits, Early
<1> QED
  BY <1>1, <1>4, <1>6, <1>7, OneOrder DEF OrderFine

-----------------------------------------------------------------------------
LEMMA PurchaseKeeps ==
  ASSUME PaidInv, NEW u \in Users, NEW q \in QuoteIds, Buy(u, q) \/ CardBuy(u, q)
  PROVE  OthersFine
<1>1. CASE Buy(u, q)
  <2>1. CASE Exists(<<q, 0>>) /\ UNCHANGED <<orders, ledger, topups>>
    BY <2>1, OrdersAlone DEF DebitsKept
  <2>2. CASE ~Exists(<<q, 0>>) /\ PlaceOrders(u, q, FALSE)
    BY <1>1, <2>2, PurchaseFine DEF Buy, QuoteUsable, OthersFine
  <2> QED
    BY <1>1, <2>1, <2>2 DEF Buy, money_vars
<1>2. CASE CardBuy(u, q)
  <2>1. CASE UNCHANGED <<orders, ledger, topups>>
    BY <2>1, OrdersAlone DEF DebitsKept
  <2>2. CASE ~Exists(<<q, 0>>) /\ PlaceOrders(u, q, TRUE)
    BY <1>2, <2>2, PurchaseFine DEF CardBuy, QuoteUsable, OthersFine
  <2> QED
    BY <1>2, <2>1, <2>2 DEF CardBuy, money_vars
<1> QED
  BY <1>1, <1>2

\* What a step that sets the status of order x alone does.
LEMMA StatusOnly ==
  ASSUME PaidInv, NEW x \in OrderIds, NEW st, orders' = [orders EXCEPT ![x].status = st]
  PROVE  /\ orders'[x].status = st /\ orders'[x].user = orders[x].user
         /\ orders'[x].price = orders[x].price
         /\ \A o \in OrderIds \ {x} : orders'[o] = orders[o]
<1>1. orders'[x] = [orders[x] EXCEPT !.status = st] /\ orders[x] \in Order
  BY DEF PaidInv, TypeInv, TypeOK
<1>2. \A o \in OrderIds \ {x} : orders'[o] = orders[o]
  BY DEF PaidInv, TypeInv, TypeOK
<1> QED
  BY <1>1, <1>2 DEF Order

\* The receipt of a card order is its first (Early) and over its price.
LEMMA SendOrderReceiptKeeps ==
  ASSUME PaidInv, NEW u \in Users, NEW t \in TopupIds, SendOrderReceipt(u, t)
  PROVE  OthersFine
<1>1. PICK x \in OrderIds : x = users[u].state.order
  <2>1. users[u].state \in States
    BY DEF PaidInv, TypeInv, TypeOK, User
  <2> QED
    BY <2>1, StateFacts DEF SendOrderReceipt
<1>2. /\ orders[x].status = "awaiting_receipt" /\ orders[x].user = u
      /\ topups[t] = NoTopup /\ ledger' = ledger
      /\ orders' = [orders EXCEPT ![x].status = "receipt_review"]
      /\ topups' = [topups EXCEPT ![t] = [user |-> u, amount |-> orders[x].price,
                                          status |-> "pending", order |-> x]]
  BY <1>1 DEF SendOrderReceipt, money_vars
<1>3. /\ orders'[x].status = "receipt_review" /\ orders'[x].user = orders[x].user
      /\ orders'[x].price = orders[x].price
      /\ \A o \in OrderIds \ {x} : orders'[o] = orders[o]
  BY <1>1, <1>2, StatusOnly
<1>4. /\ topups'[t] = [user |-> u, amount |-> orders[x].price,
                       status |-> "pending", order |-> x]
      /\ \A s \in TopupIds \ {t} : topups'[s] = topups[s]
  BY <1>2 DEF PaidInv, TypeInv, TypeOK
<1>5. OrderFine(x)
  BY <1>1 DEF PaidInv
<1>6. \A s \in TopupIds : topups[s].order # x
  BY <1>2, <1>5 DEF OrderFine, Early
<1>7. topups[t].order = None /\ None \notin OrderIds
  BY <1>2, SalesAssumption DEF NoTopup
<1>8. ~Settled(x) /\ ~Debited(x) /\ ~(x[1] = "trial" /\ Exists(x))
  BY <1>2, <1>5 DEF OrderFine, PaidOnce, Settled
<1>9. ~Settled(x)' /\ ~Debited(x)' /\ ~ReceiptApproved(x)' /\ Exists(x) /\ Exists(x)'
      /\ ~(x[1] = "trial" /\ Exists(x)')
  BY <1>2, <1>3, <1>4, <1>6, <1>8 DEF Settled, Debited, ReceiptApproved, Exists
<1>10. PaidOnce(x)'
  <2>1. \A s \in TopupIds : topups'[s].order = x => s = t
    BY <1>4, <1>6
  <2> QED
    BY <1>2, <1>3, <1>4, <1>9, <2>1 DEF PaidOnce, Debited
<1>11. ReceiptFits(x)' /\ Early(x)'
  BY <1>3, <1>4, <1>6 DEF ReceiptFits, Early
<1>12. DebitsKept
  BY <1>2 DEF DebitsKept
<1>13. \A s \in TopupIds : topups[s].order = x \/ topups'[s].order = x \/ topups'[s] = topups[s]
  BY <1>4
<1>14. \A s \in TopupIds :
         topups[s].order \in OrderIds \ {x} \/ topups'[s].order \in OrderIds \ {x}
           => topups'[s] = topups[s]
  BY <1>4, <1>7
<1>15. OrderFine(x)'
  BY <1>10, <1>11 DEF OrderFine
<1> QED
  BY <1>1, <1>3, <1>9, <1>12, <1>13, <1>14, <1>15, OneOrder

\* A top-up receipt is linked to no order.
LEMMA SendReceiptKeeps ==
  ASSUME PaidInv, NEW u \in Users, NEW t \in TopupIds, SendReceipt(u, t)
  PROVE  OthersFine
<1>1. /\ orders' = orders /\ DebitsKept
      /\ topups[t].order = None /\ topups'[t].order = None
      /\ \A s \in TopupIds \ {t} : topups'[s] = topups[s]
  BY DEF SendReceipt, money_vars, DebitsKept, PaidInv, TypeInv, TypeOK, NoTopup
<1>2. None \notin OrderIds
  BY SalesAssumption
<1> QED
  BY <1>1, <1>2, OrdersAlone

\* The free trial is an order without debit and without receipt.
LEMMA TakeTrialKeeps ==
  ASSUME PaidInv, NEW u \in Users, NEW p \in Plans, TakeTrial(u, p)
  PROVE  OthersFine
<1> DEFINE x == <<"trial", u>>
<1>1. x \in OrderIds /\ x[1] = "trial"
  BY DEF OrderIds
<1> HIDE DEF x
<1>2. /\ ~Exists(x) /\ topups' = topups /\ ledger' = ledger
      /\ orders'[x].status = "paid" /\ \A o \in OrderIds \ {x} : orders'[o] = orders[o]
  BY <1>1 DEF TakeTrial, money_vars, PaidInv, TypeInv, TypeOK, x
<1>3. OrderFine(x)
  BY <1>1 DEF PaidInv
<1>4. ~Debited(x) /\ \A t \in TopupIds : topups[t].order # x
  BY <1>2, <1>3 DEF OrderFine, PaidOnce, Early, Settled, Exists
<1>5. ~Debited(x)' /\ ~ReceiptApproved(x)' /\ Settled(x)' /\ Exists(x)'
  BY <1>2, <1>4 DEF Debited, ReceiptApproved, Settled, Exists
<1>6. OrderFine(x)'
  BY <1>1, <1>2, <1>4, <1>5 DEF OrderFine, PaidOnce, ReceiptFits, Early, Debited
<1>7. DebitsKept
  BY <1>2 DEF DebitsKept
<1> QED
  BY <1>1, <1>2, <1>5, <1>6, <1>7, OneOrder

\* A decision moves the one linked receipt together with its order; a top-up
\* concerns no order.
LEMMA DecideReceiptKeeps ==
  ASSUME PaidInv, NEW t \in TopupIds, NEW approve \in BOOLEAN, DecideReceipt(t, approve)
  PROVE  OthersFine
<1>0. PICK x : x = topups[t].order
  OBVIOUS
<1> DEFINE verdict == IF approve THEN "approved" ELSE "rejected"
           st == IF approve THEN "paid" ELSE "cancelled"
<1>1. /\ topups[t].status = "pending" /\ topups[t] \in Topup
      /\ topups' = [topups EXCEPT ![t].status = verdict]
  BY DEF DecideReceipt, PaidInv, TypeInv, TypeOK
<1>2. topups'[t] = [topups[t] EXCEPT !.status = verdict]
      /\ \A s \in TopupIds \ {t} : topups'[s] = topups[s]
  BY <1>1 DEF PaidInv, TypeInv, TypeOK
<1>3. /\ topups'[t].status = verdict /\ topups'[t].order = x
      /\ topups'[t].user = topups[t].user /\ topups'[t].amount = topups[t].amount
  BY <1>0, <1>1, <1>2 DEF Topup
<1>4. x = None \/ x \in OrderIds
  BY <1>0, <1>1 DEF Topup
<1>5. CASE x = None
  <2>1. orders' = orders
    BY <1>0, <1>5 DEF DecideReceipt
  <2>2. DebitsKept
    <3>1. ledger' = ledger \/ Money(topups[t].user, topups[t].amount, <<"topup", t>>)
      BY <1>0, <1>5 DEF DecideReceipt, money_vars
    <3>2. \A o \in OrderIds : <<"topup", t>> # <<"debit", o>>
      OBVIOUS
    <3> QED
      BY <3>1, <3>2, MoneyPosts DEF DebitsKept
  <2>3. \A o \in OrderIds, s \in TopupIds :
          topups[s].order = o \/ topups'[s].order = o => topups'[s] = topups[s]
    BY <1>0, <1>2, <1>3, <1>5, SalesAssumption
  <2> QED
    BY <2>1, <2>2, <2>3, OrdersAlone
<1>6. CASE x \in OrderIds
  <2>1. /\ orders[x].status = "receipt_review" /\ ledger' = ledger
        /\ orders' = [orders EXCEPT ![x].status = st]
    BY <1>0, <1>6, SalesAssumption DEF DecideReceipt, money_vars
  <2>2. /\ orders'[x].status = st /\ orders'[x].user = orders[x].user
        /\ orders'[x].price = orders[x].price
        /\ \A o \in OrderIds \ {x} : orders'[o] = orders[o]
    BY <1>6, <2>1, StatusOnly
  <2>3. OrderFine(x)
    BY <1>6 DEF PaidInv
  <2>4. \A s \in TopupIds : topups[s].order = x => s = t
    BY <1>0, <2>3 DEF OrderFine, ReceiptFits
  <2>5. \A s \in TopupIds : topups'[s].order = x => s = t
    BY <1>2, <2>4
  <2>6. ~Debited(x) /\ ~(x[1] = "trial") /\ Exists(x)
    BY <2>1, <2>3 DEF OrderFine, PaidOnce, Settled, Exists
  <2>7. ~Debited(x)' /\ Exists(x)' /\ (ReceiptApproved(x)' <=> approve) /\ (Settled(x)' <=> approve)
    BY <1>3, <2>1, <2>2, <2>5, <2>6 DEF Debited, Exists, ReceiptApproved, Settled
  <2>8. topups[t].user = orders[x].user /\ topups[t].amount = orders[x].price
    BY <1>0, <2>3 DEF OrderFine, PaidOnce
  <2>9. PaidOnce(x)'
    BY <1>3, <2>2, <2>5, <2>6, <2>7, <2>8 DEF PaidOnce, Debited
  <2>10. ReceiptFits(x)' /\ Early(x)'
    BY <1>3, <2>2, <2>5 DEF ReceiptFits, Early
  <2>11. DebitsKept
    BY <2>1 DEF DebitsKept
  <2>12. OrderFine(x)'
    BY <2>9, <2>10 DEF OrderFine
  <2> HIDE DEF verdict, st
  <2>13. \A s \in TopupIds : topups[s].order = x \/ topups'[s].order = x \/ topups'[s] = topups[s]
    BY <1>0, <1>2
  <2>14. \A s \in TopupIds :
           topups[s].order \in OrderIds \ {x} \/ topups'[s].order \in OrderIds \ {x}
             => topups'[s] = topups[s]
    BY <1>0, <1>2, <1>3
  <2> QED
    BY <1>6, <2>2, <2>6, <2>7, <2>11, <2>12, <2>13, <2>14, OneOrder
<1> QED
  BY <1>4, <1>5, <1>6

\* A cancellation rejects the pending receipt of its order with it.
LEMMA CancelOrderKeeps ==
  ASSUME PaidInv, NEW x \in OrderIds, CancelOrder(x)
  PROVE  OthersFine
<1>1. /\ orders[x].status \in {"awaiting_receipt", "receipt_review"} /\ ledger' = ledger
      /\ orders' = [orders EXCEPT ![x].status = "cancelled"]
      /\ topups' = [t \in TopupIds |-> IF topups[t].order = x /\ topups[t].status = "pending"
                                       THEN [topups[t] EXCEPT !.status = "rejected"]
                                       ELSE topups[t]]
  BY DEF CancelOrder, money_vars
<1>2. /\ orders'[x].status = "cancelled" /\ orders'[x].user = orders[x].user
      /\ orders'[x].price = orders[x].price
      /\ \A o \in OrderIds \ {x} : orders'[o] = orders[o]
  BY <1>1, StatusOnly
<1>3. \A t \in TopupIds :
        /\ topups'[t].order = topups[t].order /\ topups'[t].user = topups[t].user
        /\ topups'[t].amount = topups[t].amount
        /\ topups[t].order # x => topups'[t] = topups[t]
        /\ topups[t].order = x => topups'[t].status # "pending"
                                  /\ (topups'[t].status = "approved" <=> topups[t].status = "approved")
  <2> TAKE t \in TopupIds
  <2>1. topups[t] \in Topup
    BY DEF PaidInv, TypeInv, TypeOK
  <2>2. CASE topups[t].order = x /\ topups[t].status = "pending"
    <3>1. topups'[t] = [topups[t] EXCEPT !.status = "rejected"]
      BY <1>1, <2>2
    <3>2. /\ topups'[t].order = topups[t].order /\ topups'[t].user = topups[t].user
          /\ topups'[t].amount = topups[t].amount /\ topups'[t].status = "rejected"
      BY <2>1, <3>1 DEF Topup
    <3> QED
      BY <2>2, <3>2
  <2>3. CASE ~(topups[t].order = x /\ topups[t].status = "pending")
    <3>1. topups'[t] = topups[t]
      BY <1>1, <2>3
    <3> QED
      BY <2>3, <3>1
  <2> QED
    BY <2>2, <2>3
<1>4. OrderFine(x)
  BY DEF PaidInv
<1>5. ~Debited(x) /\ ~ReceiptApproved(x) /\ ~(x[1] = "trial") /\ Exists(x)
  BY <1>1, <1>4 DEF OrderFine, PaidOnce, Settled, Exists
<1>6. ~Debited(x)' /\ ~ReceiptApproved(x)' /\ ~Settled(x)' /\ Exists(x)'
  BY <1>1, <1>2, <1>3, <1>5 DEF Debited, ReceiptApproved, Settled, Exists
<1>7. PaidOnce(x)'
  BY <1>2, <1>3, <1>4, <1>5, <1>6 DEF OrderFine, PaidOnce, Debited
<1>8. ReceiptFits(x)' /\ Early(x)'
  BY <1>2, <1>3, <1>4 DEF OrderFine, ReceiptFits, Early
<1>9. DebitsKept
  BY <1>1 DEF DebitsKept
<1>10. OrderFine(x)'
  BY <1>7, <1>8 DEF OrderFine
<1> QED
  BY <1>2, <1>3, <1>5, <1>6, <1>9, <1>10, OneOrder

-----------------------------------------------------------------------------
\* The steps that write no order and no receipt; some of them post money, but
\* no debit.
LEMMA RestKeeps ==
  ASSUME PaidInv, orders' = orders, topups' = topups, DebitsKept
  PROVE  OthersFine
<1>1. \A o \in OrderIds, t \in TopupIds :
        topups[t].order = o \/ topups'[t].order = o => topups'[t] = topups[t]
  OBVIOUS
<1> QED
  BY <1>1, OrdersAlone

LEMMA BuyerKeeps == PaidInv /\ BuyerNext => OthersFine
<1> SUFFICES ASSUME PaidInv, NEW u \in Users,
               \/ Home(u) \/ AskCoupon(u) \/ AskTopup(u) \/ WalletCard(u) \/ AskTransfer(u)
               \/ \E c \in Codes : EnterCoupon(u, c)
               \/ \E p \in Plans, qty \in 1 .. MaxQty : ChoosePlan(u, p, qty)
               \/ \E q \in QuoteIds : NamePlan(u, q) \/ Buy(u, q) \/ CardBuy(u, q)
               \/ \E s \in ServiceIds, q \in QuoteIds : AskRenewal(u, s, q)
               \/ \E t \in TopupIds : SendOrderReceipt(u, t) \/ SendReceipt(u, t)
               \/ \E a \in Amounts : EnterAmount(u, a)
               \/ \E v \in Users, a \in Amounts, id \in TransferIds : Transfer(u, v, a, id)
               \/ \E p \in Plans : TakeTrial(u, p)
               \/ \E s \in ServiceIds : DeleteService(u, s)
             PROVE  OthersFine
  BY DEF BuyerNext
<1>1. ASSUME UNCHANGED <<orders, topups, ledger>> PROVE OthersFine
  BY <1>1, RestKeeps DEF DebitsKept
<1>2. CASE Home(u) \/ AskCoupon(u) \/ AskTopup(u) \/ WalletCard(u) \/ AskTransfer(u)
  BY <1>1, <1>2 DEF Home, AskCoupon, AskTopup, WalletCard, AskTransfer, shop_vars, money_vars
<1>3. ASSUME NEW c \in Codes, EnterCoupon(u, c) PROVE OthersFine
  <2>1. orders' = orders /\ topups' = topups
    BY <1>3 DEF EnterCoupon
  <2>2. ledger' = ledger \/ Money(u, coupons[c].credit, <<"gift", c, u>>)
    BY <1>3 DEF EnterCoupon, money_vars
  <2>3. \A o \in OrderIds : <<"gift", c, u>> # <<"debit", o>>
    OBVIOUS
  <2>4. DebitsKept
    BY <2>2, <2>3, MoneyPosts DEF DebitsKept
  <2> QED
    BY <2>1, <2>4, RestKeeps
<1>4. ASSUME NEW p \in Plans, NEW qty \in 1 .. MaxQty, ChoosePlan(u, p, qty) PROVE OthersFine
  BY <1>1, <1>4 DEF ChoosePlan, shop_vars, money_vars
<1>5. ASSUME NEW q \in QuoteIds, NamePlan(u, q) PROVE OthersFine
  BY <1>1, <1>5 DEF NamePlan, money_vars
<1>6. ASSUME NEW s \in ServiceIds, NEW q \in QuoteIds, AskRenewal(u, s, q) PROVE OthersFine
  BY <1>1, <1>6 DEF AskRenewal, money_vars
<1>7. ASSUME NEW a \in Amounts, EnterAmount(u, a) PROVE OthersFine
  BY <1>1, <1>7 DEF EnterAmount, shop_vars, money_vars
<1>8. ASSUME NEW v \in Users, NEW a \in Amounts, NEW id \in TransferIds, Transfer(u, v, a, id)
      PROVE  OthersFine
  <2>1. orders' = orders /\ topups' = topups
    BY <1>8 DEF Transfer, shop_vars
  <2>2. ledger' = ledger \cup
          {[ref |-> <<"transfer", id, "out">>, user |-> u, amount |-> -a],
           [ref |-> <<"transfer", id, "in">>, user |-> v, amount |-> a]}
    BY <1>8 DEF Transfer
  <2>3. \A o \in OrderIds : <<"transfer", id, "out">> # <<"debit", o>>
                            /\ <<"transfer", id, "in">> # <<"debit", o>>
    OBVIOUS
  <2>4. DebitsKept
    BY <2>2, <2>3 DEF DebitsKept
  <2> QED
    BY <2>1, <2>4, RestKeeps
<1>9. ASSUME NEW s \in ServiceIds, DeleteService(u, s) PROVE OthersFine
  BY <1>1, <1>9 DEF DeleteService, money_vars
<1> QED
  BY <1>2, <1>3, <1>4, <1>5, <1>6, <1>7, <1>8, <1>9, PurchaseKeeps, SendOrderReceiptKeeps,
     SendReceiptKeeps, TakeTrialKeeps

LEMMA AdminKeeps == PaidInv /\ AdminNext => OthersFine
<1> SUFFICES ASSUME PaidInv, AdminNext PROVE OthersFine
  OBVIOUS
<1>1. ASSUME UNCHANGED <<orders, topups, ledger>> PROVE OthersFine
  BY <1>1, RestKeeps DEF DebitsKept
<1>2. ASSUME NEW o \in OrderIds, RetryOrder(o) PROVE OthersFine
  <2>1. /\ orders[o].status \in {"paid", "review"} /\ topups' = topups /\ DebitsKept
        /\ orders' = [orders EXCEPT ![o].status = "paid"]
    BY <1>2 DEF RetryOrder, money_vars, DebitsKept
  <2> QED
    BY <2>1, WorkedOn
<1>3. ASSUME NEW u \in Users, NEW a, NEW ref \in CreditRefs, Credit(u, a, ref) PROVE OthersFine
  <2>1. orders' = orders /\ topups' = topups /\ Money(u, a, <<"admin", ref>>)
    BY <1>3 DEF Credit, shop_vars
  <2>2. \A o \in OrderIds : <<"admin", ref>> # <<"debit", o>>
    OBVIOUS
  <2>3. DebitsKept
    BY <2>1, <2>2, MoneyPosts DEF DebitsKept
  <2> QED
    BY <2>1, <2>3, RestKeeps
<1>4. ASSUME NEW c \in Codes, NEW terms \in CouponTerms, SaveCoupon(c, terms) PROVE OthersFine
  BY <1>1, <1>4 DEF SaveCoupon, money_vars
<1>5. ASSUME NEW p \in Edited, NEW price \in Prices, NEW cap \in Capacities,
             NEW active \in BOOLEAN, NEW trial \in BOOLEAN, SavePlan(p, price, cap, active, trial)
      PROVE  OthersFine
  BY <1>1, <1>5 DEF SavePlan, money_vars
<1>6. ASSUME NEW p \in Edited, NEW active \in BOOLEAN, TogglePlan(p, active) PROVE OthersFine
  BY <1>1, <1>6 DEF TogglePlan, money_vars
<1>7. ASSUME NEW p \in Edited, DeletePlan(p) PROVE OthersFine
  BY <1>1, <1>7 DEF DeletePlan, money_vars
<1>8. ASSUME NEW u \in Managed, NEW blocked \in BOOLEAN, NEW reseller \in BOOLEAN,
             SetUser(u, blocked, reseller)
      PROVE  OthersFine
  BY <1>1, <1>8 DEF SetUser, shop_vars, money_vars
<1>9. ASSUME NEW f \in Toggleable, ToggleSetting(f) PROVE OthersFine
  BY <1>1, <1>9 DEF ToggleSetting, shop_vars, money_vars
<1> QED
  BY <1>2, <1>3, <1>4, <1>5, <1>6, <1>7, <1>8, <1>9, DecideReceiptKeeps, CancelOrderKeeps
     DEF AdminNext

LEMMA WorkerKeeps == PaidInv /\ WorkerNext => OthersFine
<1> SUFFICES ASSUME PaidInv, NEW o \in OrderIds, Fulfil(o) \/ FailProvision(o) PROVE OthersFine
  BY DEF WorkerNext
<1>1. CASE Fulfil(o)
  <2>1. /\ orders[o].status \in {"paid", "review"} /\ topups' = topups
        /\ orders' = [orders EXCEPT ![o].status = "fulfilled"]
    BY <1>1 DEF Fulfil
  <2>2. ledger' = ledger \/ \E u, a : Money(u, a, <<"commission", o>>)
    BY <1>1 DEF Fulfil, money_vars
  <2>3. \A x \in OrderIds : <<"commission", o>> # <<"debit", x>>
    OBVIOUS
  <2>4. DebitsKept
    BY <2>2, <2>3, MoneyPosts DEF DebitsKept
  <2> QED
    BY <2>1, <2>4, WorkedOn
<1>2. CASE FailProvision(o)
  <2>1. /\ orders[o].status \in {"paid", "review"} /\ topups' = topups /\ DebitsKept
        /\ orders' = [orders EXCEPT ![o].status = "review"]
    BY <1>2 DEF FailProvision, money_vars, DebitsKept
  <2> QED
    BY <2>1, WorkedOn
<1> QED
  BY <1>1, <1>2

LEMMA PaidInit == Init => PaidInv
<1> SUFFICES ASSUME Init PROVE PaidInv
  OBVIOUS
<1>1. TypeInv
  BY InitType
<1>2. \A o \in OrderIds : orders[o].status = "none"
  BY DEF Init, NoOrder
<1>3. \A t \in TopupIds : topups[t].order = None
  BY DEF Init, NoTopup
<1>4. ledger = {} /\ None \notin OrderIds
  BY SalesAssumption DEF Init
<1>5. \A q \in QuoteIds, i \in 0 .. MaxQty - 1 : <<q, i>> \in OrderIds
  BY DEF OrderIds
<1>6. AllOrNone
  BY <1>2, <1>5 DEF AllOrNone, Exists
<1>7. \A o \in OrderIds : OrderFine(o)
  BY <1>2, <1>3, <1>4 DEF OrderFine, PaidOnce, ReceiptFits, Early, Settled, Debited,
     ReceiptApproved, Exists
<1> QED
  BY <1>1, <1>6, <1>7 DEF PaidInv

LEMMA PaidNext == PaidInv /\ [Next]_vars => PaidInv'
<1> SUFFICES ASSUME PaidInv, [Next]_vars PROVE PaidInv'
  OBVIOUS
<1>1. TypeInv'
  BY NextType DEF PaidInv
<1>2. ASSUME Tick \/ UNCHANGED vars PROVE OthersFine
  <2>1. orders' = orders /\ topups' = topups /\ ledger' = ledger
    BY <1>2 DEF Tick, vars, shop_vars, money_vars
  <2> QED
    BY <2>1, RestKeeps DEF DebitsKept
<1>3. OthersFine
  BY <1>2, BuyerKeeps, AdminKeeps, WorkerKeeps DEF Next
<1> QED
  BY <1>1, <1>3 DEF PaidInv, OthersFine

\* The invariant is what the two properties say, order by order.
LEMMA PaidMeans == PaidInv => PaidFromOneSource /\ ReceiptMatchesOrder
BY DEF PaidInv, OrderFine, PaidOnce, ReceiptFits, PaidFromOneSource, ReceiptMatchesOrder

\* Every order that is worked on has been paid for once: by the wallet, by an
\* approved receipt or as the free trial (order, decide_receipt, cancel_order).
THEOREM SalesPaid == Spec => []PaidFromOneSource
<1>1. PaidInv => PaidFromOneSource
  BY PaidMeans
<1> QED
  BY <1>1, PaidInit, PaidNext, PTL DEF Spec

\* An order waits for a decision exactly when its one receipt does
\* (orderreceipt, decide_receipt, cancel_order).
THEOREM SalesReceipts == Spec => []ReceiptMatchesOrder
<1>1. PaidInv => ReceiptMatchesOrder
  BY PaidMeans
<1> QED
  BY <1>1, PaidInit, PaidNext, PTL DEF Spec

-----------------------------------------------------------------------------
(* The shop implements SaleContract                                        *)
(*                                                                         *)
(* A step leaves the orders alone, moves one of them, or places orders     *)
(* (OrderSteps).  Where the money came from need not be followed: the      *)
(* invariant tells it from the phase and the debits alone (SourceIs).      *)

\* The free trial has neither debit nor receipt.
TrialFree ==
  \A o \in OrderIds : o[1] = "trial" =>
    ~Debited(o) /\ \A t \in TopupIds : topups[t].order # o

ContractInv == PaidInv /\ TrialFree

Moved(x) ==
  /\ DebitsKept /\ \A o \in OrderIds \ {x} : orders'[o] = orders[o]
  /\ \/ orders[x].status = "awaiting_receipt" /\ orders'[x].status \in {"receipt_review", "cancelled"}
     \/ orders[x].status = "receipt_review" /\ orders'[x].status \in {"paid", "cancelled"}
     \/ orders[x].status \in {"paid", "review"} /\ orders'[x].status \in {"paid", "review", "fulfilled"}
     \/ x[1] = "trial" /\ orders[x].status = "none" /\ orders'[x].status = "paid"

\* Several orders are placed by the wallet, one by the card.
Placed(placed, u, card) ==
  Writes(placed, u, card) /\ placed # {} /\ (card => \E x : placed = {x})

OrderSteps ==
  \/ orders' = orders /\ DebitsKept
  \/ \E x \in OrderIds : Moved(x)
  \/ \E placed \in SUBSET OrderIds, u \in Users, card \in BOOLEAN : Placed(placed, u, card)

\* Receipts are linked to orders that wait for them.
LinkSteps ==
  \A t \in TopupIds :
    \/ topups'[t].order \in {None, topups[t].order}
    \/ orders[topups'[t].order].status = "awaiting_receipt"

LEMMA PurchaseSteps ==
  ASSUME PaidInv, NEW u \in Users, NEW q \in QuoteIds, Buy(u, q) \/ CardBuy(u, q)
  PROVE  OrderSteps
<1>1. CASE UNCHANGED <<orders, ledger>>
  BY <1>1 DEF OrderSteps, DebitsKept
<1>2. ASSUME NEW card \in BOOLEAN, ~Exists(<<q, 0>>), PlaceOrders(u, q, card),
             quotes[q].user = u, card => quotes[q].qty = 1
      PROVE  OrderSteps
  <2>1. quotes[q].qty \in 1 .. MaxQty
    BY DEF PaidInv, TypeInv, TypeOK, Quote
  <2>2. PICK placed : placed \in SUBSET OrderIds /\ Writes(placed, u, card)
                      /\ placed = {q} \X (0 .. quotes[q].qty - 1)
    BY <1>2, PlacedRows
  <2>3. <<q, 0>> \in placed
    BY <2>1, <2>2
  <2>4. card => placed = {<<q, 0>>}
    BY <1>2, <2>2
  <2> QED
    BY <2>2, <2>3, <2>4 DEF OrderSteps, Placed
<1> QED
  BY <1>1, <1>2 DEF Buy, CardBuy, QuoteUsable, money_vars

\* Money that is posted for another reason is no debit.
LEMMA OtherMoney ==
  ASSUME NEW u, NEW amount, NEW ref, Money(u, amount, ref) \/ ledger' = ledger,
         \A o \in OrderIds : ref # <<"debit", o>>
  PROVE  DebitsKept
BY MoneyPosts DEF DebitsKept

LEMMA BuyerSteps == ASSUME PaidInv, BuyerNext PROVE OrderSteps
<1> SUFFICES ASSUME NEW u \in Users,
               \/ Home(u) \/ AskCoupon(u) \/ AskTopup(u) \/ WalletCard(u) \/ AskTransfer(u)
               \/ \E c \in Codes : EnterCoupon(u, c)
               \/ \E p \in Plans, qty \in 1 .. MaxQty : ChoosePlan(u, p, qty)
               \/ \E q \in QuoteIds : NamePlan(u, q) \/ Buy(u, q) \/ CardBuy(u, q)
               \/ \E s \in ServiceIds, q \in QuoteIds : AskRenewal(u, s, q)
               \/ \E t \in TopupIds : SendOrderReceipt(u, t) \/ SendReceipt(u, t)
               \/ \E a \in Amounts : EnterAmount(u, a)
               \/ \E v \in Users, a \in Amounts, id \in TransferIds : Transfer(u, v, a, id)
               \/ \E p \in Plans : TakeTrial(u, p)
               \/ \E s \in ServiceIds : DeleteService(u, s)
             PROVE  OrderSteps
  BY DEF BuyerNext
<1>1. ASSUME orders' = orders, ledger' = ledger PROVE OrderSteps
  BY <1>1 DEF OrderSteps, DebitsKept
<1>2. CASE Home(u) \/ AskCoupon(u) \/ AskTopup(u) \/ WalletCard(u) \/ AskTransfer(u)
  BY <1>1, <1>2 DEF Home, AskCoupon, AskTopup, WalletCard, AskTransfer, shop_vars, money_vars
<1>3. ASSUME NEW c \in Codes, EnterCoupon(u, c) PROVE OrderSteps
  <2>1. orders' = orders /\ (ledger' = ledger \/ Money(u, coupons[c].credit, <<"gift", c, u>>))
    BY <1>3 DEF EnterCoupon, money_vars
  <2>2. \A o \in OrderIds : <<"gift", c, u>> # <<"debit", o>>
    OBVIOUS
  <2>3. DebitsKept
    BY <2>1, <2>2, OtherMoney
  <2> QED
    BY <2>1, <2>3 DEF OrderSteps
<1>4. ASSUME NEW p \in Plans, NEW qty \in 1 .. MaxQty, ChoosePlan(u, p, qty) PROVE OrderSteps
  BY <1>1, <1>4 DEF ChoosePlan, shop_vars, money_vars
<1>5. ASSUME NEW q \in QuoteIds, NamePlan(u, q) PROVE OrderSteps
  BY <1>1, <1>5 DEF NamePlan, money_vars
<1>6. ASSUME NEW s \in ServiceIds, NEW q \in QuoteIds, AskRenewal(u, s, q) PROVE OrderSteps
  BY <1>1, <1>6 DEF AskRenewal, money_vars
<1>7. ASSUME NEW t \in TopupIds, SendOrderReceipt(u, t) PROVE OrderSteps
  <2>1. PICK x \in OrderIds : x = users[u].state.order
    <3>1. users[u].state \in States
      BY DEF PaidInv, TypeInv, TypeOK, User
    <3> QED
      BY <1>7, <3>1, StateFacts DEF SendOrderReceipt
  <2>2. /\ orders[x].status = "awaiting_receipt" /\ DebitsKept
        /\ orders' = [orders EXCEPT ![x].status = "receipt_review"]
    BY <1>7, <2>1 DEF SendOrderReceipt, money_vars, DebitsKept
  <2> QED
    BY <2>1, <2>2, StatusOnly DEF OrderSteps, Moved
<1>8. ASSUME NEW t \in TopupIds, SendReceipt(u, t) PROVE OrderSteps
  BY <1>1, <1>8 DEF SendReceipt, money_vars
<1>9. ASSUME NEW a \in Amounts, EnterAmount(u, a) PROVE OrderSteps
  BY <1>1, <1>9 DEF EnterAmount, shop_vars, money_vars
<1>10. ASSUME NEW v \in Users, NEW a \in Amounts, NEW id \in TransferIds, Transfer(u, v, a, id)
       PROVE  OrderSteps
  <2>1. /\ orders' = orders
        /\ ledger' = ledger \cup
             {[ref |-> <<"transfer", id, "out">>, user |-> u, amount |-> -a],
              [ref |-> <<"transfer", id, "in">>, user |-> v, amount |-> a]}
    BY <1>10 DEF Transfer, shop_vars
  <2>2. \A o \in OrderIds : <<"transfer", id, "out">> # <<"debit", o>>
                            /\ <<"transfer", id, "in">> # <<"debit", o>>
    OBVIOUS
  <2>3. DebitsKept
    BY <2>1, <2>2 DEF DebitsKept
  <2> QED
    BY <2>1, <2>3 DEF OrderSteps
<1>11. ASSUME NEW p \in Plans, TakeTrial(u, p) PROVE OrderSteps
  <2> DEFINE x == <<"trial", u>>
  <2>1. x \in OrderIds /\ x[1] = "trial"
    BY DEF OrderIds
  <2> HIDE DEF x
  <2>2. /\ orders[x].status = "none" /\ orders'[x].status = "paid" /\ DebitsKept
        /\ \A o \in OrderIds \ {x} : orders'[o] = orders[o]
    BY <1>11, <2>1 DEF TakeTrial, money_vars, PaidInv, TypeInv, TypeOK, Exists, DebitsKept, x
  <2> QED
    BY <2>1, <2>2 DEF OrderSteps, Moved
<1>12. ASSUME NEW s \in ServiceIds, DeleteService(u, s) PROVE OrderSteps
  BY <1>1, <1>12 DEF DeleteService, money_vars
<1> QED
  BY <1>2, <1>3, <1>4, <1>5, <1>6, <1>7, <1>8, <1>9, <1>10, <1>11, <1>12, PurchaseSteps

LEMMA AdminSteps == ASSUME PaidInv, AdminNext PROVE OrderSteps
<1>1. ASSUME orders' = orders, ledger' = ledger PROVE OrderSteps
  BY <1>1 DEF OrderSteps, DebitsKept
<1>2. ASSUME NEW t \in TopupIds, NEW approve \in BOOLEAN, DecideReceipt(t, approve)
      PROVE  OrderSteps
  <2>1. PICK x : x = topups[t].order
    OBVIOUS
  <2>2. x \in OrderIds \cup {None}
    BY <2>1 DEF PaidInv, TypeInv, TypeOK, Topup
  <2>3. CASE x # None
    <3>1. PICK st \in {"paid", "cancelled"} : orders' = [orders EXCEPT ![x].status = st]
      BY <1>2, <2>1, <2>3 DEF DecideReceipt
    <3>2. x \in OrderIds /\ orders[x].status = "receipt_review" /\ DebitsKept
      BY <1>2, <2>1, <2>2, <2>3 DEF DecideReceipt, money_vars, DebitsKept
    <3>3. orders'[x].status = st /\ \A o \in OrderIds \ {x} : orders'[o] = orders[o]
      BY <3>1, <3>2, StatusOnly
    <3> QED
      BY <3>2, <3>3 DEF OrderSteps, Moved
  <2>4. CASE x = None
    <3>1. /\ orders' = orders
          /\ ledger' = ledger \/ Money(topups[t].user, topups[t].amount, <<"topup", t>>)
      BY <1>2, <2>1, <2>4 DEF DecideReceipt, money_vars
    <3>2. \A o \in OrderIds : <<"topup", t>> # <<"debit", o>>
      OBVIOUS
    <3>3. DebitsKept
      BY <3>1, <3>2, OtherMoney
    <3> QED
      BY <3>1, <3>3 DEF OrderSteps
  <2> QED
    BY <2>3, <2>4
<1>3. ASSUME NEW x \in OrderIds, CancelOrder(x) \/ RetryOrder(x) PROVE OrderSteps
  <2>1. PICK st \in {"paid", "cancelled"} :
          /\ orders' = [orders EXCEPT ![x].status = st]
          /\ \/ st = "cancelled" /\ orders[x].status \in {"awaiting_receipt", "receipt_review"}
             \/ st = "paid" /\ orders[x].status = "review"
    BY <1>3 DEF CancelOrder, RetryOrder
  <2>2. DebitsKept
    BY <1>3 DEF CancelOrder, RetryOrder, money_vars, DebitsKept
  <2>3. orders'[x].status = st /\ \A o \in OrderIds \ {x} : orders'[o] = orders[o]
    BY <2>1, StatusOnly
  <2> QED
    BY <2>1, <2>2, <2>3 DEF OrderSteps, Moved
<1>4. ASSUME NEW u \in Users, NEW a, NEW ref \in CreditRefs, Credit(u, a, ref) PROVE OrderSteps
  <2>1. orders' = orders /\ Money(u, a, <<"admin", ref>>)
    BY <1>4 DEF Credit, shop_vars
  <2>2. \A o \in OrderIds : <<"admin", ref>> # <<"debit", o>>
    OBVIOUS
  <2>3. DebitsKept
    BY <2>1, <2>2, OtherMoney
  <2> QED
    BY <2>1, <2>3 DEF OrderSteps
<1>5. CASE \/ \E c \in Codes, terms \in CouponTerms : SaveCoupon(c, terms)
           \/ \E p \in Edited, price \in Prices, cap \in Capacities, active, trial \in BOOLEAN :
                SavePlan(p, price, cap, active, trial)
           \/ \E p \in Edited, active \in BOOLEAN : TogglePlan(p, active)
           \/ \E p \in Edited : DeletePlan(p)
           \/ \E u \in Managed, blocked, reseller \in BOOLEAN : SetUser(u, blocked, reseller)
           \/ \E f \in Toggleable : ToggleSetting(f)
  BY <1>1, <1>5 DEF SaveCoupon, SavePlan, TogglePlan, DeletePlan, SetUser, ToggleSetting,
     shop_vars, money_vars
<1> QED
  BY <1>2, <1>3, <1>4, <1>5 DEF AdminNext

LEMMA WorkerSteps == ASSUME PaidInv, WorkerNext PROVE OrderSteps
<1>1. PICK x \in OrderIds : Fulfil(x) \/ FailProvision(x)
  BY DEF WorkerNext
<1>2. PICK st \in {"review", "fulfilled"} :
        orders[x].status \in {"paid", "review"} /\ orders' = [orders EXCEPT ![x].status = st]
  BY <1>1 DEF Fulfil, FailProvision
<1>3. ledger' = ledger \/ \E u, a : Money(u, a, <<"commission", x>>)
  BY <1>1 DEF Fulfil, FailProvision, money_vars
<1>4. \A o \in OrderIds : <<"commission", x>> # <<"debit", o>>
  OBVIOUS
<1>5. DebitsKept
  BY <1>3, <1>4, OtherMoney
<1>6. orders'[x].status = st /\ \A o \in OrderIds \ {x} : orders'[o] = orders[o]
  BY <1>2, StatusOnly
<1> QED
  BY <1>2, <1>5, <1>6 DEF OrderSteps, Moved

LEMMA AllSteps == ASSUME PaidInv, [Next]_vars PROVE OrderSteps
<1>1. CASE Tick \/ UNCHANGED vars
  BY <1>1 DEF Tick, vars, shop_vars, money_vars, OrderSteps, DebitsKept
<1> QED
  BY <1>1, BuyerSteps, AdminSteps, WorkerSteps DEF Next

\* Only the receipt of a card order is linked to an order (SendOrderReceipt).
LEMMA Links == ASSUME PaidInv, [Next]_vars PROVE LinkSteps
<1>1. topups \in [TopupIds -> Topup]
  BY DEF PaidInv, TypeInv, TypeOK
<1>2. CASE topups' = topups
  BY <1>2 DEF LinkSteps
<1>3. ASSUME NEW u \in Users, NEW t \in TopupIds, SendOrderReceipt(u, t) PROVE LinkSteps
  <2>1. /\ orders[users[u].state.order].status = "awaiting_receipt"
        /\ topups'[t].order = users[u].state.order
        /\ \A s \in TopupIds \ {t} : topups'[s] = topups[s]
    BY <1>1, <1>3 DEF SendOrderReceipt
  <2> QED
    BY <2>1 DEF LinkSteps
<1>4. ASSUME NEW u \in Users, NEW t \in TopupIds, SendReceipt(u, t) PROVE LinkSteps
  <2>1. topups'[t].order = None /\ \A s \in TopupIds \ {t} : topups'[s] = topups[s]
    BY <1>1, <1>4 DEF SendReceipt
  <2> QED
    BY <2>1 DEF LinkSteps
<1>5. ASSUME NEW t \in TopupIds, NEW approve \in BOOLEAN, DecideReceipt(t, approve) PROVE LinkSteps
  <2>1. PICK st : topups' = [topups EXCEPT ![t].status = st]
    BY <1>5 DEF DecideReceipt
  <2>2. topups'[t] = [topups[t] EXCEPT !.status = st] /\ topups[t] \in Topup
        /\ \A s \in TopupIds \ {t} : topups'[s] = topups[s]
    BY <1>1, <2>1
  <2>3. topups'[t].order = topups[t].order
    BY <2>2 DEF Topup
  <2> QED
    BY <2>2, <2>3 DEF LinkSteps
<1>6. ASSUME NEW o \in OrderIds, CancelOrder(o) PROVE LinkSteps
  <2>1. ASSUME NEW t \in TopupIds PROVE topups'[t].order = topups[t].order
    <3>1. topups[t] \in Topup
      BY <1>1
    <3>2. CASE topups'[t] = [topups[t] EXCEPT !.status = "rejected"]
      BY <3>1, <3>2 DEF Topup
    <3> QED
      BY <1>6, <3>2 DEF CancelOrder
  <2> QED
    BY <2>1 DEF LinkSteps
<1>7. ASSUME NEW u \in Users,
             \/ Home(u) \/ AskCoupon(u) \/ AskTopup(u) \/ WalletCard(u) \/ AskTransfer(u)
             \/ \E c \in Codes : EnterCoupon(u, c)
             \/ \E p \in Plans, qty \in 1 .. MaxQty : ChoosePlan(u, p, qty)
             \/ \E q \in QuoteIds : NamePlan(u, q)
             \/ \E s \in ServiceIds, q \in QuoteIds : AskRenewal(u, s, q)
      PROVE  topups' = topups
  BY <1>7 DEF Home, AskCoupon, AskTopup, WalletCard, AskTransfer, EnterCoupon, ChoosePlan,
     NamePlan, AskRenewal, shop_vars
<1>8. ASSUME NEW u \in Users,
             \/ \E q \in QuoteIds : Buy(u, q) \/ CardBuy(u, q)
             \/ \E a \in Amounts : EnterAmount(u, a)
             \/ \E v \in Users, a \in Amounts, id \in TransferIds : Transfer(u, v, a, id)
             \/ \E p \in Plans : TakeTrial(u, p)
             \/ \E s \in ServiceIds : DeleteService(u, s)
      PROVE  topups' = topups
  BY <1>8 DEF Buy, CardBuy, EnterAmount, Transfer, TakeTrial, DeleteService, shop_vars
<1>9. CASE BuyerNext
  BY <1>2, <1>3, <1>4, <1>7, <1>8, <1>9 DEF BuyerNext
<1>10. CASE AdminNext
  BY <1>2, <1>5, <1>6, <1>10 DEF AdminNext, RetryOrder, Credit, SaveCoupon, SavePlan, TogglePlan,
     DeletePlan, SetUser, ToggleSetting, shop_vars
<1> QED
  BY <1>2, <1>9, <1>10 DEF Next, WorkerNext, Fulfil, FailProvision, Tick, vars, shop_vars

LEMMA TrialFreeKept == ASSUME ContractInv, [Next]_vars PROVE TrialFree'
<1> USE DEF ContractInv
<1>1. OrderSteps /\ LinkSteps
  BY AllSteps, Links
<1>2. SUFFICES ASSUME NEW o \in OrderIds, o[1] = "trial"
               PROVE  ~Debited(o)' /\ \A t \in TopupIds : topups'[t].order # o
  BY DEF TrialFree
<1>3. ~Debited(o) /\ \A t \in TopupIds : topups[t].order # o
  BY <1>2 DEF TrialFree
<1>4. ~Debited(o)'
  <2>1. CASE DebitsKept
    BY <1>3, <2>1 DEF DebitsKept, Debited
  <2>2. ASSUME NEW placed, NEW u, NEW card \in BOOLEAN, Placed(placed, u, card) PROVE ~Debited(o)'
    BY <1>2, <1>3, <2>2 DEF Placed, Writes, Debited
  <2> QED
    BY <1>1, <2>1, <2>2 DEF OrderSteps, Moved
<1>5. orders[o].status # "awaiting_receipt"
  <2>1. OrderFine(o)
    BY DEF PaidInv
  <2> QED
    BY <1>2, <2>1 DEF OrderFine, PaidOnce, Settled, Exists
<1>6. o # None
  BY SalesAssumption
<1>7. ASSUME NEW t \in TopupIds, topups'[t].order = o PROVE FALSE
  <2>1. topups'[t].order \notin {None, topups[t].order}
    BY <1>3, <1>6, <1>7
  <2> QED
    BY <1>1, <1>5, <1>7, <2>1 DEF LinkSteps
<1> QED
  BY <1>4, <1>7

-----------------------------------------------------------------------------
\* The phase of an order, read off its status.
PhaseFits(o) ==
  /\ Phase(o) \in {"settled", "delivered"} <=> Settled(o)
  /\ Phase(o) = "none" <=> orders[o].status = "none"
  /\ Phase(o) = "held" <=> orders[o].status \in {"awaiting_receipt", "receipt_review"}
  /\ Phase(o) = "settled" <=> orders[o].status \in {"paid", "review"}
  /\ Phase(o) = "delivered" <=> orders[o].status = "fulfilled"
  /\ Phase(o) = "void" <=> orders[o].status = "cancelled"

\* The source of an order that is settled is known from its debit and its id.
SourceFits(o) ==
  SourceOf(o) = IF ~Settled(o) THEN {}
                ELSE IF Debited(o) THEN {"wallet"}
                ELSE IF o[1] = "trial" THEN {"free"} ELSE {"receipt"}

LEMMA PhaseIs == ContractInv => \A o \in OrderIds : PhaseFits(o)
<1> SUFFICES ASSUME ContractInv, NEW o \in OrderIds PROVE PhaseFits(o)
  OBVIOUS
<1>1. orders[o].status \in OrderStatus
  BY DEF ContractInv, PaidInv, TypeInv, TypeOK, Order
<1> QED
  BY <1>1 DEF PhaseFits, Phase, Settled, OrderStatus

LEMMA SourceIs == ContractInv => \A o \in OrderIds : SourceFits(o)
<1> SUFFICES ASSUME ContractInv, NEW o \in OrderIds PROVE SourceFits(o)
  OBVIOUS
<1>1. OrderFine(o)
  BY DEF ContractInv, PaidInv
<1>2. o[1] = "trial" => ~Debited(o) /\ ~ReceiptApproved(o)
  BY DEF ContractInv, TrialFree, ReceiptApproved
<1>3. /\ Settled(o) <=> Debited(o) \/ ReceiptApproved(o) \/ (o[1] = "trial" /\ Exists(o))
      /\ ~(Debited(o) /\ ReceiptApproved(o))
  BY <1>1 DEF OrderFine, PaidOnce
<1>4. Settled(o) => Exists(o)
  BY DEF Settled, Exists
<1> QED
  BY <1>2, <1>3, <1>4 DEF SourceFits, SourceOf

AllFit == \A o \in OrderIds : PhaseFits(o) /\ SourceFits(o)

LEMMA FitsNext == ContractInv' => AllFit'
<1>1. ContractInv => AllFit
  BY PhaseIs, SourceIs DEF AllFit
<1> QED
  BY <1>1, PTL

\* An order that keeps its phase and its debit keeps its source.
LEMMA SourceKept ==
  ASSUME ContractInv, ContractInv', NEW o \in OrderIds,
         Phase(o)' = Phase(o), Debited(o)' <=> Debited(o)
  PROVE  SourceOf(o)' = SourceOf(o)
<1>1. PhaseFits(o) /\ SourceFits(o) /\ PhaseFits(o)' /\ SourceFits(o)'
  BY PhaseIs, SourceIs, FitsNext DEF AllFit
<1>2. Settled(o)' <=> Settled(o)
  BY <1>1 DEF PhaseFits
<1> QED
  BY <1>1, <1>2 DEF SourceFits

\* A step of the shop is a step of the contract or leaves it alone.
LEMMA ContractStep ==
  ASSUME ContractInv, ContractInv', OrderSteps
  PROVE  [Contract!Next]_(Contract!contract)
<1> DEFINE phase == [o \in OrderIds |-> Phase(o)]
           source == [o \in OrderIds |-> SourceOf(o)]
<1>1. TypeInv /\ TypeInv'
  BY DEF ContractInv, PaidInv
<1>2. ASSUME DebitsKept PROVE \A o \in OrderIds : Debited(o)' <=> Debited(o)
  BY <1>2 DEF DebitsKept, Debited
<1>3. CASE orders' = orders /\ DebitsKept
  <2>1. \A o \in OrderIds : Phase(o)' = Phase(o)
    BY <1>3 DEF Phase
  <2>2. \A o \in OrderIds : SourceOf(o)' = SourceOf(o)
    BY <1>2, <1>3, <2>1, SourceKept
  <2> QED
    BY <2>1, <2>2 DEF Contract!contract
<1>4. ASSUME NEW x \in OrderIds, Moved(x) PROVE [Contract!Next]_(Contract!contract)
  <2>1. \A o \in OrderIds : Debited(o)' <=> Debited(o)
    BY <1>2, <1>4 DEF Moved
  <2>2. \A o \in OrderIds \ {x} : Phase(o)' = Phase(o)
    BY <1>4 DEF Moved, Phase
  <2>3. \A o \in OrderIds \ {x} : SourceOf(o)' = SourceOf(o)
    BY <2>1, <2>2, SourceKept
  <2>4. \/ Phase(x)' = Phase(x)
        \/ Phase(x) = "held" /\ Phase(x)' \in {"settled", "void"}
        \/ Phase(x) = "settled" /\ Phase(x)' = "delivered"
        \/ x[1] = "trial" /\ Phase(x) = "none" /\ Phase(x)' = "settled"
    <3>1. PhaseFits(x) /\ PhaseFits(x)'
      BY PhaseIs, FitsNext DEF AllFit
    <3> QED
      BY <1>4, <3>1 DEF Moved, PhaseFits
  <2>5. SourceFits(x) /\ SourceFits(x)' /\ (Phase(x) \in {"settled", "delivered"} <=> Settled(x))
        /\ (Phase(x)' \in {"settled", "delivered"} <=> Settled(x)')
    BY PhaseIs, SourceIs, FitsNext DEF AllFit, PhaseFits
  <2>6. CASE Phase(x)' = Phase(x)
    <3>1. SourceOf(x)' = SourceOf(x)
      BY <2>1, <2>6, SourceKept
    <3> QED
      BY <2>2, <2>3, <2>6, <3>1 DEF Contract!contract
  <2>7. CASE Phase(x) = "held" /\ Phase(x)' = "void"
    <3>1. SourceOf(x)' = {} /\ SourceOf(x) = {}
      BY <2>5, <2>7 DEF SourceFits
    <3>2. phase' = [phase EXCEPT ![x] = "void"] /\ source' = source /\ phase[x] = "held"
      BY <2>2, <2>3, <2>7, <3>1
    <3>3. Contract!Void(x)
      BY <3>2 DEF Contract!Void
    <3> QED
      BY <3>3 DEF Contract!Next
  <2>8. CASE Phase(x) = "settled" /\ Phase(x)' = "delivered"
    <3>1. SourceOf(x)' = SourceOf(x)
      BY <2>1, <2>5, <2>8 DEF SourceFits
    <3>2. phase' = [phase EXCEPT ![x] = "delivered"] /\ source' = source /\ phase[x] = "settled"
      BY <2>2, <2>3, <2>8, <3>1
    <3>3. Contract!Deliver(x)
      BY <3>2 DEF Contract!Deliver
    <3> QED
      BY <3>3 DEF Contract!Next
  <2>9. CASE Phase(x) = "held" /\ Phase(x)' = "settled"
    <3>1. ~Debited(x) /\ x[1] # "trial"
      <4>1. OrderFine(x) /\ ~Settled(x) /\ Exists(x)
        BY <2>5, <2>9, PhaseIs DEF ContractInv, PaidInv, PhaseFits, Exists
      <4> QED
        BY <4>1 DEF OrderFine, PaidOnce
    <3>2. SourceOf(x)' = {"receipt"}
      BY <2>1, <2>5, <2>9, <3>1 DEF SourceFits
    <3>3. phase' = [phase EXCEPT ![x] = "settled"] /\ source' = [source EXCEPT ![x] = {"receipt"}]
          /\ phase[x] = "held"
      BY <2>2, <2>3, <2>9, <3>2
    <3>4. Contract!Settle(x, "receipt")
      BY <3>3 DEF Contract!Settle
    <3> QED
      BY <3>4 DEF Contract!Next
  <2>10. CASE x[1] = "trial" /\ Phase(x) = "none" /\ Phase(x)' = "settled"
    <3>1. ~Debited(x)
      BY <2>10 DEF ContractInv, TrialFree
    <3>2. SourceOf(x)' = {"free"}
      BY <2>1, <2>5, <2>10, <3>1 DEF SourceFits
    <3>3. /\ \A o \in {x} : phase[o] = "none"
          /\ phase' = [o \in OrderIds |-> IF o \in {x} THEN "settled" ELSE phase[o]]
          /\ source' = [o \in OrderIds |-> IF o \in {x} THEN {"free"} ELSE source[o]]
      BY <2>2, <2>3, <2>10, <3>2
    <3>4. Contract!PlaceSettled({x}, "free")
      BY <3>3 DEF Contract!PlaceSettled
    <3> QED
      BY <3>4 DEF Contract!Next
  <2> QED
    BY <2>4, <2>6, <2>7, <2>8, <2>9, <2>10
<1>5. ASSUME NEW placed \in SUBSET OrderIds, NEW u \in Users, NEW card \in BOOLEAN,
             Placed(placed, u, card)
      PROVE  [Contract!Next]_(Contract!contract)
  <2>1. \A o \in placed : Phase(o) = "none" /\ Phase(o)' = IF card THEN "held" ELSE "settled"
    BY <1>5 DEF Placed, Writes, Phase, Exists
  <2>2. \A o \in OrderIds \ placed : Phase(o)' = Phase(o) /\ (Debited(o)' <=> Debited(o))
    BY <1>5 DEF Placed, Writes, Phase, Debited
  <2>3. \A o \in OrderIds \ placed : SourceOf(o)' = SourceOf(o)
    BY <2>2, SourceKept
  <2>4. \A o \in placed : SourceOf(o) = {} /\ SourceOf(o)' = IF card THEN {} ELSE {"wallet"}
    <3> SUFFICES ASSUME NEW o \in placed
                 PROVE  SourceOf(o) = {} /\ SourceOf(o)' = IF card THEN {} ELSE {"wallet"}
      OBVIOUS
    <3>1. PhaseFits(o) /\ PhaseFits(o)' /\ SourceFits(o) /\ SourceFits(o)'
      BY PhaseIs, SourceIs, FitsNext DEF AllFit
    <3>2. ~Settled(o) /\ (Settled(o)' <=> ~card)
      BY <2>1, <3>1 DEF PhaseFits
    <3>3. ~card => Debited(o)'
      BY <1>5 DEF Placed, Writes, Debited
    <3> QED
      BY <3>1, <3>2, <3>3 DEF SourceFits
  <2>5. CASE card
    <3>1. PICK x \in OrderIds : placed = {x}
      BY <1>5, <2>5 DEF Placed
    <3>2. phase[x] = "none" /\ phase' = [phase EXCEPT ![x] = "held"] /\ source' = source
      BY <2>1, <2>2, <2>3, <2>4, <2>5, <3>1
    <3>3. Contract!Hold(x)
      BY <3>2 DEF Contract!Hold
    <3> QED
      BY <3>3 DEF Contract!Next
  <2>6. CASE ~card
    <3>1. /\ \A o \in placed : phase[o] = "none"
          /\ phase' = [o \in OrderIds |-> IF o \in placed THEN "settled" ELSE phase[o]]
          /\ source' = [o \in OrderIds |-> IF o \in placed THEN {"wallet"} ELSE source[o]]
      BY <2>1, <2>2, <2>3, <2>4, <2>6
    <3>2. Contract!PlaceSettled(placed, "wallet") /\ placed # {}
      BY <1>5, <3>1 DEF Contract!PlaceSettled, Placed
    <3> QED
      BY <3>2 DEF Contract!Next
  <2> QED
    BY <2>5, <2>6
<1> QED
  BY <1>3, <1>4, <1>5 DEF OrderSteps

LEMMA ContractInit == Init => ContractInv /\ Contract!Init
<1> SUFFICES ASSUME Init PROVE ContractInv /\ Contract!Init
  OBVIOUS
<1>1. PaidInv
  BY PaidInit
<1>2. /\ \A o \in OrderIds : orders[o].status = "none" /\ ~Debited(o)
      /\ \A t \in TopupIds : topups[t].order = None
  BY DEF Init, NoOrder, NoTopup, Debited
<1>3. TrialFree
  BY <1>2, SalesAssumption DEF TrialFree
<1>4. \A o \in OrderIds : Phase(o) = "none" /\ SourceOf(o) = {}
  BY <1>2, SalesAssumption DEF Phase, SourceOf, ReceiptApproved, Exists
<1> QED
  BY <1>1, <1>3, <1>4 DEF ContractInv, Contract!Init

LEMMA ContractNext == ContractInv /\ [Next]_vars => ContractInv' /\ [Contract!Next]_(Contract!contract)
<1> SUFFICES ASSUME ContractInv, [Next]_vars
             PROVE  ContractInv' /\ [Contract!Next]_(Contract!contract)
  OBVIOUS
<1>1. ContractInv'
  BY PaidNext, TrialFreeKept DEF ContractInv
<1>2. OrderSteps
  BY AllSteps DEF ContractInv
<1> QED
  BY <1>1, <1>2, ContractStep

\* The shop implements its contract, for all constants: whatever buyers,
\* administrators and the worker do, every order is settled once and from one
\* source, and only settled orders are delivered (sales.py: order,
\* decide_receipt, cancel_order, provision).
THEOREM SalesContract == Spec => KeepsContract
BY ContractInit, ContractNext, PTL DEF Spec, KeepsContract, Contract!Spec

-----------------------------------------------------------------------------
(* Tables: prices, coupons, places and wallets.                              *)

\* The orders of quote q, placed together after all checks.
Purchase(u, q, card) ==
  /\ QuoteUsable(u, q, card) /\ ~Exists(<<q, 0>>) /\ PlaceOrders(u, q, card)
  /\ UNCHANGED <<plans, quotes, services>>

Restatus(x, st) ==
  orders' = [orders EXCEPT ![x].status = st] /\ UNCHANGED <<plans, quotes>>

\* A card order that is cancelled or whose receipt is rejected.
Rejection(x) ==
  /\ orders[x].status \in {"awaiting_receipt", "receipt_review"}
  /\ Restatus(x, "cancelled") /\ RestoreCoupon(x) /\ UNCHANGED services

\* An order that waits for its receipt, is decided, fails or is tried again.
Progress(x, st) ==
  /\ Restatus(x, st) /\ UNCHANGED <<coupons, redeemed, services>>
  /\ \/ orders[x].status = "awaiting_receipt" /\ st = "receipt_review"
     \/ orders[x].status = "receipt_review" /\ st = "paid"
     \/ orders[x].status \in {"paid", "review"} /\ st \in {"paid", "review"}

Delivery(x) ==
  /\ orders[x].status \in {"paid", "review"}
  /\ Restatus(x, "fulfilled") /\ UNCHANGED <<coupons, redeemed>>
  /\ services' = [services EXCEPT ![orders[x].service] =
                    [user |-> orders[x].user, plan |-> orders[x].plan, status |-> "active"]]

Gift(u, c) ==
  Redeemable(c, u) /\ Redeem(c, u) /\ UNCHANGED <<plans, quotes, orders, services>>

Quoting(u, q) ==
  /\ \E p \in Plans, renew \in ServiceIds \cup {None}, qty \in 1 .. MaxQty :
       NewQuote(u, q, p, renew, qty) /\ (renew # None => qty = 1)
  /\ UNCHANGED <<plans, coupons, redeemed, orders, services>>

TableSteps ==
  \/ UNCHANGED <<plans, coupons, redeemed, quotes, orders, services>>
  \/ \E u \in Users, q \in QuoteIds, card \in BOOLEAN : Purchase(u, q, card)
  \/ \E x \in OrderIds : Rejection(x) \/ Delivery(x) \/ \E st \in OrderStatus : Progress(x, st)
  \/ \E u \in Users, p \in Plans : TakeTrial(u, p)
  \/ \E u \in Users, c \in Codes : Gift(u, c)
  \/ \E u \in Users, q \in QuoteIds : Quoting(u, q)
  \/ \E u \in Users, s \in ServiceIds : DeleteService(u, s)
  \/ \E c \in Codes, terms \in CouponTerms : SaveCoupon(c, terms)
  \/ \E p \in Edited, price \in Prices, cap \in Capacities, active, trial \in BOOLEAN :
       SavePlan(p, price, cap, active, trial)
  \/ \E p \in Edited, active \in BOOLEAN : TogglePlan(p, active)
  \/ \E p \in Edited : DeletePlan(p)

-----------------------------------------------------------------------------
LEMMA BuyerTables == ASSUME TypeInv, BuyerNext PROVE TableSteps
<1> SUFFICES ASSUME NEW u \in Users,
      \/ Home(u) \/ AskCoupon(u) \/ AskTopup(u) \/ WalletCard(u) \/ AskTransfer(u)
      \/ \E c \in Codes : EnterCoupon(u, c)
      \/ \E p \in Plans, qty \in 1 .. MaxQty : ChoosePlan(u, p, qty)
      \/ \E q \in QuoteIds : NamePlan(u, q) \/ Buy(u, q) \/ CardBuy(u, q)
      \/ \E s \in ServiceIds, q \in QuoteIds : AskRenewal(u, s, q)
      \/ \E t \in TopupIds : SendOrderReceipt(u, t) \/ SendReceipt(u, t)
      \/ \E a \in Amounts : EnterAmount(u, a)
      \/ \E v \in Users, a \in Amounts, id \in TransferIds : Transfer(u, v, a, id)
      \/ \E p \in Plans : TakeTrial(u, p)
      \/ \E s \in ServiceIds : DeleteService(u, s)
    PROVE TableSteps
  BY DEF BuyerNext
<1>1. users[u].state \in States
  BY DEF TypeInv, TypeOK, User
<1>2. ASSUME UNCHANGED <<plans, coupons, redeemed, quotes, orders, services>> PROVE TableSteps
  BY <1>2 DEF TableSteps
<1>3. CASE Home(u) \/ AskCoupon(u) \/ AskTopup(u) \/ WalletCard(u) \/ AskTransfer(u)
  BY <1>2, <1>3 DEF Home, AskCoupon, AskTopup, WalletCard, AskTransfer, shop_vars
<1>4. CASE \/ \E p \in Plans, qty \in 1 .. MaxQty : ChoosePlan(u, p, qty)
           \/ \E t \in TopupIds : SendReceipt(u, t)
           \/ \E a \in Amounts : EnterAmount(u, a)
           \/ \E v \in Users, a \in Amounts, id \in TransferIds : Transfer(u, v, a, id)
  BY <1>2, <1>4 DEF ChoosePlan, SendReceipt, EnterAmount, Transfer, shop_vars
<1>5. ASSUME NEW c \in Codes, EnterCoupon(u, c) PROVE TableSteps
  <2>1. CASE coupons[c].credit > 0
    <3>1. Gift(u, c)
      BY <1>5, <2>1 DEF EnterCoupon, Gift
    <3> QED
      BY <3>1 DEF TableSteps
  <2>2. CASE ~(coupons[c].credit > 0)
    BY <1>2, <1>5, <2>2 DEF EnterCoupon
  <2> QED
    BY <2>1, <2>2
<1>6. ASSUME NEW q \in QuoteIds, NamePlan(u, q) PROVE TableSteps
  <2>1. users[u].state.plan \in Plans /\ users[u].state.qty \in 1 .. MaxQty
    BY <1>1, <1>6, StateFacts DEF NamePlan
  <2>2. Quoting(u, q)
    BY <1>6, <2>1 DEF NamePlan, Quoting
  <2> QED
    BY <2>2 DEF TableSteps
<1>7. ASSUME NEW s \in ServiceIds, NEW q \in QuoteIds, AskRenewal(u, s, q) PROVE TableSteps
  <2>1. services[s].plan \in Plans /\ 1 \in 1 .. MaxQty
    BY <1>7, SalesAssumption DEF AskRenewal, TypeInv, RowsFilled
  <2>2. Quoting(u, q)
    BY <1>7, <2>1 DEF AskRenewal, Quoting
  <2> QED
    BY <2>2 DEF TableSteps
<1>8. ASSUME NEW q \in QuoteIds, Buy(u, q) \/ CardBuy(u, q) PROVE TableSteps
  <2>1. CASE UNCHANGED <<coupons, redeemed, orders>>
    BY <1>2, <1>8, <2>1 DEF Buy, CardBuy
  <2>2. ASSUME NEW card \in BOOLEAN, QuoteUsable(u, q, card), ~Exists(<<q, 0>>),
               PlaceOrders(u, q, card)
        PROVE  TableSteps
    <3>1. Purchase(u, q, card)
      BY <1>8, <2>2 DEF Purchase, Buy, CardBuy
    <3> QED
      BY <3>1 DEF TableSteps
  <2> QED
    BY <1>8, <2>1, <2>2 DEF Buy, CardBuy
<1>9. ASSUME NEW t \in TopupIds, SendOrderReceipt(u, t) PROVE TableSteps
  <2>1. PICK x \in OrderIds : x = users[u].state.order
    BY <1>1, <1>9, StateFacts DEF SendOrderReceipt
  <2>2. Progress(x, "receipt_review") /\ "receipt_review" \in OrderStatus
    BY <1>9, <2>1 DEF SendOrderReceipt, Progress, Restatus, OrderStatus
  <2> QED
    BY <2>2 DEF TableSteps
<1>10. CASE \/ \E p \in Plans : TakeTrial(u, p)
            \/ \E s \in ServiceIds : DeleteService(u, s)
  BY <1>10 DEF TableSteps
<1> QED
  BY <1>3, <1>4, <1>5, <1>6, <1>7, <1>8, <1>9, <1>10

LEMMA AdminTables == ASSUME TypeInv, AdminNext PROVE TableSteps
<1>1. ASSUME UNCHANGED <<plans, coupons, redeemed, quotes, orders, services>> PROVE TableSteps
  BY <1>1 DEF TableSteps
<1>2. ASSUME NEW t \in TopupIds, NEW approve \in BOOLEAN, DecideReceipt(t, approve)
      PROVE  TableSteps
  <2>1. PICK x : x = topups[t].order
    OBVIOUS
  <2>2. x \in OrderIds \cup {None}
    BY <2>1 DEF TypeInv, TypeOK, Topup
  <2>3. CASE x = None
    BY <1>1, <1>2, <2>1, <2>3 DEF DecideReceipt
  <2>4. CASE x # None /\ approve
    <3>1. Progress(x, "paid") /\ "paid" \in OrderStatus /\ x \in OrderIds
      BY <1>2, <2>1, <2>2, <2>4 DEF DecideReceipt, Progress, Restatus, OrderStatus
    <3> QED
      BY <3>1 DEF TableSteps
  <2>5. CASE x # None /\ ~approve
    <3>1. Rejection(x) /\ x \in OrderIds
      BY <1>2, <2>1, <2>2, <2>5 DEF DecideReceipt, Rejection, Restatus
    <3> QED
      BY <3>1 DEF TableSteps
  <2> QED
    BY <2>3, <2>4, <2>5
<1>3. ASSUME NEW x \in OrderIds, CancelOrder(x) PROVE TableSteps
  <2>1. Rejection(x)
    BY <1>3 DEF CancelOrder, Rejection, Restatus
  <2> QED
    BY <2>1 DEF TableSteps
<1>4. ASSUME NEW x \in OrderIds, RetryOrder(x) PROVE TableSteps
  <2>1. Progress(x, "paid") /\ "paid" \in OrderStatus
    BY <1>4 DEF RetryOrder, Progress, Restatus, OrderStatus
  <2> QED
    BY <2>1 DEF TableSteps
<1>5. CASE \/ \E u \in Users, a \in Amounts, ref \in CreditRefs : Credit(u, a, ref) \/ Credit(u, -a, ref)
           \/ \E u \in Managed, blocked, reseller \in BOOLEAN : SetUser(u, blocked, reseller)
           \/ \E f \in Toggleable : ToggleSetting(f)
  BY <1>1, <1>5 DEF Credit, SetUser, ToggleSetting, shop_vars
<1>6. CASE \/ \E c \in Codes, terms \in CouponTerms : SaveCoupon(c, terms)
           \/ \E p \in Edited, price \in Prices, cap \in Capacities, active, trial \in BOOLEAN :
                SavePlan(p, price, cap, active, trial)
           \/ \E p \in Edited, active \in BOOLEAN : TogglePlan(p, active)
           \/ \E p \in Edited : DeletePlan(p)
  BY <1>6 DEF TableSteps
<1> QED
  BY <1>2, <1>3, <1>4, <1>5, <1>6 DEF AdminNext

LEMMA Tables == ASSUME TypeInv, [Next]_vars PROVE TableSteps
<1>1. ASSUME NEW x \in OrderIds, Fulfil(x) PROVE TableSteps
  <2>1. Delivery(x)
    BY <1>1 DEF Fulfil, Delivery, Restatus
  <2> QED
    BY <2>1 DEF TableSteps
<1>2. ASSUME NEW x \in OrderIds, FailProvision(x) PROVE TableSteps
  <2>1. Progress(x, "review") /\ "review" \in OrderStatus
    BY <1>2 DEF FailProvision, Progress, Restatus, OrderStatus
  <2> QED
    BY <2>1 DEF TableSteps
<1>3. CASE Tick \/ UNCHANGED vars
  BY <1>3 DEF Tick, vars, shop_vars, TableSteps
<1> QED
  BY <1>1, <1>2, <1>3, BuyerTables, AdminTables DEF Next, WorkerNext

-----------------------------------------------------------------------------
(* What the forms of steps do to rows *)

\* A change of status changes nothing else of an order.
LEMMA Restatused ==
  ASSUME TypeInv, NEW x \in OrderIds, NEW st, Restatus(x, st)
  PROVE  /\ orders'[x].status = st
         /\ \A o \in OrderIds : /\ o # x => orders'[o] = orders[o]
                                /\ orders'[o].user = orders[o].user /\ orders'[o].plan = orders[o].plan
                                /\ orders'[o].price = orders[o].price
                                /\ orders'[o].service = orders[o].service
                                /\ orders'[o].renew = orders[o].renew
                                /\ orders'[o].coupon = orders[o].coupon
<1>1. orders \in [OrderIds -> Order]
  BY DEF TypeInv, TypeOK
<1>2. /\ orders'[x] = [orders[x] EXCEPT !.status = st]
      /\ \A o \in OrderIds \ {x} : orders'[o] = orders[o]
  BY <1>1 DEF Restatus
<1>3. orders[x] \in Order
  BY <1>1
<1>4. /\ orders'[x].status = st /\ orders'[x].user = orders[x].user
      /\ orders'[x].plan = orders[x].plan /\ orders'[x].price = orders[x].price
      /\ orders'[x].service = orders[x].service /\ orders'[x].renew = orders[x].renew
      /\ orders'[x].coupon = orders[x].coupon
  BY <1>2, <1>3 DEF Order
<1> QED
  BY <1>2, <1>4

\* The rows a purchase writes, and what was checked before.
PlacedOf(q) == {q} \X (0 .. quotes[q].qty - 1)

LEMMA PurchaseRows ==
  ASSUME TypeInv, NEW u \in Users, NEW q \in QuoteIds, NEW card \in BOOLEAN, Purchase(u, q, card)
  PROVE  LET Q == quotes[q] IN
         /\ PlacedOf(q) \subseteq OrderIds /\ Q.qty \in 1 .. MaxQty /\ Q.plan \in Plans
         /\ Q.user = u /\ plans[Q.plan] = Q.snapshot /\ Orderable(u, Q.plan, Q.renew, Q.qty)
         /\ \A o \in PlacedOf(q) :
              /\ o = <<q, o[2]>> /\ o[1] # "trial"
              /\ orders'[o].user = u /\ orders'[o].plan = Q.plan
              /\ orders'[o].price = OrderPrice(u, Q.plan, o[2])
              /\ orders'[o].status \in Open
              /\ orders'[o].service = IF Q.renew # None THEN Q.renew ELSE o
              /\ orders'[o].renew = Q.renew
              /\ orders'[o].coupon = IF o = <<q, 0>> THEN AppliedCoupon(u) ELSE None
         /\ \A o \in OrderIds \ PlacedOf(q) : orders'[o] = orders[o]
<1>1. /\ quotes[q] \in Quote /\ quotes[q].user = u /\ u # None
      /\ plans[quotes[q].plan] = quotes[q].snapshot
      /\ Orderable(u, quotes[q].plan, quotes[q].renew, quotes[q].qty)
  BY SalesAssumption DEF Purchase, QuoteUsable, PlaceOrders, TypeInv, TypeOK
<1>2. quotes[q].qty \in 1 .. MaxQty /\ quotes[q].plan \in Plans
  BY <1>1 DEF Quote, TypeInv, RowsFilled
<1>3. \A i \in 0 .. quotes[q].qty - 1 : <<q, i>> \in OrderIds
  BY <1>2, SalesAssumption DEF OrderIds
<1>4. \A o \in PlacedOf(q) : /\ o \in OrderIds /\ o = <<q, o[2]>> /\ o[1] # "trial"
                             /\ o[2] = 0 <=> o = <<q, 0>>
  BY <1>3, SalesAssumption DEF PlacedOf
<1> DEFINE New(i) == [user |-> u, plan |-> quotes[q].plan,
                      price |-> OrderPrice(u, quotes[q].plan, i),
                      status |-> IF card THEN "awaiting_receipt" ELSE "paid",
                      service |-> IF quotes[q].renew # None THEN quotes[q].renew ELSE <<q, i>>,
                      renew |-> quotes[q].renew,
                      coupon |-> IF i = 0 THEN AppliedCoupon(u) ELSE None]
<1>5. orders' = [o \in OrderIds |-> IF o \in PlacedOf(q) THEN New(o[2]) ELSE orders[o]]
  BY DEF Purchase, PlaceOrders, PlacedOf
<1>6. ASSUME NEW o \in PlacedOf(q)
      PROVE  /\ orders'[o].user = u /\ orders'[o].plan = quotes[q].plan
             /\ orders'[o].price = OrderPrice(u, quotes[q].plan, o[2])
             /\ orders'[o].status \in Open
             /\ orders'[o].service = IF quotes[q].renew # None THEN quotes[q].renew ELSE o
             /\ orders'[o].renew = quotes[q].renew
             /\ orders'[o].coupon = IF o = <<q, 0>> THEN AppliedCoupon(u) ELSE None
  <2>1. orders'[o] = New(o[2])
    BY <1>4, <1>5
  <2> QED
    BY <1>4, <2>1 DEF Open
<1> HIDE DEF New
<1>7. \A o \in OrderIds \ PlacedOf(q) : orders'[o] = orders[o]
  BY <1>5
<1> QED
  BY <1>1, <1>2, <1>4, <1>6, <1>7

\* An order of the trial is none of a quote's.
LEMMA TrialRows ==
  ASSUME TypeInv, NEW u \in Users, NEW p \in Plans, TakeTrial(u, p)
  PROVE  \E x \in OrderIds :
           /\ x[1] = "trial" /\ ~Exists(x)
           /\ orders'[x] = [user |-> u, plan |-> p, price |-> 0, status |-> "paid",
                            service |-> x, renew |-> None, coupon |-> None]
           /\ \A o \in OrderIds \ {x} : orders'[o] = orders[o]
           /\ plans[p].status = "active"
           /\ plans[p].capacity > 0 => Cardinality(Sold(p)) < plans[p].capacity
           /\ UNCHANGED <<plans, coupons, redeemed, quotes, services>>
<1> DEFINE x == <<"trial", u>>
<1>1. x \in OrderIds /\ x[1] = "trial"
  BY DEF OrderIds
<1>2. ~Exists(x) /\ orders' = [orders EXCEPT ![x] =
        [user |-> u, plan |-> p, price |-> 0, status |-> "paid",
         service |-> x, renew |-> None, coupon |-> None]]
  BY DEF TakeTrial
<1> HIDE DEF x
<1>3. /\ orders'[x] = [user |-> u, plan |-> p, price |-> 0, status |-> "paid",
                       service |-> x, renew |-> None, coupon |-> None]
      /\ \A o \in OrderIds \ {x} : orders'[o] = orders[o]
  BY <1>1, <1>2 DEF TypeInv, TypeOK
<1>4. /\ plans[p].status = "active"
      /\ plans[p].capacity > 0 => Cardinality(Sold(p)) < plans[p].capacity
      /\ UNCHANGED <<plans, coupons, redeemed, quotes, services>>
  BY DEF TakeTrial
<1> QED
  BY <1>1, <1>2, <1>3, <1>4

-----------------------------------------------------------------------------
(* Prices *)

\* A percentage off a price is no more than the price (Cut).
LEMMA CutLess ==
  ASSUME NEW price \in Nat, NEW percent \in Percent
  PROVE  Cut(price, percent) <= price
<1>1. PICK k \in Nat : k = 100 - percent /\ k <= 100
  BY DEF Percent
<1>2. price * k <= price * 100 /\ price * k \in Nat
  BY <1>1
<1>3. \A n \in Nat : n <= price * 100 => n \div 100 <= price
  OBVIOUS
<1> QED
  BY <1>1, <1>2, <1>3 DEF Cut

\* Whatever reseller's discount and coupon, an order costs no more than its plan.
LEMMA OrderPriceLess ==
  ASSUME TypeOK, NEW u \in Users, NEW p \in Plans, NEW i
  PROVE  OrderPrice(u, p, i) <= plans[p].price
<1> DEFINE base == IF users[u].reseller /\ "reseller" \in enabled
                   THEN Cut(plans[p].price, ResellerDiscount) ELSE plans[p].price
<1>1. plans[p].price \in Nat
  BY DEF TypeOK, Plan
<1>2. base \in Nat /\ base <= plans[p].price
  BY <1>1, CutType, CutLess, SalesAssumption
<1> HIDE DEF base
<1>3. ASSUME AppliedCoupon(u) # None
      PROVE  Cut(base, coupons[AppliedCoupon(u)].percent) \in Nat
             /\ Cut(base, coupons[AppliedCoupon(u)].percent) <= base
  <2>1. AppliedCoupon(u) \in Codes
    BY <1>3, AppliedCouponType
  <2>2. coupons[AppliedCoupon(u)].percent \in Percent
    BY <2>1 DEF TypeOK
  <2> QED
    BY <1>2, <2>2, CutType, CutLess
<1>4. OrderPrice(u, p, i) = IF i = 0 /\ AppliedCoupon(u) # None
                            THEN Cut(base, coupons[AppliedCoupon(u)].percent) ELSE base
  BY DEF OrderPrice, base
<1> QED
  BY <1>1, <1>2, <1>3, <1>4

\* The orders of a quote are for its plan and cost no more than it showed, and
\* a quote for a renewal is for one order.
QuoteFits(q) ==
  /\ quotes[q].renew # None => quotes[q].qty = 1
  /\ \A i \in 0 .. MaxQty - 1 : Exists(<<q, i>>) =>
       /\ orders[<<q, i>>].plan = quotes[q].plan
       /\ orders[<<q, i>>].price <= quotes[q].snapshot.price

Quoted == \A q \in QuoteIds : QuoteFits(q)

LEMMA QuoteIdsOrders ==
  \A q \in QuoteIds, i \in 0 .. MaxQty - 1 : <<q, i>> \in OrderIds /\ <<q, i>>[1] # "trial"
BY SalesAssumption DEF OrderIds

\* Rows of quotes stay, and of their orders plan and price.
LEMMA QuotesAlone ==
  ASSUME Quoted, quotes' = quotes,
         \A o \in OrderIds : o[1] # "trial" =>
           /\ Exists(o)' => Exists(o)
           /\ Exists(o) => orders'[o].plan = orders[o].plan /\ orders'[o].price = orders[o].price
  PROVE  Quoted'
BY QuoteIdsOrders DEF Quoted, QuoteFits

LEMMA QuotedKept == ASSUME PaidInv, Quoted, TableSteps PROVE Quoted'
<1>0. TypeInv
  BY DEF PaidInv
<1>1. CASE quotes' = quotes /\ orders' = orders
  BY <1>1, QuotesAlone DEF Exists
<1>2. ASSUME NEW u \in Users, NEW q \in QuoteIds, NEW card \in BOOLEAN, Purchase(u, q, card)
      PROVE  Quoted'
  <2>1. /\ quotes' = quotes /\ PlacedOf(q) \subseteq OrderIds /\ quotes[q].plan \in Plans
        /\ plans[quotes[q].plan] = quotes[q].snapshot
        /\ \A o \in PlacedOf(q) : /\ o[1] = q /\ orders'[o].plan = quotes[q].plan
                                  /\ orders'[o].price = OrderPrice(u, quotes[q].plan, o[2])
        /\ \A o \in OrderIds \ PlacedOf(q) : orders'[o] = orders[o]
    BY <1>0, <1>2, PurchaseRows DEF Purchase
  <2>2. \A o \in PlacedOf(q) : orders'[o].price <= quotes[q].snapshot.price
    BY <1>0, <2>1, OrderPriceLess DEF TypeInv
  <2>3. \A i \in 0 .. MaxQty - 1 : ~Exists(<<q, i>>)
    BY <1>2 DEF Purchase, PaidInv, AllOrNone
  <2> SUFFICES ASSUME NEW r \in QuoteIds PROVE QuoteFits(r)'
    BY DEF Quoted
  <2>4. CASE r = q
    <3> SUFFICES ASSUME NEW i \in 0 .. MaxQty - 1, Exists(<<q, i>>)'
                 PROVE  /\ orders'[<<q, i>>].plan = quotes[q].plan
                        /\ orders'[<<q, i>>].price <= quotes[q].snapshot.price
      BY <2>1, <2>4 DEF QuoteFits, Quoted
    <3>1. <<q, i>> \in PlacedOf(q)
      BY <2>1, <2>3, QuoteIdsOrders DEF Exists
    <3> QED
      BY <2>1, <2>2, <3>1
  <2>5. CASE r # q
    <3>1. \A i \in 0 .. MaxQty - 1 : <<r, i>> \in OrderIds /\ <<r, i>> \notin PlacedOf(q)
      BY <2>1, <2>5, QuoteIdsOrders
    <3> QED
      BY <2>1, <3>1 DEF Quoted, QuoteFits, Exists
  <2> QED
    BY <2>4, <2>5
<1>3. ASSUME NEW x \in OrderIds, NEW st, Restatus(x, st), Exists(x) PROVE Quoted'
  <2>1. quotes' = quotes
    BY <1>3 DEF Restatus
  <2> QED
    BY <1>0, <1>3, <2>1, Restatused, QuotesAlone DEF Exists
<1>4. ASSUME NEW x \in OrderIds, Rejection(x) \/ Delivery(x) \/ \E st \in OrderStatus : Progress(x, st)
      PROVE  Quoted'
  BY <1>3, <1>4 DEF Rejection, Delivery, Progress, Exists
<1>5. ASSUME NEW u \in Users, NEW p \in Plans, TakeTrial(u, p) PROVE Quoted'
  BY <1>0, <1>5, TrialRows, QuotesAlone DEF Exists
<1>6. ASSUME NEW u \in Users, NEW q \in QuoteIds, Quoting(u, q) PROVE Quoted'
  <2>1. /\ orders' = orders /\ \A i \in 0 .. MaxQty - 1 : ~Exists(<<q, i>>)
        /\ quotes'[q].renew # None => quotes'[q].qty = 1
        /\ \A r \in QuoteIds \ {q} : quotes'[r] = quotes[r]
    BY <1>0, <1>6 DEF Quoting, NewQuote, TypeInv, TypeOK
  <2> QED
    BY <2>1 DEF Quoted, QuoteFits, Exists
<1>7. ASSUME NEW p \in Edited, DeletePlan(p) PROVE Quoted'
  <2>1. /\ orders' = orders /\ \A o \in OrderIds : Exists(o) => orders[o].plan # p
        /\ \A q \in QuoteIds : quotes'[q] = IF quotes[q].plan = p THEN NoQuote ELSE quotes[q]
    BY <1>7 DEF DeletePlan, HasHistory
  <2> SUFFICES ASSUME NEW q \in QuoteIds PROVE QuoteFits(q)'
    BY DEF Quoted
  <2>2. CASE quotes[q].plan = p
    <3>1. \A i \in 0 .. MaxQty - 1 : ~Exists(<<q, i>>)
      BY <2>1, <2>2, QuoteIdsOrders DEF Quoted, QuoteFits
    <3> QED
      BY <2>1, <2>2, <3>1 DEF QuoteFits, NoQuote, Exists
  <2>3. CASE quotes[q].plan # p
    BY <2>1, <2>3 DEF Quoted, QuoteFits, Exists
  <2> QED
    BY <2>2, <2>3
<1>8. CASE \/ \E u \in Users, c \in Codes : Gift(u, c)
           \/ \E u \in Users, s \in ServiceIds : DeleteService(u, s)
           \/ \E c \in Codes, terms \in CouponTerms : SaveCoupon(c, terms)
           \/ \E p \in Edited, price \in Prices, cap \in Capacities, active, trial \in BOOLEAN :
                SavePlan(p, price, cap, active, trial)
           \/ \E p \in Edited, active \in BOOLEAN : TogglePlan(p, active)
  BY <1>1, <1>8 DEF Gift, DeleteService, SaveCoupon, SavePlan, TogglePlan
<1> QED
  BY <1>1, <1>2, <1>4, <1>5, <1>6, <1>7, <1>8 DEF TableSteps

PriceInv == PaidInv /\ Quoted

LEMMA PriceInit == Init => PriceInv
<1> SUFFICES ASSUME Init PROVE Quoted
  BY PaidInit DEF PriceInv
<1>1. /\ \A q \in QuoteIds : quotes[q].renew = None
      /\ \A o \in OrderIds : orders[o].status = "none"
  BY DEF Init, NoQuote, NoOrder
<1> QED
  BY <1>1, QuoteIdsOrders DEF Quoted, QuoteFits, Exists

LEMMA PriceNext == PriceInv /\ [Next]_vars => PriceInv'
<1> SUFFICES ASSUME PriceInv, [Next]_vars PROVE PriceInv'
  OBVIOUS
<1>1. PaidInv'
  BY PaidNext DEF PriceInv
<1>2. TableSteps
  BY Tables DEF PriceInv, PaidInv
<1>3. Quoted'
  BY <1>2, QuotedKept DEF PriceInv
<1> QED
  BY <1>1, <1>3 DEF PriceInv

\* Nobody pays more than the quote showed, although plan, coupons and settings
\* are edited while it is open (purchase_quote, sales.py).
THEOREM SalesPrices == Spec => []PriceAsQuoted
<1>1. PriceInv => PriceAsQuoted
  BY DEF PriceInv, Quoted, QuoteFits, PriceAsQuoted
<1> QED
  BY <1>1, PriceInit, PriceNext, PTL DEF Spec

-----------------------------------------------------------------------------
(* Coupons *)

\* Nobody starts to hold a coupon and none is freed.
LEMMA HoldersAlone ==
  ASSUME CouponHeldOnce, redeemed \subseteq redeemed',
         \A o \in OrderIds : Live(o)' /\ orders'[o].coupon # None =>
           /\ Live(o) /\ orders[o].coupon = orders'[o].coupon
           /\ orders[o].user = orders'[o].user
  PROVE  CouponHeldOnce'
<1> SUFFICES ASSUME NEW c \in Codes, NEW o \in Holders(c)'
             PROVE  /\ <<c, orders'[o].user>> \in redeemed'
                    /\ \A p \in Holders(c)' : orders'[p].user = orders'[o].user => p = o
  BY DEF CouponHeldOnce
<1>1. c # None
  BY SalesAssumption
<1>2. \A p \in Holders(c)' : p \in Holders(c) /\ orders[p].user = orders'[p].user
  BY <1>1 DEF Holders
<1> QED
  BY <1>2 DEF CouponHeldOnce

LEMMA HeldKept == ASSUME TypeInv, CouponHeldOnce, TableSteps PROVE CouponHeldOnce'
<1>1. ASSUME orders' = orders, redeemed \subseteq redeemed' PROVE CouponHeldOnce'
  BY <1>1, HoldersAlone DEF Live
<1>2. ASSUME NEW u \in Users, NEW q \in QuoteIds, NEW card \in BOOLEAN, Purchase(u, q, card)
      PROVE  CouponHeldOnce'
  <2>1. /\ \A o \in PlacedOf(q) : /\ orders'[o].user = u
                                  /\ orders'[o].coupon # None =>
                                       o = <<q, 0>> /\ orders'[o].coupon = AppliedCoupon(u)
        /\ \A o \in OrderIds \ PlacedOf(q) : orders'[o] = orders[o]
    BY <1>2, PurchaseRows
  <2>2. CASE AppliedCoupon(u) = None
    <3>1. redeemed' = redeemed
      BY <1>2, <2>2 DEF Purchase, PlaceOrders
    <3> QED
      BY <2>1, <2>2, <3>1, HoldersAlone DEF Live
  <2>3. CASE AppliedCoupon(u) # None
    <3>1. PICK k \in Codes : k = AppliedCoupon(u) /\ <<k, u>> \notin redeemed
                             /\ redeemed' = redeemed \cup {<<k, u>>}
      <4>1. AppliedCoupon(u) \in Codes
        BY <2>3, AppliedCouponType DEF TypeInv
      <4>2. <<AppliedCoupon(u), u>> \notin redeemed
        BY <2>3 DEF AppliedCoupon, Redeemable
      <4>3. redeemed' = redeemed \cup {<<AppliedCoupon(u), u>>}
        BY <1>2, <2>3 DEF Purchase, PlaceOrders, Redeem
      <4> QED
        BY <4>1, <4>2, <4>3
    <3> SUFFICES ASSUME NEW c \in Codes, NEW o \in Holders(c)'
                 PROVE  /\ <<c, orders'[o].user>> \in redeemed'
                        /\ \A p \in Holders(c)' : orders'[p].user = orders'[o].user => p = o
      BY DEF CouponHeldOnce
    <3>2. c # None
      BY SalesAssumption
    <3>3. \A p \in Holders(c)' :
            \/ p = <<q, 0>> /\ c = k /\ orders'[p].user = u
            \/ p \in Holders(c) /\ orders'[p].user = orders[p].user
               /\ <<c, orders[p].user>> \in redeemed
      BY <2>1, <3>1, <3>2 DEF Holders, Live, CouponHeldOnce
    <3> QED
      BY <3>1, <3>3 DEF CouponHeldOnce
  <2> QED
    BY <2>2, <2>3
<1>3. ASSUME NEW x \in OrderIds, Rejection(x) PROVE CouponHeldOnce'
  <2>1. /\ orders'[x].status = "cancelled" /\ Live(x)
        /\ \A o \in OrderIds : /\ o # x => orders'[o] = orders[o]
                               /\ orders'[o].user = orders[o].user
                               /\ orders'[o].coupon = orders[o].coupon
    BY <1>3, Restatused DEF Rejection, Live
  <2>2. redeemed' = redeemed \/ redeemed' = redeemed \ {<<orders[x].coupon, orders[x].user>>}
    BY <1>3 DEF Rejection, RestoreCoupon
  <2> SUFFICES ASSUME NEW c \in Codes, NEW o \in Holders(c)'
               PROVE  /\ <<c, orders'[o].user>> \in redeemed'
                      /\ \A p \in Holders(c)' : orders'[p].user = orders'[o].user => p = o
    BY DEF CouponHeldOnce
  <2>3. \A p \in Holders(c)' : p \in Holders(c) /\ p # x
    BY <2>1 DEF Holders, Live
  <2>4. orders[x].coupon = c => x \in Holders(c)
    BY <2>1 DEF Holders
  <2>5. orders[x].coupon = c => orders[x].user # orders[o].user
    BY <2>3, <2>4 DEF CouponHeldOnce
  <2>6. <<c, orders[o].user>> \in redeemed'
    BY <2>2, <2>3, <2>5 DEF CouponHeldOnce
  <2> QED
    BY <2>1, <2>3, <2>6 DEF CouponHeldOnce, Holders
<1>4. ASSUME NEW x \in OrderIds, NEW st, Restatus(x, st), Live(x), redeemed' = redeemed
      PROVE  CouponHeldOnce'
  BY <1>4, Restatused, HoldersAlone DEF Live
<1>5. ASSUME NEW x \in OrderIds, Delivery(x) \/ \E st \in OrderStatus : Progress(x, st)
      PROVE  CouponHeldOnce'
  BY <1>4, <1>5 DEF Delivery, Progress, Live
<1>6. ASSUME NEW u \in Users, NEW p \in Plans, TakeTrial(u, p) PROVE CouponHeldOnce'
  <2>1. PICK x \in OrderIds :
          /\ orders'[x] = [user |-> u, plan |-> p, price |-> 0, status |-> "paid",
                           service |-> x, renew |-> None, coupon |-> None]
          /\ \A o \in OrderIds \ {x} : orders'[o] = orders[o]
    BY <1>6, TrialRows
  <2>2. redeemed' = redeemed
    BY <1>6 DEF TakeTrial
  <2> QED
    BY <2>1, <2>2, HoldersAlone DEF Live
<1>7. CASE \E u \in Users, c \in Codes : Gift(u, c)
  BY <1>1, <1>7 DEF Gift, Redeem
<1>8. CASE \/ \E u \in Users, q \in QuoteIds : Quoting(u, q)
           \/ \E u \in Users, s \in ServiceIds : DeleteService(u, s)
           \/ \E c \in Codes, terms \in CouponTerms : SaveCoupon(c, terms)
           \/ \E p \in Edited, price \in Prices, cap \in Capacities, active, trial \in BOOLEAN :
                SavePlan(p, price, cap, active, trial)
           \/ \E p \in Edited, active \in BOOLEAN : TogglePlan(p, active)
           \/ \E p \in Edited : DeletePlan(p)
  BY <1>1, <1>8 DEF Quoting, DeleteService, SaveCoupon, SavePlan, TogglePlan, DeletePlan
<1> QED
  BY <1>1, <1>2, <1>3, <1>5, <1>6, <1>7, <1>8 DEF TableSteps

\* What steps do to the uses of coupons.
CouponSteps ==
  \/ UNCHANGED <<coupons, redeemed>>
  \/ \E c \in Codes, u \in Users : Redeemable(c, u) /\ Redeem(c, u)
  \/ \E c \in Codes, u \in Users :
       /\ <<c, u>> \in redeemed /\ redeemed' = redeemed \ {<<c, u>>}
       /\ coupons' = [coupons EXCEPT ![c].uses = @ + 1]
  \/ \E c \in Codes, terms \in CouponTerms : SaveCoupon(c, terms)

LEMMA CouponsStep == ASSUME TypeInv, TableSteps PROVE CouponSteps
<1>1. ASSUME NEW u \in Users, NEW q \in QuoteIds, NEW card \in BOOLEAN, Purchase(u, q, card)
      PROVE  CouponSteps
  <2>1. IF AppliedCoupon(u) # None THEN Redeem(AppliedCoupon(u), u)
        ELSE UNCHANGED <<coupons, redeemed>>
    BY <1>1 DEF Purchase, PlaceOrders
  <2>2. AppliedCoupon(u) # None => AppliedCoupon(u) \in Codes /\ Redeemable(AppliedCoupon(u), u)
    BY AppliedCouponType DEF TypeInv, AppliedCoupon
  <2> QED
    BY <2>1, <2>2 DEF CouponSteps
<1>2. ASSUME NEW x \in OrderIds, Rejection(x) PROVE CouponSteps
  <2>1. orders[x].user \in Users /\ orders[x].coupon \in Codes \cup {None}
    BY <1>2 DEF Rejection, TypeInv, TypeOK, RowsFilled, Exists, Order
  <2> QED
    BY <1>2, <2>1 DEF CouponSteps, Rejection, RestoreCoupon
<1>3. ASSUME NEW u \in Users, NEW c \in Codes, Gift(u, c) PROVE CouponSteps
  BY <1>3 DEF Gift, CouponSteps
<1>4. CASE UNCHANGED <<coupons, redeemed>>
  BY <1>4 DEF CouponSteps
<1>5. CASE \E c \in Codes, terms \in CouponTerms : SaveCoupon(c, terms)
  BY <1>5 DEF CouponSteps
<1>6. CASE \/ \E x \in OrderIds : Delivery(x) \/ \E st \in OrderStatus : Progress(x, st)
           \/ \E u \in Users, p \in Plans : TakeTrial(u, p)
           \/ \E u \in Users, q \in QuoteIds : Quoting(u, q)
           \/ \E u \in Users, s \in ServiceIds : DeleteService(u, s)
           \/ \E p \in Edited, price \in Prices, cap \in Capacities, active, trial \in BOOLEAN :
                SavePlan(p, price, cap, active, trial)
           \/ \E p \in Edited, active \in BOOLEAN : TogglePlan(p, active)
           \/ \E p \in Edited : DeletePlan(p)
  BY <1>4, <1>6 DEF Delivery, Progress, TakeTrial, Quoting, DeleteService, SavePlan, TogglePlan,
     DeletePlan
<1> QED
  BY <1>1, <1>2, <1>3, <1>4, <1>5, <1>6 DEF TableSteps

RedeemersFinite == \A c \in Codes : IsFiniteSet(RedeemedBy(c))

\* The action of CouponConserved.
Conserves ==
  \A c \in Codes :
    \/ coupons'[c].uses + Cardinality(RedeemedBy(c)') = coupons[c].uses + Cardinality(RedeemedBy(c))
    \/ \E terms \in CouponTerms : SaveCoupon(c, terms)

\* The uses of one code are those of its row and of its users.
LEMMA UsesCounted ==
  ASSUME TypeInv, RedeemersFinite, CouponSteps
  PROVE  RedeemersFinite' /\ Conserves
<1>0. /\ coupons \in [Codes -> CouponRow] /\ redeemed \subseteq Codes \X Users
      /\ \A c \in Codes : coupons[c].uses \in Nat /\ Cardinality(RedeemedBy(c)) \in Nat
  <2>1. \A c \in Codes : coupons[c].uses \in Nat
    BY DEF TypeInv, TypeOK
  <2> QED
    BY <2>1, FS_CardinalityType DEF TypeInv, TypeOK, CouponRow, RedeemersFinite
<1>1. ASSUME NEW c \in Codes, coupons'[c] = coupons[c],
             \A u \in Users : <<c, u>> \in redeemed' <=> <<c, u>> \in redeemed
      PROVE  /\ IsFiniteSet(RedeemedBy(c)')
             /\ coupons'[c].uses + Cardinality(RedeemedBy(c)')
                  = coupons[c].uses + Cardinality(RedeemedBy(c))
  <2>1. RedeemedBy(c)' = RedeemedBy(c)
    BY <1>1 DEF RedeemedBy
  <2> QED
    BY <1>1, <2>1 DEF RedeemersFinite
<1>2. ASSUME NEW k \in Codes, NEW u \in Users, Redeemable(k, u), Redeem(k, u)
      PROVE  RedeemersFinite' /\ Conserves
  <2>1. /\ coupons'[k].uses = coupons[k].uses - 1
        /\ \A c \in Codes \ {k} : coupons'[c] = coupons[c]
    BY <1>0, <1>2 DEF Redeem, CouponRow
  <2>2. RedeemedBy(k)' = RedeemedBy(k) \cup {u} /\ u \notin RedeemedBy(k)
    BY <1>2 DEF Redeem, Redeemable, RedeemedBy
  <2>3. /\ IsFiniteSet(RedeemedBy(k) \cup {u})
        /\ Cardinality(RedeemedBy(k) \cup {u}) = Cardinality(RedeemedBy(k)) + 1
    BY <2>2, FS_AddElement DEF RedeemersFinite
  <2>4. /\ IsFiniteSet(RedeemedBy(k)')
        /\ coupons'[k].uses + Cardinality(RedeemedBy(k)')
             = coupons[k].uses + Cardinality(RedeemedBy(k))
    BY <1>0, <2>1, <2>2, <2>3
  <2>5. \A c \in Codes \ {k}, v \in Users : <<c, v>> \in redeemed' <=> <<c, v>> \in redeemed
    BY <1>2 DEF Redeem
  <2> QED
    BY <1>1, <2>1, <2>4, <2>5 DEF RedeemersFinite, Conserves
<1>3. ASSUME NEW k \in Codes, NEW u \in Users, <<k, u>> \in redeemed,
             redeemed' = redeemed \ {<<k, u>>}, coupons' = [coupons EXCEPT ![k].uses = @ + 1]
      PROVE  RedeemersFinite' /\ Conserves
  <2>1. /\ coupons'[k].uses = coupons[k].uses + 1
        /\ \A c \in Codes \ {k} : coupons'[c] = coupons[c]
    BY <1>0, <1>3 DEF CouponRow
  <2>2. RedeemedBy(k)' = RedeemedBy(k) \ {u} /\ u \in RedeemedBy(k)
    BY <1>3 DEF RedeemedBy
  <2>3. /\ IsFiniteSet(RedeemedBy(k) \ {u})
        /\ Cardinality(RedeemedBy(k) \ {u}) = Cardinality(RedeemedBy(k)) - 1
    BY <2>2, FS_RemoveElement DEF RedeemersFinite
  <2>4. /\ IsFiniteSet(RedeemedBy(k)')
        /\ coupons'[k].uses + Cardinality(RedeemedBy(k)')
             = coupons[k].uses + Cardinality(RedeemedBy(k))
    BY <1>0, <2>1, <2>2, <2>3
  <2>5. \A c \in Codes \ {k}, v \in Users : <<c, v>> \in redeemed' <=> <<c, v>> \in redeemed
    BY <1>3
  <2> QED
    BY <1>1, <2>1, <2>4, <2>5 DEF RedeemersFinite, Conserves
<1>4. ASSUME NEW k \in Codes, NEW terms \in CouponTerms, SaveCoupon(k, terms)
      PROVE  RedeemersFinite' /\ Conserves
  <2>1. redeemed' = redeemed /\ \A c \in Codes \ {k} : coupons'[c] = coupons[c]
    BY <1>0, <1>4 DEF SaveCoupon
  <2>2. RedeemersFinite'
    BY <2>1 DEF RedeemersFinite, RedeemedBy
  <2> QED
    BY <1>1, <1>4, <2>1, <2>2 DEF Conserves
<1>5. CASE UNCHANGED <<coupons, redeemed>>
  BY <1>1, <1>5 DEF RedeemersFinite, Conserves
<1> QED
  BY <1>2, <1>3, <1>4, <1>5 DEF CouponSteps

CouponInv == TypeInv /\ CouponHeldOnce /\ RedeemersFinite

LEMMA CouponInit == Init => CouponInv
<1> SUFFICES ASSUME Init PROVE CouponHeldOnce /\ RedeemersFinite
  BY InitType DEF CouponInv
<1>1. \A c \in Codes : Holders(c) = {} /\ RedeemedBy(c) = {}
  BY DEF Init, NoOrder, Holders, Live, RedeemedBy
<1> QED
  BY <1>1, FS_EmptySet DEF CouponHeldOnce, RedeemersFinite

LEMMA CouponNext == CouponInv /\ [Next]_vars => CouponInv' /\ [Conserves]_vars
<1> SUFFICES ASSUME CouponInv, [Next]_vars PROVE CouponInv' /\ Conserves
  OBVIOUS
<1>1. TypeInv'
  BY NextType DEF CouponInv
<1>2. TableSteps
  BY Tables DEF CouponInv
<1>3. CouponHeldOnce'
  BY <1>2, HeldKept DEF CouponInv
<1>4. CouponSteps
  BY <1>2, CouponsStep DEF CouponInv
<1>5. RedeemersFinite' /\ Conserves
  BY <1>4, UsesCounted DEF CouponInv
<1> QED
  BY <1>1, <1>3, <1>5 DEF CouponInv

\* A coupon discounts one living order of a buyer, and through purchases, gifts,
\* rejections and cancellations no use of it is lost or gained (order,
\* restore_reserved_coupon, sales.py).
THEOREM SalesCoupons == Spec => CouponsAccounted
<1>1. CouponInv => CouponHeldOnce
  BY DEF CouponInv
<1>2. CouponConserved <=> [][Conserves]_vars
  BY DEF CouponConserved, Conserves
<1> QED
  BY <1>1, <1>2, CouponInit, CouponNext, PTL DEF Spec, CouponsAccounted

-----------------------------------------------------------------------------
(* Places of plans and orders of services                                  *)
(*                                                                         *)
(* A plan without a row has no orders, so that an administrator who saves  *)
(* it anew is held back by nothing; a service is the order that created    *)
(* it, and every later order of the service is of the same user.           *)

PlanRows == \A o \in OrderIds : Exists(o) => plans[orders[o].plan].status # "none"

Room(p) ==
  /\ IsFiniteSet(Sold(p))
  /\ plans[p].capacity > 0 => Cardinality(Sold(p)) <= plans[p].capacity

AllRoom == \A p \in Plans : Room(p)

OwnService(s, u) == s \in OrderIds /\ Exists(s) /\ orders[s].service = s /\ orders[s].user = u

ServicesOwned ==
  /\ \A o \in OrderIds : Exists(o) => OwnService(orders[o].service, orders[o].user)
  /\ \A s \in ServiceIds : services[s].status # "none" => OwnService(s, services[s].user)

OneOpen ==
  \A o, p \in OrderIds :
    /\ orders[o].status \in Open /\ orders[p].status \in Open
    /\ orders[o].service = orders[p].service
    => o = p

PlaceInv == PriceInv /\ PlanRows /\ AllRoom /\ ServicesOwned /\ OneOpen

\* An order of the table moves to a status, and leaves its place or keeps it.
LEMMA RestatusKeeps ==
  ASSUME TypeInv, PlanRows, AllRoom, OneOpen, NEW x \in OrderIds, NEW st, Restatus(x, st),
         Exists(x), Live(x) \/ st = "cancelled",
         orders[x].status \in Open \/ st \notin Open
  PROVE  PlanRows' /\ AllRoom' /\ OneOpen'
<1>1. /\ orders'[x].status = st
      /\ \A o \in OrderIds : /\ o # x => orders'[o] = orders[o]
                             /\ orders'[o].plan = orders[o].plan
                             /\ orders'[o].service = orders[o].service
                             /\ orders'[o].renew = orders[o].renew
  BY Restatused
<1>2. PlanRows'
  BY <1>1 DEF PlanRows, Exists, Restatus
<1>3. ASSUME NEW p \in Plans PROVE Room(p)'
  <2>1. Sold(p)' \subseteq Sold(p)
    BY <1>1 DEF Sold, Live
  <2>2. /\ IsFiniteSet(Sold(p)') /\ Cardinality(Sold(p)') <= Cardinality(Sold(p))
        /\ Cardinality(Sold(p)') \in Nat /\ Cardinality(Sold(p)) \in Nat
    BY <2>1, FS_Subset, FS_CardinalityType DEF AllRoom, Room
  <2>3. plans' = plans /\ plans[p].capacity \in Nat
    BY DEF Restatus, TypeInv, TypeOK, Plan
  <2> QED
    BY <2>2, <2>3 DEF AllRoom, Room
<1>4. OneOpen'
  BY <1>1 DEF OneOpen
<1> QED
  BY <1>2, <1>3, <1>4 DEF AllRoom

\* The orders of a purchase were not there before.
LEMMA PurchaseFresh ==
  ASSUME PaidInv, NEW u \in Users, NEW q \in QuoteIds, NEW card \in BOOLEAN, Purchase(u, q, card)
  PROVE  \A o \in PlacedOf(q) : ~Exists(o) /\ Exists(o)'
<1>1. TypeInv
  BY DEF PaidInv
<1>2. /\ PlacedOf(q) \subseteq OrderIds /\ quotes[q].qty \in 1 .. MaxQty
      /\ \A o \in PlacedOf(q) : o = <<q, o[2]>> /\ orders'[o].status \in Open
  BY <1>1, PurchaseRows
<1>3. \A i \in 0 .. MaxQty - 1 : ~Exists(<<q, i>>)
  BY DEF Purchase, PaidInv, AllOrNone
<1>4. \A o \in PlacedOf(q) : o[2] \in 0 .. MaxQty - 1
  BY <1>2, SalesAssumption DEF PlacedOf
<1> QED
  BY <1>2, <1>3, <1>4 DEF Exists, Open

\* A service of the table stays what its first order made it, when no order
\* loses its row.
LEMMA OwnerStays ==
  ASSUME NEW s, NEW u, OwnService(s, u),
         \A o \in OrderIds : Exists(o) => /\ Exists(o)' /\ orders'[o].service = orders[o].service
                                          /\ orders'[o].user = orders[o].user
  PROVE  OwnService(s, u)'
BY DEF OwnService

\* New orders, each of a service of its own or of one that is there.
Added(placed) ==
  /\ services' = services
  /\ \A o \in placed : /\ ~Exists(o) /\ Exists(o)'
                       /\ \/ orders'[o].service = o
                          \/ OwnService(orders'[o].service, orders'[o].user)
  /\ \A o \in OrderIds \ placed : orders'[o] = orders[o]

LEMMA OwnedKept == ASSUME PaidInv, ServicesOwned, TableSteps PROVE ServicesOwned'
<1>0. TypeInv
  BY DEF PaidInv
<1>1. ASSUME NEW placed \in SUBSET OrderIds, Added(placed)
      PROVE  ServicesOwned'
  <2>1. \A o \in OrderIds : Exists(o) => /\ Exists(o)' /\ orders'[o].service = orders[o].service
                                         /\ orders'[o].user = orders[o].user
    BY <1>1 DEF Added, Exists
  <2>2. ASSUME NEW o \in OrderIds, Exists(o)' PROVE OwnService(orders[o].service, orders[o].user)'
    <3>1. CASE o \in placed /\ orders'[o].service = o
      BY <2>2, <3>1 DEF OwnService
    <3>2. CASE o \in placed /\ OwnService(orders'[o].service, orders'[o].user)
      BY <2>1, <3>2, OwnerStays
    <3>3. CASE o \notin placed
      <4>1. Exists(o) /\ orders'[o] = orders[o]
        BY <1>1, <2>2, <3>3 DEF Added, Exists
      <4> QED
        BY <2>1, <4>1, OwnerStays DEF ServicesOwned
    <3> QED
      BY <1>1, <3>1, <3>2, <3>3 DEF Added
  <2>3. ASSUME NEW s \in ServiceIds, services'[s].status # "none"
        PROVE  OwnService(s, services[s].user)'
    BY <1>1, <2>1, <2>3, OwnerStays DEF Added, ServicesOwned
  <2> QED
    BY <2>2, <2>3 DEF ServicesOwned
<1>2. ASSUME NEW u \in Users, NEW q \in QuoteIds, NEW card \in BOOLEAN, Purchase(u, q, card)
      PROVE  ServicesOwned'
  <2>1. /\ PlacedOf(q) \subseteq OrderIds
        /\ Orderable(u, quotes[q].plan, quotes[q].renew, quotes[q].qty)
        /\ \A o \in PlacedOf(q) :
             /\ orders'[o].user = u
             /\ orders'[o].service = IF quotes[q].renew # None THEN quotes[q].renew ELSE o
        /\ \A o \in OrderIds \ PlacedOf(q) : orders'[o] = orders[o]
    BY <1>0, <1>2, PurchaseRows
  <2>2. \A o \in PlacedOf(q) : ~Exists(o) /\ Exists(o)'
    BY <1>2, PurchaseFresh
  <2>3. ASSUME quotes[q].renew # None PROVE OwnService(quotes[q].renew, u)
    <3>1. quotes[q].renew \in ServiceIds
      BY <1>0, <2>3 DEF TypeInv, TypeOK, Quote
    <3> QED
      BY <2>1, <2>3, <3>1 DEF Orderable, ServicesOwned
  <2>4. services' = services
    BY <1>2 DEF Purchase
  <2>5. Added(PlacedOf(q))
    BY <2>1, <2>2, <2>3, <2>4 DEF Added
  <2> QED
    BY <1>1, <2>1, <2>5
<1>3. ASSUME NEW u \in Users, NEW p \in Plans, TakeTrial(u, p) PROVE ServicesOwned'
  <2>1. PICK x \in OrderIds :
          /\ ~Exists(x)
          /\ orders'[x] = [user |-> u, plan |-> p, price |-> 0, status |-> "paid",
                           service |-> x, renew |-> None, coupon |-> None]
          /\ \A o \in OrderIds \ {x} : orders'[o] = orders[o]
          /\ services' = services
    BY <1>0, <1>3, TrialRows
  <2>2. Exists(x)' /\ orders'[x].service = x
    BY <2>1 DEF Exists
  <2>3. Added({x})
    BY <2>1, <2>2 DEF Added
  <2> QED
    BY <1>1, <2>3
<1>4. ASSUME NEW x \in OrderIds, NEW st, Restatus(x, st), Exists(x), st # "none",
             \A s \in ServiceIds : services'[s].status # "none" =>
               OwnService(s, services'[s].user)
      PROVE  ServicesOwned'
  <2>1. \A o \in OrderIds : /\ Exists(o)' <=> Exists(o)
                            /\ orders'[o].service = orders[o].service
                            /\ orders'[o].user = orders[o].user
    BY <1>0, <1>4, Restatused DEF Exists
  <2>2. \A o \in OrderIds : Exists(o)' => OwnService(orders[o].service, orders[o].user)'
    BY <2>1, OwnerStays DEF ServicesOwned
  <2>3. \A s \in ServiceIds : services'[s].status # "none" => OwnService(s, services[s].user)'
    BY <1>4, <2>1 DEF OwnService
  <2> QED
    BY <2>2, <2>3 DEF ServicesOwned
<1>5. ASSUME NEW x \in OrderIds, Rejection(x) \/ \E st \in OrderStatus : Progress(x, st)
      PROVE  ServicesOwned'
  <2>1. \A s \in ServiceIds : services'[s].status # "none" => OwnService(s, services'[s].user)
    BY <1>5 DEF Rejection, Progress, ServicesOwned
  <2> QED
    BY <1>4, <1>5, <2>1 DEF Rejection, Progress, Exists
<1>6. ASSUME NEW x \in OrderIds, Delivery(x) PROVE ServicesOwned'
  <2>1. /\ Exists(x) /\ OwnService(orders[x].service, orders[x].user)
        /\ services' = [services EXCEPT ![orders[x].service] =
             [user |-> orders[x].user, plan |-> orders[x].plan, status |-> "active"]]
    BY <1>6 DEF Delivery, Exists, ServicesOwned
  <2>2. \A s \in ServiceIds : services'[s].status # "none" => OwnService(s, services'[s].user)
    BY <1>0, <2>1 DEF ServicesOwned, TypeInv, TypeOK
  <2> QED
    BY <1>4, <1>6, <2>1, <2>2 DEF Delivery
<1>7. ASSUME NEW u \in Users, NEW s \in ServiceIds, DeleteService(u, s) PROVE ServicesOwned'
  <2>1. /\ orders' = orders
        /\ services' = [services EXCEPT ![s].status = "deleted"] /\ services[s].status = "active"
    BY <1>7 DEF DeleteService
  <2>2. \A r \in ServiceIds : /\ services'[r].user = services[r].user
                              /\ services'[r].status # "none" => services[r].status # "none"
    BY <1>0, <2>1 DEF TypeInv, TypeOK, Service
  <2> QED
    BY <2>1, <2>2 DEF ServicesOwned, OwnService, Exists
<1>8. CASE orders' = orders /\ services' = services
  BY <1>8 DEF ServicesOwned, OwnService, Exists
<1>9. CASE \/ \E u \in Users, q \in QuoteIds : Quoting(u, q)
           \/ \E u \in Users, c \in Codes : Gift(u, c)
           \/ \E c \in Codes, terms \in CouponTerms : SaveCoupon(c, terms)
           \/ \E p \in Edited, price \in Prices, cap \in Capacities, active, trial \in BOOLEAN :
                SavePlan(p, price, cap, active, trial)
           \/ \E p \in Edited, active \in BOOLEAN : TogglePlan(p, active)
           \/ \E p \in Edited : DeletePlan(p)
  BY <1>8, <1>9 DEF Quoting, Gift, SaveCoupon, SavePlan, TogglePlan, DeletePlan
<1> QED
  BY <1>2, <1>3, <1>5, <1>6, <1>7, <1>8, <1>9 DEF TableSteps

\* The orders of one checkout are the pairs of a quote and a number below its quantity:
\* there are as many of them as the quantity says (sales.py: place_orders).
LEMMA GridSize ==
  ASSUME NEW q, NEW n \in Nat \ {0}
  PROVE  IsFiniteSet({q} \X (0 .. n - 1)) /\ Cardinality({q} \X (0 .. n - 1)) = n
<1>1. PICK T : T = 0 .. n - 1
  OBVIOUS
<1>2. IsFiniteSet(0 .. n - 1)
      /\ Cardinality(0 .. n - 1) = IF 0 > n - 1 THEN 0 ELSE (n - 1) - 0 + 1
  BY FS_Interval
<1>3. IsFiniteSet(T) /\ Cardinality(T) = n
  BY <1>1, <1>2
<1>4. PICK S : S = {q}
  OBVIOUS
<1>5. IsFiniteSet(S) /\ Cardinality(S) = 1
  BY <1>4, FS_Singleton
<1>6. IsFiniteSet(S \X T) /\ Cardinality(S \X T) = Cardinality(S) * Cardinality(T)
  BY <1>3, <1>5, FS_Product
<1>7. IsFiniteSet(S \X T) /\ Cardinality(S \X T) = n
  BY <1>3, <1>5, <1>6
<1> QED
  BY <1>1, <1>4, <1>7

\* The shop's checks before a purchase are what its orders need afterwards.
LEMMA PurchasePlaces ==
  ASSUME PlaceInv, NEW u \in Users, NEW q \in QuoteIds, NEW card \in BOOLEAN, Purchase(u, q, card)
  PROVE  PlanRows' /\ AllRoom' /\ OneOpen'
<1> DEFINE plan == quotes[q].plan
           renew == quotes[q].renew
           qty == quotes[q].qty
           placed == PlacedOf(q)
<1>1. TypeInv /\ PaidInv
  BY DEF PlaceInv, PriceInv, PaidInv
<1>2. /\ placed \subseteq OrderIds /\ qty \in Nat \ {0} /\ plan \in Plans
      /\ Orderable(u, plan, renew, qty)
      /\ \A o \in placed : /\ orders'[o].plan = plan /\ orders'[o].status \in Open
                           /\ orders'[o].service = IF renew # None THEN renew ELSE o
                           /\ orders'[o].renew = renew
      /\ \A o \in OrderIds \ placed : orders'[o] = orders[o]
  <2>1. quotes[q].qty \in 1 .. MaxQty => quotes[q].qty \in Nat \ {0}
    BY SalesAssumption
  <2> QED
    BY <1>1, <2>1, PurchaseRows
<1>3. \A o \in placed : ~Exists(o) /\ Exists(o)'
  BY <1>1, PurchaseFresh
<1>4. plans' = plans /\ plans[plan].status = "active" /\ \A p \in Plans : plans[p].capacity \in Nat
  BY <1>1 DEF Purchase, QuoteUsable, TypeInv, TypeOK, Plan
<1>5. IsFiniteSet(placed) /\ Cardinality(placed) = qty
  <2>1. IsFiniteSet({q} \X (0 .. qty - 1)) /\ Cardinality({q} \X (0 .. qty - 1)) = qty
    BY <1>2, GridSize
  <2> QED
    BY <1>2, <2>1 DEF PlacedOf
<1>6. renew # None => qty = 1
  BY DEF PlaceInv, PriceInv, Quoted, QuoteFits
<1>7. \A o, p \in placed : qty = 1 => o = p
  BY DEF PlacedOf
<1> HIDE DEF plan, renew, qty, placed
<1>8. PlanRows'
  BY <1>2, <1>4 DEF PlaceInv, PlanRows, Exists
<1>9. OneOpen'
  <2>1. \A o \in OrderIds : orders[o].status \in Open => Exists(o)
    BY DEF Open, Exists
  <2>2. ASSUME NEW o \in placed, NEW p \in OrderIds \ placed, orders[p].status \in Open,
               orders'[o].service = orders[p].service
        PROVE  FALSE
    <3>1. CASE renew # None
      BY <1>2, <2>2, <3>1 DEF Orderable, OpenRenewals
    <3>2. CASE renew = None
      BY <1>2, <1>3, <2>1, <2>2, <3>2 DEF PlaceInv, ServicesOwned, OwnService
    <3> QED
      BY <3>1, <3>2
  <2>3. ASSUME NEW o \in placed, NEW p \in placed, orders'[o].service = orders'[p].service
        PROVE  o = p
    BY <1>2, <1>6, <1>7, <2>3
  <2> QED
    BY <1>2, <2>2, <2>3 DEF PlaceInv, OneOpen
<1>10. ASSUME NEW p \in Plans PROVE Room(p)'
  <2>1. Room(p) /\ IsFiniteSet(Sold(p))
    BY DEF PlaceInv, AllRoom, Room
  <2>2. CASE renew # None \/ p # plan
    <3>1. Sold(p)' = Sold(p)
      BY <1>2, <1>3, <2>2 DEF Sold, Live, Exists
    <3> QED
      BY <1>4, <2>1, <3>1 DEF Room
  <2>3. CASE renew = None /\ p = plan
    <3>1. Sold(p)' = Sold(p) \cup placed /\ Sold(p) \cap placed = {}
      BY <1>2, <1>3, <2>3 DEF Sold, Live, Exists, Open
    <3>2. /\ IsFiniteSet(Sold(p) \cup placed)
          /\ Cardinality(Sold(p) \cup placed) = Cardinality(Sold(p)) + qty
      <4>1. Cardinality(Sold(p) \cup placed)
              = Cardinality(Sold(p)) + Cardinality(placed) - Cardinality({})
            /\ IsFiniteSet(Sold(p) \cup placed)
        BY <1>5, <2>1, <3>1, FS_Union
      <4>2. Cardinality(Sold(p)) \in Nat
        BY <2>1, FS_CardinalityType
      <4> QED
        BY <1>2, <1>5, <4>1, <4>2, FS_EmptySet
    <3>3. plans[p].capacity > 0 => Cardinality(Sold(p)) + qty <= plans[p].capacity
      BY <1>2, <2>3 DEF Orderable
    <3> QED
      BY <1>4, <3>1, <3>2, <3>3 DEF Room
  <2> QED
    BY <2>2, <2>3
<1> QED
  BY <1>8, <1>9, <1>10 DEF AllRoom

LEMMA TrialPlaces ==
  ASSUME PlaceInv, NEW u \in Users, NEW p \in Plans, TakeTrial(u, p)
  PROVE  PlanRows' /\ AllRoom' /\ OneOpen'
<1>1. TypeInv
  BY DEF PlaceInv, PriceInv, PaidInv
<1>2. PICK x \in OrderIds :
        /\ ~Exists(x)
        /\ orders'[x] = [user |-> u, plan |-> p, price |-> 0, status |-> "paid",
                         service |-> x, renew |-> None, coupon |-> None]
        /\ \A o \in OrderIds \ {x} : orders'[o] = orders[o]
        /\ plans[p].status = "active" /\ plans' = plans
        /\ plans[p].capacity > 0 => Cardinality(Sold(p)) < plans[p].capacity
  BY <1>1, TrialRows
<1>3. PlanRows'
  BY <1>2 DEF PlaceInv, PlanRows, Exists
<1>4. OneOpen'
  <2>1. \A o \in OrderIds \ {x} : orders[o].status \in Open => orders[o].service # x
    BY <1>2 DEF PlaceInv, ServicesOwned, OwnService, Open, Exists
  <2> QED
    BY <1>2, <2>1 DEF PlaceInv, OneOpen
<1>5. ASSUME NEW r \in Plans PROVE Room(r)'
  <2>1. Room(r) /\ IsFiniteSet(Sold(r)) /\ Cardinality(Sold(r)) \in Nat /\ plans[r].capacity \in Nat
    BY <1>1, FS_CardinalityType DEF PlaceInv, AllRoom, Room, TypeInv, TypeOK, Plan
  <2>2. CASE r # p
    <3>1. Sold(r)' = Sold(r)
      BY <1>2, <2>2 DEF Sold, Live, Exists
    <3> QED
      BY <1>2, <2>1, <3>1 DEF Room
  <2>3. CASE r = p
    <3>1. Sold(p)' = Sold(p) \cup {x} /\ x \notin Sold(p)
      BY <1>2 DEF Sold, Live, Exists
    <3>2. /\ IsFiniteSet(Sold(p) \cup {x})
          /\ Cardinality(Sold(p) \cup {x}) = Cardinality(Sold(p)) + 1
      BY <2>1, <2>3, <3>1, FS_AddElement
    <3> QED
      BY <1>2, <2>1, <2>3, <3>1, <3>2 DEF Room
  <2> QED
    BY <2>2, <2>3
<1> QED
  BY <1>3, <1>4, <1>5 DEF AllRoom

\* An administrator saves, hides or deletes a plan.
LEMMA PlanPlaces ==
  ASSUME PlaceInv, NEW p \in Plans,
         \/ \E price \in Prices, cap \in Capacities, active, trial \in BOOLEAN :
              SavePlan(p, price, cap, active, trial)
         \/ \E active \in BOOLEAN : TogglePlan(p, active)
         \/ DeletePlan(p)
  PROVE  PlanRows' /\ AllRoom' /\ OneOpen'
<1>1. TypeInv /\ plans \in [Plans -> Plan] /\ plans[p] \in Plan
  BY DEF PlaceInv, PriceInv, PaidInv, TypeInv, TypeOK
<1>2. orders' = orders
  BY DEF SavePlan, TogglePlan, DeletePlan
<1>3. OneOpen'
  BY <1>2 DEF PlaceInv, OneOpen
<1>4. \A r \in Plans \ {p} : plans'[r] = plans[r]
  BY <1>1 DEF SavePlan, TogglePlan, DeletePlan
<1>5. \/ plans'[p].status # "none"
      \/ ~HasHistory(p)
  <2>1. ASSUME NEW price \in Prices, NEW cap \in Capacities, NEW active \in BOOLEAN,
               NEW trial \in BOOLEAN, SavePlan(p, price, cap, active, trial)
        PROVE  plans'[p].status # "none"
    BY <1>1, <2>1 DEF SavePlan
  <2>2. ASSUME NEW active \in BOOLEAN, TogglePlan(p, active) PROVE plans'[p].status # "none"
    BY <1>1, <2>2 DEF TogglePlan, Plan
  <2> QED
    BY <2>1, <2>2 DEF DeletePlan
<1>6. PlanRows'
  <2>1. \A o \in OrderIds : Exists(o) => orders[o].plan \in Plans /\ plans[orders[o].plan].status # "none"
    BY <1>1 DEF PlaceInv, PlanRows, TypeInv, RowsFilled
  <2>2. ~HasHistory(p) => \A o \in OrderIds : Exists(o) => orders[o].plan # p
    BY DEF HasHistory
  <2>3. \A o \in OrderIds : Exists(o) => plans'[orders[o].plan].status # "none"
    BY <1>4, <1>5, <2>1, <2>2
  <2> QED
    BY <1>2, <2>3 DEF PlanRows, Exists
<1>7. plans'[p].capacity > 0 => Cardinality(Sold(p)) <= plans'[p].capacity
  <2>1. /\ plans[p].capacity > 0 => Cardinality(Sold(p)) <= plans[p].capacity
        /\ plans[p].status = "none" => Cardinality(Sold(p)) = 0
    <3>1. plans[p].status = "none" => Sold(p) = {}
      BY DEF PlaceInv, PlanRows, Sold, Live, Exists
    <3> QED
      BY <3>1, FS_EmptySet DEF PlaceInv, AllRoom, Room
  <2>2. ASSUME NEW price \in Prices, NEW cap \in Capacities, NEW active \in BOOLEAN,
               NEW trial \in BOOLEAN, SavePlan(p, price, cap, active, trial)
        PROVE  plans'[p].capacity > 0 => Cardinality(Sold(p)) <= plans'[p].capacity
    <3>1. plans'[p].capacity = cap /\ cap \in Nat
      BY <1>1, <2>2, SalesAssumption DEF SavePlan
    <3> QED
      BY <2>1, <2>2, <3>1 DEF SavePlan
  <2>3. ASSUME NEW active \in BOOLEAN, TogglePlan(p, active)
        PROVE  plans'[p].capacity = plans[p].capacity
    BY <1>1, <2>3 DEF TogglePlan, Plan
  <2>4. ASSUME DeletePlan(p) PROVE plans'[p].capacity = 0
    BY <1>1, <2>4 DEF DeletePlan, NoPlan
  <2> QED
    BY <2>1, <2>2, <2>3, <2>4
<1>8. ASSUME NEW r \in Plans PROVE Room(r)'
  <2>1. Sold(r)' = Sold(r)
    BY <1>2 DEF Sold, Live
  <2> QED
    BY <1>4, <1>7, <2>1 DEF PlaceInv, AllRoom, Room
<1> QED
  BY <1>3, <1>6, <1>8 DEF AllRoom

LEMMA PlacesStep == ASSUME PlaceInv, TableSteps PROVE PlanRows' /\ AllRoom' /\ OneOpen'
<1>0. TypeInv /\ PlanRows /\ AllRoom /\ OneOpen
  BY DEF PlaceInv, PriceInv, PaidInv
<1>1. CASE orders' = orders /\ plans' = plans
  BY <1>0, <1>1 DEF PlanRows, AllRoom, Room, Sold, OneOpen, Exists, Live
<1>2. CASE \E u \in Users, q \in QuoteIds, card \in BOOLEAN : Purchase(u, q, card)
  BY <1>2, PurchasePlaces
<1>3. ASSUME NEW x \in OrderIds, NEW st \in OrderStatus, Progress(x, st)
      PROVE  PlanRows' /\ AllRoom' /\ OneOpen'
  BY <1>0, <1>3, RestatusKeeps DEF Progress, Exists, Live, Open
<1>4. ASSUME NEW x \in OrderIds, Rejection(x) \/ Delivery(x)
      PROVE  PlanRows' /\ AllRoom' /\ OneOpen'
  BY <1>0, <1>4, RestatusKeeps DEF Rejection, Delivery, Exists, Live, Open
<1>5. CASE \E u \in Users, p \in Plans : TakeTrial(u, p)
  BY <1>5, TrialPlaces
<1>6. CASE \/ \E p \in Edited, price \in Prices, cap \in Capacities, active, trial \in BOOLEAN :
                SavePlan(p, price, cap, active, trial)
           \/ \E p \in Edited, active \in BOOLEAN : TogglePlan(p, active)
           \/ \E p \in Edited : DeletePlan(p)
  BY <1>6, PlanPlaces, SalesAssumption
<1>7. CASE \/ \E u \in Users, q \in QuoteIds : Quoting(u, q)
           \/ \E u \in Users, c \in Codes : Gift(u, c)
           \/ \E c \in Codes, terms \in CouponTerms : SaveCoupon(c, terms)
           \/ \E u \in Users, s \in ServiceIds : DeleteService(u, s)
  BY <1>1, <1>7 DEF Quoting, Gift, SaveCoupon, DeleteService
<1> QED
  BY <1>1, <1>2, <1>3, <1>4, <1>5, <1>6, <1>7 DEF TableSteps

LEMMA PlaceInit == Init => PlaceInv
<1> SUFFICES ASSUME Init PROVE PlanRows /\ AllRoom /\ ServicesOwned /\ OneOpen
  BY PriceInit DEF PlaceInv
<1>1. /\ \A o \in OrderIds : orders[o].status = "none"
      /\ \A s \in ServiceIds : services[s].status = "none"
  BY DEF Init, NoOrder, NoService
<1>2. \A p \in Plans : Sold(p) = {} /\ plans[p].capacity \in Nat
  BY <1>1, SalesAssumption DEF Sold, Live, Init
<1>3. AllRoom
  <2>1. \A p \in Plans : IsFiniteSet(Sold(p)) /\ Cardinality(Sold(p)) = 0
    BY <1>2, FS_EmptySet
  <2> QED
    BY <1>2, <2>1 DEF AllRoom, Room
<1> QED
  BY <1>1, <1>3 DEF PlanRows, ServicesOwned, OneOpen, Open, Exists

LEMMA PlaceNext == PlaceInv /\ [Next]_vars => PlaceInv'
<1> SUFFICES ASSUME PlaceInv, [Next]_vars PROVE PlaceInv'
  OBVIOUS
<1>1. PriceInv'
  BY PriceNext DEF PlaceInv
<1>2. TableSteps
  BY Tables DEF PlaceInv, PriceInv, PaidInv
<1>3. PlanRows' /\ AllRoom' /\ OneOpen'
  BY <1>2, PlacesStep
<1>4. ServicesOwned'
  BY <1>2, OwnedKept DEF PlaceInv, PriceInv
<1> QED
  BY <1>1, <1>3, <1>4 DEF PlaceInv

\* What the invariant means: CapacityRespected and OneOrderPerService.
LEMMA PlaceMeans == PlaceInv => PlacesKept
<1> SUFFICES ASSUME PlaceInv PROVE PlacesKept
  OBVIOUS
<1>1. CapacityRespected
  BY DEF PlaceInv, AllRoom, Room, CapacityRespected
<1>2. ASSUME NEW s \in ServiceIds PROVE Cardinality(OpenRenewals(s)) <= 1
  <2>1. CASE OpenRenewals(s) = {}
    BY <2>1, FS_EmptySet
  <2>2. CASE OpenRenewals(s) # {}
    <3>1. PICK o : o \in OpenRenewals(s)
      BY <2>2
    <3>2. OpenRenewals(s) = {o}
      BY <3>1 DEF PlaceInv, OneOpen, OpenRenewals
    <3> QED
      BY <3>2, FS_Singleton
  <2> QED
    BY <2>1, <2>2
<1>3. ASSUME NEW s \in ServiceIds, NEW o \in OrderIds, Exists(o), orders[o].service = s,
             services[s].status # "none"
      PROVE  orders[o].user = services[s].user
  BY <1>3 DEF PlaceInv, ServicesOwned, OwnService
<1> QED
  BY <1>1, <1>2, <1>3 DEF PlacesKept, OneOrderPerService

\* What order checks before it takes an order stays true afterwards: no plan
\* sells more places than it has, a service has one order in progress and only
\* its owner orders for it (order, save_plan, toggle and delete of plans, trial).
THEOREM SalesPlaces == Spec => []PlacesKept
BY PlaceMeans, PlaceInit, PlaceNext, PTL DEF Spec

\* No plan is oversold, for all constants: bulk purchases, renewals, card orders
\* that wait for days, cancellations and later edits of the plan included
\* (the capacity checks of sales.py:508 and :703).
THEOREM SalesCapacity == Spec => []CapacityRespected
<1>1. PlaceInv => CapacityRespected
  BY PlaceMeans DEF PlacesKept
<1> QED
  BY <1>1, PlaceInit, PlaceNext, PTL DEF Spec

-----------------------------------------------------------------------------
(* The ledger                                                              *)
(*                                                                         *)
(* A debit is fresh because its order is, a transfer because no half of it *)
(* is ever posted alone; all the rest goes through Money, which looks.     *)

TransfersPaired ==
  \A e \in ledger, id \in TransferIds : e.ref = <<"transfer", id, "in">> =>
    \E d \in ledger : d.ref = <<"transfer", id, "out">>

LedgerFine == PostedOnce /\ TransfersPaired

LEMMA MoneyFine ==
  ASSUME LedgerFine, NEW u, NEW amount, NEW ref, Money(u, amount, ref), ref[1] # "transfer"
  PROVE  LedgerFine'
<1>1. CASE ledger' = ledger
  BY <1>1 DEF LedgerFine, PostedOnce, TransfersPaired
<1>2. CASE /\ \A e \in ledger : e.ref # ref
           /\ ledger' = ledger \cup {[ref |-> ref, user |-> u, amount |-> amount]}
  <2>1. PICK new : new = [ref |-> ref, user |-> u, amount |-> amount]
    OBVIOUS
  <2>2. ledger' = ledger \cup {new} /\ new.ref = ref
    BY <1>2, <2>1
  <2>3. \A id : new.ref # <<"transfer", id, "in">>
    BY <2>2
  <2> QED
    BY <1>2, <2>2, <2>3 DEF LedgerFine, PostedOnce, TransfersPaired
<1> QED
  BY <1>1, <1>2 DEF Money, money_vars

\* A wallet purchase, without what it does to the tables of the shop.
Bought(u, q) ==
  QuoteUsable(u, q, FALSE) /\ ~Exists(<<q, 0>>) /\ PlaceOrders(u, q, FALSE)

\* The ways in which money moves.
MoneySteps ==
  \/ UNCHANGED money_vars
  \/ \E u \in Users, amount \in Int, ref \in References :
       Money(u, amount, ref) /\ ref[1] # "transfer"
  \/ \E u \in Users, q \in QuoteIds : Bought(u, q)
  \/ \E u, v \in Users, a \in Amounts, id \in TransferIds : Transfer(u, v, a, id)

LEMMA BuyerMoves == ASSUME TypeInv, BuyerNext PROVE MoneySteps
<1> SUFFICES ASSUME NEW u \in Users,
      \/ Home(u) \/ AskCoupon(u) \/ AskTopup(u) \/ WalletCard(u) \/ AskTransfer(u)
      \/ \E c \in Codes : EnterCoupon(u, c)
      \/ \E p \in Plans, qty \in 1 .. MaxQty : ChoosePlan(u, p, qty)
      \/ \E q \in QuoteIds : NamePlan(u, q) \/ Buy(u, q) \/ CardBuy(u, q)
      \/ \E s \in ServiceIds, q \in QuoteIds : AskRenewal(u, s, q)
      \/ \E t \in TopupIds : SendOrderReceipt(u, t) \/ SendReceipt(u, t)
      \/ \E a \in Amounts : EnterAmount(u, a)
      \/ \E v \in Users, a \in Amounts, id \in TransferIds : Transfer(u, v, a, id)
      \/ \E p \in Plans : TakeTrial(u, p)
      \/ \E s \in ServiceIds : DeleteService(u, s)
    PROVE MoneySteps
  BY DEF BuyerNext
<1>1. ASSUME UNCHANGED money_vars PROVE MoneySteps
  BY <1>1 DEF MoneySteps
<1>2. CASE Home(u) \/ AskCoupon(u) \/ AskTopup(u) \/ WalletCard(u) \/ AskTransfer(u)
  BY <1>1, <1>2 DEF Home, AskCoupon, AskTopup, WalletCard, AskTransfer
<1>3. CASE \/ \E p \in Plans, qty \in 1 .. MaxQty : ChoosePlan(u, p, qty)
           \/ \E q \in QuoteIds : NamePlan(u, q)
           \/ \E s \in ServiceIds, q \in QuoteIds : AskRenewal(u, s, q)
           \/ \E a \in Amounts : EnterAmount(u, a)
  BY <1>1, <1>3 DEF ChoosePlan, NamePlan, AskRenewal, EnterAmount
<1>4. CASE \/ \E t \in TopupIds : SendOrderReceipt(u, t) \/ SendReceipt(u, t)
           \/ \E p \in Plans : TakeTrial(u, p)
           \/ \E s \in ServiceIds : DeleteService(u, s)
  BY <1>1, <1>4 DEF SendOrderReceipt, SendReceipt, TakeTrial, DeleteService
<1>5. ASSUME NEW c \in Codes, EnterCoupon(u, c) PROVE MoneySteps
  <2>1. CASE coupons[c].credit > 0
    <3>1. coupons[c].credit \in Int /\ <<"gift", c, u>> \in References
      BY DEF TypeInv, TypeOK, References
    <3>2. Money(u, coupons[c].credit, <<"gift", c, u>>)
      BY <1>5, <2>1 DEF EnterCoupon
    <3> QED
      BY <3>1, <3>2 DEF MoneySteps
  <2>2. CASE ~(coupons[c].credit > 0)
    BY <1>1, <1>5, <2>2 DEF EnterCoupon
  <2> QED
    BY <2>1, <2>2
<1>6. ASSUME NEW q \in QuoteIds, Buy(u, q) PROVE MoneySteps
  <2>1. UNCHANGED money_vars \/ Bought(u, q)
    BY <1>6 DEF Buy, Bought
  <2> QED
    BY <2>1 DEF MoneySteps
<1>7. ASSUME NEW q \in QuoteIds, CardBuy(u, q) PROVE MoneySteps
  BY <1>1, <1>7 DEF CardBuy, PlaceOrders
<1>8. CASE \E v \in Users, a \in Amounts, id \in TransferIds : Transfer(u, v, a, id)
  BY <1>8 DEF MoneySteps
<1> QED
  BY <1>2, <1>3, <1>4, <1>5, <1>6, <1>7, <1>8

LEMMA AdminMoves == ASSUME TypeInv, AdminNext PROVE MoneySteps
<1>1. ASSUME UNCHANGED money_vars PROVE MoneySteps
  BY <1>1 DEF MoneySteps
<1>2. CASE \/ \E o \in OrderIds : CancelOrder(o) \/ RetryOrder(o)
           \/ \E c \in Codes, terms \in CouponTerms : SaveCoupon(c, terms)
           \/ \E p \in Edited, price \in Prices, cap \in Capacities, active, trial \in BOOLEAN :
                SavePlan(p, price, cap, active, trial)
           \/ \E p \in Edited, active \in BOOLEAN : TogglePlan(p, active)
           \/ \E p \in Edited : DeletePlan(p)
           \/ \E u \in Managed, blocked, reseller \in BOOLEAN : SetUser(u, blocked, reseller)
           \/ \E f \in Toggleable : ToggleSetting(f)
  BY <1>1, <1>2 DEF CancelOrder, RetryOrder, SaveCoupon, SavePlan, TogglePlan, DeletePlan,
     SetUser, ToggleSetting
<1>3. ASSUME NEW t \in TopupIds, NEW approve \in BOOLEAN, DecideReceipt(t, approve)
      PROVE  MoneySteps
  <2>1. /\ topups[t].user \in Users /\ topups[t].amount \in Int /\ <<"topup", t>> \in References
    BY <1>3 DEF DecideReceipt, TypeInv, TypeOK, RowsFilled, Topup, References
  <2>2. \/ UNCHANGED money_vars
        \/ Money(topups[t].user, topups[t].amount, <<"topup", t>>)
    BY <1>3 DEF DecideReceipt
  <2> QED
    BY <2>1, <2>2 DEF MoneySteps
<1>4. ASSUME NEW u \in Users, NEW a \in Int, NEW r \in CreditRefs, Credit(u, a, r) PROVE MoneySteps
  <2>1. <<"admin", r>> \in References /\ Money(u, a, <<"admin", r>>)
    BY <1>4 DEF Credit, References
  <2> QED
    BY <2>1 DEF MoneySteps
<1>5. \A a \in Amounts : a \in Int /\ -a \in Int
  BY SalesAssumption
<1> QED
  BY <1>2, <1>3, <1>4, <1>5 DEF AdminNext

LEMMA Moves == ASSUME TypeInv, [Next]_vars PROVE MoneySteps
<1>1. ASSUME UNCHANGED money_vars PROVE MoneySteps
  BY <1>1 DEF MoneySteps
<1>2. ASSUME NEW o \in OrderIds, Fulfil(o) PROVE MoneySteps
  <2> DEFINE inviter == Referrer[orders[o].user]
             fee == (orders[o].price * Commission) \div 100
  <2>1. \/ UNCHANGED money_vars
        \/ inviter # None /\ Money(inviter, fee, <<"commission", o>>)
    BY <1>2 DEF Fulfil
  <2>2. orders[o].user \in Users /\ orders[o].price \in Nat
    BY <1>2 DEF Fulfil, TypeInv, TypeOK, RowsFilled, Exists, Order
  <2>3. fee \in Int /\ inviter \in Users \cup {None}
    <3>1. orders[o].price * Commission \in Int
      BY <2>2, SalesAssumption DEF Percent
    <3> QED
      BY <2>2, <3>1, SalesAssumption
  <2>4. <<"commission", o>> \in References
    BY DEF References
  <2> HIDE DEF inviter, fee
  <2> QED
    BY <1>1, <2>1, <2>3, <2>4 DEF MoneySteps
<1>3. CASE (\E o \in OrderIds : FailProvision(o)) \/ Tick \/ UNCHANGED vars
  BY <1>1, <1>3 DEF FailProvision, Tick, vars, money_vars
<1> QED
  BY <1>2, <1>3, BuyerMoves, AdminMoves DEF Next, WorkerNext

LEMMA PurchasePosts ==
  ASSUME PaidInv, LedgerFine, NEW u \in Users, NEW q \in QuoteIds, Bought(u, q)
  PROVE  LedgerFine'
<1> DEFINE placed == {q} \X (0 .. quotes[q].qty - 1)
           Posting(o) == [ref |-> <<"debit", o>>, user |-> u,
                          amount |-> -OrderPrice(u, quotes[q].plan, o[2])]
<1>1. ledger' = ledger \cup {Posting(o) : o \in placed}
  BY DEF Bought, PlaceOrders
<1>2. placed \subseteq OrderIds /\ \A o \in placed : ~Exists(o)
  <2>1. FALSE \in BOOLEAN
    OBVIOUS
  <2> QED
    BY <2>1, PlacedRows DEF Bought, QuoteUsable, Writes
<1>3. \A o \in placed : Posting(o).ref = <<"debit", o>>
  OBVIOUS
<1> HIDE DEF Posting, placed
<1>4. \A o \in placed, e \in ledger : e.ref # Posting(o).ref
  BY <1>2, <1>3 DEF PaidInv, OrderFine, PaidOnce, Debited, Settled, Exists
<1>5. \A o, r \in placed : Posting(o).ref = Posting(r).ref => o = r
  BY <1>3
<1>6. PostedOnce'
  BY <1>1, <1>4, <1>5 DEF LedgerFine, PostedOnce
<1>7. \A o \in placed, id \in TransferIds : Posting(o).ref # <<"transfer", id, "in">>
  BY <1>3
<1>8. TransfersPaired'
  BY <1>1, <1>7 DEF LedgerFine, TransfersPaired
<1> QED
  BY <1>6, <1>8 DEF LedgerFine

LEMMA TransferPosts ==
  ASSUME LedgerFine, NEW u \in Users, NEW v \in Users, NEW a \in Amounts, NEW id \in TransferIds,
         Transfer(u, v, a, id)
  PROVE  LedgerFine'
<1>0. PICK out, in :
        /\ out = [ref |-> <<"transfer", id, "out">>, user |-> u, amount |-> -a]
        /\ in = [ref |-> <<"transfer", id, "in">>, user |-> v, amount |-> a]
  OBVIOUS
<1>1. /\ ledger' = ledger \cup {out, in}
      /\ out.ref = <<"transfer", id, "out">> /\ in.ref = <<"transfer", id, "in">>
  BY <1>0 DEF Transfer
<1>2. \A e \in ledger : e.ref # <<"transfer", id, "out">>
  BY DEF Transfer
<1>3. \A e \in ledger : e.ref # <<"transfer", id, "in">>
  BY <1>2 DEF LedgerFine, TransfersPaired
<1>4. out.ref # in.ref
  BY <1>1
<1>5. PostedOnce'
  BY <1>1, <1>2, <1>3, <1>4 DEF LedgerFine, PostedOnce
<1>6. TransfersPaired'
  <2> SUFFICES ASSUME NEW e \in ledger', NEW k \in TransferIds, e.ref = <<"transfer", k, "in">>
               PROVE  \E d \in ledger' : d.ref = <<"transfer", k, "out">>
    BY DEF TransfersPaired
  <2>1. CASE e \in ledger
    BY <1>1, <2>1 DEF LedgerFine, TransfersPaired
  <2>2. CASE e = out
    BY <1>1, <2>2
  <2>3. CASE e = in
    BY <1>1, <2>3
  <2> QED
    BY <1>1, <2>1, <2>2, <2>3
<1> QED
  BY <1>5, <1>6 DEF LedgerFine

LEMMA LedgerKept == ASSUME PaidInv, LedgerFine, MoneySteps PROVE LedgerFine'
<1>1. CASE UNCHANGED money_vars
  BY <1>1 DEF LedgerFine, PostedOnce, TransfersPaired, money_vars
<1> QED
  BY <1>1, MoneyFine, PurchasePosts, TransferPosts DEF MoneySteps

-----------------------------------------------------------------------------
(* The wallets *)

Sum(L, u) == SumFunctionOnSet([e \in L |-> e.amount], {e \in L : e.user = u})

\* One row more adds its amount to the wallet it names.
LEMMA SumRow ==
  ASSUME NEW L, IsFiniteSet(L), \A e \in L : e.amount \in Int,
         NEW row, row \notin L, row.amount \in Int, NEW u
  PROVE  /\ IsFiniteSet(L \cup {row}) /\ Sum(L, u) \in Int
         /\ Sum(L \cup {row}, u) = Sum(L, u) + (IF row.user = u THEN row.amount ELSE 0)
<1> DEFINE M == L \cup {row}
           g == [e \in L |-> e.amount]
           h == [e \in M |-> e.amount]
           S == {e \in L : e.user = u}
<1>1. IsFiniteSet(S) /\ IsFiniteSet(M) /\ row \notin S
  BY FS_Subset, FS_AddElement
<1>2. \A e \in S : g[e] \in Int /\ h[e] = g[e]
  OBVIOUS
<1>3. h[row] = row.amount /\ \A e \in S \cup {row} : h[e] \in Int
  OBVIOUS
<1>4. {e \in M : e.user = u} = IF row.user = u THEN S \cup {row} ELSE S
  OBVIOUS
<1> HIDE DEF S, g, h
<1>5. SumFunctionOnSet(g, S) \in Int /\ SumFunctionOnSet(h, S) = SumFunctionOnSet(g, S)
  BY <1>1, <1>2, SumFirst, SumAgrees
<1>6. SumFunctionOnSet(h, S \cup {row}) = SumFunctionOnSet(h, S) + h[row]
  BY <1>1, <1>3, SumWith
<1>7. Sum(L, u) = SumFunctionOnSet(g, S) /\ Sum(M, u) = SumFunctionOnSet(h, {e \in M : e.user = u})
  BY DEF Sum, S, g, h
<1>8. CASE row.user = u
  <2>1. Sum(M, u) = SumFunctionOnSet(h, S \cup {row})
    BY <1>4, <1>7, <1>8
  <2> HIDE DEF M
  <2> QED
    BY <1>1, <1>3, <1>5, <1>6, <1>7, <1>8, <2>1 DEF M
<1>9. CASE row.user # u
  <2>1. Sum(M, u) = SumFunctionOnSet(h, S)
    BY <1>4, <1>7, <1>9
  <2> QED
    BY <1>1, <1>5, <1>7, <1>9, <2>1
<1> QED
  BY <1>8, <1>9

WalletsFine == IsFiniteSet(ledger) /\ \A u \in Users : balance[u] = Sum(ledger, u)

LEMMA LedgerTyped ==
  TypeInv => (\A e \in ledger : e.amount \in Int) /\ balance \in [Users -> Nat]
BY DEF TypeInv, TypeOK

LEMMA MoneyAdds ==
  ASSUME TypeInv, WalletsFine, NEW u \in Users, NEW amount \in Int, NEW ref, Money(u, amount, ref)
  PROVE  WalletsFine'
<1>1. CASE UNCHANGED money_vars
  BY <1>1 DEF WalletsFine, money_vars
<1>2. CASE ~\E e \in ledger : e.ref = ref
  <2>1. PICK row : row = [ref |-> ref, user |-> u, amount |-> amount]
    OBVIOUS
  <2>2. row.ref = ref /\ row.user = u /\ row.amount = amount /\ row \notin ledger
    BY <1>2, <2>1
  <2>3. balance' = [balance EXCEPT ![u] = @ + amount] /\ ledger' = ledger \cup {row}
    BY <1>2, <2>1 DEF Money
  <2>4. \A v \in Users :
          /\ IsFiniteSet(ledger \cup {row})
          /\ Sum(ledger \cup {row}, v) = Sum(ledger, v) + (IF u = v THEN amount ELSE 0)
          /\ Sum(ledger, v) \in Int
    BY <2>2, SumRow, LedgerTyped DEF WalletsFine
  <2>5. IsFiniteSet(ledger')
    BY <2>3, <2>4
  <2>6. ASSUME NEW v \in Users PROVE balance'[v] = Sum(ledger', v)
    <3>1. balance'[v] = balance[v] + (IF u = v THEN amount ELSE 0)
      BY <2>3, LedgerTyped
    <3> QED
      BY <2>3, <2>4, <3>1 DEF WalletsFine
  <2> QED
    BY <2>5, <2>6 DEF WalletsFine
<1> QED
  BY <1>1, <1>2 DEF Money

LEMMA TransferAdds ==
  ASSUME TypeInv, LedgerFine, WalletsFine, NEW u \in Users, NEW v \in Users, NEW a \in Amounts,
         NEW id \in TransferIds, Transfer(u, v, a, id)
  PROVE  WalletsFine'
<1>0. PICK out, in :
        /\ out = [ref |-> <<"transfer", id, "out">>, user |-> u, amount |-> -a]
        /\ in = [ref |-> <<"transfer", id, "in">>, user |-> v, amount |-> a]
  OBVIOUS
<1>1. /\ out.ref = <<"transfer", id, "out">> /\ out.user = u /\ out.amount = -a
      /\ in.ref = <<"transfer", id, "in">> /\ in.user = v /\ in.amount = a
      /\ a \in Int /\ -a \in Int
  BY <1>0, SalesAssumption
<1>2. ledger' = (ledger \cup {out}) \cup {in}
  BY <1>0 DEF Transfer
<1>3. v # u /\ balance' = [balance EXCEPT ![u] = @ - a, ![v] = @ + a]
  BY DEF Transfer
<1>4. \A e \in ledger : e.ref # <<"transfer", id, "out">>
  BY DEF Transfer
<1>5. \A e \in ledger : e.ref # <<"transfer", id, "in">>
  BY <1>4 DEF LedgerFine, TransfersPaired
<1>6. out \notin ledger /\ in \notin ledger \cup {out}
  BY <1>1, <1>4, <1>5
<1> DEFINE L == ledger \cup {out}
<1>7. \A w : /\ IsFiniteSet(L) /\ Sum(ledger, w) \in Int
             /\ Sum(L, w) = Sum(ledger, w) + (IF u = w THEN -a ELSE 0)
  BY <1>1, <1>6, SumRow, LedgerTyped DEF WalletsFine
<1>8. \A e \in L : e.amount \in Int
  BY <1>1, LedgerTyped
<1>9. in \notin L
  BY <1>6
<1>10. ledger' = L \cup {in}
  BY <1>2
<1> HIDE DEF L
<1>11. \A w : /\ IsFiniteSet(ledger')
              /\ Sum(ledger', w) = Sum(L, w) + (IF v = w THEN a ELSE 0)
  BY <1>1, <1>7, <1>8, <1>9, <1>10, SumRow
<1>12. ASSUME NEW w \in Users PROVE balance'[w] = Sum(ledger', w)
  <2>1. balance'[w] = balance[w] + (IF u = w THEN -a ELSE 0) + (IF v = w THEN a ELSE 0)
    BY <1>1, <1>3, LedgerTyped
  <2> QED
    BY <1>1, <1>7, <1>11, <2>1 DEF WalletsFine
<1> QED
  BY <1>11, <1>12 DEF WalletsFine

\* The orders of a quote are debited one by one: after k of them the buyer has
\* paid for the first and k - 1 times for one of the others.
LEMMA PurchaseAdds ==
  ASSUME PaidInv, WalletsFine, NEW u \in Users, NEW q \in QuoteIds, Bought(u, q)
  PROVE  WalletsFine'
<1> DEFINE n == quotes[q].qty
           p == quotes[q].plan
           Row(i) == [ref |-> <<"debit", <<q, i>>>>, user |-> u, amount |-> -OrderPrice(u, p, i)]
           Upto(k) == ledger \cup {Row(i) : i \in 0 .. k - 1}
           one == OrderPrice(u, p, 0)
           other == OrderPrice(u, p, 1)
           Paid(k) == IF k = 0 THEN 0 ELSE one + (k - 1) * other
           Right(k) == /\ IsFiniteSet(Upto(k)) /\ \A e \in Upto(k) : e.amount \in Int
                       /\ \A v : Sum(Upto(k), v) = Sum(ledger, v) - (IF u = v THEN Paid(k) ELSE 0)
           Bad == {k \in 0 .. n : ~Right(k)}
<1>1. TypeInv /\ IsFiniteSet(ledger) /\ (\A e \in ledger : e.amount \in Int)
      /\ balance \in [Users -> Nat] /\ quotes[q] \in Quote /\ quotes[q].user = u /\ u # None
  BY LedgerTyped, SalesAssumption DEF PaidInv, WalletsFine, Bought, QuoteUsable, TypeInv, TypeOK
<1>2. n \in Nat /\ n # 0 /\ p \in Plans
  BY <1>1, SalesAssumption DEF Quote, TypeInv, RowsFilled
<1>3. \A i : OrderPrice(u, p, i) \in Nat
  BY <1>1, <1>2, OrderPriceType DEF TypeInv
<1>4. \A i \in Nat : OrderPrice(u, p, i) = IF i = 0 THEN one ELSE other
  BY DEF OrderPrice
<1>5. \A v : Sum(ledger, v) \in Int
  <2> TAKE v
  <2>1. IsFiniteSet({e \in ledger : e.user = v})
    BY <1>1, FS_Subset
  <2>2. \A e \in {e \in ledger : e.user = v} : [d \in ledger |-> d.amount][e] \in Int
    BY <1>1
  <2> QED
    BY <2>1, <2>2, SumFirst DEF Sum
<1>6. \A i \in 0 .. n - 1 : ~Exists(<<q, i>>) /\ <<q, i>> \in OrderIds
  <2>1. <<q, 0>> \in OrderIds
    BY SalesAssumption DEF OrderIds
  <2>2. FALSE \in BOOLEAN /\ quotes[q].user = u /\ ~Exists(<<q, 0>>) /\ PlaceOrders(u, q, FALSE)
    BY <1>1 DEF Bought
  <2>3. {q} \X (0 .. n - 1) \subseteq OrderIds /\ \A o \in {q} \X (0 .. n - 1) : ~Exists(o)
    BY <2>2, PlacedRows DEF Writes
  <2> QED
    BY <2>3
<1>7. \A i : Row(i).ref = <<"debit", <<q, i>>>> /\ Row(i).user = u /\ Row(i).amount = -OrderPrice(u, p, i)
  OBVIOUS
<1>8. \A i \in 0 .. n - 1, e \in ledger : e.ref # Row(i).ref
  BY <1>6, <1>7 DEF PaidInv, OrderFine, PaidOnce, Debited, Settled, Exists
<1>9. Upto(0) = ledger
  OBVIOUS
<1>10. \A k \in 0 .. n - 1 : Upto(k + 1) = Upto(k) \cup {Row(k)}
  <2>1. \A k \in 0 .. n - 1 : 0 .. (k + 1) - 1 = (0 .. k - 1) \cup {k}
    BY <1>2
  <2> HIDE DEF Row
  <2> QED
    BY <2>1
<1>11. \A k \in 0 .. n - 1 : Row(k) \notin Upto(k)
  <2> SUFFICES ASSUME NEW k \in 0 .. n - 1, NEW i \in 0 .. k - 1 PROVE Row(k) # Row(i)
    BY <1>7, <1>8
  <2>1. k # i
    BY <1>2
  <2> HIDE DEF Row
  <2> QED
    BY <1>7, <2>1
<1> HIDE DEF Row, Upto
<1>12. \A k \in 0 .. n : Paid(k) \in Int
  BY <1>2, <1>3
<1>13. Right(0)
  BY <1>1, <1>5, <1>9
<1>14. ASSUME NEW k \in 0 .. n - 1, Right(k) PROVE Right(k + 1)
  <2>1. Row(k).amount \in Int
    BY <1>3, <1>7
  <2>2. \A v : /\ IsFiniteSet(Upto(k) \cup {Row(k)})
               /\ Sum(Upto(k) \cup {Row(k)}, v) =
                    Sum(Upto(k), v) + (IF Row(k).user = v THEN Row(k).amount ELSE 0)
    BY <1>11, <1>14, <2>1, SumRow
  <2>3. Paid(k + 1) = Paid(k) + OrderPrice(u, p, k)
    <3>1. k \in Nat /\ one \in Int /\ other \in Int
      BY <1>2, <1>3
    <3>2. CASE k = 0
      BY <3>1, <3>2
    <3>3. CASE k # 0
      <4>1. OrderPrice(u, p, k) = other
        BY <1>4, <3>1, <3>3
      <4> HIDE DEF one, other
      <4>2. one + k * other = one + (k - 1) * other + other
        BY <3>1
      <4> QED
        BY <3>1, <3>3, <4>1, <4>2
    <3> QED
      BY <3>2, <3>3
  <2> HIDE DEF Paid
  <2>4. Paid(k) \in Int /\ OrderPrice(u, p, k) \in Int
    BY <1>2, <1>3, <1>12
  <2>5. \A v : Sum(Upto(k + 1), v) = Sum(ledger, v) - (IF u = v THEN Paid(k + 1) ELSE 0)
    <3> TAKE v
    <3>1. Sum(Upto(k + 1), v) = Sum(Upto(k), v) + (IF u = v THEN -OrderPrice(u, p, k) ELSE 0)
      BY <1>7, <1>10, <2>2
    <3>2. Sum(Upto(k), v) = Sum(ledger, v) - (IF u = v THEN Paid(k) ELSE 0)
      BY <1>14
    <3>3. Sum(ledger, v) \in Int
      BY <1>5
    <3> QED
      BY <2>3, <2>4, <3>1, <3>2, <3>3
  <2>6. IsFiniteSet(Upto(k + 1)) /\ \A e \in Upto(k + 1) : e.amount \in Int
    BY <1>10, <1>14, <2>1, <2>2
  <2> QED
    BY <2>5, <2>6
<1> HIDE DEF Right
<1>15. Bad = {}
  <2> SUFFICES ASSUME Bad # {} PROVE FALSE
    OBVIOUS
  <2>1. Bad \in SUBSET Nat
    BY <1>2
  <2>2. PICK k \in Bad : \A l \in Bad : <<l, k>> \notin OpToRel(<, Nat)
    BY <2>1, NatLessThanWellFounded, WFMin
  <2>3. k \in Nat /\ k <= n /\ ~Right(k) /\ k # 0
    BY <1>2, <1>13
  <2>4. k - 1 \in Nat /\ k - 1 < k /\ k - 1 \in 0 .. n - 1 /\ (k - 1) + 1 = k
    BY <1>2, <2>3
  <2>5. k - 1 \notin Bad
    BY <2>2, <2>3, <2>4 DEF OpToRel
  <2>6. Right(k - 1)
    BY <1>2, <2>4, <2>5
  <2> QED
    BY <1>14, <2>3, <2>4, <2>6
<1>16. Right(n)
  BY <1>2, <1>15
<1>17. ledger' = Upto(n) /\ balance' = [balance EXCEPT ![u] = @ - Paid(n)]
  <2>1. balance' = [balance EXCEPT ![u] = @ - Total(u, p, n)]
    BY DEF Bought, PlaceOrders
  <2>2. Total(u, p, n) = Paid(n)
    BY <1>2 DEF Total
  <2>3. ledger' = ledger \cup {[ref |-> <<"debit", o>>, user |-> u,
                                amount |-> -OrderPrice(u, p, o[2])] : o \in {q} \X (0 .. n - 1)}
    BY DEF Bought, PlaceOrders
  <2> DEFINE Post(o) == [ref |-> <<"debit", o>>, user |-> u, amount |-> -OrderPrice(u, p, o[2])]
             placed == {q} \X (0 .. n - 1)
  <2>4. /\ \A o \in placed : \E i \in 0 .. n - 1 : o = <<q, i>>
        /\ \A i \in 0 .. n - 1 : <<q, i>> \in placed
    OBVIOUS
  <2>5. \A i : Post(<<q, i>>) = Row(i)
    BY DEF Row
  <2>6. ledger' = ledger \cup {Post(o) : o \in placed}
    BY <2>3
  <2> HIDE DEF Post, placed
  <2>7. {Post(o) : o \in placed} = {Row(i) : i \in 0 .. n - 1}
    <3>1. \A o \in placed : \E i \in 0 .. n - 1 : Post(o) = Row(i)
      BY <2>4, <2>5
    <3>2. \A i \in 0 .. n - 1 : \E o \in placed : Post(o) = Row(i)
      BY <2>4, <2>5
    <3> HIDE DEF n
    <3> QED
      BY <3>1, <3>2
  <2> QED
    BY <2>1, <2>2, <2>6, <2>7 DEF Upto
<1> HIDE DEF Paid
<1>18. Paid(n) \in Int
  BY <1>2, <1>12
<1>19. ASSUME NEW v \in Users PROVE balance'[v] = Sum(ledger', v)
  <2>1. Sum(ledger', v) = Sum(ledger, v) - (IF u = v THEN Paid(n) ELSE 0)
    BY <1>16, <1>17 DEF Right
  <2>2. balance'[v] = balance[v] - (IF u = v THEN Paid(n) ELSE 0)
    BY <1>1, <1>17, <1>18
  <2> QED
    BY <2>1, <2>2 DEF WalletsFine
<1> QED
  BY <1>16, <1>17, <1>19 DEF Right, WalletsFine

LEMMA WalletsKept == ASSUME PaidInv, LedgerFine, WalletsFine, MoneySteps PROVE WalletsFine'
<1>1. CASE UNCHANGED money_vars
  BY <1>1 DEF WalletsFine, money_vars
<1>2. TypeInv
  BY DEF PaidInv
<1> QED
  BY <1>1, <1>2, MoneyAdds, PurchaseAdds, TransferAdds DEF MoneySteps

\* The wallet of a user is the sum of what was posted for the user, and nothing
\* is posted twice, however often a button is pressed or a request is repeated
\* (money, transfer and order, sales.py).
THEOREM SalesBalance == Spec => []BalanceIsLedger
<1> DEFINE MoneyInv == PaidInv /\ LedgerFine /\ WalletsFine
<1>1. Init => MoneyInv
  <2> SUFFICES ASSUME Init PROVE LedgerFine /\ WalletsFine
    BY PaidInit
  <2>1. ledger = {} /\ balance = [u \in Users |-> 0]
    BY DEF Init
  <2>2. IsFiniteSet(ledger)
    BY <2>1, FS_EmptySet
  <2>3. \A u \in Users : Sum(ledger, u) = 0
    <3> TAKE u \in Users
    <3>1. {e \in ledger : e.user = u} = {}
      BY <2>1
    <3> QED
      BY <3>1, FS_EmptySet, SumFirst DEF Sum
  <2> QED
    BY <2>1, <2>2, <2>3 DEF LedgerFine, PostedOnce, TransfersPaired, WalletsFine
<1>2. MoneyInv /\ [Next]_vars => MoneyInv'
  <2> SUFFICES ASSUME MoneyInv, [Next]_vars PROVE MoneyInv'
    OBVIOUS
  <2>1. MoneySteps
    BY Moves DEF PaidInv
  <2> QED
    BY <2>1, PaidNext, LedgerKept, WalletsKept
<1>3. MoneyInv => BalanceIsLedger
  BY DEF BalanceIsLedger, LedgerFine, WalletsFine, Posted, Sum
<1> QED
  BY <1>1, <1>2, <1>3, PTL DEF Spec
=============================================================================
