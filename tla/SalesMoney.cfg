SPECIFICATION Spec
CONSTANTS
  None = None
  Users = {u1, u2}
  Plans = {p1, p2}
  Codes = {c1}
  QuoteIds = {q1}
  TopupIds = {}
  InitialPlans <- TwoSizes
  InitialSettings = {"buy", "discounts", "reseller", "bulk", "referrals", "transfer"}
  Edited = {}
  MaxQty = 2
  QuoteLife = 0
  MaxTime = 1
  Prices = {}
  Capacities = {}
  CouponTerms <- Mixed
  Amounts = {4}
  CreditRefs = {r1}
  TransferIds = {x1}
  Referrer <- Inviter
  Commission = 50
  ResellerDiscount = 50
  Toggleable = {"reseller"}
  Managed = {u2}
INVARIANTS BalanceIsLedger
