SPECIFICATION Spec
CONSTANTS
  None = None
  Users = {u1}
  Plans = {p1}
  Codes = {}
  QuoteIds = {q1, q2, q3}
  TopupIds = {t1}
  InitialPlans <- TwoPlaces
  InitialSettings = {"buy", "renew", "card", "self_delete", "wallet"}
  Edited = {p1}
  MaxQty = 1
  QuoteLife = 0
  MaxTime = 2
  Prices = {4}
  Capacities = {1}
  CouponTerms = {}
  Amounts = {4}
  CreditRefs = {r1}
  TransferIds = {}
  Referrer <- NoInviter
  Commission = 50
  ResellerDiscount = 50
  Toggleable = {}
  Managed = {}
INVARIANTS PriceAsQuoted PlacesKept
SYMMETRY Sym
