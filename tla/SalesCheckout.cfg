SPECIFICATION Spec
CONSTANTS
  None = None
  Users = {u1, u2}
  Plans = {p1}
  Codes = {c1}
  QuoteIds = {q1, q2}
  TopupIds = {t1, t2}
  InitialPlans <- OnePlace
  MaxQty = 1
  QuoteLife = 0
  MaxTime = 1
  Prices = {2}
  Capacities = {1}
  CouponTerms <- HalfPrice
  Amounts = {2}
  CreditRefs = {r1}
  TransferIds = {}
  Referrer <- NoInviter
  Commission = 50
  ResellerDiscount = 50
  InitialSettings = {"buy", "card", "discounts"}
  Edited = {}
  Toggleable = {}
  Managed = {}
INVARIANTS TypeOK PaidFromOneSource ReceiptMatchesOrder CapacityRespected
PROPERTIES CouponsAccounted KeepsContract
SYMMETRY Sym
