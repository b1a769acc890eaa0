CONSTANTS
  Plans = {"bot", "personal", "ready"}
  PlanKind <- MCPlanKind
  Price <- MCPrice
  Credits <- MCCredits
  Days = 1
  Codes = {c1}
  CodePlan <- MCCodePlan
  MaxOrder = 2
  MaxUpdate = 2
  Requests = {r1}
  Costs = {0}
  InitPoints = 1
  InitWallet = 1
  MaxActs = 5
  MaxFaults = 1
  MaxTime = 1
SPECIFICATION Spec
INVARIANT FailureIsFree
CHECK_DEADLOCK FALSE
