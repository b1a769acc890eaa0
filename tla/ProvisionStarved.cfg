SPECIFICATION FairSpec
CONSTANTS
  None = None
  i1 = i1
  N = 2
  Limit = 1
  MaxAttempts = 2
  Inbounds = {i1}
  Switched = {i1}
  Selections = {{i1}}
  MaxRotations = 0
  MaxCrashes = 1
  PanelFails = TRUE
PROPERTIES PaidIsAttempted
