SPECIFICATION FairSpec
CONSTANTS
  None = None
  i1 = i1
  i2 = i2
  N = 2
  Limit = 2
  MaxAttempts = 2
  Inbounds = {i1, i2}
  Switched = {i1}
  Selections = {{i1}, {i1, i2}}
  MaxRotations = 1
  MaxCrashes = 1
  PanelFails = TRUE
INVARIANTS VolumeMatchesSales PanelInv
PROPERTIES DeliveredOrExhausted
