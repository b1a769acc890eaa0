CONSTANTS
  Channels = {a, b}
  Days = 1
  End = 3
  DayLength = 3
  Hours <- MCHours
  Spacing = 1
  Valid = 3
  Recheck = 2
  MaxTries = 2
  Texts = {0, 1}
  MaxActs = 4
  MaxFaults = 2
SPECIFICATION Spec
INVARIANTS ChannelInv
PROPERTIES WithheldNotShown QueueDrains
