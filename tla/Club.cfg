CONSTANTS
  a = a  b = b  c = c  i = i  j = j
  Users = {a, b, c}
  Admins = {c}
  Interests = {i, j}
  Start = 1
  Prices = {1, 2}
  Limit = 100
  MaxAsks = 1
  MaxEdits = 1
  Readers = {"u", "v"}
  Nobody = "nobody"
  Music = {}
  Films = {"film"}
  Lists = {"list"}
  Links = {}
  Steps = 1
  Audience <- MCAudience
  FieldPoints = 2
  PostPoints = 2
  LikePoints = 2
  FieldCap = 3
  PostCap = 5
  LikeCap = 3
  Authors = {"u"}
  MaxActs = 2
SYMMETRY Symmetry
SPECIFICATION CommunitySpec
INVARIANTS ClubInv NoChatAcrossBlock NoMatchMissed LibraryInv
PROPERTIES PaidAsRegistered KeepsContract DecisionsStand
