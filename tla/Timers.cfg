SPECIFICATION ServicesSpec
CONSTANTS
  Variants <- MCVariants
  EpisodeOf <- MCEpisodeOf
  TitleOf <- MCTitleOf
  Posters = {1}
  Retries = 2
  CoverBatch = 1
  Patience = 1
  LastPage = 2
  Offers = {1}
  Newest = 1
  PageOf <- MCPageOf
  Runs = {1, 2}
  Pipelines = {"daily", "initial"}
  Articles = {1, 2}
  Threads = {w1, w2}
  MusicRetries = 2
  Clients = {1}
  Quota = 1
  Sessions = {1}
  MaxBytes = 1
  MaxTime = 2
  MaxChanges = 3
  MaxFailures = 1
INVARIANTS ImportInv UsageCounted
PROPERTIES FilmRemovedStays FilmJobsSettle FilmShownUndisturbed OfferedIsStaged MusicSettles Converges
CHECK_DEADLOCK FALSE
