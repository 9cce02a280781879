SPECIFICATION ServicesSpec
CONSTANTS
  Services = {"home"}
  r1 = r1
  r2 = r2
  c1 = c1
  c2 = c2
  \* uploads
  Files <- Things
  Conversation <- MCConversation
  Empty = {}
  Messages = {"m"}
  Sessions = {"s"}
  Requests = {"q"}
  Preparers = {"w"}
  MaxCount = 1
  Quota = 2
  CacheQuota = 1
  MaxCrashes = 0
  \* OAuth
  Clients <- Actors
  MaxAttempt = 3
  Unfinished = {}
  \* connectors
  Servers <- Things
  OwnKey <- MCOwnKey
  RefSets <- MCRefSets
  Foreign = {}
  Workers <- Actors
  MaxBegun = 3
  \* artifacts
  Writers <- Actors
  Titles = {"k"}
  Url = {"u"}
  Texts = {"x", "y"}
  Turns <- MCTurns
  Keep = 1
  MaxArtifacts = 2
  MaxVersions = 2
  MaxFaults = 1
  \* the files of a profile
  HomeRequests <- Actors
  MaxStarted = 3
  \* jobs
  Jobs <- Things
  CronProfiles = {"root", "p"}
  RootProfile = "root"
  CronRequests <- Actors
  MaxCalls = 5
  \* results of jobs
  Window = 3
  RunActive = 4
  Lag = 1
  Gap = 3
  MaxRuns = 2
  MaxClock = 6
  \* cards
  Cards <- Things
  Movers <- Actors
  MaxAsked = 3
PROPERTY RefusalDeletesNothing
CHECK_DEADLOCK FALSE
