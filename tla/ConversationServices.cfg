SPECIFICATION ServicesSpec
CONSTANTS
  Services = {"files", "ask", "proposals", "skills"}
  \* uploads
  Files = {"f"}
  Conversation <- MCConversation
  Empty = {}
  Messages = {"m"}
  Sessions = {"s"}
  Requests = {"q"}
  Preparers = {"r1", "r2"}
  MaxCount = 1
  Quota = 1
  CacheQuota = 1
  MaxCrashes = 1
  \* questions
  Calls = {"c1", "c2"}
  SessionOfCall <- MCSessionOfCall
  KindOf <- MCKindOf
  Profiles = {"p1", "p2"}
  Closed = {"c1"}
  \* proposals
  Proposals = {"q"}
  People = {"r1", "r2"}
  MaxCards = 4
  MaxLost = 1
  \* skills and memory
  Skill = {"s"}
  Editors = {"r"}
  MaxText = 2
  JobIds = {"j1", "j2"}
  MaxStops = 1
INVARIANTS
  ServicesTypeOK
  
  OneAnswer
  OneCard
PROPERTIES
  ReceiptHolds
  DeletedGoes
  CallReturns
  JobsTellTruth
  JobEnds
CHECK_DEADLOCK FALSE
