SPECIFICATION FairSpec
CONSTANTS
  b1 = b1
  b2 = b2
  c1 = c1
  c2 = c2
  w1 = w1
  w2 = w2
  artifact = artifact
  proposal = proposal
  NoBoard = NoBoard
  Boards <- OneBoard
  Cards <- OneCard
  Writers <- OneWriter
  Kinds <- TwoKinds
  Opted <- OneKind
  Limits <- LimitOne
  MaxClock = 0
  MaxRows = 3
  MaxArtifacts = 1
PROPERTY
  RowsArrive
  LogsArrive
