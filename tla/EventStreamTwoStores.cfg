SPECIFICATION Spec
CONSTANTS
  b1 = b1
  b2 = b2
  c1 = c1
  c2 = c2
  w1 = w1
  w2 = w2
  artifact = artifact
  proposal = proposal
  NoBoard = NoBoard
  Boards <- OneBoard
  Cards <- OneCard
  Writers <- TwoWriters
  Kinds <- OneKind
  Opted <- OneKind
  Limits <- LimitOne
  MaxClock = 1
  MaxRows = 1
  MaxArtifacts = 2
PROPERTY
  NoRepeatOfArtifacts
