SPECIFICATION Spec
CONSTANTS
  b1 = b1
  b2 = b2
  c1 = c1
  c2 = c2
  w1 = w1
  w2 = w2
  artifact = artifact
  proposal = proposal
  NoBoard = NoBoard
  Boards <- OneBoard
  Cards <- TwoCards
  Writers <- OneWriter
  Kinds <- OneKind
  Opted <- OneKind
  Limits <- LimitsOneTwo
  MaxClock = 1
  MaxRows = 3
  MaxArtifacts = 0
SYMMETRY CardSymmetry
INVARIANTS
  TypeOK
  NoGap
PROPERTIES
  PairsWhole
  NoRepeatOnBoard
  NoMoreMeansAll
  DeletionIsLast
  DeletionsDelivered
