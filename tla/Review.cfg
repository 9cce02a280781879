SPECIFICATION Spec
CONSTANTS
  alice = alice
  bob = bob
  dev = dev
  rev = rev
  Nobody = Nobody
  Profiles <- TwoProfiles
  Persons <- TwoPersons
  Policies <- EveryMode
  Edited <- ToAgent
  Implementer <- dev
  HookFails = TRUE
  MaxRuns = 2
  Budget <- OnceEach
SYMMETRY PersonSymmetry
INVARIANTS
  TypeOK
  ApprovalsAreCompletions
PROPERTIES
  NoSelfApproval
  PeopleDecide
CHECK_DEADLOCK FALSE
