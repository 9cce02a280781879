SPECIFICATION Spec
CONSTANTS
  alice = alice
  bob = bob
  dev = dev
  rev = rev
  Nobody = Nobody
  Profiles <- TwoProfiles
  Persons <- TwoPersons
  Policies <- MixedOnly
  Edited <- MixedOnly
  Implementer <- dev
  HookFails = TRUE
  MaxRuns = 2
  Budget <- OnceEach
PROPERTY LateApproval
CHECK_DEADLOCK FALSE
