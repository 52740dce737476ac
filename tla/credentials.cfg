SPECIFICATION Spec
CONSTANTS
  Owners = {o1, o2}
  Screens = {s1, s2}
  NoClient = nobody
  Generations = 2
  MaxTokens = 3
  MaxFaults = 2
  MaxCrashes = 1
SYMMETRY Symmetry
INVARIANTS TypeOK OutcomesMatchRecord NoReplay
PROPERTIES StoredCredentialLineage
