\* Two searches on one archive, from an overlay with any recipes; nobody need
\* search again.
CONSTANTS
  named = named
  license = license
  secrets = secrets
  greet = greet
  header = header
  sum = sum
  noSecrets = noSecrets
  playbook = playbook
  Family = {named, license, secrets}
  HeldIn = {greet, header}
  HeldOut = {sum, noSecrets}
  FamilyOf <- Families
  File = {playbook}
  Playbook = playbook
  nothing = nothing
  Absent = {nothing}
  None = None
  Cap = 2
  MinParents = 1
  MaxSearches = 2
CHECK_DEADLOCK FALSE
SPECIFICATION FairSpec
INVARIANTS
  SearchTypeOK
  Reviewed
  FitnessOfBook
  ParentsArchived
PROPERTIES
  NoRegression
  SearchEnds
