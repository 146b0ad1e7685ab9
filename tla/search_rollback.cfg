\* One search of one step, then the commands of its review rows.
CONSTANTS
  named = named
  license = license
  secrets = secrets
  greet = greet
  header = header
  sum = sum
  noSecrets = noSecrets
  playbook = playbook
  nothing = nothing
  blank = blank
  Family = {named, license, secrets}
  HeldIn = {greet, header}
  HeldOut = {sum, noSecrets}
  FamilyOf <- Families
  File = {playbook}
  Playbook = playbook
  Absent = {nothing}
  Empty = {blank}
  None = None
  Cap = 1
  MinParents = 1
  MaxSearches = 1
CHECK_DEADLOCK FALSE
SPECIFICATION QueueSpec
INVARIANT QueuedRollsBack
