\* Two candidates of a caller and the example of the repository.
CONSTANTS
  skill = skill
  playbook = playbook
  outside = outside
  old = old
  new = new
  first = first
  second = second
  example = example
  Id = {first, second, example}
  File = {skill, playbook, outside}
  Refused = {outside}
  Content = {old, new}
  Candidate <- Candidates
  Initial <- Trees
  Shipped = {example}
  Example <- ExampleManifest
  Absent = Absent
  Empty = Empty
  None = None
SPECIFICATION Spec
INVARIANTS
  CandidateTypeOK
  ManifestsRestore
PROPERTIES
  UnwindsInReverse
  ImplementsAtomic
