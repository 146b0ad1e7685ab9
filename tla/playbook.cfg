\* Three calls of two processes that may overlap.
CONSTANTS
  tip = tip
  warn = warn
  key = key
  prompt = prompt
  order = order
  shipped = shipped
  start = start
  edit = edit
  test = test
  s = s
  f = f
  P = P
  Q = Q
  Proc = {P, Q}
  Procedure = {start, edit, test}
  Start = start
  Text = {tip, warn, key, prompt, order, shipped}
  Secretive = {key}
  Lesson = {tip, warn, key, prompt}
  Forbidden = {prompt}
  Fallback = order
  Section = {s, f}
  Strategies = s
  SectionOf <- Sections
  Trajectory <- Trajectories
  Playbooks <- Projects
  Graphs <- Drawn
  None = None
  MaxCalls = 3
SYMMETRY Symmetric
CHECK_DEADLOCK FALSE
SPECIFICATION Spec
INVARIANTS
  ImproveTypeOK
  
  
  LocalizeExact
PROPERTIES
  StableIds
  NothingLost
  GraphsSound
