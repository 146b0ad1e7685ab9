\* One session with every section on; two synthesize calls, one run, one stop.
CONSTANTS
  memory = memory
  capability = capability
  note = note
  tool = tool
  t1 = t1
  t2 = t2
  Slot <- SmallSlot
  Capability = capability
  Id <- SmallId
  Package <- SmallPackage
  Fenced = {}
  KeyPart <- PlainKeyPart
  Session = {s1}
  Instance = {n1}
  NoEntry = NoEntry
  Run = {r1}
  StopCall = {c1, y1, y2}
  Faults = {}
  Serialised = TRUE
  sid = s1
  hmr = hmr
  Sections = {"jit", "eventInject", "taste"}
  AgentPackage <- SmallAgentPackage
  Task <- SmallTask
  Template <- TemplateId
  Order <- SmallOrder
  Synth = {y1, y2}
  Tool = {tool}
  HintOf <- HintId
  Reloadable = {note}
  NoReload = NoReload
SPECIFICATION HostSpec
INVARIANTS
  HostTypeOK
  
  ContextMatches
  UnloadLeavesNothing
PROPERTIES
  RollbackUndoes
  RollbackSparesOthers
