\* Two sessions of one runtime, serialised teardowns, no faults.
CONSTANTS
  memory = memory
  capability = capability
  noteA = noteA
  noteB = noteB
  hint = hint
  kernel = kernel
  n1 = n1
  n2 = n2
  Slot <- SmallSlot
  Capability = capability
  Id <- SmallId
  Package <- SmallPackage
  Fenced <- KernelPackage
  KeyPart <- PlainKeyPart
  Session = {s1, s2}
  Instance = {n1}
  NoEntry = NoEntry
  Run = {r1, r2}
  StopCall = {c1, c2}
  Faults = {}
  Serialised = TRUE
SPECIFICATION Spec
INVARIANT OnePluginPerSlot
