\* Two sessions, callers in no order, package code that fails.
CONSTANTS
  memory = memory
  capability = capability
  noteA = noteA
  hint = hint
  kernel = kernel
  n1 = n1
  n2 = n2
  Slot <- SmallSlot
  Capability = capability
  noteB = noteB
  Id <- OpenId
  Package <- OpenPackage
  Fenced <- KernelPackage
  KeyPart <- OpenKeyPart
  Session = {s1}
  Instance = {n1, n2}
  NoEntry = NoEntry
  Run = {r1, r2}
  StopCall = {c1, c2}
  Faults = {"apply", "dispose"}
  Serialised = FALSE
SPECIFICATION Spec
INVARIANTS
  TypeOK
  InFlightExact
PROPERTIES
  DisposeOnlyIdle
  StopSettles
