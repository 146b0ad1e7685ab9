---------------------------- MODULE MCJitRuntime ----------------------------
(***************************************************************************)
(* Instances of JitRuntime for TLC.                                        *)
(***************************************************************************)

EXTENDS JitRuntime, TLC

CONSTANTS
  memory, capability,              \* slots
  noteA, noteB, hint, kernel,      \* ids
  n1, n2                           \* instances

SmallSlot == {memory, capability}

\* Two plugins for memory, one for the capability list, one fenced id.
SmallId == {noteA, noteB, hint, kernel}
SmallPackage == {<<noteA, memory>>, <<noteB, memory>>, <<hint, capability>>,
                 <<kernel, memory>>}
KernelPackage == {<<kernel, memory>>}
PlainKeyPart == [id \in SmallId |-> id]

\* Two plugins for memory; the second key part of hint ("noteA::v2") is noteA.
OpenId == {noteA, hint, kernel}
OpenPackage == {<<noteA, memory>>, <<hint, memory>>, <<kernel, memory>>}
OpenKeyPart == [id \in OpenId |-> IF id = hint THEN noteA ELSE id]
=============================================================================
