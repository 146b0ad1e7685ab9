--------------------------- MODULE PluginRegistry ---------------------------
(***************************************************************************)
(* What the harness promises of its slots, without tables, maps, counters  *)
(* or waiting: a set of plugins in place and the runs that use them.  A    *)
(* singleton slot has one plugin, a run starts on a plugin in place, and a *)
(* plugin that a run uses is not taken away (README.md "Harness Slots",    *)
(* docs/EXTENSIVE.md 6.4 and 6.10).  JitRuntime implements it.             *)
(***************************************************************************)

CONSTANTS
  Capability,  \* the slot that holds any number of plugins
  Package,     \* the plugins, pairs <<id, slot>>
  Run,         \* runs
  NoPlugin     \* what a run that is not in flight uses

VARIABLES
  held,        \* the plugins in place
  using        \* the plugin each run uses

vars == <<held, using>>

Init ==
  /\ held = {}
  /\ using = [r \in Run |-> NoPlugin]

Mount(p) ==
  /\ \A q \in held : q[1] # p[1]
  /\ p[2] = Capability \/ \A q \in held : q[2] # p[2]
  /\ held' = held \cup {p}
  /\ UNCHANGED using

Retire(D) ==
  /\ \A r \in Run : using[r] \notin D
  /\ held' = held \ D
  /\ UNCHANGED using

Start(r, p) ==
  /\ using[r] = NoPlugin
  /\ using' = [using EXCEPT ![r] = p]
  /\ UNCHANGED held

Settle(r) ==
  /\ using' = [using EXCEPT ![r] = NoPlugin]
  /\ UNCHANGED held

Next ==
  \/ \E p \in Package : Mount(p)
  \/ \E D \in SUBSET held : Retire(D)
  \/ \E r \in Run, p \in held : Start(r, p)
  \/ \E r \in Run : Settle(r)

Spec == Init /\ [][Next]_vars

-----------------------------------------------------------------------------

\* Two plugins in place share neither an id nor a singleton slot.
NoOverlap ==
  \A p, q \in held :
    p # q => /\ p[1] # q[1]
             /\ p[2] = q[2] => p[2] = Capability

\* A run uses a plugin that is in place.
UsedAreHeld == \A r \in Run : using[r] # NoPlugin => using[r] \in held

Safe == NoOverlap /\ UsedAreHeld
=============================================================================
