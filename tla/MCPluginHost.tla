---------------------------- MODULE MCPluginHost ----------------------------
(***************************************************************************)
(* An instance of PluginHost for TLC: one singleton slot of the three, which *)
(* behave alike, and the capability list; two tasks, two synthesize calls at *)
(* a time, and a plugin of the agent in the singleton slot.  Runs and        *)
(* sleeping stops keep their entry mounted when teardowns are serialised, so *)
(* one instance of each plugin is enough.                                    *)
(***************************************************************************)

EXTENDS PluginHost, TLC

CONSTANTS memory, capability, note, tool, t1, t2

SmallSlot == {memory, capability}
SmallTask == {t1, t2}
TemplateId == [t \in SmallTask |-> [s \in SmallSlot |-> <<"jit", s, t>>]]
HintId == [x \in {tool} |-> <<"hint", x>>]

SmallAgentPackage == {<<note, memory>>}
SmallPackage ==
  SmallAgentPackage \cup {<<TemplateId[t][s], s>> : s \in SmallSlot, t \in SmallTask}
    \cup {<<HintId[tool], capability>>}
SmallId == {p[1] : p \in SmallPackage}
PlainKeyPart == [id \in SmallId |-> id]

\* A full list, one in another order that ends in a slot without a template,
\* and one that names a slot twice.
SmallOrder == {<<memory, capability>>, <<capability, memory, "tools">>,
               <<capability, capability>>}
=============================================================================
