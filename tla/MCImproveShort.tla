---------------------------- MODULE MCImproveShort ----------------------------
(***************************************************************************)
(* An instance of ImproveShort for TLC: a playbook with a bullet taken out  *)
(* of it, and a graph with two edges between the same ends and one to a     *)
(* procedure that is gone.                                                  *)
(***************************************************************************)

EXTENDS ImproveShort, TLC

CONSTANTS tip, warn, key, prompt, order, shipped, start, edit, test, s, f, P, Q

Sections == tip :> s @@ warn :> f @@ key :> s @@ prompt :> s
B(sec, n, t) == [section |-> sec, n |-> n, text |-> t, helpful |-> 1, harmful |-> 0]
Projects == {{B(s, 2, shipped)}}
Drawn ==
  {[nodes |-> {start}, edges |-> {}],
   [nodes |-> {start, edit},
    edges |-> {[from |-> start, to |-> edit, text |-> order],
               [from |-> start, to |-> edit, text |-> shipped],
               [from |-> edit, to |-> test, text |-> order]}]}
Trajectories == {<<start, edit>>, <<edit, test>>, <<test, edit>>}
Symmetric == Permutations({P, Q})
=============================================================================
