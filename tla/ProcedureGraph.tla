---------------------------- MODULE ProcedureGraph ----------------------------
(***************************************************************************)
(* Procedure graphs and their edits                                         *)
(* (plugins/dsh-improveness/src/procedure-graph.js).  The kind of a node    *)
(* and the relation of an edge are left out, as every caller gives the same *)
(* ones; the three texts of an edge are one.                                *)
(***************************************************************************)

CONSTANTS
  Procedure,   \* node ids
  Text,        \* guidance
  Secretive    \* what SECRET_RE finds a secret in

Edge == [from : Procedure, to : Procedure, text : Text]
Graph == [nodes : SUBSET Procedure, edges : SUBSET Edge]
EmptyGraph == [nodes |-> {}, edges |-> {}]

ASSUME GraphAssumption == Secretive \subseteq Text

\* The mutated forms do not look at the ends of the edge, and at its text.
ValidText(e, nodes) == e.text \notin Secretive
ValidEnds(e, nodes) == e.from \in nodes /\ e.to \in nodes
ValidEdge(e, nodes) == e.from \in nodes /\ e.to \in nodes /\ e.text \notin Secretive

\* What is read of a file: the edges that are not valid are dropped.
ParseGraph(raw) ==
  [nodes |-> raw.nodes, edges |-> {e \in raw.edges : ValidEdge(e, raw.nodes)}]

(* applyEdits, an edit at a time *)

AddNode(g, n) == [g EXCEPT !.nodes = @ \cup {n}]

DeleteNode(g, n) ==
  [nodes |-> g.nodes \ {n}, edges |-> {e \in g.edges : e.from # n /\ e.to # n}]

DeleteEdge(g, a, b) == [g EXCEPT !.edges = {e \in @ : ~(e.from = a /\ e.to = b)}]

\* add-edge and update-edge: a valid edge takes the place of the one between
\* its ends; another one is rejected.
UpdateEdge(g, e) ==
  IF ValidEdge(e, g.nodes)
  THEN [g EXCEPT !.edges = {f \in @ : ~(f.from = e.from /\ f.to = e.to)} \cup {e}]
  ELSE g

\* Every edge has both its ends, and no secret.
Sound(g) ==
  g \in Graph /\ \A e \in g.edges : {e.from, e.to} \subseteq g.nodes /\ e.text \notin Secretive
=============================================================================
