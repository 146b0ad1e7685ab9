--------------------------- MODULE AtomicCandidates ---------------------------
(***************************************************************************)
(* What the candidates of the staging tree promise (overlay/.omp/manifests  *)
(* /README.md): a candidate is applied as a whole and remembers its parent, *)
(* the contents it replaced; a rollback puts its parent back as a whole.  A *)
(* call that is refused or killed leaves some of its files written.         *)
(***************************************************************************)

CONSTANTS
  Id,         \* candidates
  File,       \* paths under harness/omp/staging
  Body,       \* contents; a path where there is no file reads as empty
  Change,     \* the contents a candidate can give to some of the files
  Nothing     \* no parent is remembered

VARIABLES
  tree,       \* tree[f]: the contents of f
  parent,     \* parent[i]: what candidate i replaced
  whole       \* the last call did all it was asked to

\* The tree with the contents in g.
Over(g) == [f \in File |-> IF f \in DOMAIN g THEN g[f] ELSE tree[f]]

Init ==
  /\ tree \in [File -> Body]
  /\ parent = [i \in Id |-> Nothing]
  /\ whole = TRUE

Apply(i, g) ==
  /\ tree' = Over(g)
  /\ parent' = [parent EXCEPT ![i] = [f \in DOMAIN g |-> tree[f]]]
  /\ whole' = TRUE

Rollback(i) ==
  /\ parent[i] # Nothing
  /\ tree' = Over(parent[i])
  /\ whole' = TRUE
  /\ UNCHANGED parent

\* Some of the contents in g are written.
Partly(g) ==
  /\ \E D \in SUBSET DOMAIN g : tree' = Over([f \in D |-> g[f]])
  /\ whole' = FALSE
  /\ UNCHANGED parent

\* Nothing of what was asked is done.
Refuse == whole' = FALSE /\ UNCHANGED <<tree, parent>>

\* Another driver writes a file.
Stage(f, b) ==
  /\ tree' = [tree EXCEPT ![f] = b]
  /\ UNCHANGED <<parent, whole>>

Next ==
  \/ \E i \in Id, g \in Change : Apply(i, g)
  \/ \E i \in Id : Rollback(i)
  \/ \E g \in Change : Partly(g)
  \/ \E i \in Id : parent[i] # Nothing /\ Partly(parent[i])
  \/ Refuse
  \/ \E f \in File, b \in Body : Stage(f, b)

Spec == Init /\ [][Next]_<<tree, parent, whole>>
=============================================================================
