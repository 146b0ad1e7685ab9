------------------------------- MODULE Localize -------------------------------
(***************************************************************************)
(* The neighbourhood of a procedure, as localize finds it                   *)
(* (plugins/dsh-improveness/src/procedure-graph.js:60-89): a breadth-first  *)
(* search with a queue, against the nodes a short path leads to.            *)
(***************************************************************************)

EXTENDS Integers, Sequences, SequencesExt, ProcedureGraph

CONSTANTS Start   \* the procedure that stands for an unknown one

\* The mutated form goes a hop too far.
BeyondHops(d, hops) == d > hops
AtLastHop(d, hops) == d >= hops

\* One turn of the loop takes u from the queue.  Its edges are kept unless it is
\* at the last hop, and what they newly reach is queued, a hop further.
Turn(g, hops, st) ==
  LET u == Head(st.queue)
      out == {e \in g.edges : e.from = u}
      found == {e.to : e \in out} \ DOMAIN st.depth
  IN IF AtLastHop(st.depth[u], hops)
     THEN [st EXCEPT !.queue = Tail(@)]
     ELSE [queue |-> Tail(st.queue) \o SetToSeq(found),
           depth |-> [n \in DOMAIN st.depth \cup found |->
                        IF n \in found THEN st.depth[u] + 1 ELSE st.depth[n]],
           kept |-> st.kept \cup out]

\* The loop, which ends when the queue is empty.  A node is queued when it gets
\* its depth, so that there are at most as many turns as nodes.
AtStart(a) == [queue |-> <<a>>, depth |-> [n \in {a} |-> 0], kept |-> {}]
Loop(g, hops, st) == IF st.queue = <<>> THEN st ELSE Turn(g, hops, st)
Search(g, a, hops) ==
  LET turn[n \in Nat] == IF n = 0 THEN AtStart(a) ELSE Loop(g, hops, turn[n - 1])
  IN turn[Cardinality(g.nodes)]

\* Of several edges between the same ends the first one of the file stays;
\* which one that is is left open.
EdgeBetween(E, from, to) == CHOOSE e \in E : e.from = from /\ e.to = to
OneBetweenEnds(E) == {EdgeBetween(E, e.from, e.to) : e \in E}

\* With neither the procedure nor Start there is no neighbourhood.
Active(g, a) == IF a \in g.nodes THEN a ELSE Start
LocalizeAt(g, a, hops) ==
  IF Active(g, a) \notin g.nodes THEN [nodes |-> {}, edges |-> {}]
  ELSE LET st == Search(g, Active(g, a), hops)
       IN [nodes |-> DOMAIN st.depth, edges |-> OneBetweenEnds(st.kept)]

\* What a path of so many edges leads to, and the edges on the way.
Path(g, a, b, k) ==
  \E p \in [0..k -> g.nodes] :
    /\ p[0] = a /\ p[k] = b
    /\ \A i \in 0..k-1 : \E e \in g.edges : e.from = p[i] /\ e.to = p[i + 1]
Neighbourhood(g, a, hops) ==
  [nodes |-> {n \in g.nodes : \E k \in 0..hops : Path(g, a, n, k)},
   edges |-> {e \in g.edges : \E k \in 0..hops-1 : Path(g, a, e.from, k)}]

\* All of the neighbourhood is shown, and nothing else: each node, and one edge
\* for each two ends.
Shows(shown, hood) ==
  /\ shown.nodes = hood.nodes
  /\ shown.edges \subseteq hood.edges
  /\ \A e \in hood.edges : \E f \in shown.edges :
       \A x \in shown.edges : x.from = e.from /\ x.to = e.to <=> x = f
=============================================================================
