------------------------- MODULE ImproveShort_proofs -------------------------
(***************************************************************************)
(* Theorems about ImproveShort and ProcedureGraph: every edit keeps a graph *)
(* sound, and whichever calls overlap or are killed the playbook keeps its  *)
(* ids apart, counts each call once, and what the curator refuses out.      *)
(***************************************************************************)

EXTENDS ImproveShort, FiniteSetTheorems, WellFoundedInduction, TLAPS

(***************************************************************************)
(* Procedure graphs                                                        *)
(***************************************************************************)

LEMMA EmptySound == Sound(EmptyGraph)
BY DEF Sound, EmptyGraph, Graph

\* What parseGraph keeps of a file (procedure-graph.js:15-30).
LEMMA ParseSound ==
  ASSUME NEW g \in Graph
  PROVE  Sound(ParseGraph(g))
BY DEF Sound, Graph, ParseGraph, ValidEdge

LEMMA AddNodeSound ==
  ASSUME NEW g, Sound(g), NEW n \in Procedure
  PROVE  Sound(AddNode(g, n)) /\ AddNode(g, n).nodes = g.nodes \cup {n}
BY DEF Sound, Graph, AddNode

LEMMA UpdateEdgeSound ==
  ASSUME NEW g, Sound(g), NEW e \in Edge
  PROVE  Sound(UpdateEdge(g, e))
<1> DEFINE es == {f \in g.edges : ~(f.from = e.from /\ f.to = e.to)} \cup {e}
<1>1. g \in Graph /\ \A f \in g.edges : {f.from, f.to} \subseteq g.nodes /\ f.text \notin Secretive
  BY DEF Sound
<1>2. CASE ValidEdge(e, g.nodes)
  <2>1. UpdateEdge(g, e) = [nodes |-> g.nodes, edges |-> es]
    BY <1>1, <1>2 DEF UpdateEdge, Graph
  <2>2. es \subseteq Edge /\ g.nodes \subseteq Procedure
    BY <1>1 DEF Graph
  <2>3. [nodes |-> g.nodes, edges |-> es] \in Graph
    BY <2>2 DEF Graph
  <2>4. \A f \in es : {f.from, f.to} \subseteq g.nodes /\ f.text \notin Secretive
    BY <1>1, <1>2 DEF ValidEdge
  <2> QED
    BY <2>1, <2>3, <2>4 DEF Sound
<1>3. CASE ~ValidEdge(e, g.nodes)
  BY <1>3 DEF UpdateEdge
<1> QED
  BY <1>2, <1>3

LEMMA DeleteNodeSound ==
  ASSUME NEW g, Sound(g), NEW n \in Procedure
  PROVE  Sound(DeleteNode(g, n))
BY DEF Sound, Graph, DeleteNode

LEMMA DeleteEdgeSound ==
  ASSUME NEW g, Sound(g), NEW a \in Procedure, NEW b \in Procedure
  PROVE  Sound(DeleteEdge(g, a, b))
<1> DEFINE es == {e \in g.edges : ~(e.from = a /\ e.to = b)}
<1>1. DeleteEdge(g, a, b) = [nodes |-> g.nodes, edges |-> es]
  <2>1. g = [nodes |-> g.nodes, edges |-> g.edges]
    BY DEF Sound, Graph
  <2> QED
    BY <2>1 DEF DeleteEdge
<1> QED
  BY <1>1 DEF Sound, Graph

\* Whatever list of edits a driver makes (propose.ts:66 and
\* improve-short.ts:79-93 make some), each keeps the ends of every edge and lets
\* no secret in: deleting a procedure takes its edges with it
\* (procedure-graph.js:108-150).
THEOREM EditsKeepSound ==
  \A g \in Graph : Sound(g) =>
    \A a, b \in Procedure, e \in Edge :
      /\ Sound(AddNode(g, a)) /\ Sound(DeleteNode(g, a))
      /\ Sound(UpdateEdge(g, e)) /\ Sound(DeleteEdge(g, a, b))
BY AddNodeSound, DeleteNodeSound, UpdateEdgeSound, DeleteEdgeSound

(***************************************************************************)
(* The number of a new bullet                                              *)
(***************************************************************************)

\* A least set of numbers without a greatest one would, with any of them taken
\* out, have one.
LEMMA MaxOf ==
  ASSUME NEW S \in SUBSET Nat, IsFiniteSet(S), S # {}
  PROVE  Max(S) \in S /\ \A y \in S : Max(S) >= y
<1> DEFINE Bad == {U \in FiniteSubsetsOf(S) : U # {} /\ ~\E m \in U : \A y \in U : m >= y}
<1>1. Bad = {}
  <2> SUFFICES ASSUME Bad # {} PROVE FALSE
    OBVIOUS
  <2>1. IsWellFoundedOn(StrictSubsetOrdering(S), FiniteSubsetsOf(S))
    BY FS_StrictSubsetOrderingWellFounded
  <2>2. Bad \subseteq FiniteSubsetsOf(S)
    OBVIOUS
  <2> HIDE DEF Bad
  <2>3. PICK U \in Bad : \A V \in Bad : ~(<<V, U>> \in StrictSubsetOrdering(S))
    BY <2>1, <2>2, WFMin
  <2>4. /\ U \subseteq S /\ IsFiniteSet(U) /\ U # {}
        /\ ~\E m \in U : \A y \in U : m >= y
    BY <2>3 DEF Bad, FiniteSubsetsOf
  <2>5. PICK x \in U : TRUE
    BY <2>4
  <2> DEFINE V == U \ {x}
  <2>6. IsFiniteSet(V) /\ V \subseteq S /\ V \subseteq U /\ V # U
    BY <2>4, <2>5, FS_RemoveElement
  <2>7. <<V, U>> \in StrictSubsetOrdering(S)
    BY <2>4, <2>6 DEF StrictSubsetOrdering
  <2>8. V \notin Bad
    BY <2>3, <2>7
  <2>9. V # {}
    BY <2>4, <2>5
  <2>10. PICK m \in V : \A y \in V : m >= y
    BY <2>6, <2>8, <2>9 DEF Bad, FiniteSubsetsOf
  <2>11. m \in Nat /\ x \in Nat /\ \A y \in V : y \in Nat
    BY <2>4, <2>5, <2>10
  <2>12. CASE m >= x
    BY <2>4, <2>10, <2>12
  <2>13. CASE x >= m
    <3>1. \A y \in U : x >= y
      BY <2>10, <2>11, <2>13
    <3> QED
      BY <2>4, <2>5, <3>1
  <2> QED
    BY <2>11, <2>12, <2>13
<1>2. S \in FiniteSubsetsOf(S)
  BY DEF FiniteSubsetsOf
<1>3. \E m \in S : \A y \in S : m >= y
  BY <1>1, <1>2
<1> QED
  BY <1>3 DEF Max

\* nextId gives a number that no bullet of the section has
\* (curate-playbook.ts:79-86).
LEMMA NextIdFresh ==
  ASSUME NEW p \in Proc, read[p] \in Playbook, IsFiniteSet(read[p])
  PROVE  NextId(p) \in Nat /\ \A b \in read[p] : b.section = section[p] => b.n # NextId(p)
<1> DEFINE R == {c \in read[p] : c.section = section[p]}
           S == Numbers(p) \cup {0}
<1>1. R \subseteq read[p] /\ Numbers(p) = {b.n : b \in R}
  BY DEF Numbers
<1>2. \A b \in R : b.n \in Nat
  BY DEF Playbook, Bullet
<1>3. IsFiniteSet(R)
  BY <1>1, FS_Subset
<1>4. IsFiniteSet({b.n : b \in R})
  <2> DEFINE f == [b \in R |-> b.n]
             T == {b.n : b \in R}
  <2>1. f \in Surjection(R, T)
    BY DEF Surjection
  <2> QED
    BY <1>3, <2>1, FS_Surjection
<1>5. S \in SUBSET Nat /\ S # {} /\ IsFiniteSet(S)
  BY <1>1, <1>2, <1>4, FS_AddElement
<1> HIDE DEF S
<1>6. Max(S) \in S /\ \A y \in S : Max(S) >= y
  BY <1>5, MaxOf
<1>7. NextId(p) = Max(S) + 1 /\ Max(S) \in Nat
  BY <1>5, <1>6 DEF NextId, S
<1>8. \A b \in R : b.n \in S
  BY <1>1 DEF S
<1> QED
  BY <1>2, <1>6, <1>7, <1>8

(***************************************************************************)
(* What holds between two operations of the processes: each has read a     *)
(* playbook that was right and a graph that is sound, and writes no lesson *)
(* it has not looked at.                                                   *)
(***************************************************************************)

Fit(pb) == pb \in Playbook /\ IsFiniteSet(pb) /\ Distinct(pb) /\ Allowed(pb)

CallInv(p) ==
  /\ at[p] \in {"graph", "edit"} => steps[p] \in Trajectory
  /\ at[p] \in {"read", "write"} => lesson[p] \in Lesson
  /\ at[p] = "write" => ~Refuses(lesson[p])

ImproveInv ==
  /\ ImproveTypeOK
  /\ Fit(playbook)
  /\ \A p \in Proc : Fit(read[p]) /\ Sound(current[p]) /\ CallInv(p)

LEMMA NoBullets == Fit({})
BY FS_EmptySet DEF Fit, Playbook, Distinct, Allowed

LEMMA ImproveInit == Init => ImproveInv
<1> SUFFICES ASSUME Init PROVE ImproveInv
  OBVIOUS
<1>1. ImproveTypeOK
  <2>1. {} \in Playbook /\ EmptyGraph \in Graph
    BY EmptySound DEF Playbook, Sound
  <2>2. read \in [Proc -> Playbook] /\ current \in [Proc -> Graph]
    BY <2>1 DEF Init
  <2>3. playbook \in Playbook /\ graph \in Graph
    BY ImproveAssumption DEF Init
  <2>4. calls \in 0..MaxCalls /\ curated \in Nat
    BY ImproveAssumption DEF Init
  <2>5. section \in [Proc -> Section] /\ passed \in [Proc -> BOOLEAN]
    BY ImproveAssumption DEF Init
  <2> QED
    BY <2>2, <2>3, <2>4, <2>5 DEF Init, ImproveTypeOK
<1>2. Fit(playbook)
  BY ImproveAssumption DEF Init, Fit
<1>3. ASSUME NEW p \in Proc PROVE Fit(read[p]) /\ Sound(current[p]) /\ CallInv(p)
  BY NoBullets, EmptySound DEF Init, CallInv
<1> QED
  BY <1>1, <1>2, <1>3 DEF ImproveInv

\* What the end of a call leaves of it, and that it leaves the others alone.
LEMMA EndFacts ==
  ASSUME ImproveInv, NEW p \in Proc, End(p)
  PROVE  /\ at' \in [Proc -> {"idle", "graph", "edit", "read", "write"}]
         /\ lesson' \in [Proc -> Lesson \cup {None}] /\ passed' \in [Proc -> BOOLEAN]
         /\ steps' \in [Proc -> Trajectory \cup {None}] /\ section' \in [Proc -> Section]
         /\ read' \in [Proc -> Playbook] /\ current' \in [Proc -> Graph]
         /\ \A q \in Proc : Fit(read'[q]) /\ Sound(current'[q]) /\ CallInv(q)'
<1> USE ImproveAssumption DEF End, Goto
<1>1. at' \in [Proc -> {"idle", "graph", "edit", "read", "write"}]
  BY DEF ImproveInv, ImproveTypeOK
<1>2. lesson' \in [Proc -> Lesson \cup {None}] /\ passed' \in [Proc -> BOOLEAN]
  BY DEF ImproveInv, ImproveTypeOK
<1>3. steps' \in [Proc -> Trajectory \cup {None}] /\ section' \in [Proc -> Section]
  BY DEF ImproveInv, ImproveTypeOK
<1>4. read' \in [Proc -> Playbook]
  BY NoBullets DEF ImproveInv, ImproveTypeOK, Fit
<1>5. current' \in [Proc -> Graph]
  BY EmptySound DEF ImproveInv, ImproveTypeOK, Sound
<1>6. ASSUME NEW q \in Proc PROVE Fit(read'[q]) /\ Sound(current'[q]) /\ CallInv(q)'
  <2>1. CASE q = p
    <3>1. at'[q] = "idle" /\ read'[q] = {} /\ current'[q] = EmptyGraph
      BY <2>1 DEF ImproveInv, ImproveTypeOK
    <3> QED
      BY <3>1, NoBullets, EmptySound DEF CallInv
  <2>2. CASE q # p
    <3>1. /\ at'[q] = at[q] /\ read'[q] = read[q] /\ current'[q] = current[q]
          /\ steps'[q] = steps[q] /\ lesson'[q] = lesson[q]
      BY <2>2 DEF ImproveInv, ImproveTypeOK
    <3> QED
      BY <3>1 DEF ImproveInv, CallInv, Refuses
  <2> QED
    BY <2>1, <2>2
<1> QED
  BY <1>1, <1>2, <1>3, <1>4, <1>5, <1>6

LEMMA EndKeeps ==
  ASSUME ImproveInv, NEW p \in Proc, End(p), UNCHANGED <<playbook, graph, calls, curated, clash>>
  PROVE  ImproveInv'
BY EndFacts DEF ImproveInv, ImproveTypeOK, Fit

LEMMA BeginKeeps ==
  ASSUME ImproveInv, NEW p \in Proc, NEW l \in Lesson \cup {None}, NEW ok \in BOOLEAN,
         NEW ab \in Trajectory \cup {None}, NEW sec \in Section, NEW next \in {"graph", "read"},
         next = "graph" => ab \in Trajectory, next = "read" => l \in Lesson,
         Begin(p, l, ok, ab, sec, next)
  PROVE  ImproveInv'
<1> USE DEF Begin, Goto
<1>1. at' \in [Proc -> {"idle", "graph", "edit", "read", "write"}]
  BY DEF ImproveInv, ImproveTypeOK
<1>2. lesson' \in [Proc -> Lesson \cup {None}] /\ passed' \in [Proc -> BOOLEAN]
  BY DEF ImproveInv, ImproveTypeOK
<1>3. steps' \in [Proc -> Trajectory \cup {None}] /\ section' \in [Proc -> Section]
  BY DEF ImproveInv, ImproveTypeOK
<1>4. calls' \in 0..MaxCalls
  BY ImproveAssumption DEF ImproveInv, ImproveTypeOK
<1>5. ImproveTypeOK'
  BY <1>1, <1>2, <1>3, <1>4 DEF ImproveInv, ImproveTypeOK
<1>6. ASSUME NEW q \in Proc PROVE Fit(read[q])' /\ Sound(current[q])' /\ CallInv(q)'
  <2>1. Fit(read[q])' /\ Sound(current[q])'
    BY DEF ImproveInv, Fit, Sound
  <2>2. CallInv(q)'
    <3>1. CASE q = p
      <4>1. at'[q] = next /\ lesson'[q] = l /\ steps'[q] = ab
        BY <3>1 DEF ImproveInv, ImproveTypeOK
      <4> QED
        BY <4>1 DEF CallInv
    <3>2. CASE q # p
      <4>1. at'[q] = at[q] /\ lesson'[q] = lesson[q] /\ steps'[q] = steps[q]
        BY <3>2 DEF ImproveInv, ImproveTypeOK
      <4> QED
        BY <4>1 DEF ImproveInv, CallInv, Refuses
    <3> QED
      BY <3>1, <3>2
  <2> QED
    BY <2>1, <2>2
<1> QED
  BY <1>5, <1>6 DEF ImproveInv, Fit

(***************************************************************************)
(* The graph                                                               *)
(***************************************************************************)

LEMMA ReadGraphKeeps ==
  ASSUME ImproveInv, NEW p \in Proc, ReadGraph(p)
  PROVE  ImproveInv'
<1> USE DEF ReadGraph, Goto
<1>1. Sound(ParseGraph(graph))
  BY ParseSound DEF ImproveInv, ImproveTypeOK
<1>2. ImproveTypeOK'
  <2>1. current' \in [Proc -> Graph]
    BY <1>1 DEF ImproveInv, ImproveTypeOK, Sound
  <2>2. at' \in [Proc -> {"idle", "graph", "edit", "read", "write"}]
    BY DEF ImproveInv, ImproveTypeOK
  <2> QED
    BY <2>1, <2>2 DEF ImproveInv, ImproveTypeOK, inputs
<1>3. ASSUME NEW q \in Proc PROVE Fit(read[q])' /\ Sound(current'[q]) /\ CallInv(q)'
  <2>1. Fit(read[q])'
    BY DEF ImproveInv, Fit
  <2>2. Sound(current'[q]) /\ CallInv(q)'
    <3>1. CASE q = p
      BY <3>1, <1>1 DEF ImproveInv, ImproveTypeOK, CallInv, inputs
    <3>2. CASE q # p
      <4>1. at'[q] = at[q] /\ current'[q] = current[q]
        BY <3>2 DEF ImproveInv, ImproveTypeOK
      <4> QED
        BY <4>1 DEF ImproveInv, CallInv, Refuses, inputs
    <3> QED
      BY <3>1, <3>2
  <2> QED
    BY <2>1, <2>2
<1> QED
  BY <1>2, <1>3 DEF ImproveInv, Fit, Sound

\* The edge a failed trajectory teaches.
LEMMA LearntSound ==
  ASSUME ImproveInv, NEW p \in Proc, at[p] = "edit"
  PROVE  Sound(UpdateEdge(WithSteps(p), Learnt(p)))
<1>1. steps[p] \in Procedure \X Procedure /\ Sound(current[p])
  BY ImproveAssumption DEF ImproveInv, CallInv
<1>2. lesson[p] \in Lesson \cup {None} /\ Guidance(p) \in Text
  BY ImproveAssumption DEF ImproveInv, ImproveTypeOK, Guidance
<1>3. Sound(WithSteps(p))
  BY <1>1, AddNodeSound DEF WithSteps
<1>4. Learnt(p) \in Edge
  BY <1>1, <1>2 DEF Learnt, Edge
<1> QED
  BY <1>3, <1>4, UpdateEdgeSound

LEMMA WriteGraphSound ==
  ASSUME ImproveInv, NEW p \in Proc, WriteGraph(p)
  PROVE  graph' # graph => Sound(graph')
BY LearntSound DEF WriteGraph

LEMMA WriteGraphKeeps ==
  ASSUME ImproveInv, NEW p \in Proc, WriteGraph(p)
  PROVE  ImproveInv'
<1>1. graph' \in Graph
  BY WriteGraphSound DEF Sound, ImproveInv, ImproveTypeOK
<1>2. CASE lesson[p] = None
  <2>1. End(p) /\ UNCHANGED <<playbook, calls, curated, clash>>
    BY <1>2 DEF WriteGraph
  <2> QED
    BY <1>1, <2>1, EndFacts DEF ImproveInv, ImproveTypeOK, Fit
<1>3. CASE lesson[p] # None
  <2>1. /\ at' = [at EXCEPT ![p] = "read"] /\ current' = [current EXCEPT ![p] = EmptyGraph]
        /\ UNCHANGED <<playbook, inputs, read, calls, curated, clash>>
    BY <1>3 DEF WriteGraph, Goto
  <2>2. lesson[p] \in Lesson
    BY <1>3 DEF ImproveInv, ImproveTypeOK
  <2>3. ImproveTypeOK'
    <3>1. current' \in [Proc -> Graph]
      BY <2>1, EmptySound DEF ImproveInv, ImproveTypeOK, Sound
    <3>2. at' \in [Proc -> {"idle", "graph", "edit", "read", "write"}]
      BY <2>1 DEF ImproveInv, ImproveTypeOK
    <3> QED
      BY <1>1, <2>1, <3>1, <3>2 DEF ImproveInv, ImproveTypeOK, inputs
  <2>4. ASSUME NEW q \in Proc PROVE Fit(read[q])' /\ Sound(current'[q]) /\ CallInv(q)'
    <3>1. Fit(read[q])'
      BY <2>1 DEF ImproveInv, Fit
    <3>2. CASE q = p
      <4>1. at'[q] = "read" /\ current'[q] = EmptyGraph /\ lesson'[q] = lesson[p]
        BY <2>1, <3>2 DEF ImproveInv, ImproveTypeOK, inputs
      <4> QED
        BY <2>2, <3>1, <4>1, EmptySound DEF CallInv
    <3>3. CASE q # p
      <4>1. at'[q] = at[q] /\ current'[q] = current[q]
        BY <2>1, <3>3 DEF ImproveInv, ImproveTypeOK
      <4> QED
        BY <2>1, <3>1, <4>1 DEF ImproveInv, CallInv, Refuses, inputs
    <3> QED
      BY <3>2, <3>3
  <2> QED
    BY <2>1, <2>3, <2>4 DEF ImproveInv, Fit, Sound
<1> QED
  BY <1>2, <1>3

(***************************************************************************)
(* The playbook                                                            *)
(***************************************************************************)

LEMMA ReadPlaybookKeeps ==
  ASSUME ImproveInv, NEW p \in Proc, ReadPlaybook(p)
  PROVE  ImproveInv'
<1> USE DEF ReadPlaybook, Goto
<1>1. ImproveTypeOK'
  <2>1. read' \in [Proc -> Playbook]
    BY DEF ImproveInv, ImproveTypeOK
  <2>2. at' \in [Proc -> {"idle", "graph", "edit", "read", "write"}]
    BY DEF ImproveInv, ImproveTypeOK
  <2> QED
    BY <2>1, <2>2 DEF ImproveInv, ImproveTypeOK, inputs
<1>2. ASSUME NEW q \in Proc PROVE Fit(read'[q]) /\ Sound(current[q])' /\ CallInv(q)'
  <2>1. Sound(current[q])'
    BY DEF ImproveInv, Sound
  <2>2. CASE q = p
    <3>1. read'[q] = playbook /\ at'[q] = "write" /\ lesson' = lesson
      BY <2>2 DEF ImproveInv, ImproveTypeOK, inputs
    <3> QED
      BY <2>1, <2>2, <3>1 DEF ImproveInv, CallInv, Refuses
  <2>3. CASE q # p
    <3>1. at'[q] = at[q] /\ read'[q] = read[q]
      BY <2>3 DEF ImproveInv, ImproveTypeOK
    <3> QED
      BY <2>1, <3>1 DEF ImproveInv, CallInv, Refuses, inputs
  <2> QED
    BY <2>2, <2>3
<1> QED
  BY <1>1, <1>2 DEF ImproveInv, Fit

\* A bullet counted up is the same bullet.
LEMMA CountedFacts ==
  ASSUME NEW b \in Bullet, NEW ok \in BOOLEAN
  PROVE  LET c == Counted(b, ok)
         IN  /\ c \in Bullet /\ c.section = b.section /\ c.n = b.n /\ c.text = b.text
             /\ c.helpful >= b.helpful /\ c.harmful >= b.harmful
BY DEF Counted, Bullet

\* What a call writes: each bullet it read, one of them counted up or a new one
\* with an id and a text of its own.
LEMMA WritePlaybookFit ==
  ASSUME ImproveInv, NEW p \in Proc, WritePlaybook(p)
  PROVE  /\ Fit(playbook')
         /\ \A b \in read[p] : \E c \in playbook' :
              /\ c.section = b.section /\ c.n = b.n /\ c.text = b.text
              /\ c.helpful >= b.helpful /\ c.harmful >= b.harmful
<1>1. /\ read[p] \subseteq Bullet /\ IsFiniteSet(read[p])
      /\ Distinct(read[p]) /\ Allowed(read[p])
  BY DEF ImproveInv, Fit, Playbook
<1>2. /\ lesson[p] \in Text \ (Secretive \cup Forbidden) /\ passed[p] \in BOOLEAN
      /\ section[p] \in Section
  BY ImproveAssumption DEF ImproveInv, ImproveTypeOK, CallInv, Refuses, WritePlaybook
<1>3. ASSUME NEW b \in Matching(p), playbook' = (read[p] \ {b}) \cup {Counted(b, passed[p])}
      PROVE  /\ Fit(playbook')
             /\ \A a \in read[p] : \E c \in playbook' :
                  /\ c.section = a.section /\ c.n = a.n /\ c.text = a.text
                  /\ c.helpful >= a.helpful /\ c.harmful >= a.harmful
  <2> DEFINE d == Counted(b, passed[p])
  <2>1. b \in read[p] /\ b \in Bullet
    BY <1>1 DEF Matching
  <2>2. /\ d \in Bullet /\ d.section = b.section /\ d.n = b.n /\ d.text = b.text
        /\ d.helpful >= b.helpful /\ d.harmful >= b.harmful
    BY <1>2, <2>1, CountedFacts
  <2> HIDE DEF d
  <2>3. playbook' = (read[p] \ {b}) \cup {d}
    BY <1>3 DEF d
  <2>4. playbook' \in Playbook /\ IsFiniteSet(playbook')
    <3>1. IsFiniteSet(read[p] \ {b})
      BY <1>1, FS_RemoveElement, FS_Subset
    <3> QED
      BY <1>1, <2>2, <2>3, <3>1, FS_AddElement DEF Playbook
  <2>5. Distinct(playbook')
    BY <1>1, <2>1, <2>2, <2>3 DEF Distinct
  <2>6. Allowed(playbook')
    BY <1>1, <2>1, <2>2, <2>3 DEF Allowed
  <2>7. \A a \in read[p] : a.helpful \in Nat /\ a.harmful \in Nat
    BY <1>1 DEF Bullet
  <2>8. \A a \in read[p] : a.helpful >= a.helpful /\ a.harmful >= a.harmful
    BY <2>7
  <2>9. ASSUME NEW a \in read[p]
        PROVE  \E c \in playbook' :
                 /\ c.section = a.section /\ c.n = a.n /\ c.text = a.text
                 /\ c.helpful >= a.helpful /\ c.harmful >= a.harmful
    <3>1. CASE a = b
      BY <3>1, <2>2, <2>3
    <3>2. CASE a # b
      BY <3>2, <2>3, <2>8
    <3> QED
      BY <3>1, <3>2
  <2> QED
    BY <2>4, <2>5, <2>6, <2>9 DEF Fit
<1>4. ASSUME Matching(p) = {}, NEW new,
             new = [section |-> section[p], n |-> NextId(p), text |-> lesson[p],
                    helpful |-> 0, harmful |-> 0],
             playbook' = read[p] \cup {Counted(new, passed[p])}
      PROVE  /\ Fit(playbook')
             /\ \A a \in read[p] : \E c \in playbook' :
                  /\ c.section = a.section /\ c.n = a.n /\ c.text = a.text
                  /\ c.helpful >= a.helpful /\ c.harmful >= a.harmful
  <2> DEFINE d == Counted(new, passed[p])
  <2>1. NextId(p) \in Nat /\ \A b \in read[p] : b.section = section[p] => b.n # NextId(p)
    BY <1>1, NextIdFresh DEF Playbook
  <2>2. new \in Bullet
    BY <1>2, <1>4, <2>1 DEF Bullet
  <2>3. d \in Bullet /\ d.section = section[p] /\ d.n = NextId(p) /\ d.text = lesson[p]
    BY <1>2, <1>4, <2>2, CountedFacts
  <2> HIDE DEF d
  <2>4. playbook' = read[p] \cup {d}
    BY <1>4 DEF d
  <2>5. \A b \in read[p] : b.text # lesson[p]
    BY <1>4 DEF Matching
  <2>6. playbook' \in Playbook /\ IsFiniteSet(playbook')
    BY <1>1, <2>3, <2>4, FS_AddElement DEF Playbook
  <2>7. Distinct(playbook')
    BY <1>1, <2>1, <2>3, <2>4, <2>5 DEF Distinct
  <2>8. Allowed(playbook')
    BY <1>1, <1>2, <2>3, <2>4 DEF Allowed
  <2>9. \A a \in read[p] : a.helpful \in Nat /\ a.harmful \in Nat
    BY <1>1 DEF Bullet
  <2>10. \A a \in read[p] : a.helpful >= a.helpful /\ a.harmful >= a.harmful
    BY <2>9
  <2> QED
    BY <2>4, <2>6, <2>7, <2>8, <2>10 DEF Fit
<1>5. CASE \E b \in Matching(p) : playbook' = (read[p] \ {b}) \cup {Counted(b, passed[p])}
  BY <1>3, <1>5
<1>6. CASE /\ Matching(p) = {}
           /\ LET new == [section |-> section[p], n |-> NextId(p), text |-> lesson[p],
                          helpful |-> 0, harmful |-> 0]
              IN playbook' = read[p] \cup {Counted(new, passed[p])}
  BY <1>4, <1>6
<1> QED
  BY <1>5, <1>6 DEF WritePlaybook

LEMMA WritePlaybookKeeps ==
  ASSUME ImproveInv, NEW p \in Proc, WritePlaybook(p)
  PROVE  ImproveInv'
<1>1. End(p) /\ UNCHANGED <<graph, calls>> /\ curated' = curated + 1 /\ clash' \in BOOLEAN
  BY DEF WritePlaybook, ImproveInv, ImproveTypeOK
<1>2. Fit(playbook')
  BY WritePlaybookFit
<1>3. ImproveTypeOK'
  BY <1>1, <1>2, EndFacts DEF ImproveInv, ImproveTypeOK, Fit
<1> QED
  BY <1>1, <1>2, <1>3, EndFacts DEF ImproveInv

LEMMA StutterKeeps ==
  ASSUME ImproveInv, UNCHANGED vars
  PROVE  ImproveInv'
<1>1. ImproveTypeOK'
  BY DEF ImproveInv, ImproveTypeOK, vars, inputs
<1>2. Fit(playbook)' /\ \A p \in Proc : Fit(read[p])' /\ Sound(current[p])'
  BY DEF ImproveInv, Fit, Sound, vars
<1>3. \A p \in Proc : CallInv(p)'
  BY DEF ImproveInv, CallInv, Refuses, vars, inputs
<1> QED
  BY <1>1, <1>2, <1>3 DEF ImproveInv

LEMMA NextKeeps == ImproveInv /\ [Next]_vars => ImproveInv'
<1> SUFFICES ASSUME ImproveInv, [Next]_vars PROVE ImproveInv'
  OBVIOUS
<1>1. ASSUME NEW p \in Proc, NEW l \in Lesson \cup {None}, NEW ok \in BOOLEAN,
             NEW ab \in Trajectory \cup {None}, CallImprove(p, l, ok, ab)
      PROVE  ImproveInv'
  <2>1. Strategies \in Section
    BY ImproveAssumption
  <2>2. CASE ~ok /\ ab # None /\ Begin(p, l, ok, ab, Strategies, "graph")
    BY <2>1, <2>2, BeginKeeps
  <2>3. CASE (ok \/ ab = None) /\ l # None /\ Begin(p, l, ok, ab, Strategies, "read")
    BY <2>1, <2>3, BeginKeeps
  <2> QED
    BY <1>1, <2>2, <2>3 DEF CallImprove
<1>2. ASSUME NEW p \in Proc, NEW l \in Lesson \cup {None}, NEW ok \in BOOLEAN,
             CallCurate(p, l, ok)
      PROVE  ImproveInv'
  <2>1. l \in Lesson /\ SectionOf[l] \in Section
    BY <1>2, ImproveAssumption DEF CallCurate
  <2> QED
    BY <1>2, <2>1, BeginKeeps DEF CallCurate
<1>3. ASSUME NEW p \in Proc, CurateThrows(p) \/ Kill(p) PROVE ImproveInv'
  BY <1>3, EndKeeps DEF CurateThrows, Kill
<1> QED
  BY <1>1, <1>2, <1>3, ReadGraphKeeps, WriteGraphKeeps, ReadPlaybookKeeps, WritePlaybookKeeps,
     StutterKeeps DEF Next

\* What each call has read is fit to be written back, whichever other calls have
\* written since (improve-short.ts:26-97, curate-playbook.ts:98-150).
THEOREM ImproveInvariant == Spec => []ImproveInv
<1> QED
  BY ImproveInit, NextKeeps, PTL DEF Spec

\* Every variable keeps its type, whichever calls overlap (improve-short.ts:26-97,
\* curate-playbook.ts:98-150).
THEOREM ImproveTypes == Spec => []ImproveTypeOK
<1>1. ImproveInv => ImproveTypeOK
  BY DEF ImproveInv
<1> QED
  BY <1>1, ImproveInvariant, PTL

\* No two bullets share an id or a text, whichever calls overlap and are killed
\* (curate-playbook.ts:79-86 and 120-132).
THEOREM BulletsAlwaysDistinct == Spec => []BulletsDistinct
<1>1. ImproveInv => BulletsDistinct
  BY DEF ImproveInv, Fit, BulletsDistinct
<1> QED
  BY <1>1, ImproveInvariant, PTL

\* No bullet is a secret or names SYSTEM.md (curator.md:11-12).
THEOREM RefusedAlwaysOut == Spec => []RefusedKeptOut
<1>1. ImproveInv => RefusedKeptOut
  BY DEF ImproveInv, Fit, RefusedKeptOut
<1> QED
  BY <1>1, ImproveInvariant, PTL

\* An id keeps its text and its counts never fall, unless a call wrote over a
\* change it had not read (curator.md:8-9).
THEOREM IdsStable == Spec => StableIds
<1> DEFINE Kept == ~clash' => \A b \in playbook : \E c \in playbook' :
             /\ c.section = b.section /\ c.n = b.n /\ c.text = b.text
             /\ c.helpful >= b.helpful /\ c.harmful >= b.harmful
<1>1. ASSUME ImproveInv, playbook' = playbook PROVE Kept
  <2>1. \A b \in playbook : b.helpful \in Nat /\ b.harmful \in Nat
    BY <1>1 DEF ImproveInv, Fit, Playbook, Bullet
  <2>2. \A b \in playbook : b.helpful >= b.helpful /\ b.harmful >= b.harmful
    BY <2>1
  <2> QED
    BY <1>1, <2>2
<1>2. ASSUME ImproveInv, NEW p \in Proc, WritePlaybook(p) PROVE Kept
  <2>1. ~clash' => playbook = read[p]
    BY <1>2 DEF WritePlaybook
  <2> QED
    BY <1>2, <2>1, WritePlaybookFit
<1>3. ImproveInv /\ [Next]_vars => [Kept]_vars
  <2> SUFFICES ASSUME ImproveInv, Next PROVE Kept
    OBVIOUS
  <2>1. ASSUME NEW p \in Proc, NEW l \in Lesson \cup {None}, NEW ok \in BOOLEAN,
               (\E ab \in Trajectory \cup {None} : CallImprove(p, l, ok, ab)) \/ CallCurate(p, l, ok)
        PROVE  playbook' = playbook
    BY <2>1 DEF CallImprove, CallCurate, Begin
  <2>2. ASSUME NEW p \in Proc,
               ReadGraph(p) \/ WriteGraph(p) \/ CurateThrows(p) \/ ReadPlaybook(p) \/ Kill(p)
        PROVE  playbook' = playbook
    BY <2>2 DEF ReadGraph, WriteGraph, CurateThrows, ReadPlaybook, Kill
  <2> HIDE DEF Kept
  <2> QED
    BY <1>1, <1>2, <2>1, <2>2 DEF Next
<1> QED
  BY <1>3, ImproveInvariant, PTL DEF Spec, StableIds

\* A graph that is written has both ends of every edge, and no secret
\* (procedure-graph.js:36-46 and 108-150).
THEOREM GraphsAlwaysSound == Spec => GraphsSound
<1>1. ImproveInv /\ [Next]_vars => [graph' # graph => Sound(graph')]_vars
  <2> SUFFICES ASSUME ImproveInv, Next, graph' # graph PROVE Sound(graph')
    OBVIOUS
  <2>1. ASSUME NEW p \in Proc, NEW l \in Lesson \cup {None}, NEW ok \in BOOLEAN,
               (\E ab \in Trajectory \cup {None} : CallImprove(p, l, ok, ab)) \/ CallCurate(p, l, ok)
        PROVE  graph' = graph
    BY <2>1 DEF CallImprove, CallCurate, Begin
  <2>2. ASSUME NEW p \in Proc,
               ReadGraph(p) \/ CurateThrows(p) \/ ReadPlaybook(p) \/ WritePlaybook(p) \/ Kill(p)
        PROVE  graph' = graph
    BY <2>2 DEF ReadGraph, CurateThrows, ReadPlaybook, WritePlaybook, Kill
  <2> QED
    BY <2>1, <2>2, WriteGraphSound DEF Next
<1> QED
  BY <1>1, ImproveInvariant, PTL DEF Spec, GraphsSound


(***************************************************************************)
(* What the counts of a playbook add up to                                 *)
(***************************************************************************)

\* Induction over the subsets of a finite set: a collection that has a set
\* whenever it has all smaller ones has every subset.
LEMMA SubsetsInduct ==
  ASSUME NEW S, IsFiniteSet(S), NEW Good,
         \A T \in SUBSET S : (\A U \in SUBSET T : U # T => U \in Good) => T \in Good
  PROVE  \A T \in SUBSET S : T \in Good
<1> SUFFICES ASSUME NEW T0 \in SUBSET S, T0 \notin Good PROVE FALSE
  OBVIOUS
<1> DEFINE Bad == {T \in FiniteSubsetsOf(S) : T \notin Good}
<1>1. \A T \in SUBSET S : T \in FiniteSubsetsOf(S)
  BY FS_Subset DEF FiniteSubsetsOf
<1>2. IsWellFoundedOn(StrictSubsetOrdering(S), FiniteSubsetsOf(S))
  BY FS_StrictSubsetOrderingWellFounded
<1>3. Bad # {} /\ Bad \subseteq FiniteSubsetsOf(S)
  BY <1>1
<1> HIDE DEF Bad
<1>4. PICK T \in Bad : \A U \in Bad : ~(<<U, T>> \in StrictSubsetOrdering(S))
  BY <1>2, <1>3, WFMin
<1>5. T \in SUBSET S /\ T \notin Good
  BY <1>4 DEF Bad, FiniteSubsetsOf
<1>6. PICK U \in SUBSET T : U # T /\ U \notin Good
  BY <1>5
<1>7. U \in Bad
  BY <1>1, <1>5, <1>6 DEF Bad
<1>8. <<U, T>> \in StrictSubsetOrdering(S)
  BY <1>5, <1>6 DEF StrictSubsetOrdering
<1> QED
  BY <1>4, <1>7, <1>8

Weight(b) == b.helpful + b.harmful

First(s) == CHOOSE x \in s : TRUE

\* The function that the fold over the bullets of pb computes.
IsSum(pb, sum) ==
  sum = [s \in SUBSET pb |-> IF s = {} THEN 0 ELSE Weight(First(s)) + sum[s \ {First(s)}]]

LEMMA OutcomesFolds == \A pb : Outcomes(pb) = (CHOOSE sum : IsSum(pb, sum))[pb]
BY DEF Outcomes, MapThenSumSet, MapThenFoldSet, IsSum, Weight, First

LEMMA FirstIn == \A s : s # {} => First(s) \in s
BY DEF First

LEMMA SumOf ==
  ASSUME NEW pb, NEW sum, IsSum(pb, sum), NEW s \in SUBSET pb
  PROVE  sum[s] = IF s = {} THEN 0 ELSE Weight(First(s)) + sum[s \ {First(s)}]
BY DEF IsSum

\* Two such functions agree where both are defined.
LEMMA SumsAgree ==
  ASSUME NEW pb, IsFiniteSet(pb), NEW sum, IsSum(pb, sum), NEW qb, pb \subseteq qb,
         NEW other, IsSum(qb, other)
  PROVE  sum[pb] = other[pb]
<1> DEFINE Good == {s \in SUBSET pb : sum[s] = other[s]}
<1>1. ASSUME NEW s \in SUBSET pb, \A u \in SUBSET s : u # s => u \in Good
      PROVE  s \in Good
  <2>1. s \in SUBSET qb
    OBVIOUS
  <2>2. s # {} => sum[s \ {First(s)}] = other[s \ {First(s)}]
    BY <1>1, FirstIn
  <2> QED
    BY <2>1, <2>2, SumOf
<1> HIDE DEF Good
<1>2. pb \in Good
  BY <1>1, SubsetsInduct
<1> QED
  BY <1>2 DEF Good

\* A set all smaller ones of which have their sums has one.
LEMMA SumExtends ==
  ASSUME NEW pb, IsFiniteSet(pb),
         \A s \in SUBSET pb : s # pb => \E sum : IsSum(s, sum)
  PROVE  \E sum : IsSum(pb, sum)
<1> DEFINE Sum(s) == IF s = {} THEN 0 ELSE Weight(First(s)) + Outcomes(s \ {First(s)})
           sum == [s \in SUBSET pb |-> Sum(s)]
<1>1. ASSUME NEW s \in SUBSET pb, s # {}
      PROVE  sum[s \ {First(s)}] = Outcomes(s \ {First(s)})
  <2>1. PICK u : u = s \ {First(s)}
    OBVIOUS
  <2>2. u \in SUBSET pb /\ u # pb /\ IsFiniteSet(u)
    BY <1>1, <2>1, FirstIn, FS_Subset
  <2>3. PICK f : f = CHOOSE fold : IsSum(u, fold)
    OBVIOUS
  <2>4. IsSum(u, f) /\ Outcomes(u) = f[u]
    BY <2>2, <2>3, OutcomesFolds
  <2>5. CASE u = {}
    BY <2>1, <2>4, <2>5, SumOf
  <2>6. CASE u # {}
    <3>1. PICK v : v = u \ {First(u)}
      OBVIOUS
    <3>2. v \in SUBSET pb /\ v # pb /\ IsFiniteSet(v) /\ v \subseteq u
      BY <2>2, <2>6, <3>1, FirstIn, FS_Subset
    <3>3. PICK h : h = CHOOSE fold : IsSum(v, fold)
      OBVIOUS
    <3>4. IsSum(v, h) /\ Outcomes(v) = h[v]
      BY <3>2, <3>3, OutcomesFolds
    <3>5. h[v] = f[v]
      BY <2>4, <3>2, <3>4, SumsAgree
    <3>6. f[u] = Weight(First(u)) + f[v]
      BY <2>4, <2>6, <3>1, SumOf
    <3> QED
      BY <2>1, <2>2, <2>4, <2>6, <3>1, <3>4, <3>5, <3>6
  <2> QED
    BY <2>5, <2>6
<1>2. \A s \in SUBSET pb : sum[s] = IF s = {} THEN 0 ELSE Weight(First(s)) + sum[s \ {First(s)}]
  BY <1>1
<1>3. sum = [s \in SUBSET pb |-> IF s = {} THEN 0 ELSE Weight(First(s)) + sum[s \ {First(s)}]]
  BY <1>2
<1> QED
  BY <1>3 DEF IsSum

LEMMA SumExists ==
  ASSUME NEW pb, IsFiniteSet(pb)
  PROVE  \E sum : IsSum(pb, sum)
<1> DEFINE Good == {s \in SUBSET pb : \E sum : IsSum(s, sum)}
<1>1. ASSUME NEW s \in SUBSET pb, \A u \in SUBSET s : u # s => u \in Good
      PROVE  s \in Good
  BY <1>1, SumExtends, FS_Subset
<1> HIDE DEF Good
<1>2. pb \in Good
  BY <1>1, SubsetsInduct
<1> QED
  BY <1>2 DEF Good

\* The sum, one bullet at a time.
LEMMA OutcomesUnfold ==
  ASSUME NEW pb, IsFiniteSet(pb)
  PROVE  Outcomes(pb) = IF pb = {} THEN 0 ELSE Weight(First(pb)) + Outcomes(pb \ {First(pb)})
<1>1. PICK f : f = CHOOSE fold : IsSum(pb, fold)
  OBVIOUS
<1>2. IsSum(pb, f) /\ Outcomes(pb) = f[pb]
  BY <1>1, SumExists, OutcomesFolds
<1>3. PICK v : v = pb \ {First(pb)}
  OBVIOUS
<1>4. IsFiniteSet(v) /\ v \subseteq pb
  BY <1>3, FS_Subset
<1>5. PICK h : h = CHOOSE fold : IsSum(v, fold)
  OBVIOUS
<1>6. IsSum(v, h) /\ Outcomes(v) = h[v]
  BY <1>4, <1>5, SumExists, OutcomesFolds
<1>7. h[v] = f[v]
  BY <1>2, <1>4, <1>6, SumsAgree
<1> QED
  BY <1>2, <1>3, <1>6, <1>7, SumOf

\* It is a number.
LEMMA OutcomesNat ==
  ASSUME NEW pb \in Playbook, IsFiniteSet(pb)
  PROVE  Outcomes(pb) \in Nat
<1> DEFINE Good == {s \in SUBSET pb : Outcomes(s) \in Nat}
<1>1. ASSUME NEW s \in SUBSET pb, \A u \in SUBSET s : u # s => u \in Good
      PROVE  s \in Good
  <2>1. Outcomes(s) = IF s = {} THEN 0 ELSE Weight(First(s)) + Outcomes(s \ {First(s)})
    BY OutcomesUnfold, FS_Subset
  <2>2. s # {} => Outcomes(s \ {First(s)}) \in Nat /\ First(s) \in Bullet
    BY <1>1, FirstIn DEF Playbook
  <2>3. s # {} => Weight(First(s)) \in Nat
    BY <2>2 DEF Weight, Bullet
  <2> QED
    BY <2>1, <2>2, <2>3
<1> HIDE DEF Good
<1>2. pb \in Good
  BY <1>1, SubsetsInduct
<1> QED
  BY <1>2 DEF Good

\* Whichever bullet is taken out first, the sum is the same.
LEMMA OutcomesRemove ==
  ASSUME NEW pb \in Playbook, IsFiniteSet(pb), NEW b \in pb
  PROVE  Outcomes(pb) = Weight(b) + Outcomes(pb \ {b})
<1> DEFINE Good == {s \in SUBSET pb : \A x \in s : Outcomes(s) = Weight(x) + Outcomes(s \ {x})}
<1>1. ASSUME NEW s \in SUBSET pb, \A u \in SUBSET s : u # s => u \in Good, NEW x \in s
      PROVE  Outcomes(s) = Weight(x) + Outcomes(s \ {x})
  <2>1. PICK c : c = First(s)
    OBVIOUS
  <2>2. c \in s /\ Outcomes(s) = Weight(c) + Outcomes(s \ {c})
    BY <2>1, FirstIn, OutcomesUnfold, FS_Subset
  <2>3. CASE x = c
    BY <2>2, <2>3
  <2>4. CASE x # c
    <3>1. Outcomes(s \ {c}) = Weight(x) + Outcomes((s \ {c}) \ {x})
      BY <1>1, <2>2, <2>4
    <3>2. Outcomes(s \ {x}) = Weight(c) + Outcomes((s \ {x}) \ {c})
      BY <1>1, <2>2, <2>4
    <3>3. PICK n : n = Outcomes((s \ {x}) \ {c})
      OBVIOUS
    <3>4. Outcomes((s \ {c}) \ {x}) = n
      <4>1. (s \ {c}) \ {x} = (s \ {x}) \ {c}
        OBVIOUS
      <4> QED
        BY <3>3, <4>1
    <3>5. n \in Nat /\ Weight(x) \in Nat /\ Weight(c) \in Nat
      <4>1. (s \ {x}) \ {c} \in Playbook /\ IsFiniteSet((s \ {x}) \ {c})
        BY FS_Subset DEF Playbook
      <4>2. x \in Bullet /\ c \in Bullet
        BY <2>2 DEF Playbook
      <4> QED
        BY <3>3, <4>1, <4>2, OutcomesNat DEF Weight, Bullet
    <3>6. PICK m, k : m = Weight(x) /\ k = Weight(c)
      OBVIOUS
    <3>7. Outcomes(s) = k + (m + n) /\ Outcomes(s \ {x}) = k + n
      BY <2>2, <3>1, <3>2, <3>3, <3>4, <3>6
    <3>8. k + (m + n) = m + (k + n)
      BY <3>5, <3>6
    <3> QED
      BY <3>6, <3>7, <3>8
  <2> QED
    BY <2>3, <2>4
<1>2. \A s \in SUBSET pb : (\A u \in SUBSET s : u # s => u \in Good) => s \in Good
  BY <1>1
<1> HIDE DEF Good
<1>3. pb \in Good
  BY <1>2, SubsetsInduct
<1> QED
  BY <1>3 DEF Good

\* A bullet that takes the place of another one, or of none.
LEMMA OutcomesReplace ==
  ASSUME NEW pb \in Playbook, IsFiniteSet(pb), NEW b \in Bullet, b \notin pb,
         NEW qb, qb = pb \cup {b}
  PROVE  Outcomes(qb) = Outcomes(pb) + Weight(b)
<1>1. qb \in Playbook /\ IsFiniteSet(qb) /\ b \in qb
  BY FS_AddElement DEF Playbook
<1>2. Outcomes(qb) = Weight(b) + Outcomes(qb \ {b})
  BY <1>1, OutcomesRemove
<1>3. PICK rest : rest = qb \ {b}
  OBVIOUS
<1>4. rest = pb
  BY <1>3
<1>5. Outcomes(pb) \in Nat /\ Weight(b) \in Nat
  BY OutcomesNat DEF Weight, Bullet
<1>6. Outcomes(qb) = Weight(b) + Outcomes(pb)
  BY <1>2, <1>3, <1>4
<1> QED
  BY <1>5, <1>6

\* A call that writes adds one outcome, in the bullet it counts up or in a new
\* one that the playbook did not have (curate-playbook.ts:116-148).
LEMMA WriteCountsOne ==
  ASSUME ImproveInv, NEW p \in Proc, WritePlaybook(p)
  PROVE  Outcomes(playbook') = Outcomes(read[p]) + 1
<1>1. read[p] \in Playbook /\ IsFiniteSet(read[p]) /\ Distinct(read[p])
  BY DEF ImproveInv, Fit
<1>2. /\ lesson[p] \in Text /\ passed[p] \in BOOLEAN /\ section[p] \in Section
  BY ImproveAssumption DEF ImproveInv, ImproveTypeOK, CallInv, WritePlaybook
<1>3. ASSUME NEW b \in Bullet
      PROVE  /\ Weight(Counted(b, passed[p])) = Weight(b) + 1
             /\ Counted(b, passed[p]) # b
  <2>1. b.helpful \in Nat /\ b.harmful \in Nat
    BY DEF Bullet
  <2>2. \/ /\ Counted(b, passed[p]).helpful = b.helpful + 1
           /\ Counted(b, passed[p]).harmful = b.harmful
        \/ /\ Counted(b, passed[p]).helpful = b.helpful
           /\ Counted(b, passed[p]).harmful = b.harmful + 1
    BY DEF Counted, Bullet
  <2> QED
    BY <2>1, <2>2 DEF Weight
<1>4. ASSUME NEW b \in Matching(p), playbook' = (read[p] \ {b}) \cup {Counted(b, passed[p])}
      PROVE  Outcomes(playbook') = Outcomes(read[p]) + 1
  <2>1. b \in read[p] /\ b \in Bullet
    BY <1>1 DEF Matching, Playbook
  <2>2. PICK d : d = Counted(b, passed[p])
    OBVIOUS
  <2>3. d \in Bullet /\ d.section = b.section /\ d.n = b.n
    BY <1>2, <2>1, <2>2, CountedFacts
  <2>4. d \notin read[p] /\ Weight(d) = Weight(b) + 1
    BY <1>1, <1>3, <2>1, <2>2, <2>3 DEF Distinct
  <2>5. PICK rest : rest = read[p] \ {b}
    OBVIOUS
  <2>6. rest \in Playbook /\ IsFiniteSet(rest) /\ d \notin rest /\ playbook' = rest \cup {d}
    BY <1>1, <1>4, <2>2, <2>4, <2>5, FS_Subset DEF Playbook
  <2>7. Outcomes(playbook') = Outcomes(rest) + Weight(d)
    BY <2>3, <2>6, OutcomesReplace
  <2>8. Outcomes(read[p]) = Weight(b) + Outcomes(rest)
    BY <1>1, <2>1, <2>5, OutcomesRemove
  <2>9. Weight(b) \in Nat /\ Outcomes(rest) \in Nat
    BY <2>1, <2>6, OutcomesNat DEF Weight, Bullet
  <2> QED
    BY <2>4, <2>7, <2>8, <2>9
<1>5. ASSUME Matching(p) = {}, NEW new,
             new = [section |-> section[p], n |-> NextId(p), text |-> lesson[p],
                    helpful |-> 0, harmful |-> 0],
             playbook' = read[p] \cup {Counted(new, passed[p])}
      PROVE  Outcomes(playbook') = Outcomes(read[p]) + 1
  <2>1. NextId(p) \in Nat
    BY <1>1, NextIdFresh
  <2>2. new \in Bullet /\ Weight(new) = 0
    BY <1>2, <1>5, <2>1 DEF Bullet, Weight
  <2>3. PICK d : d = Counted(new, passed[p])
    OBVIOUS
  <2>4. d \in Bullet /\ d.text = lesson[p] /\ Weight(d) = 1
    BY <1>2, <1>3, <1>5, <2>2, <2>3, CountedFacts
  <2>5. d \notin read[p]
    BY <1>5, <2>4 DEF Matching
  <2> QED
    BY <1>1, <1>5, <2>3, <2>4, <2>5, OutcomesReplace
<1>6. CASE \E b \in Matching(p) : playbook' = (read[p] \ {b}) \cup {Counted(b, passed[p])}
  BY <1>4, <1>6
<1>7. CASE /\ Matching(p) = {}
           /\ LET new == [section |-> section[p], n |-> NextId(p), text |-> lesson[p],
                          helpful |-> 0, harmful |-> 0]
              IN playbook' = read[p] \cup {Counted(new, passed[p])}
  BY <1>5, <1>7
<1> QED
  BY <1>6, <1>7 DEF WritePlaybook

\* Unless a call wrote over a change it had not read, the counts of the playbook
\* add up to the calls that wrote it: no outcome is lost or counted twice,
\* whichever calls were killed, refused or only edited the graph
\* (curate-playbook.ts:98-150).
THEOREM OutcomesAllCounted == Spec => NothingLost
<1> DEFINE Kept == ~clash' => Outcomes(playbook') - Outcomes(playbook) = curated' - curated
<1>1. ASSUME ImproveInv, UNCHANGED <<playbook, curated>> PROVE Kept
  <2>1. Outcomes(playbook) \in Nat /\ curated \in Nat
    BY <1>1, OutcomesNat DEF ImproveInv, Fit, ImproveTypeOK
  <2>2. Outcomes(playbook) - Outcomes(playbook) = 0 /\ curated - curated = 0
    BY <2>1
  <2> QED
    BY <1>1, <2>2
<1>2. ASSUME ImproveInv, NEW p \in Proc, WritePlaybook(p) PROVE Kept
  <2>1. Outcomes(playbook) \in Nat /\ curated \in Nat
    BY <1>2, OutcomesNat DEF ImproveInv, Fit, ImproveTypeOK
  <2>2. curated' = curated + 1 /\ (~clash' => playbook = read[p])
    BY <1>2 DEF WritePlaybook
  <2>3. Outcomes(playbook') = Outcomes(read[p]) + 1
    BY <1>2, WriteCountsOne
  <2> QED
    BY <2>1, <2>2, <2>3
<1>3. ImproveInv /\ [Next]_vars => [Kept]_vars
  <2> SUFFICES ASSUME ImproveInv, Next PROVE Kept
    OBVIOUS
  <2>1. ASSUME NEW p \in Proc, NEW l \in Lesson \cup {None}, NEW ok \in BOOLEAN,
               (\E ab \in Trajectory \cup {None} : CallImprove(p, l, ok, ab)) \/ CallCurate(p, l, ok)
        PROVE  UNCHANGED <<playbook, curated>>
    BY <2>1 DEF CallImprove, CallCurate, Begin
  <2>2. ASSUME NEW p \in Proc,
               ReadGraph(p) \/ WriteGraph(p) \/ CurateThrows(p) \/ ReadPlaybook(p) \/ Kill(p)
        PROVE  UNCHANGED <<playbook, curated>>
    BY <2>2 DEF ReadGraph, WriteGraph, CurateThrows, ReadPlaybook, Kill
  <2> HIDE DEF Kept
  <2> QED
    BY <1>1, <1>2, <2>1, <2>2 DEF Next
<1> QED
  BY <1>3, ImproveInvariant, PTL DEF Spec, NothingLost
=============================================================================
