----------------------------- MODULE ImproveShort -----------------------------
(***************************************************************************)
(* What a session leaves behind: improveShort (harness/omp/drivers          *)
(* /improve-short.ts) edits the procedure graph after a failure and curates *)
(* the playbook (curate-playbook.ts), which the curator's command also does *)
(* by itself.                                                               *)
(*                                                                         *)
(* Each call runs in a process of its own: the hosts spawn one per call     *)
(* (core-client.js).  Both files are read, changed in memory and written as *)
(* a whole, with no lock: the calls of two hosts, and the command, may run  *)
(* between the read and the write of another, and any may be killed.  A     *)
(* lesson is a line of text, up to case and spaces.                         *)
(***************************************************************************)

EXTENDS Integers, FiniteSets, FiniteSetsExt, Localize

CONSTANTS
  Proc,        \* processes
  Lesson,      \* lessons, texts of the graph too
  Forbidden,   \* those that name SYSTEM.md
  Fallback,    \* the guidance of an edge learnt without a lesson
  Section,     \* the sections of the playbook
  Strategies,  \* the one improveShort names
  SectionOf,   \* the one classifySection finds for each lesson
  Trajectory,  \* the last two steps of a trajectory that has them
  Playbooks,   \* playbooks and graphs of a project, as its maintainers leave them
  Graphs,
  None,        \* no lesson, no steps
  MaxCalls     \* bound of the model: calls

Bullet == [section : Section, n : Nat, text : Text, helpful : Nat, harmful : Nat]
Playbook == SUBSET Bullet

\* No two bullets have one id, nor one text; none is what curatePlaybook refuses.
Distinct(pb) ==
  \A a, b \in pb : (a.section = b.section /\ a.n = b.n) \/ a.text = b.text => a = b
Allowed(pb) == \A b \in pb : b.text \notin Secretive \cup Forbidden

ASSUME ImproveAssumption ==
  /\ Lesson \subseteq Text /\ Fallback \in Text \ Secretive
  /\ Forbidden \subseteq Lesson
  /\ Strategies \in Section /\ SectionOf \in [Lesson -> Section]
  /\ Trajectory \subseteq Procedure \X Procedure
  /\ Playbooks \subseteq Playbook /\ Graphs \subseteq Graph
  /\ \A pb \in Playbooks : IsFiniteSet(pb) /\ Distinct(pb) /\ Allowed(pb)
  /\ \A g \in Graphs : IsFiniteSet(g.nodes)
  /\ None \notin Text /\ None \notin Trajectory
  /\ MaxCalls \in Nat

VARIABLES
  playbook, graph,   \* PLAYBOOK.md and PROCEDURE_GRAPH.json
  at,                \* at[p]: the next operation of p
  lesson, passed,    \* the outcome p was called with
  steps,             \* the last two procedures of its trajectory
  section,           \* where p puts a new bullet
  read, current,     \* the playbook and the graph p has read
  calls,             \* how many have begun
  curated,           \* history: how many playbooks have been written
  clash              \* history: one was written over a change its writer had not read

inputs == <<lesson, passed, steps, section>>
vars == <<playbook, graph, at, inputs, read, current, calls, curated, clash>>

ImproveTypeOK ==
  /\ playbook \in Playbook /\ graph \in Graph
  /\ at \in [Proc -> {"idle", "graph", "edit", "read", "write"}]
  /\ lesson \in [Proc -> Lesson \cup {None}]
  /\ passed \in [Proc -> BOOLEAN]
  /\ steps \in [Proc -> Trajectory \cup {None}]
  /\ section \in [Proc -> Section]
  /\ read \in [Proc -> Playbook]
  /\ current \in [Proc -> Graph]
  /\ calls \in 0..MaxCalls /\ curated \in Nat
  /\ clash \in BOOLEAN

Init ==
  /\ playbook \in Playbooks /\ graph \in Graphs
  /\ at = [p \in Proc |-> "idle"]
  /\ lesson = [p \in Proc |-> None] /\ passed = [p \in Proc |-> TRUE]
  /\ steps = [p \in Proc |-> None] /\ section = [p \in Proc |-> Strategies]
  /\ read = [p \in Proc |-> {}] /\ current = [p \in Proc |-> EmptyGraph]
  /\ calls = 0 /\ curated = 0
  /\ clash = FALSE

-----------------------------------------------------------------------------

Goto(p, next) == at' = [at EXCEPT ![p] = next]

\* The call ends and its process with it.
End(p) ==
  /\ Goto(p, "idle")
  /\ lesson' = [lesson EXCEPT ![p] = None] /\ passed' = [passed EXCEPT ![p] = TRUE]
  /\ steps' = [steps EXCEPT ![p] = None] /\ section' = [section EXCEPT ![p] = Strategies]
  /\ read' = [read EXCEPT ![p] = {}] /\ current' = [current EXCEPT ![p] = EmptyGraph]

Begin(p, l, ok, ab, sec, next) ==
  /\ at[p] = "idle"
  /\ calls < MaxCalls
  /\ calls' = calls + 1
  /\ Goto(p, next)
  /\ lesson' = [lesson EXCEPT ![p] = l] /\ passed' = [passed EXCEPT ![p] = ok]
  /\ steps' = [steps EXCEPT ![p] = ab] /\ section' = [section EXCEPT ![p] = sec]
  /\ UNCHANGED <<playbook, graph, read, current, curated, clash>>

\* A trajectory of fewer than two steps, or one that passed, leaves the graph
\* alone; without a lesson too, there is nothing to do.
CallImprove(p, l, ok, ab) ==
  \/ ~ok /\ ab # None /\ Begin(p, l, ok, ab, Strategies, "graph")
  \/ (ok \/ ab = None) /\ l # None /\ Begin(p, l, ok, ab, Strategies, "read")

CallCurate(p, l, ok) == l # None /\ Begin(p, l, ok, None, SectionOf[l], "read")

-----------------------------------------------------------------------------
(* maybeEditGraph *)

ReadGraph(p) ==
  /\ at[p] = "graph"
  /\ current' = [current EXCEPT ![p] = ParseGraph(graph)]
  /\ Goto(p, "edit")
  /\ UNCHANGED <<playbook, graph, inputs, read, calls, curated, clash>>

\* Both procedures, and the edge between them with the lesson for its texts.
\* If that edge is rejected nothing is written.  The mutated form has no
\* guidance without a lesson.
LessonOf(p) == lesson[p]
Guidance(p) == IF lesson[p] = None THEN Fallback ELSE lesson[p]
Learnt(p) == [from |-> steps[p][1], to |-> steps[p][2], text |-> Guidance(p)]
WithSteps(p) == AddNode(AddNode(current[p], steps[p][1]), steps[p][2])

WriteGraph(p) ==
  /\ at[p] = "edit"
  /\ graph' = IF ValidEdge(Learnt(p), WithSteps(p).nodes)
               THEN UpdateEdge(WithSteps(p), Learnt(p)) ELSE graph
  /\ IF lesson[p] = None
     THEN End(p)
     ELSE /\ Goto(p, "read")
          /\ current' = [current EXCEPT ![p] = EmptyGraph]
          /\ UNCHANGED <<inputs, read>>
  /\ UNCHANGED <<playbook, calls, curated, clash>>

-----------------------------------------------------------------------------
(* curatePlaybook *)

\* The mutated form looks for secrets only.
RefusesSecrets(l) == l \in Secretive
Refuses(l) == l \in Secretive \cup Forbidden

CurateThrows(p) ==
  /\ at[p] = "read"
  /\ Refuses(lesson[p])
  /\ End(p)
  /\ UNCHANGED <<playbook, graph, calls, curated, clash>>

ReadPlaybook(p) ==
  /\ at[p] = "read"
  /\ ~Refuses(lesson[p])
  /\ read' = [read EXCEPT ![p] = playbook]
  /\ Goto(p, "write")
  /\ UNCHANGED <<playbook, graph, inputs, current, calls, curated, clash>>

\* The bullets a lesson counts for, in whatever section.
Matching(p) == {b \in read[p] : b.text = lesson[p]}

\* The mutated forms start a count again, and do not count a failure.
Restarted(b, ok) == IF ok THEN [b EXCEPT !.helpful = @ + 1, !.harmful = 0] ELSE [b EXCEPT !.harmful = @ + 1]
Forgiving(b, ok) == IF ok THEN [b EXCEPT !.helpful = @ + 1] ELSE b
Counted(b, ok) == IF ok THEN [b EXCEPT !.helpful = @ + 1] ELSE [b EXCEPT !.harmful = @ + 1]

\* nextId.  The mutated form counts the bullets, as appendRecipe (propose.ts)
\* does.
Numbers(p) == {b.n : b \in {c \in read[p] : c.section = section[p]}}
CountedId(p) == Cardinality(Numbers(p)) + 1
NextId(p) == Max(Numbers(p) \cup {0}) + 1

\* A bullet of that text is counted up, or a new one appended.
WritePlaybook(p) ==
  /\ at[p] = "write"
  /\ \/ \E b \in Matching(p) : playbook' = (read[p] \ {b}) \cup {Counted(b, passed[p])}
     \/ /\ Matching(p) = {}
        /\ LET new == [section |-> section[p], n |-> NextId(p), text |-> lesson[p],
                       helpful |-> 0, harmful |-> 0]
           IN playbook' = read[p] \cup {Counted(new, passed[p])}
  /\ curated' = curated + 1
  /\ clash' = (clash \/ playbook # read[p])
  /\ End(p)
  /\ UNCHANGED <<graph, calls>>

-----------------------------------------------------------------------------

Kill(p) ==
  /\ at[p] # "idle"
  /\ End(p)
  /\ UNCHANGED <<playbook, graph, calls, curated, clash>>

Next == \E p \in Proc :
  \/ \E l \in Lesson \cup {None}, ok \in BOOLEAN :
       \/ \E ab \in Trajectory \cup {None} : CallImprove(p, l, ok, ab)
       \/ CallCurate(p, l, ok)
  \/ ReadGraph(p) \/ WriteGraph(p)
  \/ CurateThrows(p) \/ ReadPlaybook(p) \/ WritePlaybook(p)
  \/ Kill(p)

Spec == Init /\ [][Next]_vars

-----------------------------------------------------------------------------
(* Properties *)

\* No two bullets have one id, and none repeats another's text, whichever calls
\* overlap: a lesson has one bullet, whatever section it was put in
\* (curate-playbook.ts:79-86 and 120-132).
BulletsDistinct == Distinct(playbook)

\* "Keep stable ids (s-NNN, f-NNN, c-NNN)" and "append a new bullet or
\* increment" (overlay/.omp/playbook/curator.md:8-9): unless a call wrote over a
\* change it had not read, an id keeps its text, and its counts never fall.  Two
\* calls that overlap give one id to two lessons, and one lesson is lost
\* (curate-playbook.ts:116-148).
StableIds ==
  [][~clash' => \A b \in playbook : \E c \in playbook' :
       /\ c.section = b.section /\ c.n = b.n /\ c.text = b.text
       /\ c.helpful >= b.helpful /\ c.harmful >= b.harmful]_vars

\* Unless calls overlapped, the playbook counts every call that wrote it once,
\* and no other: whichever were killed or refused (curate-playbook.ts:98-150).
Outcomes(pb) == MapThenSumSet(LAMBDA b : b.helpful + b.harmful, pb)
NothingLost ==
  [][~clash' => Outcomes(playbook') - Outcomes(playbook) = curated' - curated]_vars

\* "Reject any candidate text that looks like a secret" and "any delta that
\* mentions editing SYSTEM.md" (curator.md:11-12): no bullet is one, even if the
\* call that was refused had edited the graph before (improve-short.ts:43-63).
RefusedKeptOut == Allowed(playbook)

\* Whatever a maintainer left in the graph, and whichever calls overlap, a graph
\* that is written has both ends of every edge, and no secret
\* (procedure-graph.js:36-46 and 108-150, improve-short.ts:66-97).
GraphsSound == [][graph' # graph => Sound(graph')]_vars

\* What localize shows of a graph is what is at most so many edges away, and
\* never the rest of it (procedure-graph.js:56-89), for every graph that
\* calls leave behind and every procedure, known or not.
LocalizeExact ==
  \A a \in Procedure, hops \in 0..2 :
    LET g == ParseGraph(graph) IN
    Active(g, a) \in g.nodes =>
      Shows(LocalizeAt(g, a, hops), Neighbourhood(g, Active(g, a), hops))
=============================================================================
