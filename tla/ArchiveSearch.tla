---------------------------- MODULE ArchiveSearch ----------------------------
(***************************************************************************)
(* The search over snapshots of the overlay: runSearch and improveLong      *)
(* (harness/omp/drivers/search.ts, improve-long.ts) on the archive          *)
(* (archive.ts), with the decision and the staging of self-harness.ts and   *)
(* the score of playbook-solver.ts.                                         *)
(*                                                                         *)
(* A playbook is the set of recipe families its text names: nothing else of *)
(* it is scored.  The proposer is any function of its type; the search      *)
(* passes one in tests and proposeNextRecipe otherwise.  Reject logs are    *)
(* left out: nothing reads them.  One process searches at a time and may be *)
(* killed between two writes; searches follow one another on the same       *)
(* archive.                                                                 *)
(***************************************************************************)

EXTENDS Integers, FiniteSets

CONSTANTS
  Family,            \* the families of RECIPE_FAMILY_TO_FIXTURES
  HeldIn, HeldOut,   \* fixtures
  FamilyOf,          \* the family that unlocks each
  File, Playbook,    \* paths under staging, and the staged playbook's
  Absent,            \* no file, no directory
  None,              \* no meta.json, no parent
  Cap,               \* steps of the longest search, at most MAX_STEP_CAP = 8
  MinParents,        \* improveLong's
  MaxSearches        \* bound of the model: searches on one archive

Books == SUBSET Family
Seed == 0
Node == Seed..Cap     \* "seed" and "step-1", "step-2", ...
Meta == [parent : Node \cup {None}, fitness : 0..Cardinality(HeldOut), hash : Books]
Row == [id : Node, hash : Books, heldOut : 0..Cardinality(HeldOut)]

ASSUME SearchAssumption ==
  /\ IsFiniteSet(HeldOut)
  /\ FamilyOf \in [HeldIn \cup HeldOut -> Family]
  /\ Playbook \in File
  /\ Cap \in 1..8 /\ MinParents \in Nat /\ MaxSearches \in Nat
  /\ Absent \notin Books /\ None \notin Meta /\ None \notin Node

VARIABLES
  disk,      \* disk[f]: the staged file f
  overlay,   \* the playbook of overlay/.omp
  book,      \* book[n]: the playbook in archive/<n>/files
  meta,      \* meta[n]: archive/<n>/meta.json
  filed,     \* the ids of staging/manifests
  queue,     \* the rows of REVIEW_QUEUE.md
  at,        \* the next operation of the search
  step, cap, \* the step it is in, of how many
  parent,    \* the node it has sampled
  before,    \* the playbook of that node, as it loaded it
  after,     \* the playbook proposed for it
  killed,    \* history: a search has been killed
  searches   \* how many have begun

search == <<at, step, cap, parent, before, after>>
vars == <<disk, overlay, book, meta, filed, queue, search, killed, searches>>

SearchTypeOK ==
  /\ disk \in [File -> Books \cup {Absent}]
  /\ overlay \in Books
  /\ book \in [Node -> Books \cup {Absent}]
  /\ meta \in [Node -> Meta \cup {None}]
  /\ filed \subseteq Node
  /\ queue \subseteq Row
  /\ at \in {"idle", "files", "meta", "sample", "stage", "file", "review"}
  /\ step \in 0..Cap + 1 /\ cap \in 0..Cap
  /\ parent \in Node \cup {None}
  /\ before \in Books /\ after \in Books
  /\ killed \in BOOLEAN
  /\ searches \in 0..MaxSearches

\* Another driver may have staged a playbook before the first search.
Init ==
  /\ disk \in [File -> Books \cup {Absent}]
  /\ overlay \in Books
  /\ book = [n \in Node |-> Absent]
  /\ meta = [n \in Node |-> None]
  /\ filed = {} /\ queue = {}
  /\ at = "idle" /\ step = 0 /\ cap = 0
  /\ parent = None /\ before = {} /\ after = {}
  /\ killed = FALSE
  /\ searches = 0

-----------------------------------------------------------------------------
(* Scores and samples *)

\* scorePlaybook: the fixtures whose family is unlocked.
Passed(fixtures, b) == {x \in fixtures : FamilyOf[x] \in b}
Fitness(b) == Cardinality(Passed(HeldOut, b))

\* decideAccept: no fixture that passed fails, and more pass in either split.
\* The mutated forms compare the totals only, and one split only.
MoreInTotal(b, a) ==
  LET More(fixtures) == Cardinality(Passed(fixtures, b)) =< Cardinality(Passed(fixtures, a)) IN
  /\ More(HeldIn) /\ More(HeldOut) /\ Passed(HeldIn \cup HeldOut, a) # Passed(HeldIn \cup HeldOut, b)
Accepts(b, a) ==
  /\ Passed(HeldIn, b) \subseteq Passed(HeldIn, a)
  /\ Passed(HeldOut, b) \subseteq Passed(HeldOut, a)
  /\ \/ Passed(HeldIn, b) # Passed(HeldIn, a)
     \/ Passed(HeldOut, b) # Passed(HeldOut, a)

\* listArchive: the directories with a meta.json.
Archived == {n \in Node : meta[n] # None}
Children(n) == {m \in Archived : meta[m].parent = n}

\* sampleParent: the greatest fitness / (1 + children), the first of several;
\* the order of the directory is not specified.  If no fitness is positive, the
\* first node.  The mutated form takes any directory.
Directory == {n \in Node : book[n] # Absent}
Sampled ==
  {n \in Archived : \A m \in Archived :
     meta[n].fitness * (1 + Cardinality(Children(m)))
       >= meta[m].fitness * (1 + Cardinality(Children(n)))}

-----------------------------------------------------------------------------
(* Searches *)

\* ensureSeedArchive: the first search archives the overlay, under the score
\* of its playbook.
Begin(c) ==
  /\ at = "idle"
  /\ searches < MaxSearches
  /\ searches' = searches + 1
  /\ cap' = c
  /\ IF Archived = {}
     THEN at' = "files" /\ step' = Seed /\ after' = overlay
     ELSE at' = "sample" /\ step' = 1 /\ after' = {}
  /\ parent' = None /\ before' = {}
  /\ UNCHANGED <<disk, overlay, book, meta, filed, queue, killed>>

RunSearch == \E c \in 1..Cap : Begin(c)

\* improveLong: one step, if there are enough directories.
ImproveLong ==
  /\ Cardinality(Directory) >= MinParents
  /\ Begin(1)

\* The mutated form takes one step too many.
OneMore == step <= cap + 1
InBudget == step <= cap

\* The search ends, by return or throw; what it knew is gone.
End ==
  /\ at' = "idle" /\ step' = 0 /\ cap' = 0
  /\ parent' = None /\ before' = {} /\ after' = {}

Finish ==
  /\ at = "sample" /\ ~InBudget
  /\ End
  /\ UNCHANGED <<disk, overlay, book, meta, filed, queue, killed, searches>>

\* A parent is sampled and loaded, a playbook proposed and scored.
Accept(n, b) ==
  /\ at = "sample" /\ InBudget
  /\ n \in Sampled
  /\ Accepts(book[n], b)
  /\ at' = "stage" /\ parent' = n /\ before' = book[n] /\ after' = b
  /\ UNCHANGED <<disk, overlay, book, meta, filed, queue, step, cap, killed, searches>>

Reject(n, b) ==
  /\ at = "sample" /\ InBudget
  /\ n \in Sampled
  /\ ~Accepts(book[n], b)
  /\ step' = step + 1
  /\ UNCHANGED <<disk, overlay, book, meta, filed, queue, at, cap, parent, before, after,
                 killed, searches>>

\* The proposer throws, or names a kernel path.
Refuse ==
  /\ at = "sample" /\ InBudget
  /\ End
  /\ UNCHANGED <<disk, overlay, book, meta, filed, queue, killed, searches>>

\* The mutated form stages nothing.
StageNothing ==
  /\ at = "stage"
  /\ at' = "file"
  /\ UNCHANGED <<disk, overlay, book, meta, filed, queue, step, cap, parent, before, after,
                 killed, searches>>
Stage ==
  /\ at = "stage"
  /\ disk' = [disk EXCEPT ![Playbook] = after]
  /\ at' = "file"
  /\ UNCHANGED <<overlay, book, meta, filed, queue, step, cap, parent, before, after, killed,
                 searches>>

\* Another file of the proposal is refused, or its plugin does not validate
\* (DurableApply): some files, or all, are staged already.
StageThrows ==
  /\ at = "stage"
  /\ disk' \in {disk, [disk EXCEPT ![Playbook] = after]}
  /\ End
  /\ UNCHANGED <<overlay, book, meta, filed, queue, killed, searches>>

\* writeStagingManifest
FileManifest ==
  /\ at = "file"
  /\ filed' = filed \cup {step}
  /\ at' = "review"
  /\ UNCHANGED <<disk, overlay, book, meta, queue, step, cap, parent, before, after, killed,
                 searches>>

\* appendReviewRow.  The mutated form goes on without a row.
SkipReview ==
  /\ at = "review"
  /\ at' = "files"
  /\ UNCHANGED <<disk, overlay, book, meta, filed, queue, step, cap, parent, before, after,
                 killed, searches>>
AppendReviewRow ==
  /\ at = "review"
  /\ queue' = queue \cup {[id |-> step, hash |-> before, heldOut |-> Fitness(after)]}
  /\ at' = "files"
  /\ UNCHANGED <<disk, overlay, book, meta, filed, step, cap, parent, before, after, killed,
                 searches>>

\* snapshotOverlay copies the overlay and the staged files, over those of an
\* earlier snapshot of that id; a staged playbook is the one that is loaded.
SnapshotFiles ==
  /\ at = "files"
  /\ book' = [book EXCEPT ![step] = IF disk[Playbook] = Absent THEN overlay ELSE disk[Playbook]]
  /\ at' = "meta"
  /\ UNCHANGED <<disk, overlay, meta, filed, queue, step, cap, parent, before, after, killed,
                 searches>>

\* ... and then writes meta.json, with the hash of each file it copied.  The
\* mutated forms keep the parent's score, and take the same step again.
ScoreOfParent == Fitness(before)
ScoreOfChild == Fitness(after)
StepAgain == step
NextStep == step + 1
SnapshotMeta ==
  /\ at = "meta"
  /\ meta' = [meta EXCEPT ![step] =
       [parent |-> parent, fitness |-> ScoreOfChild, hash |-> book[step]]]
  /\ at' = "sample" /\ step' = NextStep
  /\ parent' = None /\ before' = {} /\ after' = {}
  /\ UNCHANGED <<disk, overlay, book, filed, queue, cap, killed, searches>>

Kill ==
  /\ at # "idle"
  /\ killed' = TRUE
  /\ End
  /\ UNCHANGED <<disk, overlay, book, meta, filed, queue, searches>>

\* The steps of a search that has begun.
Continue ==
  \/ \E n \in Node, b \in Books : Accept(n, b) \/ Reject(n, b)
  \/ Refuse \/ Finish
  \/ Stage \/ StageThrows \/ FileManifest \/ AppendReviewRow
  \/ SnapshotFiles \/ SnapshotMeta

Next == RunSearch \/ ImproveLong \/ Continue \/ Kill

Spec == Init /\ [][Next]_vars

\* A search is one synchronous call: it goes on until it returns, throws or is
\* killed.
FairSpec == Spec /\ WF_vars(Continue)

-----------------------------------------------------------------------------
(* Properties *)

\* "Accepts land in staging + archive + REVIEW_QUEUE"
\* (evals/benchmarks/local-20/summary.md:25): whatever was killed, and however
\* often an id was used again, every archived step is in the queue, under the
\* score the archive has for it (search.ts:182-188).
Reviewed ==
  \A n \in Archived \ {Seed} :
    \E row \in queue : row.id = n /\ row.heldOut = meta[n].fitness

\* The score that makes a step a parent is that of the playbook its meta.json
\* has the hash of; and unless a search was killed, that is the playbook a
\* later search loads from it (archive.ts:69-76 and 90-130, search.ts:112-134).
\* A snapshot killed before meta.json leaves new files under an old score.
FitnessOfBook ==
  \A n \in Archived \ {Seed} :
    /\ meta[n].fitness = Fitness(meta[n].hash)
    /\ ~killed /\ ~(at = "meta" /\ step = n) => book[n] = meta[n].hash

\* What a step archives passes every fixture its parent's playbook passed, in
\* both splits, and one more (self-harness.ts:14-30): whoever proposed it, and
\* whatever was staged, archived and killed before.
NoRegression ==
  [][SnapshotMeta /\ step # Seed =>
       LET Passes(b) == Passed(HeldIn \cup HeldOut, b) IN
       Passes(before) \subseteq Passes(book[step]) /\ Passes(before) # Passes(book[step])]_vars

\* Every step in the archive was proposed for a node that is in it, and the
\* overlay it all began with is (search.ts:55-66 and 111, archive.ts:52-67).
ParentsArchived ==
  \A n \in Archived \ {Seed} : {Seed, meta[n].parent} \subseteq Archived

\* "A bounded archive-driven search" (docs/plans/p2-omp-overlay.md:37): whatever
\* is proposed, and whichever nodes are sampled, a search comes to an end
\* (search.ts:110-196).
SearchEnds == at # "idle" ~> at = "idle"
=============================================================================
