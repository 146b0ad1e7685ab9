------------------------ MODULE ArchiveSearch_proofs ------------------------
(***************************************************************************)
(* Theorems about ArchiveSearch: whatever is proposed, refused or killed,   *)
(* what the archive holds was reviewed, has a parent in the archive, passes *)
(* all its parent passes, and is scored as it is.                           *)
(***************************************************************************)

EXTENDS ArchiveSearch, FiniteSetTheorems, TLAPS

\* A score is the number of some of the held-out fixtures
\* (playbook-solver.ts:68-85).
LEMMA FitnessRange ==
  ASSUME NEW b \in Books
  PROVE  Fitness(b) \in 0..Cardinality(HeldOut)
<1>1. IsFiniteSet(HeldOut) /\ Passed(HeldOut, b) \subseteq HeldOut
  BY SearchAssumption DEF Passed
<1>2. /\ IsFiniteSet(Passed(HeldOut, b))
      /\ Cardinality(Passed(HeldOut, b)) <= Cardinality(HeldOut)
  BY <1>1, FS_Subset
<1>3. Cardinality(Passed(HeldOut, b)) \in Nat /\ Cardinality(HeldOut) \in Nat
  BY <1>1, <1>2, FS_CardinalityType
<1> QED
  BY <1>2, <1>3 DEF Fitness

\* What is accepted passes every fixture of both splits that passed, and one
\* more (self-harness.ts:14-30).
LEMMA AcceptedIsBetter ==
  ASSUME NEW b \in Books, NEW a \in Books, Accepts(b, a)
  PROVE  /\ Passed(HeldIn \cup HeldOut, b) \subseteq Passed(HeldIn \cup HeldOut, a)
         /\ Passed(HeldIn \cup HeldOut, b) # Passed(HeldIn \cup HeldOut, a)
<1>1. \A c \in Books : /\ Passed(HeldIn \cup HeldOut, c) = Passed(HeldIn, c) \cup Passed(HeldOut, c)
                       /\ Passed(HeldIn, c) = Passed(HeldIn \cup HeldOut, c) \cap HeldIn
                       /\ Passed(HeldOut, c) = Passed(HeldIn \cup HeldOut, c) \cap HeldOut
  BY DEF Passed
<1>2. Passed(HeldIn, b) \subseteq Passed(HeldIn, a) /\ Passed(HeldOut, b) \subseteq Passed(HeldOut, a)
  BY DEF Accepts
<1>3. Passed(HeldIn, b) # Passed(HeldIn, a) \/ Passed(HeldOut, b) # Passed(HeldOut, a)
  BY DEF Accepts
<1>4. Passed(HeldIn \cup HeldOut, b) # Passed(HeldIn \cup HeldOut, a)
  BY <1>1, <1>3
<1> QED
  BY <1>1, <1>2, <1>4

(***************************************************************************)
(* What holds between two writes.  An accepted step goes from the sample   *)
(* to the archive with the playbook it was accepted for staged, its row in *)
(* the queue and its parent archived; the overlay is archived before any   *)
(* step.                                                                   *)
(***************************************************************************)

Working == at \in {"stage", "file", "review", "files", "meta"}

Counting ==
  /\ at \in {"sample", "files", "meta"} => cap \in 1..Cap
  /\ at = "sample" => step \in 1..cap + 1
  /\ Working => step \in 0..cap
  /\ at \in {"stage", "file", "review"} => step # Seed

Rooted ==
  /\ at = "sample" => Seed \in Archived
  /\ Working /\ step # Seed => parent \in Archived /\ Seed \in Archived
  /\ Working /\ step = Seed => Archived = {}

Loadable ==
  /\ \A n \in Archived : book[n] # Absent
  /\ at = "meta" => book[step] # Absent

Improving ==
  Working /\ step # Seed =>
    /\ Accepts(before, after)
    /\ at \in {"file", "review", "files"} => disk[Playbook] = after
    /\ at = "meta" => book[step] = after
    /\ at \in {"files", "meta"} => \E row \in queue : row.id = step /\ row.heldOut = Fitness(after)

SearchInv ==
  /\ SearchTypeOK
  /\ Counting /\ Rooted /\ Loadable /\ Improving
  /\ Reviewed /\ ParentsArchived /\ FitnessOfBook

LEMMA SearchInit == Init => SearchInv
<1> SUFFICES ASSUME Init PROVE SearchInv
  OBVIOUS
<1>1. SearchTypeOK
  <2>1. book \in [Node -> Books \cup {Absent}] /\ meta \in [Node -> Meta \cup {None}]
    BY DEF Init
  <2>2. before \in Books /\ after \in Books /\ overlay \in Books
    BY DEF Init, Books
  <2>3. step \in 0..Cap + 1 /\ cap \in 0..Cap /\ searches \in 0..MaxSearches
    BY SearchAssumption DEF Init
  <2> QED
    BY <2>1, <2>2, <2>3 DEF Init, SearchTypeOK
<1>2. Archived = {}
  BY DEF Init, Archived
<1>3. Counting /\ Rooted /\ Loadable /\ Improving
  BY <1>2 DEF Init, Counting, Rooted, Loadable, Improving, Working
<1>4. Reviewed /\ ParentsArchived /\ FitnessOfBook
  BY <1>2 DEF Reviewed, ParentsArchived, FitnessOfBook
<1> QED
  BY <1>1, <1>3, <1>4 DEF SearchInv

LEMMA ArchivedSame == meta' = meta => Archived' = Archived
BY DEF Archived

\* A search that ends leaves the archive and the queue as they are, and no
\* snapshot half done unless it was killed.
LEMMA EndKeeps ==
  ASSUME SearchInv, End, UNCHANGED <<overlay, book, meta, filed, queue, searches>>,
         disk' \in [File -> Books \cup {Absent}],
         killed' \in BOOLEAN, killed => killed', at = "meta" => killed'
  PROVE  SearchInv'
<1>1. Archived' = Archived
  BY ArchivedSame
<1>2. SearchTypeOK'
  <2>1. before' \in Books /\ after' \in Books
    BY DEF End, Books
  <2>2. step' \in 0..Cap + 1 /\ cap' \in 0..Cap
    BY SearchAssumption DEF End
  <2> QED
    BY <2>1, <2>2 DEF SearchInv, SearchTypeOK, End
<1>3. Counting' /\ Rooted' /\ Loadable' /\ Improving'
  BY <1>1 DEF SearchInv, Counting, Rooted, Loadable, Improving, Working, End
<1>4. Reviewed' /\ ParentsArchived'
  BY <1>1 DEF SearchInv, Reviewed, ParentsArchived
<1>5. FitnessOfBook'
  BY <1>1 DEF SearchInv, FitnessOfBook, Fitness, Passed, End
<1> QED
  BY <1>2, <1>3, <1>4, <1>5 DEF SearchInv

LEMMA BeginKeeps ==
  ASSUME SearchInv, NEW c \in 1..Cap, Begin(c)
  PROVE  SearchInv'
<1> USE DEF Begin
<1>1. Archived' = Archived
  BY ArchivedSame
<1>2. SearchTypeOK'
  <2>1. before' \in Books /\ after' \in Books
    BY DEF SearchInv, SearchTypeOK, Books
  <2>2. step' \in 0..Cap + 1 /\ cap' \in 0..Cap /\ searches' \in 0..MaxSearches
    BY SearchAssumption DEF SearchInv, SearchTypeOK, Seed
  <2> QED
    BY <2>1, <2>2 DEF SearchInv, SearchTypeOK
<1>3. Archived # {} => Seed \in Archived
  BY DEF SearchInv, ParentsArchived
<1>4. Counting'
  BY SearchAssumption DEF Counting, Working, Seed
<1>5. Rooted' /\ Loadable' /\ Improving'
  BY <1>1, <1>3 DEF SearchInv, Rooted, Loadable, Improving, Working, Seed
<1>6. Reviewed' /\ ParentsArchived'
  BY <1>1 DEF SearchInv, Reviewed, ParentsArchived
<1>7. FitnessOfBook'
  BY <1>1 DEF SearchInv, FitnessOfBook, Fitness, Passed
<1> QED
  BY <1>2, <1>4, <1>5, <1>6, <1>7 DEF SearchInv

LEMMA AcceptKeeps ==
  ASSUME SearchInv, NEW n \in Node, NEW b \in Books, Accept(n, b)
  PROVE  SearchInv'
<1> USE DEF Accept, InBudget
<1>1. Archived' = Archived
  BY ArchivedSame
<1>2. n \in Archived /\ book[n] \in Books /\ Seed \in Archived
  BY DEF Sampled, SearchInv, SearchTypeOK, Loadable, Rooted
<1>3. SearchTypeOK'
  BY <1>2 DEF SearchInv, SearchTypeOK
<1>4. Counting'
  BY SearchAssumption DEF SearchInv, Counting, Working, Seed
<1>5. Rooted' /\ Loadable'
  BY <1>1, <1>2, <1>4 DEF SearchInv, Rooted, Loadable, Counting
<1>6. Improving'
  <2>1. Accepts(before', after')
    BY DEF Accepts, Passed
  <2>2. Accepts(before, after)' = Accepts(before', after')
    BY DEF Accepts, Passed
  <2> QED
    BY <2>1, <2>2 DEF Improving
<1>7. Reviewed' /\ ParentsArchived'
  BY <1>1 DEF SearchInv, Reviewed, ParentsArchived
<1>8. FitnessOfBook'
  BY <1>1 DEF SearchInv, FitnessOfBook, Fitness, Passed
<1> QED
  BY <1>3, <1>4, <1>5, <1>6, <1>7, <1>8 DEF SearchInv

LEMMA RejectKeeps ==
  ASSUME SearchInv, NEW n \in Node, NEW b \in Books, Reject(n, b)
  PROVE  SearchInv'
<1> USE DEF Reject, InBudget
<1>1. Archived' = Archived
  BY ArchivedSame
<1>2. cap \in 1..Cap /\ step \in 1..cap /\ step' \in 1..cap + 1
  BY SearchAssumption DEF SearchInv, Counting
<1>3. SearchTypeOK'
  BY <1>2, SearchAssumption DEF SearchInv, SearchTypeOK
<1>4. Counting' /\ Rooted' /\ Loadable' /\ Improving'
  BY <1>1, <1>2 DEF SearchInv, Counting, Rooted, Loadable, Improving, Working
<1>5. Reviewed' /\ ParentsArchived'
  BY <1>1 DEF SearchInv, Reviewed, ParentsArchived
<1>6. FitnessOfBook'
  BY <1>1 DEF SearchInv, FitnessOfBook, Fitness, Passed
<1> QED
  BY <1>3, <1>4, <1>5, <1>6 DEF SearchInv

LEMMA StageKeeps ==
  ASSUME SearchInv, Stage
  PROVE  SearchInv'
<1> USE DEF Stage
<1>1. Archived' = Archived
  BY ArchivedSame
<1>2. disk' \in [File -> Books \cup {Absent}] /\ disk'[Playbook] = after
  BY SearchAssumption DEF SearchInv, SearchTypeOK
<1>3. SearchTypeOK'
  BY <1>2 DEF SearchInv, SearchTypeOK
<1>4. Counting' /\ Rooted' /\ Loadable'
  BY <1>1 DEF SearchInv, Counting, Rooted, Loadable, Working
<1>5. Improving'
  BY <1>2 DEF SearchInv, Improving, Working, Accepts, Passed
<1>6. Reviewed' /\ ParentsArchived'
  BY <1>1 DEF SearchInv, Reviewed, ParentsArchived
<1>7. FitnessOfBook'
  BY <1>1 DEF SearchInv, FitnessOfBook, Fitness, Passed
<1> QED
  BY <1>3, <1>4, <1>5, <1>6, <1>7 DEF SearchInv

\* The step being taken has a directory of its own in the archive.
LEMMA StepInRange ==
  ASSUME SearchInv, Working
  PROVE  step \in Node /\ (step # Seed => step \in 1..Cap)
BY SearchAssumption DEF SearchInv, SearchTypeOK, Counting, Node, Seed

LEMMA FileManifestKeeps ==
  ASSUME SearchInv, FileManifest
  PROVE  SearchInv'
<1> USE DEF FileManifest
<1>1. Archived' = Archived
  BY ArchivedSame
<1>2. SearchTypeOK'
  BY StepInRange DEF SearchInv, SearchTypeOK, Working
<1>3. Counting' /\ Rooted' /\ Loadable'
  BY <1>1 DEF SearchInv, Counting, Rooted, Loadable, Working
<1>4. Improving'
  BY DEF SearchInv, Improving, Working, Accepts, Passed
<1>5. Reviewed' /\ ParentsArchived'
  BY <1>1 DEF SearchInv, Reviewed, ParentsArchived
<1>6. FitnessOfBook'
  BY <1>1 DEF SearchInv, FitnessOfBook, Fitness, Passed
<1> QED
  BY <1>2, <1>3, <1>4, <1>5, <1>6 DEF SearchInv

LEMMA AppendReviewRowKeeps ==
  ASSUME SearchInv, AppendReviewRow
  PROVE  SearchInv'
<1> DEFINE row0 == [id |-> step, hash |-> before, heldOut |-> Fitness(after)]
<1>1. Archived' = Archived
  BY ArchivedSame DEF AppendReviewRow
<1>2. row0 \in Row
  BY StepInRange, FitnessRange DEF AppendReviewRow, SearchInv, SearchTypeOK, Working, Row
<1>3. queue' = queue \cup {row0} /\ row0.id = step /\ row0.heldOut = Fitness(after)
  BY DEF AppendReviewRow
<1> HIDE DEF row0
<1>4. /\ at = "review" /\ at' = "files"
      /\ UNCHANGED <<disk, overlay, book, meta, filed, step, cap, parent, before, after, killed,
                     searches>>
  BY DEF AppendReviewRow
<1>5. SearchTypeOK'
  BY <1>2, <1>3, <1>4 DEF SearchInv, SearchTypeOK
<1>6. Counting' /\ Rooted' /\ Loadable'
  <2>1. Counting'
    BY <1>4, StepInRange DEF SearchInv, SearchTypeOK, Counting, Working, AppendReviewRow
  <2>2. Rooted'
    BY <1>1, <1>4 DEF SearchInv, Counting, Rooted, Working
  <2>3. Loadable'
    BY <1>1, <1>4 DEF SearchInv, Loadable
  <2> QED
    BY <2>1, <2>2, <2>3
<1>7. Fitness(after)' = Fitness(after) /\ Accepts(before, after)' = Accepts(before, after)
  BY <1>4 DEF Fitness, Accepts, Passed
<1>8. Improving'
  <2>1. step # Seed => Accepts(before, after) /\ disk[Playbook] = after
    BY <1>4 DEF SearchInv, Improving, Working
  <2>2. \E row \in queue' : row.id = step' /\ row.heldOut = Fitness(after)'
    BY <1>3, <1>4, <1>7
  <2> QED
    BY <1>4, <1>7, <2>1, <2>2 DEF Improving
<1>9. Reviewed' /\ ParentsArchived'
  BY <1>1, <1>3, <1>4 DEF SearchInv, Reviewed, ParentsArchived
<1>10. FitnessOfBook'
  BY <1>1, <1>4 DEF SearchInv, FitnessOfBook, Fitness, Passed
<1> QED
  BY <1>5, <1>6, <1>8, <1>9, <1>10 DEF SearchInv

LEMMA SnapshotFilesKeeps ==
  ASSUME SearchInv, SnapshotFiles
  PROVE  SearchInv'
<1> DEFINE b0 == IF disk[Playbook] = Absent THEN overlay ELSE disk[Playbook]
<1>1. Archived' = Archived
  BY ArchivedSame DEF SnapshotFiles
<1>2. step \in Node
  BY StepInRange DEF SnapshotFiles, Working
<1>3. b0 \in Books /\ b0 # Absent
  BY SearchAssumption DEF SearchInv, SearchTypeOK
<1>4. step # Seed => b0 = after
  BY SearchAssumption DEF SnapshotFiles, SearchInv, SearchTypeOK, Improving, Working
<1>5. /\ book' = [book EXCEPT ![step] = b0] /\ at = "files" /\ at' = "meta"
      /\ UNCHANGED <<disk, overlay, meta, filed, queue, step, cap, parent, before, after, killed,
                     searches>>
  BY DEF SnapshotFiles
<1> HIDE DEF b0
<1>6. book' \in [Node -> Books \cup {Absent}] /\ book'[step] = b0
      /\ \A n \in Node \ {step} : book'[n] = book[n]
  BY <1>2, <1>3, <1>5 DEF SearchInv, SearchTypeOK
<1>7. SearchTypeOK'
  BY <1>5, <1>6 DEF SearchInv, SearchTypeOK
<1>8. Archived \subseteq Node
  BY DEF Archived
<1>9. Counting' /\ Rooted' /\ Loadable'
  BY <1>1, <1>3, <1>5, <1>6, <1>8 DEF SearchInv, Counting, Rooted, Loadable, Working
<1>10. Fitness(after)' = Fitness(after) /\ Accepts(before, after)' = Accepts(before, after)
  BY <1>5 DEF Fitness, Accepts, Passed
<1>11. Improving'
  BY <1>4, <1>5, <1>6, <1>10 DEF SearchInv, Improving, Working
<1>12. Reviewed' /\ ParentsArchived'
  BY <1>1, <1>5 DEF SearchInv, Reviewed, ParentsArchived
<1>13. FitnessOfBook'
  BY <1>1, <1>5, <1>6, <1>8 DEF SearchInv, FitnessOfBook, Fitness, Passed
<1> QED
  BY <1>7, <1>9, <1>11, <1>12, <1>13 DEF SearchInv

LEMMA SnapshotMetaKeeps ==
  ASSUME SearchInv, SnapshotMeta
  PROVE  SearchInv'
<1> DEFINE m0 == [parent |-> parent, fitness |-> Fitness(after), hash |-> book[step]]
<1>1. step \in Node /\ (step # Seed => step \in 1..Cap) /\ step \in 0..cap /\ cap \in 1..Cap
  BY StepInRange DEF SnapshotMeta, Working, SearchInv, Counting
<1>2. book[step] \in Books
  BY <1>1 DEF SnapshotMeta, SearchInv, SearchTypeOK, Loadable
<1>3. m0 \in Meta
  BY <1>2, FitnessRange DEF SearchInv, SearchTypeOK, Meta
<1>4. /\ meta' = [meta EXCEPT ![step] = m0] /\ at = "meta" /\ at' = "sample" /\ step' = step + 1
      /\ parent' = None /\ before' = {} /\ after' = {}
      /\ UNCHANGED <<disk, overlay, book, filed, queue, cap, killed, searches>>
  BY DEF SnapshotMeta, ScoreOfChild, NextStep
<1>5. m0.parent = parent /\ m0.fitness = Fitness(after) /\ m0.hash = book[step]
  OBVIOUS
<1> HIDE DEF m0
<1>6. meta' \in [Node -> Meta \cup {None}] /\ meta'[step] = m0 /\ m0 # None
      /\ \A n \in Node \ {step} : meta'[n] = meta[n]
  BY <1>1, <1>3, <1>4, SearchAssumption DEF SearchInv, SearchTypeOK
<1>7. Archived' = Archived \cup {step} /\ Archived \subseteq Node
  BY <1>1, <1>6 DEF Archived
<1>8. SearchTypeOK'
  <2>1. before' \in Books /\ after' \in Books
    BY <1>4 DEF Books
  <2>2. step' \in 0..Cap + 1
    BY <1>1, <1>4, SearchAssumption
  <2> QED
    BY <1>4, <1>6, <2>1, <2>2 DEF SearchInv, SearchTypeOK
<1>9. Seed \in Archived'
  <2>1. CASE step = Seed
    BY <1>7, <2>1
  <2>2. CASE step # Seed
    BY <1>4, <1>7, <2>2 DEF SearchInv, Rooted, Working
  <2> QED
    BY <2>1, <2>2
<1>10. Counting'
  BY <1>1, <1>4, SearchAssumption DEF Counting, Working
<1>11. Rooted' /\ Loadable' /\ Improving'
  BY <1>2, <1>4, <1>7, <1>9, SearchAssumption
  DEF SearchInv, Rooted, Loadable, Improving, Working
<1>12. Reviewed'
  <2> SUFFICES ASSUME NEW n \in Archived' \ {Seed}
               PROVE  \E row \in queue : row.id = n /\ row.heldOut = meta'[n].fitness
    BY <1>4 DEF Reviewed
  <2>1. CASE n = step
    BY <1>4, <1>5, <1>6, <2>1 DEF SearchInv, Improving, Working
  <2>2. CASE n # step
    BY <1>6, <1>7, <2>2 DEF SearchInv, Reviewed
  <2> QED
    BY <2>1, <2>2
<1>13. ParentsArchived'
  <2> SUFFICES ASSUME NEW n \in Archived' \ {Seed}
               PROVE  meta'[n].parent \in Archived'
    BY <1>9 DEF ParentsArchived
  <2>1. CASE n = step
    BY <1>4, <1>5, <1>6, <1>7, <2>1 DEF SearchInv, Rooted, Working
  <2>2. CASE n # step
    BY <1>6, <1>7, <2>2 DEF SearchInv, ParentsArchived
  <2> QED
    BY <2>1, <2>2
<1>14. FitnessOfBook'
  <2> SUFFICES ASSUME NEW n \in Archived' \ {Seed}
               PROVE  /\ meta'[n].fitness = Fitness(meta'[n].hash)
                      /\ ~killed => book[n] = meta'[n].hash
    BY <1>4 DEF FitnessOfBook, Fitness, Passed
  <2>1. CASE n = step
    <3>1. book[step] = after
      BY <1>4, <2>1 DEF SearchInv, Improving, Working
    <3> QED
      BY <1>5, <1>6, <2>1, <3>1
  <2>2. CASE n # step
    BY <1>4, <1>6, <1>7, <2>2 DEF SearchInv, FitnessOfBook
  <2> QED
    BY <2>1, <2>2
<1> QED
  BY <1>8, <1>10, <1>11, <1>12, <1>13, <1>14 DEF SearchInv

LEMMA StutterKeeps ==
  ASSUME SearchInv, UNCHANGED vars
  PROVE  SearchInv'
<1> USE DEF vars, search
<1>1. Archived' = Archived
  BY ArchivedSame
<1>2. SearchTypeOK'
  BY DEF SearchInv, SearchTypeOK
<1>3. Counting' /\ Rooted' /\ Loadable'
  BY <1>1 DEF SearchInv, Counting, Rooted, Loadable, Working
<1>4. Fitness(after)' = Fitness(after) /\ Accepts(before, after)' = Accepts(before, after)
  BY DEF Fitness, Accepts, Passed
<1>5. Improving'
  BY <1>4 DEF SearchInv, Improving, Working
<1>6. Reviewed' /\ ParentsArchived'
  BY <1>1 DEF SearchInv, Reviewed, ParentsArchived
<1>7. FitnessOfBook'
  BY <1>1 DEF SearchInv, FitnessOfBook, Fitness, Passed
<1> QED
  BY <1>2, <1>3, <1>5, <1>6, <1>7 DEF SearchInv

LEMMA NextKeeps == SearchInv /\ [Next]_vars => SearchInv'
<1> SUFFICES ASSUME SearchInv, [Next]_vars PROVE SearchInv'
  OBVIOUS
<1>1. disk \in [File -> Books \cup {Absent}] /\ killed \in BOOLEAN /\ after \in Books
  BY DEF SearchInv, SearchTypeOK
<1>2. CASE RunSearch
  BY <1>2, BeginKeeps DEF RunSearch
<1>3. CASE ImproveLong
  BY <1>3, BeginKeeps, SearchAssumption DEF ImproveLong
<1>4. CASE Finish \/ Refuse
  <2>1. disk' \in [File -> Books \cup {Absent}]
    BY <1>1, <1>4 DEF Finish, Refuse
  <2> QED
    BY <1>1, <1>4, <2>1, EndKeeps DEF Finish, Refuse
<1>5. CASE StageThrows
  <2>1. disk' \in [File -> Books \cup {Absent}]
    BY <1>1, <1>5, SearchAssumption DEF StageThrows
  <2> QED
    BY <1>1, <1>5, <2>1, EndKeeps DEF StageThrows
<1>6. CASE Kill
  <2>1. disk' \in [File -> Books \cup {Absent}]
    BY <1>1, <1>6 DEF Kill
  <2> QED
    BY <1>1, <1>6, <2>1, EndKeeps DEF Kill
<1>7. CASE \E n \in Node, b \in Books : Accept(n, b) \/ Reject(n, b)
  BY <1>7, AcceptKeeps, RejectKeeps
<1> QED
  BY <1>2, <1>3, <1>4, <1>5, <1>6, <1>7, StageKeeps, FileManifestKeeps, AppendReviewRowKeeps,
     SnapshotFilesKeeps, SnapshotMetaKeeps, StutterKeeps DEF Next, Continue

\* What is staged, filed, reviewed and archived agrees at every step of a
\* search, whatever is proposed, refused or killed (search.ts:94-199).
THEOREM SearchInvariant == Spec => []SearchInv
<1> QED
  BY SearchInit, NextKeeps, PTL DEF Spec

\* Every variable keeps its type: a search stays in its budget, and the archive
\* in its ids (search.ts:94-199).
THEOREM SearchTypes == Spec => []SearchTypeOK
<1>1. SearchInv => SearchTypeOK
  BY DEF SearchInv
<1> QED
  BY <1>1, SearchInvariant, PTL

\* Every archived step is in the review queue under its score, whatever was
\* killed and however often its id was used (search.ts:182-188).
THEOREM AlwaysReviewed == Spec => []Reviewed
<1>1. SearchInv => Reviewed
  BY DEF SearchInv
<1> QED
  BY <1>1, SearchInvariant, PTL

\* Every archived step has its parent in the archive, and the overlay
\* (search.ts:55-66 and 111).
THEOREM ParentsAlwaysArchived == Spec => []ParentsArchived
<1>1. SearchInv => ParentsArchived
  BY DEF SearchInv
<1> QED
  BY <1>1, SearchInvariant, PTL

\* A score is that of the playbook with the hash in its meta.json, and of the
\* files next to it unless a search was killed (archive.ts:90-130).
THEOREM ScoresAlwaysFit == Spec => []FitnessOfBook
<1>1. SearchInv => FitnessOfBook
  BY DEF SearchInv
<1> QED
  BY <1>1, SearchInvariant, PTL

\* What is archived passes all its parent's playbook passed, and more
\* (self-harness.ts:14-30).
THEOREM NeverRegresses == Spec => NoRegression
<1> DEFINE Better ==
      SnapshotMeta /\ step # Seed =>
       LET Passes(b) == Passed(HeldIn \cup HeldOut, b) IN
       Passes(before) \subseteq Passes(book[step]) /\ Passes(before) # Passes(book[step])
<1>1. SearchInv /\ [Next]_vars => [Better]_vars
  <2> SUFFICES ASSUME SearchInv, SnapshotMeta, step # Seed
               PROVE  /\ Passed(HeldIn \cup HeldOut, before)
                           \subseteq Passed(HeldIn \cup HeldOut, book[step])
                      /\ Passed(HeldIn \cup HeldOut, before)
                           # Passed(HeldIn \cup HeldOut, book[step])
    OBVIOUS
  <2>1. book[step] = after /\ Accepts(before, after) /\ before \in Books /\ after \in Books
    BY DEF SnapshotMeta, SearchInv, SearchTypeOK, Improving, Working
  <2> QED
    BY <2>1, AcceptedIsBetter
<1> QED
  BY <1>1, SearchInvariant, PTL DEF Spec, NoRegression
=============================================================================
