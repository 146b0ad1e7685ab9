----------------------------- MODULE ReviewQueue -----------------------------
(***************************************************************************)
(* The search and the rollback command its review rows name, on one staging *)
(* tree: between searches a maintainer runs                                 *)
(*     bun harness/omp/drivers/rollback-candidate.ts --id <id of a row>.    *)
(* A command with no manifest to read throws and changes nothing.           *)
(***************************************************************************)

EXTENDS ArchiveSearch

CONSTANTS Empty   \* the contents ""

VARIABLES copy, manifest, rolling, id, cand, parts, settled, trail, whole

Rollbacks == INSTANCE CandidateStore WITH
  Id <- Node, Refused <- {}, Content <- Books, Candidate <- {}, Shipped <- {},
  Initial <- [File -> Books \cup {Absent}], Example <- None, at <- rolling

QueueInit == Init /\ Rollbacks!Init

\* The search writes neither the copies nor the manifests of CandidateStore.
SearchStep ==
  /\ rolling = "idle"
  /\ Next
  /\ settled' = Rollbacks!Tree(disk')
  /\ trail' = IF disk' = disk THEN trail ELSE <<>>
  /\ UNCHANGED <<copy, manifest, rolling, id, cand, parts, whole>>

RollbackStep ==
  /\ at = "idle"
  /\ \/ \E row \in queue : Rollbacks!BeginRollback(row.id)
     \/ Rollbacks!RestoreThrows \/ Rollbacks!RestoreFile \/ Rollbacks!Compare \/ Rollbacks!Kill
  /\ UNCHANGED <<overlay, book, meta, filed, queue, search, killed, searches>>

QueueSpec == QueueInit /\ [][SearchStep \/ RollbackStep]_<<vars, Rollbacks!vars>>

-----------------------------------------------------------------------------

\* "Rollback of a bad search candidate remains `rollback-candidate.ts`"
\* (docs/plans/p2-omp-overlay.md:443), which every row of the queue names with
\* its id (search.ts:177): the command finds the manifest it starts from
\* (rollback-candidate.ts:8-9).
QueuedRollsBack == \A row \in queue : manifest[row.id] # None
=============================================================================
