---------------------------- MODULE CandidateStore ----------------------------
(***************************************************************************)
(* Candidates of the staging tree, as applyCandidate and rollbackCandidate  *)
(* (harness/omp/drivers/apply-candidate.ts, rollback-candidate.ts) change   *)
(* it on disk: the files themselves, the copies of what each candidate      *)
(* replaced (staging/snapshots/<id>/parent) and the manifests               *)
(* (overlay/.omp/manifests/<id>.json).                                      *)
(*                                                                         *)
(* One process works on the tree at a time.  A step is one file operation;  *)
(* the process may be killed between any two.  The copies under applied/    *)
(* are left out: neither call reads them.  A hash stands for the contents   *)
(* it is the hash of.                                                       *)
(***************************************************************************)

EXTENDS Integers, Sequences, SequencesExt

CONSTANTS
  Id,         \* candidates
  File,       \* paths under harness/omp/staging
  Refused,    \* those assertEvolverWrite refuses
  Content,    \* contents that are not empty
  Candidate,  \* the lists of files callers apply
  Initial,    \* trees of a checkout
  Shipped,    \* the candidates whose manifest is in the repository
  Example,    \* that manifest; its copies are not (staging/.gitignore)
  Absent,     \* a path where there is no file
  Empty,      \* the contents ""
  None        \* no manifest, no candidate

Body == Content \cup {Empty}
Manifest == [files : Seq(File), parts : Seq(Body)]

ASSUME CandidateAssumption ==
  /\ Refused \subseteq File
  /\ Candidate \subseteq Seq([file : File, content : Content])
  /\ \A c \in Candidate : \A k, l \in 1..Len(c) : c[k].file = c[l].file => k = l
  /\ Initial \subseteq [File -> Content \cup {Absent}]
  /\ Shipped \subseteq Id
  /\ Example \in Manifest /\ Example.files # <<>>
  /\ Absent \notin Body /\ Empty \notin Content
  /\ None \notin Id /\ None \notin Manifest
  /\ \A F \in SUBSET File : None \notin [F -> Body \cup {Absent}]

VARIABLES
  disk,      \* disk[f]: the contents of f
  copy,      \* copy[i][f]: the copy candidate i made of f
  manifest,  \* manifest[i]
  at,        \* the next operation of the process
  id,        \* the candidate it works on
  cand,      \* the files it applies
  parts,     \* parentParts: what it has read so far
  settled,   \* history: the tree the last call to end left
  trail,     \* history: the candidates applied one after the other, each with
             \* the tree it found
  whole      \* history: that call returned what it was asked for

vars == <<disk, copy, manifest, at, id, cand, parts, settled, trail, whole>>

\* readFileSync of a file, "" where there is none.
Read(b) == IF b = Absent THEN Empty ELSE b
Tree(d) == [f \in File |-> Read(d[f])]

CandidateTypeOK ==
  /\ disk \in [File -> Body \cup {Absent}]
  /\ copy \in [Id -> [File -> Body \cup {Absent}]]
  /\ manifest \in [Id -> Manifest \cup {None}]
  /\ at \in {"idle", "keep", "write", "restore"}
  /\ id \in Id \cup {None}
  /\ cand \in Candidate \cup {<<>>}
  /\ parts \in Seq(Body)
  /\ settled \in [File -> Body]
  /\ trail \in Seq([id : Id, tree : [File -> Body]])
  /\ whole \in BOOLEAN

Init ==
  /\ disk \in Initial
  /\ copy = [i \in Id |-> [f \in File |-> Absent]]
  /\ manifest = [i \in Id |-> IF i \in Shipped THEN Example ELSE None]
  /\ at = "idle" /\ id = None /\ cand = <<>> /\ parts = <<>>
  /\ settled = Tree(disk)
  /\ trail = <<>>
  /\ whole = TRUE

\* The call ends, by return or throw.
Return ==
  /\ at' = "idle" /\ id' = None /\ cand' = <<>> /\ parts' = <<>>
  /\ settled' = Tree(disk')

\* It ends before its work is done.
BreakOff ==
  /\ trail' = <<>> /\ whole' = FALSE
  /\ UNCHANGED <<disk, copy, manifest>>
  /\ Return

-----------------------------------------------------------------------------
(* applyCandidate *)

\* Nothing is left of an earlier candidate of that name.  Callers see to it
\* (one manifest per candidate): applyCandidate does not look.
Unused(i) == manifest[i] = None /\ \A f \in File : copy[i][f] = Absent

BeginApply(i, c) ==
  /\ at = "idle"
  /\ Unused(i)
  /\ at' = "keep" /\ id' = i /\ cand' = c
  /\ UNCHANGED <<disk, copy, manifest, parts, settled, trail, whole>>

NextFile == cand[Len(parts) + 1].file

\* assertEvolverWrite throws; the files before this one stay written.
RefuseFile ==
  /\ at = "keep" /\ Len(parts) < Len(cand)
  /\ NextFile \in Refused
  /\ BreakOff

\* The copy of a file.  The mutated forms forget that there may be no file, and
\* keep an empty copy whatever there is.
Unread(f) == disk[f]
Blank(f) == Empty
Saved(f) == Read(disk[f])

KeepParent ==
  /\ at = "keep" /\ Len(parts) < Len(cand)
  /\ NextFile \notin Refused
  /\ copy' = [copy EXCEPT ![id][NextFile] = Saved(NextFile)]
  /\ parts' = Append(parts, Saved(NextFile))
  /\ at' = "write"
  /\ UNCHANGED <<disk, manifest, id, cand, settled, trail, whole>>

WriteFile ==
  /\ at = "write"
  /\ LET w == cand[Len(parts)] IN disk' = [disk EXCEPT ![w.file] = w.content]
  /\ at' = "keep"
  /\ UNCHANGED <<copy, manifest, id, cand, parts, settled, trail, whole>>

\* What parentHash is the hash of.  The mutated form takes what was written.
Applied == [k \in 1..Len(cand) |-> cand[k].content]
Hashed == parts

WriteManifest ==
  /\ at = "keep" /\ Len(parts) = Len(cand)
  /\ manifest' = [manifest EXCEPT ![id] =
       [files |-> [k \in 1..Len(cand) |-> cand[k].file], parts |-> Hashed]]
  /\ trail' = Append(trail, [id |-> id, tree |-> settled])
  /\ whole' = TRUE
  /\ UNCHANGED <<disk, copy>>
  /\ Return

-----------------------------------------------------------------------------
(* rollbackCandidate, which throws if there is no manifest *)

BeginRollback(i) ==
  /\ at = "idle"
  /\ manifest[i] # None
  /\ at' = "restore" /\ id' = i
  /\ UNCHANGED <<disk, copy, manifest, cand, parts, settled, trail, whole>>

NextRestored == manifest[id].files[Len(parts) + 1]

RestoreThrows ==
  /\ at = "restore" /\ Len(parts) < Len(manifest[id].files)
  /\ copy[id][NextRestored] = Absent
  /\ BreakOff

\* The mutated form restores the first file only.
RestoreFirst(f) == disk' = IF parts = <<>> THEN [disk EXCEPT ![f] = copy[id][f]] ELSE disk
Restore(f) == disk' = [disk EXCEPT ![f] = copy[id][f]]

RestoreFile ==
  /\ at = "restore" /\ Len(parts) < Len(manifest[id].files)
  /\ copy[id][NextRestored] # Absent
  /\ Restore(NextRestored)
  /\ parts' = Append(parts, copy[id][NextRestored])
  /\ UNCHANGED <<copy, manifest, at, id, cand, settled, trail, whole>>

\* The hash is compared after the writes, whatever it says.
Matches == parts = manifest[id].parts

Compare ==
  /\ at = "restore" /\ Len(parts) = Len(manifest[id].files)
  /\ whole' = Matches
  /\ trail' = IF Matches /\ trail # <<>> /\ id = Last(trail).id THEN Front(trail) ELSE <<>>
  /\ UNCHANGED <<disk, copy, manifest>>
  /\ Return

-----------------------------------------------------------------------------

\* Another driver writes a file of the tree (stageCandidate).
Stage(f, b) ==
  /\ at = "idle"
  /\ disk' = [disk EXCEPT ![f] = b]
  /\ settled' = Tree(disk')
  /\ trail' = <<>>
  /\ UNCHANGED <<copy, manifest, at, id, cand, parts, whole>>

Kill == at # "idle" /\ BreakOff

Next ==
  \/ \E i \in Id, c \in Candidate : BeginApply(i, c)
  \/ RefuseFile \/ KeepParent \/ WriteFile \/ WriteManifest
  \/ \E i \in Id : BeginRollback(i)
  \/ RestoreThrows \/ RestoreFile \/ Compare
  \/ \E f \in File \ Refused, b \in Content : Stage(f, b)
  \/ Kill

Spec == Init /\ [][Next]_vars

-----------------------------------------------------------------------------
(* Properties *)

\* Whatever was killed, and whatever else was written, a candidate whose
\* manifest was written can be rolled back: the copy of each of its files is
\* there, and together they have the hash of the manifest (the checks of
\* rollback-candidate.ts:13-27).
ManifestsRestore ==
  \A i \in Id \ Shipped : manifest[i] # None =>
    /\ Len(manifest[i].parts) = Len(manifest[i].files)
    /\ \A k \in 1..Len(manifest[i].files) :
         copy[i][manifest[i].files[k]] = manifest[i].parts[k]

\* Candidates applied one after the other and rolled back in the reverse order
\* give each in turn the whole tree it found, as long as nothing else wrote to
\* it; in another order an older file comes back over a newer one
\* (rollback-candidate.ts:13-27).
UnwindsInReverse ==
  [][Compare /\ Matches /\ trail # <<>> /\ id = Last(trail).id
       => Tree(disk) = Last(trail).tree]_vars

\* "Rollback restores the parent snapshot" (overlay/.omp/manifests/README.md:5):
\* applying and rolling back, a file at a time and in any order, is applying
\* and rolling back at once, except that a call that did not end leaves some
\* of its files written.  A file that was not there comes back empty
\* (apply-candidate.ts:44).
Changes ==
  {[f \in {c[k].file : k \in 1..Len(c)} |-> c[CHOOSE k \in 1..Len(c) : c[k].file = f].content]
     : c \in Candidate}
Parent ==
  [i \in Id |-> IF manifest[i] = None \/ i \in Shipped THEN None
                ELSE [f \in {manifest[i].files[k] : k \in 1..Len(manifest[i].files)} |-> copy[i][f]]]
Atomic == INSTANCE AtomicCandidates WITH
  tree <- settled, parent <- Parent, Change <- Changes, Nothing <- None
ImplementsAtomic == Atomic!Spec
=============================================================================
