---------------------------- MODULE DurableApply ----------------------------
(***************************************************************************)
(* The generated root of one durable plugin, as applyDurablePlugin and     *)
(* rollbackDurablePlugin (harness/omp/drivers/apply-snapshot.ts) change it *)
(* on disk: the candidate directory .candidates/<id>, the installed        *)
(* directory <id>, and the copy <id>.bak.                                  *)
(*                                                                         *)
(* One process works on the root at a time.  A step is one file operation; *)
(* a recursive removal is one step to a file.  The process may be killed   *)
(* between any two steps, which leaves the disk as it is.  A process       *)
(* remembers the module it first loaded from a path (require's cache); it  *)
(* ends with the call if it is the runner callCore spawns, and lives on if *)
(* it is the search driver or the OMP host.                                *)
(***************************************************************************)

EXTENDS Integers, FiniteSets

CONSTANTS
  Version,   \* the manifests callers apply
  Sound,     \* those whose apply() returns a disposer that undoes it
  File,      \* file names
  Apply,     \* the name validation loads: apply.js
  Manifest,  \* manifest.json
  FilesOf,   \* the names in manifest.files of each version
  NoDir,     \* a path where there is nothing
  None,      \* no module in the cache, no version
  Resident   \* the process outlives the call

Tree == UNION {[F -> Version] : F \in (SUBSET File) \ {{}}}

ASSUME DurableAssumption ==
  /\ Sound \subseteq Version
  /\ {Apply, Manifest} \subseteq File /\ Apply # Manifest
  /\ FilesOf \in [Version -> SUBSET (File \ {Manifest})]
  /\ NoDir \notin Tree /\ None \notin Version
  /\ Resident \in BOOLEAN

Place == {"candidate", "dest", "bak"}
Step == {"idle", "clear", "write", "validate", "look", "forget", "shelve", "place",
         "drop", "restore"}

VARIABLES
  tree,     \* tree[p]: the version each file in p comes from
  at,       \* the next operation of the process
  version,  \* the version it applies
  todo,     \* the files it has still to write
  cache,    \* the version of the candidate module it has loaded
  crashed   \* a process has been killed

vars == <<tree, at, version, todo, cache, crashed>>

DurableTypeOK ==
  /\ tree \in [Place -> Tree \cup {NoDir}]
  /\ at \in Step
  /\ version \in Version \cup {None}
  /\ todo \subseteq File
  /\ cache \in Version \cup {None}
  /\ crashed \in BOOLEAN

Init ==
  /\ tree = [p \in Place |-> NoDir]
  /\ at = "idle"
  /\ version = None
  /\ todo = {}
  /\ cache = None
  /\ crashed = FALSE

-----------------------------------------------------------------------------
(* Directories *)

\* All that applying v puts in a directory.
TreeOf(v) == [f \in FilesOf[v] \cup {Manifest} |-> v]

Holds(p, v) == tree[p] = TreeOf(v)
Whole(p) == \E v \in Version : Holds(p, v)

\* rmSync(p, {recursive, force}), one file at a time, then step `next`.  The
\* mutated form leaves the empty directory.
RemoveFiles(p, next) ==
  \/ /\ tree[p] = NoDir
     /\ at' = next
     /\ UNCHANGED tree
  \/ /\ tree[p] # NoDir
     /\ \E f \in DOMAIN tree[p] :
          tree' = [tree EXCEPT ![p] = [g \in DOMAIN @ \ {f} |-> @[g]]]
     /\ UNCHANGED at
Remove(p, next) ==
  \/ /\ tree[p] = NoDir
     /\ at' = next
     /\ UNCHANGED tree
  \/ /\ tree[p] # NoDir
     /\ \E f \in DOMAIN tree[p] :
          LET rest == DOMAIN tree[p] \ {f} IN
          tree' = [tree EXCEPT ![p] = IF rest = {} THEN NoDir ELSE [g \in rest |-> @[g]]]
     /\ UNCHANGED at

\* renameSync(p, q) of a directory onto a free path.
Rename(p, q) == tree' = [tree EXCEPT ![q] = tree[p], ![p] = NoDir]

\* The call ends, by return or throw.
Return ==
  /\ at' = "idle"
  /\ version' = None
  /\ todo' = {}
  /\ cache' = IF Resident THEN cache ELSE None

-----------------------------------------------------------------------------
(* applyDurablePlugin.  A frozen id or a kernel path throws before any of   *)
(* this.                                                                    *)

BeginApply(v) ==
  /\ at = "idle"
  /\ at' = "clear"
  /\ version' = v
  /\ todo' = FilesOf[v] \cup {Manifest}
  /\ UNCHANGED <<tree, cache, crashed>>

\* The mutated form writes over the remains of an earlier candidate.
ClearNothing ==
  /\ at = "clear"
  /\ at' = "write"
  /\ UNCHANGED <<tree, version, todo, cache, crashed>>
ClearCandidate ==
  /\ at = "clear"
  /\ Remove("candidate", "write")
  /\ UNCHANGED <<version, todo, cache, crashed>>

\* writeTree, then manifest.json.
WriteFile ==
  /\ at = "write"
  /\ \E f \in todo :
       /\ f = Manifest => todo = {Manifest}
       /\ todo' = todo \ {f}
       /\ tree' = [tree EXCEPT !["candidate"] =
            IF @ = NoDir THEN [g \in {f} |-> version]
            ELSE [g \in DOMAIN @ \cup {f} |-> IF g = f THEN version ELSE @[g]]]
  /\ at' = IF todo' = {} THEN "validate" ELSE at
  /\ UNCHANGED <<version, cache, crashed>>

\* validateGeneratedPlugin: require() gives the module the process loaded
\* from this path before, or the file.
Loaded == IF cache # None THEN cache ELSE tree["candidate"][Apply]

\* The mutated form skips the check of the disposer.
ValidateLoads ==
  /\ at = "validate"
  /\ Apply \in DOMAIN tree["candidate"]
  /\ cache' = Loaded
  /\ at' = "look"
  /\ UNCHANGED <<tree, version, todo, crashed>>
Validate ==
  /\ at = "validate"
  /\ Apply \in DOMAIN tree["candidate"]
  /\ Loaded \in Sound
  /\ cache' = Loaded
  /\ at' = "look"
  /\ UNCHANGED <<tree, version, todo, crashed>>

\* There is no apply.js, or what it exports does not validate; a module that
\* was loaded stays in the cache.
ValidateThrows ==
  /\ at = "validate"
  /\ Apply \in DOMAIN tree["candidate"] => Loaded \notin Sound
  /\ at' = "idle"
  /\ version' = None
  /\ cache' = IF Resident /\ Apply \in DOMAIN tree["candidate"] THEN Loaded
              ELSE IF Resident THEN cache ELSE None
  /\ UNCHANGED <<tree, todo, crashed>>

\* existsSync(dest)
Look ==
  /\ at = "look"
  /\ at' = IF tree["dest"] = NoDir THEN "place" ELSE "forget"
  /\ UNCHANGED <<tree, version, todo, cache, crashed>>

ForgetCopy ==
  /\ at = "forget"
  /\ Remove("bak", "shelve")
  /\ UNCHANGED <<version, todo, cache, crashed>>

\* The installed directory becomes the copy.  The mutated form removes it.
ShelveNothing ==
  /\ at = "shelve"
  /\ tree' = [tree EXCEPT !["dest"] = NoDir]
  /\ at' = "place"
  /\ UNCHANGED <<version, todo, cache, crashed>>
Shelve ==
  /\ at = "shelve"
  /\ Rename("dest", "bak")
  /\ at' = "place"
  /\ UNCHANGED <<version, todo, cache, crashed>>

Install ==
  /\ at = "place"
  /\ Rename("candidate", "dest")
  /\ Return
  /\ UNCHANGED crashed

-----------------------------------------------------------------------------
(* rollbackDurablePlugin, which throws if there is no copy *)

BeginRollback ==
  /\ at = "idle"
  /\ tree["bak"] # NoDir
  /\ at' = "drop"
  /\ UNCHANGED <<tree, version, todo, cache, crashed>>

DropInstalled ==
  /\ at = "drop"
  /\ Remove("dest", "restore")
  /\ UNCHANGED <<version, todo, cache, crashed>>

Restore ==
  /\ at = "restore"
  /\ Rename("bak", "dest")
  /\ Return
  /\ UNCHANGED crashed

-----------------------------------------------------------------------------

\* The process is killed; whoever calls next is another one.
Crash ==
  /\ at # "idle"
  /\ at' = "idle"
  /\ version' = None
  /\ todo' = {}
  /\ cache' = None
  /\ crashed' = TRUE
  /\ UNCHANGED tree

Next ==
  \/ \E v \in Version : BeginApply(v)
  \/ ClearCandidate \/ WriteFile
  \/ Validate \/ ValidateThrows
  \/ Look \/ ForgetCopy \/ Shelve \/ Install
  \/ BeginRollback \/ DropInstalled \/ Restore
  \/ Crash

Spec == Init /\ [][Next]_vars

-----------------------------------------------------------------------------
(* Properties *)

\* "only plugin-class accepts with load/dispose/policy checks write the
\* generated dir" (README.md:67): whatever killed processes left behind, the
\* files in the installed directory are of one version, and that version
\* validates.  In a process that lives on it fails: require() hands validation
\* the module it loaded the first time (apply-snapshot.ts:46-47).
OnlyValidated ==
  tree["dest"] # NoDir =>
    \E v \in Sound : \A f \in DOMAIN tree["dest"] : tree["dest"][f] = v

\* An apply that returns has installed exactly the manifest it was given,
\* over whatever torn candidates, copies and installations it found
\* (apply-snapshot.ts:102-117).
ApplyInstalls ==
  [][Install => \E v \in Version : v = version /\ tree'["dest"] = TreeOf(v)]_vars

\* While no process has been killed, an installed plugin is never without a
\* whole version to run or to go back to (apply-snapshot.ts:111-117 and
\* 126-128), at any point of an apply or a rollback.
HasCopy == Whole("dest") \/ Whole("bak")
NeverLost == [][~crashed' /\ HasCopy => HasCopy']_vars

\* "atomic replace in profile-owned generated dir" (README.md:114): between
\* calls a plugin that has a copy is installed, killed processes or not.  A
\* process killed between the two renames leaves the copy alone
\* (apply-snapshot.ts:114-117).
AtomicReplace == at = "idle" /\ Whole("bak") => Whole("dest")
=============================================================================
