------------------------ MODULE DurableApply_proofs ------------------------
(***************************************************************************)
(* Theorems about DurableApply: an apply installs its manifest and nothing *)
(* else, and one-shot processes install only what validates, over whatever *)
(* killed processes left on disk.                                          *)
(***************************************************************************)

EXTENDS DurableApply, TLAPS

\* The files of a manifest, with manifest.json.
All(v) == FilesOf[v] \cup {Manifest}

\* The steps of an apply, and those after validation.
Validated == {"look", "forget", "shelve", "place"}
Applying == {"clear", "write", "validate"} \cup Validated

(***************************************************************************)
(* Directories                                                             *)
(***************************************************************************)

\* A directory is a function from some files, not none, to versions.
LEMMA TreeIntro ==
  ASSUME NEW F \in SUBSET File, F # {}, NEW t \in [F -> Version]
  PROVE  t \in Tree
BY DEF Tree

LEMMA TreeElim ==
  ASSUME NEW t \in Tree
  PROVE  DOMAIN t \in SUBSET File /\ DOMAIN t # {} /\ t \in [DOMAIN t -> Version]
BY DEF Tree

\* What an apply puts in a directory is a directory.
LEMMA TreeOfIsTree ==
  ASSUME NEW v \in Version
  PROVE  TreeOf(v) \in Tree
<1>1. All(v) \in SUBSET File /\ All(v) # {}
  BY DurableAssumption DEF All
<1>2. TreeOf(v) \in [All(v) -> Version]
  BY DEF TreeOf, All
<1> QED
  BY <1>1, <1>2, TreeIntro

\* A removal takes files out of one place, one at a time, and ends with
\* nothing there (apply-snapshot.ts:102, 113 and 127).
LEMMA RemoveShrinks ==
  ASSUME DurableTypeOK, NEW p \in Place, NEW next \in Step, Remove(p, next)
  PROVE  /\ tree' \in [Place -> Tree \cup {NoDir}]
         /\ \A q \in Place \ {p} : tree'[q] = tree[q]
         /\ tree'[p] # NoDir =>
              /\ tree[p] # NoDir
              /\ DOMAIN tree'[p] \subseteq DOMAIN tree[p]
              /\ \A f \in DOMAIN tree'[p] : tree'[p][f] = tree[p][f]
         /\ at' \in {at, next}
         /\ at' # at => tree'[p] = NoDir
<1>1. CASE tree[p] = NoDir
  BY <1>1 DEF Remove, DurableTypeOK
<1>2. CASE tree[p] # NoDir
  <2>1. tree[p] \in Tree
    BY <1>2 DEF DurableTypeOK
  <2>2. PICK f \in DOMAIN tree[p] :
          tree' = [tree EXCEPT ![p] =
            IF DOMAIN tree[p] \ {f} = {} THEN NoDir
            ELSE [g \in DOMAIN tree[p] \ {f} |-> tree[p][g]]]
    BY <1>2 DEF Remove
  <2>3. at' = at
    BY <1>2 DEF Remove
  <2> DEFINE rest == DOMAIN tree[p] \ {f}
  <2>4. tree'[p] = IF rest = {} THEN NoDir ELSE [g \in rest |-> tree[p][g]]
    BY <2>2 DEF DurableTypeOK
  <2>5. \A q \in Place \ {p} : tree'[q] = tree[q]
    BY <2>2 DEF DurableTypeOK
  <2>6. rest # {} => [g \in rest |-> tree[p][g]] \in Tree
    <3> SUFFICES ASSUME rest # {}
                 PROVE  [g \in rest |-> tree[p][g]] \in Tree
      OBVIOUS
    <3>1. rest \in SUBSET File /\ [g \in rest |-> tree[p][g]] \in [rest -> Version]
      BY <2>1, TreeElim
    <3> QED
      BY <3>1, TreeIntro
  <2>7. tree' \in [Place -> Tree \cup {NoDir}]
    BY <2>2, <2>6 DEF DurableTypeOK
  <2> QED
    BY <1>2, <2>3, <2>4, <2>5, <2>7
<1> QED
  BY <1>1, <1>2

\* A rename empties the one place and fills the other with what was there
\* (apply-snapshot.ts:114, 117 and 128).
LEMMA RenameMoves ==
  ASSUME DurableTypeOK, NEW p \in Place, NEW q \in Place, p # q, Rename(p, q)
  PROVE  /\ tree' \in [Place -> Tree \cup {NoDir}]
         /\ tree'[p] = NoDir
         /\ tree'[q] = tree[p]
         /\ \A r \in Place \ {p, q} : tree'[r] = tree[r]
BY DEF Rename, DurableTypeOK

(***************************************************************************)
(* What a call keeps.  The candidate directory holds what has been written *)
(* since it was cleared, and nothing else.                                 *)
(***************************************************************************)

\* t holds the files in D, all of version v.
Written(t, v, D) == IF D = {} THEN t = NoDir ELSE t = [f \in D |-> v]

CandidateInv ==
  /\ DurableTypeOK
  /\ at \in Applying => version \in Version
  /\ at = "clear" => todo = All(version)
  /\ at = "write" => /\ todo \subseteq All(version)
                     /\ Written(tree["candidate"], version, All(version) \ todo)
  /\ at \in {"validate"} \cup Validated => tree["candidate"] = TreeOf(version)

\* A root where nothing has happened.
LEMMA CandidateInit == Init => CandidateInv
BY DEF Init, CandidateInv, DurableTypeOK, Step, Applying, Validated

\* A file written to the candidate is one of those missing
\* (apply-snapshot.ts:34-43 and 104).
LEMMA WriteKeeps ==
  ASSUME CandidateInv, WriteFile
  PROVE  CandidateInv'
<1>1. /\ version \in Version /\ version' = version
      /\ todo \subseteq All(version)
      /\ Written(tree["candidate"], version, All(version) \ todo)
  BY DEF WriteFile, CandidateInv, Applying
<1>2. PICK f \in todo :
        /\ todo' = todo \ {f}
        /\ tree' = [tree EXCEPT !["candidate"] =
             IF tree["candidate"] = NoDir THEN [g \in {f} |-> version]
             ELSE [g \in DOMAIN tree["candidate"] \cup {f} |->
                    IF g = f THEN version ELSE tree["candidate"][g]]]
  BY DEF WriteFile
<1> DEFINE D == All(version) \ todo
           E == All(version) \ todo'
           t == tree'["candidate"]
<1>3. E = D \cup {f} /\ E # {}
  BY <1>1, <1>2
<1>4. t = [g \in E |-> version]
  <2>1. t = IF tree["candidate"] = NoDir THEN [g \in {f} |-> version]
            ELSE [g \in DOMAIN tree["candidate"] \cup {f} |->
                   IF g = f THEN version ELSE tree["candidate"][g]]
    BY <1>2 DEF CandidateInv, DurableTypeOK, Place
  <2>2. CASE D = {}
    BY <1>1, <1>3, <2>1, <2>2 DEF Written
  <2>3. CASE D # {}
    <3>1. tree["candidate"] = [g \in D |-> version]
      BY <1>1, <2>3 DEF Written
    <3>2. D \in SUBSET File
      BY <1>1, DurableAssumption DEF All
    <3>3. tree["candidate"] # NoDir
      BY <1>1, <2>3, <3>1, <3>2, TreeIntro, DurableAssumption
    <3> QED
      BY <1>3, <2>1, <3>1, <3>3
  <2> QED
    BY <2>2, <2>3
<1>5. DurableTypeOK'
  <2>1. E \in SUBSET File
    BY <1>1, DurableAssumption DEF All
  <2>2. t \in Tree
    BY <1>1, <1>3, <1>4, <2>1, TreeIntro
  <2>3. tree' \in [Place -> Tree \cup {NoDir}]
    BY <1>2, <2>2 DEF CandidateInv, DurableTypeOK, Place
  <2>4. todo' \subseteq File
    BY <1>2 DEF CandidateInv, DurableTypeOK
  <2>5. at' \in Step
    BY DEF WriteFile, Step
  <2> QED
    BY <1>1, <2>3, <2>4, <2>5 DEF WriteFile, CandidateInv, DurableTypeOK
<1>6. todo' = {} => t = TreeOf(version)
  BY <1>4 DEF TreeOf, All
<1>7. at' = IF todo' = {} THEN "validate" ELSE "write"
  BY DEF WriteFile
<1> QED
  BY <1>1, <1>2, <1>3, <1>4, <1>5, <1>6, <1>7
  DEF CandidateInv, Written, Applying, Validated

\* The removals touch the candidate only before the first write
\* (apply-snapshot.ts:102, 113 and 127).
LEMMA RemovalsKeep ==
  ASSUME CandidateInv, ClearCandidate \/ ForgetCopy \/ DropInstalled
  PROVE  CandidateInv'
<1> USE DEF Place, Step
<1>1. CASE ClearCandidate
  <2>1. /\ tree' \in [Place -> Tree \cup {NoDir}]
        /\ at' \in {"clear", "write"}
        /\ at' = "write" => tree'["candidate"] = NoDir
    BY <1>1, RemoveShrinks DEF ClearCandidate, CandidateInv
  <2>2. todo = All(version) /\ todo' = todo /\ version' = version /\ version \in Version
    BY <1>1 DEF ClearCandidate, CandidateInv, Applying
  <2>3. DurableTypeOK'
    BY <1>1, <2>1 DEF ClearCandidate, CandidateInv, DurableTypeOK
  <2>4. at' = "write" => Written(tree'["candidate"], version', All(version') \ todo')
    BY <2>1, <2>2 DEF Written
  <2> QED
    BY <2>1, <2>2, <2>3, <2>4 DEF CandidateInv, Applying, Validated
<1>2. CASE ForgetCopy
  <2>1. /\ tree' \in [Place -> Tree \cup {NoDir}]
        /\ at' \in {"forget", "shelve"}
        /\ tree'["candidate"] = tree["candidate"]
    BY <1>2, RemoveShrinks DEF ForgetCopy, CandidateInv
  <2> QED
    BY <1>2, <2>1 DEF ForgetCopy, CandidateInv, DurableTypeOK, Applying, Validated
<1>3. CASE DropInstalled
  <2>1. /\ tree' \in [Place -> Tree \cup {NoDir}]
        /\ at' \in {"drop", "restore"}
    BY <1>3, RemoveShrinks DEF DropInstalled, CandidateInv
  <2> QED
    BY <1>3, <2>1 DEF DropInstalled, CandidateInv, DurableTypeOK, Applying, Validated
<1> QED
  BY <1>1, <1>2, <1>3

\* The renames leave the candidate alone until it is installed
\* (apply-snapshot.ts:114, 117 and 128).
LEMMA RenamesKeep ==
  ASSUME CandidateInv, Shelve \/ Install \/ Restore
  PROVE  CandidateInv'
<1> USE DEF Place, Step
<1>1. CASE Shelve
  <2>1. /\ tree' \in [Place -> Tree \cup {NoDir}]
        /\ tree'["candidate"] = tree["candidate"]
    BY <1>1, RenameMoves DEF Shelve, CandidateInv
  <2> QED
    BY <1>1, <2>1 DEF Shelve, CandidateInv, DurableTypeOK, Applying, Validated
<1>2. CASE Install \/ Restore
  <2>1. tree' \in [Place -> Tree \cup {NoDir}]
    BY <1>2, RenameMoves DEF Install, Restore, CandidateInv
  <2> QED
    BY <1>2, <2>1 DEF Install, Restore, Return, CandidateInv, DurableTypeOK, Applying, Validated
<1> QED
  BY <1>1, <1>2

\* Every step of a call, and a kill, keeps the candidate what it should be.
LEMMA CandidateNext == CandidateInv /\ [Next]_vars => CandidateInv'
<1> SUFFICES ASSUME CandidateInv, [Next]_vars PROVE CandidateInv'
  OBVIOUS
<1>1. ASSUME NEW v \in Version, BeginApply(v)
      PROVE  CandidateInv'
  <2>1. All(v) \subseteq File
    BY DurableAssumption DEF All
  <2> QED
    BY <1>1, <2>1 DEF BeginApply, All, CandidateInv, DurableTypeOK, Step, Applying, Validated
<1>2. CASE ClearCandidate \/ ForgetCopy \/ DropInstalled
  BY <1>2, RemovalsKeep
<1>3. CASE WriteFile
  BY <1>3, WriteKeeps
<1>4. CASE Shelve \/ Install \/ Restore
  BY <1>4, RenamesKeep
<1>5. CASE Validate \/ ValidateThrows
  <2>1. Loaded \in Version \/ Apply \notin DOMAIN tree["candidate"]
    <3>1. at = "validate" /\ tree["candidate"] = TreeOf(version) /\ version \in Version
      BY <1>5 DEF Validate, ValidateThrows, CandidateInv, Applying
    <3> QED
      BY <3>1 DEF Loaded, TreeOf, CandidateInv, DurableTypeOK
  <2> QED
    BY <1>5, <2>1
    DEF Validate, ValidateThrows, CandidateInv, DurableTypeOK, Step, Applying, Validated
<1>6. CASE Look \/ BeginRollback \/ Crash
  BY <1>6 DEF Look, BeginRollback, Crash, CandidateInv, DurableTypeOK, Step, Applying, Validated
<1>7. CASE UNCHANGED vars
  BY <1>7 DEF vars, CandidateInv, DurableTypeOK, Written
<1> QED
  BY <1>1, <1>2, <1>3, <1>4, <1>5, <1>6, <1>7 DEF Next

\* An apply that returns has installed exactly its manifest, whatever it found
\* on disk and however long its process has lived (apply-snapshot.ts:102-117).
THEOREM ApplyInstallsManifest == Spec => [](DurableTypeOK) /\ ApplyInstalls
<1>1. CandidateInv => DurableTypeOK
  BY DEF CandidateInv
<1>2. CandidateInv /\ [Next]_vars =>
        [Install => \E v \in Version : v = version /\ tree'["dest"] = TreeOf(v)]_vars
  <2> SUFFICES ASSUME CandidateInv, Install
               PROVE  \E v \in Version : v = version /\ tree'["dest"] = TreeOf(v)
    OBVIOUS
  <2>1. tree'["dest"] = tree["candidate"]
    BY RenameMoves DEF Install, CandidateInv, Place
  <2> QED
    BY <2>1 DEF Install, CandidateInv, Applying, Validated
<1> QED
  BY <1>1, <1>2, CandidateInit, CandidateNext, PTL DEF Spec, ApplyInstalls

(***************************************************************************)
(* One-shot processes install only what validates                          *)
(***************************************************************************)

\* What is in p, if anything, is of one version that validates.
SoundAt(p) ==
  tree[p] # NoDir => \E v \in Sound : \A f \in DOMAIN tree[p] : tree[p][f] = v

SoundInv ==
  /\ CandidateInv
  /\ SoundAt("dest")
  /\ SoundAt("bak")
  /\ at \in Validated => version \in Sound
  /\ at \notin Validated => cache = None

\* Removals leave a sound place sound.
LEMMA RemovalKeepsSound ==
  ASSUME CandidateInv, NEW p \in Place, NEW next \in Step, Remove(p, next),
         NEW q \in Place, SoundAt(q)
  PROVE  SoundAt(q)'
<1>1. DurableTypeOK
  BY DEF CandidateInv
<1>2. CASE q = p
  BY <1>1, <1>2, RemoveShrinks DEF SoundAt
<1>3. CASE q # p
  <2>1. tree'[q] = tree[q]
    BY <1>1, <1>3, RemoveShrinks
  <2> QED
    BY <2>1 DEF SoundAt
<1> QED
  BY <1>2, <1>3

\* The candidate of a validated apply is sound.
LEMMA CandidateSound ==
  ASSUME SoundInv, at \in Validated
  PROVE  SoundAt("candidate")
BY DEF SoundInv, CandidateInv, SoundAt, TreeOf

\* Every step of a one-shot process keeps what is installed, and the copy,
\* sound (apply-snapshot.ts:108-117 and 127-128).
LEMMA SoundNext ==
  ASSUME ~Resident
  PROVE  SoundInv /\ [Next]_vars => SoundInv'
<1> SUFFICES ASSUME SoundInv, [Next]_vars PROVE SoundInv'
  OBVIOUS
<1> USE DEF Place, Step, Validated
<1>1. CandidateInv /\ CandidateInv'
  BY CandidateNext DEF SoundInv
<1>2. CASE ClearCandidate \/ ForgetCopy \/ DropInstalled
  <2>1. SoundAt("dest")' /\ SoundAt("bak")'
    BY <1>1, <1>2, RemovalKeepsSound DEF ClearCandidate, ForgetCopy, DropInstalled, SoundInv
  <2>2. /\ version' = version /\ cache' = cache
        /\ at' \in Validated => at \in Validated
        /\ at' \notin Validated => at \notin Validated
    BY <1>2 DEF ClearCandidate, ForgetCopy, DropInstalled, Remove
  <2> QED
    BY <1>1, <2>1, <2>2 DEF SoundInv
<1>3. CASE Shelve
  <2>1. tree'["bak"] = tree["dest"] /\ tree'["dest"] = NoDir
    BY <1>1, <1>3, RenameMoves DEF Shelve, CandidateInv
  <2> QED
    BY <1>1, <1>3, <2>1 DEF Shelve, SoundInv, SoundAt
<1>4. CASE Install
  <2>1. tree'["dest"] = tree["candidate"] /\ tree'["bak"] = tree["bak"]
    BY <1>1, <1>4, RenameMoves DEF Install, CandidateInv
  <2>2. SoundAt("candidate")
    BY <1>4, CandidateSound DEF Install
  <2> QED
    BY <1>1, <1>4, <2>1, <2>2 DEF Install, Return, SoundInv, SoundAt
<1>5. CASE Restore
  <2>1. tree'["dest"] = tree["bak"] /\ tree'["bak"] = NoDir
    BY <1>1, <1>5, RenameMoves DEF Restore, CandidateInv
  <2> QED
    BY <1>1, <1>5, <2>1 DEF Restore, Return, SoundInv, SoundAt
<1>6. CASE WriteFile
  <2>1. tree'["dest"] = tree["dest"] /\ tree'["bak"] = tree["bak"]
    BY <1>1, <1>6 DEF WriteFile, CandidateInv, DurableTypeOK
  <2> QED
    BY <1>1, <1>6, <2>1 DEF WriteFile, SoundInv, SoundAt
<1>7. CASE Validate
  <2>1. Loaded = version
    BY <1>1, <1>7 DEF Validate, SoundInv, CandidateInv, Loaded, TreeOf
  <2> QED
    BY <1>1, <1>7, <2>1 DEF Validate, SoundInv, SoundAt
<1>8. CASE ValidateThrows \/ Look \/ BeginRollback \/ Crash
  BY <1>1, <1>8 DEF ValidateThrows, Look, BeginRollback, Crash, SoundInv, SoundAt
<1>9. ASSUME NEW v \in Version, BeginApply(v)
      PROVE  SoundInv'
  BY <1>1, <1>9 DEF BeginApply, SoundInv, SoundAt
<1>10. CASE UNCHANGED vars
  BY <1>1, <1>10 DEF vars, SoundInv, SoundAt
<1> QED
  BY <1>2, <1>3, <1>4, <1>5, <1>6, <1>7, <1>8, <1>9, <1>10 DEF Next

\* "only plugin-class accepts with load/dispose/policy checks write the
\* generated dir" (README.md:67): true of processes that end with their call,
\* killed wherever they may be (apply-snapshot.ts:102-117).
THEOREM OneShotInstallsValidated ==
  ASSUME ~Resident
  PROVE  Spec => []OnlyValidated
<1>1. Init => SoundInv
  BY CandidateInit DEF Init, SoundInv, SoundAt, Validated, Place
<1>2. SoundInv => OnlyValidated
  BY DEF SoundInv, SoundAt, OnlyValidated
<1>3. SoundInv /\ [Next]_vars => SoundInv'
  BY SoundNext
<1> QED
  BY <1>1, <1>2, <1>3, PTL DEF Spec

(***************************************************************************)
(* Without a kill there is always a whole version.  The installed          *)
(* directory is torn only while a rollback removes it, which has a whole   *)
(* copy; the copy only while an apply removes it, over a whole             *)
(* installation.                                                           *)
(***************************************************************************)

WholeOrNone(p) == tree[p] = NoDir \/ Whole(p)

WholeInv ==
  ~crashed =>
    /\ at # "drop" => WholeOrNone("dest")
    /\ at # "forget" => WholeOrNone("bak")
    /\ at \in {"forget", "shelve"} => Whole("dest")
    /\ at \in {"drop", "restore"} => Whole("bak")
    /\ at \in {"place", "restore"} => tree["dest"] = NoDir
    /\ at = "shelve" => tree["bak"] = NoDir

LEMMA WholeSame ==
  ASSUME NEW p, NEW q, tree'[p] = tree[q]
  PROVE  (Whole(q) => Whole(p)') /\ (WholeOrNone(q) => WholeOrNone(p)')
BY DEF Whole, Holds, WholeOrNone, TreeOf

\* Each step keeps this, and keeps a whole version if there was one
\* (apply-snapshot.ts:111-117 and 126-128).
LEMMA WholeNext ==
  ASSUME CandidateInv, WholeInv, [Next]_vars
  PROVE  WholeInv' /\ (~crashed' /\ HasCopy => HasCopy')
<1> USE DEF Place
<1>1. DurableTypeOK
  BY DEF CandidateInv
<1>2. CASE ForgetCopy
  <2>1. /\ at = "forget" /\ at' \in {"forget", "shelve"} /\ crashed' = crashed
        /\ tree'["dest"] = tree["dest"] /\ (at' = "shelve" => tree'["bak"] = NoDir)
    BY <1>1, <1>2, RemoveShrinks DEF ForgetCopy, Step
  <2>2. (Whole("dest") => Whole("dest")') /\ (WholeOrNone("dest") => WholeOrNone("dest")')
    BY <2>1, WholeSame
  <2>3. at' # "forget" => WholeOrNone("bak")'
    BY <2>1 DEF WholeOrNone
  <2> QED
    BY <2>1, <2>2, <2>3 DEF WholeInv, HasCopy
<1>3. CASE DropInstalled
  <2>1. /\ at = "drop" /\ at' \in {"drop", "restore"} /\ crashed' = crashed
        /\ tree'["bak"] = tree["bak"] /\ (at' = "restore" => tree'["dest"] = NoDir)
    BY <1>1, <1>3, RemoveShrinks DEF DropInstalled, Step
  <2>2. (Whole("bak") => Whole("bak")') /\ (WholeOrNone("bak") => WholeOrNone("bak")')
    BY <2>1, WholeSame
  <2>3. at' # "drop" => WholeOrNone("dest")'
    BY <2>1 DEF WholeOrNone
  <2> QED
    BY <2>1, <2>2, <2>3 DEF WholeInv, HasCopy
<1>4. CASE Shelve
  <2>1. /\ at = "shelve" /\ at' = "place" /\ crashed' = crashed
        /\ tree'["bak"] = tree["dest"] /\ tree'["dest"] = NoDir
    BY <1>1, <1>4, RenameMoves DEF Shelve
  <2>2. (Whole("dest") => Whole("bak")') /\ (WholeOrNone("dest") => WholeOrNone("bak")')
    BY <2>1, WholeSame
  <2>3. WholeOrNone("dest")'
    BY <2>1 DEF WholeOrNone
  <2> QED
    BY <2>1, <2>2, <2>3 DEF WholeInv, HasCopy
<1>5. CASE Install
  <2>1. /\ at = "place" /\ at' = "idle" /\ crashed' = crashed
        /\ tree'["dest"] = tree["candidate"] /\ tree'["bak"] = tree["bak"]
    BY <1>1, <1>5, RenameMoves DEF Install, Return
  <2>2. (Whole("candidate") => Whole("dest")') /\ (WholeOrNone("bak") => WholeOrNone("bak")')
    BY <2>1, WholeSame
  <2>3. Whole("candidate")
    BY <2>1 DEF CandidateInv, Applying, Validated, Whole, Holds
  <2>4. WholeOrNone("dest")'
    BY <2>2, <2>3 DEF WholeOrNone
  <2> QED
    BY <2>1, <2>2, <2>3, <2>4 DEF WholeInv, HasCopy
<1>6. CASE Restore
  <2>1. /\ at = "restore" /\ at' = "idle" /\ crashed' = crashed
        /\ tree'["dest"] = tree["bak"] /\ tree'["bak"] = NoDir
    BY <1>1, <1>6, RenameMoves DEF Restore, Return
  <2>2. (Whole("bak") => Whole("dest")') /\ (WholeOrNone("bak") => WholeOrNone("dest")')
    BY <2>1, WholeSame
  <2>3. WholeOrNone("bak")'
    BY <2>1 DEF WholeOrNone
  <2> QED
    BY <2>1, <2>2, <2>3 DEF WholeInv, HasCopy
<1>7. ASSUME tree'["dest"] = tree["dest"], tree'["bak"] = tree["bak"], ~crashed' => ~crashed,
             at' \in {"forget", "place"} => at' = at \/ at = "look",
             at' = "drop" => at' = at \/ at = "idle",
             at' \in {"shelve", "restore"} => at' = at,
             at \notin {"forget", "drop", "shelve", "restore", "place"} \/ at' = at \/ crashed',
             at = "look" /\ at' = "forget" => tree["dest"] # NoDir,
             at = "look" /\ at' = "place" => tree["dest"] = NoDir,
             at = "idle" /\ at' = "drop" => tree["bak"] # NoDir
      PROVE  WholeInv' /\ (~crashed' /\ HasCopy => HasCopy')
  <2>1. /\ (Whole("dest") => Whole("dest")') /\ (WholeOrNone("dest") => WholeOrNone("dest")')
        /\ (Whole("bak") => Whole("bak")') /\ (WholeOrNone("bak") => WholeOrNone("bak")')
    BY <1>7, WholeSame
  <2>2. WholeOrNone("dest") /\ tree["dest"] # NoDir => Whole("dest")
    BY DEF WholeOrNone
  <2>3. WholeOrNone("bak") /\ tree["bak"] # NoDir => Whole("bak")
    BY DEF WholeOrNone
  <2>4. WholeInv'
    BY <1>7, <2>1, <2>2, <2>3 DEF WholeInv
  <2> QED
    BY <2>1, <2>4 DEF HasCopy
<1>8. CASE ClearCandidate
  <2>1. tree'["dest"] = tree["dest"] /\ tree'["bak"] = tree["bak"] /\ at' \in {"clear", "write"}
    BY <1>1, <1>8, RemoveShrinks DEF ClearCandidate, Step
  <2> QED
    BY <1>7, <1>8, <2>1 DEF ClearCandidate
<1>9. CASE WriteFile
  <2>1. tree'["dest"] = tree["dest"] /\ tree'["bak"] = tree["bak"]
    BY <1>1, <1>9 DEF WriteFile, DurableTypeOK
  <2>2. at = "write" /\ at' \in {"validate", "write"} /\ crashed' = crashed
    BY <1>9 DEF WriteFile
  <2> QED
    BY <1>7, <2>1, <2>2
<1>10. CASE Validate \/ ValidateThrows
  BY <1>7, <1>10 DEF Validate, ValidateThrows
<1>11. CASE Look
  BY <1>7, <1>11 DEF Look
<1>12. CASE BeginRollback
  BY <1>7, <1>12 DEF BeginRollback
<1>13. CASE Crash
  BY <1>7, <1>13 DEF Crash
<1>14. CASE \E v \in Version : BeginApply(v)
  BY <1>7, <1>14 DEF BeginApply
<1>15. CASE UNCHANGED vars
  BY <1>7, <1>15 DEF vars
<1> QED
  BY <1>2, <1>3, <1>4, <1>5, <1>6, <1>8, <1>9, <1>10, <1>11, <1>12, <1>13, <1>14, <1>15 DEF Next

\* While no process has been killed, an installed plugin is never without a
\* whole version, in any order of applies, refusals and rollbacks and however
\* long their process lives (apply-snapshot.ts:111-117 and 126-128).
THEOREM WholeVersionKept == Spec => NeverLost
<1>1. Init => CandidateInv /\ WholeInv
  BY CandidateInit DEF Init, WholeInv, WholeOrNone, Place
<1>2. CandidateInv /\ WholeInv /\ [Next]_vars => CandidateInv' /\ WholeInv'
  BY CandidateNext, WholeNext
<1>3. CandidateInv /\ WholeInv /\ [Next]_vars => [~crashed' /\ HasCopy => HasCopy']_vars
  BY WholeNext
<1> QED
  BY <1>1, <1>2, <1>3, PTL DEF Spec, NeverLost
=============================================================================
