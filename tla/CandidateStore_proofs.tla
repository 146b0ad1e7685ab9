------------------------ MODULE CandidateStore_proofs ------------------------
(***************************************************************************)
(* Theorems about CandidateStore: a manifest can always be rolled back, and *)
(* applying and rolling back a file at a time, whatever is killed between   *)
(* two files, implements AtomicCandidates.                                  *)
(***************************************************************************)

EXTENDS CandidateStore, SequenceTheorems, TLAPS

(***************************************************************************)
(* Sequences                                                               *)
(***************************************************************************)

\* What is left of the history when its last candidate is rolled back.
LEMMA FrontSeq ==
  ASSUME NEW S, NEW s \in Seq(S), s # <<>>
  PROVE  Front(s) \in Seq(S)
BY DEF Front

LEMMA FrontFacts ==
  ASSUME NEW S, NEW s \in Seq(S), s # <<>>
  PROVE  Len(Front(s)) = Len(s) - 1 /\ \A k \in 1..Len(s) - 1 : Front(s)[k] = s[k]
<1>1. Len(s) \in Nat /\ Len(s) > 0 /\ \A k \in 1..Len(s) : s[k] \in S
  OBVIOUS
<1>2. \A k \in 1..Len(s) - 1 : s[k] \in S
  BY <1>1
<1> DEFINE n == Len(s) - 1
<1>3. n \in Int /\ 1 \in Int
  BY <1>1
<1> HIDE DEF n
<1>4. /\ Len(SubSeq(s, 1, n)) = IF 1 <= n THEN n - 1 + 1 ELSE 0
      /\ \A k \in 1..n - 1 + 1 : SubSeq(s, 1, n)[k] = s[1 + k - 1]
  BY <1>2, <1>3, SubSeqProperties DEF n
<1>5. Front(s) = SubSeq(s, 1, n)
  BY DEF n, Front
<1>6. Len(Front(s)) = n /\ \A k \in 1..n : Front(s)[k] = s[k]
  <2>1. n >= 0 /\ n \in Int
    BY <1>1 DEF n
  <2>2. n - 1 + 1 = n /\ \A k \in 1..n : 1 + k - 1 = k
    BY <2>1
  <2> QED
    BY <1>4, <1>5, <2>1, <2>2
<1> QED
  BY <1>6 DEF n

LEMMA AppendFacts ==
  ASSUME NEW S, NEW s \in Seq(S), NEW x \in S
  PROVE  /\ Append(s, x) \in Seq(S)
         /\ Len(Append(s, x)) = Len(s) + 1
         /\ \A k \in 1..Len(s) : Append(s, x)[k] = s[k]
         /\ Append(s, x)[Len(s) + 1] = x
OBVIOUS

LEMMA ElementOf ==
  ASSUME NEW S, NEW s \in Seq(S)
  PROVE  Len(s) \in Nat /\ \A k \in 1..Len(s) : s[k] \in S
OBVIOUS

\* A candidate gives contents to paths.
LEMMA CandidateFacts ==
  ASSUME NEW c \in Candidate
  PROVE  /\ Len(c) \in Nat
         /\ \A k \in 1..Len(c) : c[k].file \in File /\ c[k].content \in Content
<1>1. c \in Seq([file : File, content : Content])
  BY CandidateAssumption
<1>2. Len(c) \in Nat /\ \A k \in 1..Len(c) : c[k] \in [file : File, content : Content]
  BY <1>1, ElementOf
<1> QED
  BY <1>2

\* A manifest names paths, and holds what they read as.
LEMMA ManifestFacts ==
  ASSUME NEW m \in Manifest
  PROVE  /\ m.files \in Seq(File) /\ m.parts \in Seq(Body)
         /\ Len(m.files) \in Nat
         /\ \A k \in 1..Len(m.files) : m.files[k] \in File
BY DEF Manifest

\* What a path reads as (apply-candidate.ts:40-46).
LEMMA ReadFacts ==
  ASSUME NEW b \in Body \cup {Absent}
  PROVE  Read(b) \in Body /\ Read(b) # Absent /\ (b \in Body => Read(b) = b)
BY CandidateAssumption DEF Read, Body

(***************************************************************************)
(* What holds between two file operations.  An apply has written some of   *)
(* its files, and holds of each the copy of what the tree had before it; a *)
(* rollback has restored some, from the copies.  All others are as the     *)
(* call found them.                                                        *)
(***************************************************************************)

Written == IF at = "write" THEN Len(parts) - 1 ELSE Len(parts)

Resting == at = "idle" => id = None /\ parts = <<>> /\ cand = <<>> /\ settled = Tree(disk)

Shipment == \A i \in Shipped : manifest[i] = Example /\ \A f \in File : copy[i][f] = Absent

Applying == at \in {"keep", "write"} =>
  /\ id \in Id /\ cand \in Candidate /\ manifest[id] = None
  /\ Len(parts) <= Len(cand) /\ (at = "write" => parts # <<>>)
  /\ \A k \in 1..Len(parts) :
       copy[id][cand[k].file] = parts[k] /\ parts[k] = settled[cand[k].file]
  /\ \A k \in 1..Written : disk[cand[k].file] = cand[k].content
  /\ \A f \in File : (\A k \in 1..Written : cand[k].file # f) => Read(disk[f]) = settled[f]

Restoring == at = "restore" =>
  /\ id \in Id /\ cand = <<>> /\ manifest[id] # None
  /\ Len(parts) <= Len(manifest[id].files)
  /\ id \in Shipped => parts = <<>>
  /\ \A k \in 1..Len(parts) :
       /\ parts[k] = copy[id][manifest[id].files[k]]
       /\ disk[manifest[id].files[k]] = copy[id][manifest[id].files[k]]
  /\ \A f \in File :
       (\A k \in 1..Len(parts) : manifest[id].files[k] # f) => Read(disk[f]) = settled[f]

CandidateInv ==
  /\ CandidateTypeOK
  /\ Resting /\ Shipment /\ Applying /\ Restoring
  /\ ManifestsRestore

LEMMA CandidateInit == Init => CandidateInv
<1> SUFFICES ASSUME Init PROVE CandidateInv
  OBVIOUS
<1> USE CandidateAssumption DEF Init
<1>1. disk \in [File -> Body \cup {Absent}]
  BY DEF Body
<1>2. Tree(disk) \in [File -> Body]
  BY <1>1, ReadFacts DEF Tree
<1>3. CandidateTypeOK
  BY <1>1, <1>2 DEF CandidateTypeOK
<1> QED
  BY <1>3 DEF CandidateInv, Resting, Shipment, Applying, Restoring, ManifestsRestore

\* A call that ends leaves the tree as it is (its disk, copies and manifests
\* being what they were).
LEMMA BreakOffKeeps ==
  ASSUME CandidateInv, BreakOff
  PROVE  CandidateInv'
<1>1. Tree(disk) \in [File -> Body]
  BY ReadFacts DEF CandidateInv, CandidateTypeOK, Tree
<1>2. Tree(disk)' = Tree(disk)
  BY DEF BreakOff, Tree
<1>3. CandidateTypeOK'
  <2>1. settled' \in [File -> Body]
    BY <1>1, <1>2 DEF BreakOff, Return
  <2>2. parts' \in Seq(Body) /\ trail' \in Seq([id : Id, tree : [File -> Body]])
    BY DEF BreakOff, Return
  <2> QED
    BY <2>1, <2>2 DEF CandidateInv, CandidateTypeOK, BreakOff, Return
<1>4. ManifestsRestore' /\ Shipment'
  BY DEF CandidateInv, ManifestsRestore, Shipment, BreakOff
<1> QED
  BY <1>2, <1>3, <1>4 DEF CandidateInv, BreakOff, Return, Resting, Applying, Restoring

(***************************************************************************)
(* The steps of applyCandidate                                             *)
(***************************************************************************)

LEMMA BeginApplyKeeps ==
  ASSUME CandidateInv, NEW i \in Id, NEW c \in Candidate, BeginApply(i, c)
  PROVE  CandidateInv'
<1> USE DEF BeginApply
<1>1. Len(c) \in Nat
  BY CandidateFacts
<1>2. at = "idle" /\ parts = <<>> /\ settled = Tree(disk) /\ manifest[i] = None
  BY DEF CandidateInv, Resting, Unused
<1>3. CandidateTypeOK'
  BY DEF CandidateInv, CandidateTypeOK
<1>4. Applying'
  <2>1. Written' = 0
    BY <1>2 DEF Written
  <2>2. \A f \in File : Read(disk[f])' = settled'[f]
    BY <1>2 DEF Tree, Read
  <2> QED
    BY <1>1, <1>2, <2>1, <2>2 DEF Applying
<1>5. ManifestsRestore' /\ Shipment'
  BY DEF CandidateInv, ManifestsRestore, Shipment
<1> QED
  BY <1>3, <1>4, <1>5 DEF CandidateInv, Resting, Restoring

\* The file read is not one this call has written: a candidate names a path
\* once.
LEMMA NextUnwritten ==
  ASSUME CandidateInv, at = "keep", Len(parts) < Len(cand)
  PROVE  /\ NextFile \in File
         /\ Len(parts) + 1 \in 1..Len(cand)
         /\ \A k \in 1..Len(parts) : cand[k].file # NextFile
         /\ Read(disk[NextFile]) = settled[NextFile]
<1>1. cand \in Candidate /\ Len(parts) \in Nat
  BY ElementOf DEF CandidateInv, CandidateTypeOK, Applying
<1>2. Len(cand) \in Nat /\ \A k \in 1..Len(cand) : cand[k].file \in File
  BY <1>1, CandidateFacts
<1>3. Len(parts) + 1 \in 1..Len(cand)
  BY <1>1, <1>2
<1>4. \A k, l \in 1..Len(cand) : cand[k].file = cand[l].file => k = l
  BY <1>1, CandidateAssumption
<1>5. \A k \in 1..Len(parts) : cand[k].file # NextFile
  BY <1>1, <1>2, <1>3, <1>4 DEF NextFile
<1>6. NextFile \in File
  BY <1>2, <1>3 DEF NextFile
<1> QED
  BY <1>3, <1>5, <1>6 DEF CandidateInv, Applying, Written

LEMMA KeepParentKeeps ==
  ASSUME CandidateInv, KeepParent
  PROVE  CandidateInv'
<1> USE DEF KeepParent, Saved
<1> DEFINE f0 == NextFile
           b0 == Read(disk[f0])
<1>1. /\ f0 \in File /\ Len(parts) + 1 \in 1..Len(cand)
      /\ \A k \in 1..Len(parts) : cand[k].file # f0
      /\ b0 = settled[f0]
  BY NextUnwritten
<1>2. id \in Id /\ id \notin Shipped /\ manifest[id] = None /\ cand \in Candidate
  BY CandidateAssumption DEF CandidateInv, Applying, Shipment
<1>3. b0 \in Body /\ parts \in Seq(Body) /\ copy \in [Id -> [File -> Body \cup {Absent}]]
  BY <1>1, ReadFacts DEF CandidateInv, CandidateTypeOK
<1> HIDE DEF f0, b0
<1>4. /\ copy' = [copy EXCEPT ![id][f0] = b0] /\ parts' = Append(parts, b0)
      /\ at = "keep" /\ at' = "write"
      /\ UNCHANGED <<disk, manifest, id, cand, settled, trail, whole>>
  BY DEF f0, b0
<1>5. f0 = cand[Len(parts) + 1].file
  BY DEF f0, NextFile
<1>6. /\ parts' \in Seq(Body) /\ Len(parts') = Len(parts) + 1 /\ Len(parts) \in Nat
      /\ \A k \in 1..Len(parts) : parts'[k] = parts[k]
      /\ parts'[Len(parts) + 1] = b0
  BY <1>3, <1>4, AppendFacts, ElementOf
<1>7. copy' \in [Id -> [File -> Body \cup {Absent}]]
  <2>1. copy' = [copy EXCEPT ![id] = [copy[id] EXCEPT ![f0] = b0]]
    BY <1>4
  <2>2. [copy[id] EXCEPT ![f0] = b0] \in [File -> Body \cup {Absent}]
    <3>1. copy[id] \in [File -> Body \cup {Absent}] /\ b0 \in Body \cup {Absent}
      BY <1>2, <1>3
    <3> QED
      BY <1>1, <3>1
  <2> HIDE DEF KeepParent
  <2> QED
    BY <1>2, <1>3, <2>1, <2>2
<1>8. CandidateTypeOK'
  BY <1>4, <1>6, <1>7 DEF CandidateInv, CandidateTypeOK
<1>9. /\ \A i \in Id \ {id} : copy'[i] = copy[i]
      /\ copy'[id][f0] = b0
      /\ \A f \in File \ {f0} : copy'[id][f] = copy[id][f]
  BY <1>1, <1>2, <1>3, <1>4
<1>10. Shipment' /\ ManifestsRestore'
  <2>1. Shipment'
    BY <1>2, <1>4, <1>9, CandidateAssumption DEF CandidateInv, Shipment
  <2>2. ManifestsRestore'
    BY <1>2, <1>4, <1>9 DEF CandidateInv, ManifestsRestore
  <2> QED
    BY <2>1, <2>2
<1>11. Applying'
  <2>1. Written' = Len(parts) /\ Written = Len(parts)
    BY <1>4, <1>6 DEF Written
  <2>2. \A k \in 1..Len(cand) : cand[k].file \in File
    BY <1>2, CandidateFacts
  <2>3. \A k \in 1..Len(parts') :
          copy'[id][cand[k].file] = parts'[k] /\ parts'[k] = settled[cand[k].file]
    <3> SUFFICES ASSUME NEW k \in 1..Len(parts')
                 PROVE  copy'[id][cand[k].file] = parts'[k] /\ parts'[k] = settled[cand[k].file]
      OBVIOUS
    <3>1. CASE k = Len(parts) + 1
      BY <3>1, <1>1, <1>5, <1>6, <1>9
    <3>2. CASE k # Len(parts) + 1
      <4>1. k \in 1..Len(parts) /\ k \in 1..Len(cand)
        BY <3>2, <1>1, <1>6
      <4>2. copy[id][cand[k].file] = parts[k] /\ parts[k] = settled[cand[k].file]
        BY <4>1, <1>4 DEF CandidateInv, Applying
      <4>3. cand[k].file \in File \ {f0}
        BY <4>1, <2>2, <1>1
      <4> QED
        BY <4>1, <4>2, <4>3, <1>6, <1>9
    <3> QED
      BY <3>1, <3>2
  <2>4. /\ \A k \in 1..Len(parts) : disk[cand[k].file] = cand[k].content
        /\ \A f \in File :
             (\A k \in 1..Len(parts) : cand[k].file # f) => Read(disk[f]) = settled[f]
    BY <1>4, <2>1 DEF CandidateInv, Applying
  <2>5. \A f \in File : Read(disk[f])' = Read(disk[f])
    BY <1>4 DEF Read
  <2>6. Len(parts') <= Len(cand) /\ parts' # <<>>
    BY <1>1, <1>6
  <2> QED
    BY <1>2, <1>4, <2>1, <2>3, <2>4, <2>5, <2>6 DEF Applying
<1> QED
  BY <1>4, <1>8, <1>10, <1>11 DEF CandidateInv, Resting, Restoring

LEMMA WriteFileKeeps ==
  ASSUME CandidateInv, WriteFile
  PROVE  CandidateInv'
<1> DEFINE n == Len(parts)
           f0 == cand[n].file
           b0 == cand[n].content
<1>1. /\ id \in Id /\ cand \in Candidate /\ manifest[id] = None /\ parts \in Seq(Body)
      /\ disk \in [File -> Body \cup {Absent}]
  BY DEF CandidateInv, CandidateTypeOK, Applying, WriteFile
<1>2. n \in 1..Len(cand)
  <2>1. n \in Nat /\ n # 0 /\ n <= Len(cand)
    BY <1>1 DEF CandidateInv, Applying, WriteFile
  <2>2. Len(cand) \in Nat
    BY <1>1, CandidateFacts
  <2> QED
    BY <2>1, <2>2
<1>3. f0 \in File /\ b0 \in Content
  BY <1>1, <1>2, CandidateFacts
<1> HIDE DEF f0, b0, n
<1>4. /\ disk' = [disk EXCEPT ![f0] = b0] /\ at = "write" /\ at' = "keep"
      /\ UNCHANGED <<copy, manifest, id, cand, parts, settled, trail, whole>>
  BY DEF WriteFile, f0, b0, n
<1>5. CandidateTypeOK'
  <2>1. disk' \in [File -> Body \cup {Absent}]
    BY <1>1, <1>3, <1>4 DEF Body
  <2> QED
    BY <1>4, <2>1 DEF CandidateInv, CandidateTypeOK
<1>6. disk'[f0] = b0 /\ \A f \in File \ {f0} : disk'[f] = disk[f]
  BY <1>1, <1>3, <1>4
<1>7. Applying'
  <2>1. Written' = n /\ Written = n - 1
    BY <1>4 DEF Written, n
  <2>2. \A k \in 1..n : disk'[cand[k].file] = cand[k].content
    <3> SUFFICES ASSUME NEW k \in 1..n PROVE disk'[cand[k].file] = cand[k].content
      OBVIOUS
    <3>1. CASE k = n
      BY <3>1, <1>6 DEF f0, b0
    <3>2. CASE k # n
      <4>1. k \in 1..(n - 1) /\ k \in 1..Len(cand)
        BY <3>2, <1>2
      <4>2. cand[k].file # f0
        BY <4>1, <1>1, <1>2, <3>2, CandidateAssumption DEF f0
      <4>3. disk[cand[k].file] = cand[k].content
        BY <4>1, <2>1, <1>4 DEF CandidateInv, Applying
      <4>4. cand[k].file \in File
        BY <4>1, <1>1, CandidateFacts
      <4> QED
        BY <4>2, <4>3, <4>4, <1>6
    <3> QED
      BY <3>1, <3>2
  <2>3. \A f \in File : (\A k \in 1..n : cand[k].file # f) => Read(disk[f])' = settled[f]
    <3> SUFFICES ASSUME NEW f \in File, \A k \in 1..n : cand[k].file # f
                 PROVE  Read(disk[f])' = settled[f]
      OBVIOUS
    <3>1. f # f0
      BY <1>2 DEF f0
    <3>2. \A k \in 1..(n - 1) : cand[k].file # f
      BY <1>2
    <3>3. Read(disk[f]) = settled[f]
      BY <2>1, <3>2, <1>4 DEF CandidateInv, Applying
    <3> QED
      BY <3>1, <3>3, <1>6 DEF Read
  <2>4. /\ Len(parts) <= Len(cand)
        /\ \A k \in 1..Len(parts) :
             copy[id][cand[k].file] = parts[k] /\ parts[k] = settled[cand[k].file]
    BY <1>4 DEF CandidateInv, Applying
  <2> QED
    BY <1>1, <1>4, <2>1, <2>2, <2>3, <2>4 DEF Applying
<1>8. ManifestsRestore' /\ Shipment'
  BY <1>4 DEF CandidateInv, ManifestsRestore, Shipment
<1> QED
  BY <1>4, <1>5, <1>7, <1>8 DEF CandidateInv, Resting, Restoring

\* The manifest an apply writes.
LEMMA NewManifest ==
  ASSUME CandidateInv, WriteManifest
  PROVE  /\ id \in Id /\ id \notin Shipped /\ cand \in Candidate
         /\ Len(cand) = Len(parts) /\ Len(cand) \in Nat
         /\ manifest'[id] = [files |-> [k \in 1..Len(cand) |-> cand[k].file], parts |-> parts]
         /\ manifest'[id] \in Manifest
         /\ Len(manifest'[id].files) = Len(cand)
         /\ \A i \in Id \ {id} : manifest'[i] = manifest[i]
<1>1. /\ id \in Id /\ id \notin Shipped /\ cand \in Candidate /\ Len(cand) = Len(parts)
      /\ parts \in Seq(Body) /\ manifest \in [Id -> Manifest \cup {None}]
  BY CandidateAssumption DEF CandidateInv, CandidateTypeOK, Applying, Shipment, WriteManifest
<1>2. Len(cand) \in Nat /\ \A k \in 1..Len(cand) : cand[k].file \in File
  BY <1>1, CandidateFacts
<1> DEFINE s == [k \in 1..Len(cand) |-> cand[k].file]
<1>3. s \in Seq(File) /\ Len(s) = Len(cand)
  BY <1>2
<1> HIDE DEF s
<1>4. manifest' = [manifest EXCEPT ![id] = [files |-> s, parts |-> parts]]
  BY DEF WriteManifest, Hashed, s
<1>5. [files |-> s, parts |-> parts] \in Manifest
  BY <1>1, <1>3 DEF Manifest
<1>6. manifest'[id] = [files |-> s, parts |-> parts]
  BY <1>1, <1>4
<1> QED
  BY <1>1, <1>2, <1>3, <1>4, <1>5, <1>6 DEF s

LEMMA WriteManifestKeeps ==
  ASSUME CandidateInv, WriteManifest
  PROVE  CandidateInv'
<1>1. /\ UNCHANGED <<disk, copy>> /\ at' = "idle" /\ id' = None /\ cand' = <<>>
      /\ parts' = <<>> /\ settled' = Tree(disk') /\ whole' = TRUE
      /\ trail' = Append(trail, [id |-> id, tree |-> settled]) /\ at = "keep"
  BY DEF WriteManifest, Return
<1>2. CandidateTypeOK'
  <2>1. Tree(disk') \in [File -> Body]
    BY <1>1, ReadFacts DEF CandidateInv, CandidateTypeOK, Tree
  <2>2. trail' \in Seq([id : Id, tree : [File -> Body]])
    <3>1. [id |-> id, tree |-> settled] \in [id : Id, tree : [File -> Body]]
      BY NewManifest DEF CandidateInv, CandidateTypeOK
    <3> QED
      BY <1>1, <3>1, AppendFacts DEF CandidateInv, CandidateTypeOK
  <2>3. manifest' \in [Id -> Manifest \cup {None}]
    <3>1. manifest' = [manifest EXCEPT ![id] = manifest'[id]] /\ manifest'[id] \in Manifest
      BY NewManifest DEF WriteManifest, CandidateInv, CandidateTypeOK
    <3> QED
      BY <3>1, NewManifest DEF CandidateInv, CandidateTypeOK
  <2>4. parts' \in Seq(Body)
    BY <1>1
  <2> QED
    BY <1>1, <2>1, <2>2, <2>3, <2>4 DEF CandidateInv, CandidateTypeOK
<1>3. Shipment'
  BY <1>1, NewManifest, CandidateAssumption DEF CandidateInv, Shipment
<1>4. ManifestsRestore'
  <2> SUFFICES ASSUME NEW i \in Id \ Shipped, manifest'[i] # None
               PROVE  /\ Len(manifest'[i].parts) = Len(manifest'[i].files)
                      /\ \A k \in 1..Len(manifest'[i].files) :
                           copy'[i][manifest'[i].files[k]] = manifest'[i].parts[k]
    BY DEF ManifestsRestore
  <2>1. CASE i = id
    <3>1. \A k \in 1..Len(cand) : copy[id][cand[k].file] = parts[k]
      BY <1>1, NewManifest DEF CandidateInv, Applying
    <3> QED
      BY <2>1, <3>1, <1>1, NewManifest
  <2>2. CASE i # id
    BY <2>2, <1>1, NewManifest DEF CandidateInv, ManifestsRestore
  <2> QED
    BY <2>1, <2>2
<1>5. Tree(disk)' = Tree(disk')
  BY DEF Tree
<1> QED
  BY <1>1, <1>2, <1>3, <1>4, <1>5 DEF CandidateInv, Resting, Applying, Restoring

(***************************************************************************)
(* The steps of rollbackCandidate, and another driver's                    *)
(***************************************************************************)

LEMMA BeginRollbackKeeps ==
  ASSUME CandidateInv, NEW i \in Id, BeginRollback(i)
  PROVE  CandidateInv'
<1> USE DEF BeginRollback
<1>1. /\ at = "idle" /\ parts = <<>> /\ cand = <<>> /\ settled = Tree(disk)
      /\ manifest[i] \in Manifest
  BY DEF CandidateInv, CandidateTypeOK, Resting
<1>2. CandidateTypeOK'
  BY DEF CandidateInv, CandidateTypeOK
<1>3. Restoring'
  <2>1. Len(parts) = 0 /\ Len(manifest[i].files) \in Nat
    BY <1>1, ManifestFacts
  <2>2. \A f \in File : Read(disk[f])' = settled'[f]
    BY <1>1 DEF Tree, Read
  <2> QED
    BY <1>1, <2>1, <2>2 DEF Restoring
<1> QED
  BY <1>2, <1>3 DEF CandidateInv, ManifestsRestore, Shipment, Resting, Applying

\* A file is restored from the copy its candidate made.
LEMMA RestoreFacts ==
  ASSUME CandidateInv, RestoreFile
  PROVE  /\ id \in Id /\ id \notin Shipped /\ manifest[id] \in Manifest
         /\ Len(parts) \in Nat /\ Len(manifest[id].files) \in Nat
         /\ Len(parts) + 1 \in 1..Len(manifest[id].files)
         /\ NextRestored = manifest[id].files[Len(parts) + 1] /\ NextRestored \in File
         /\ copy[id][NextRestored] \in Body
<1>1. /\ id \in Id /\ manifest[id] \in Manifest /\ parts \in Seq(Body)
      /\ copy \in [Id -> [File -> Body \cup {Absent}]]
  BY DEF CandidateInv, CandidateTypeOK, Restoring, RestoreFile
<1>2. Len(parts) \in Nat /\ Len(manifest[id].files) \in Nat
  BY <1>1, ElementOf, ManifestFacts
<1>3. Len(parts) + 1 \in 1..Len(manifest[id].files)
  BY <1>2 DEF RestoreFile
<1>4. NextRestored = manifest[id].files[Len(parts) + 1] /\ NextRestored \in File
  BY <1>1, <1>3, ManifestFacts DEF NextRestored
<1>5. copy[id][NextRestored] # Absent
  BY DEF RestoreFile
<1>6. copy[id][NextRestored] \in Body /\ id \notin Shipped
  BY <1>1, <1>4, <1>5 DEF CandidateInv, Shipment
<1> QED
  BY <1>1, <1>2, <1>3, <1>4, <1>6

LEMMA RestoreFileKeeps ==
  ASSUME CandidateInv, RestoreFile
  PROVE  CandidateInv'
<1> DEFINE f0 == NextRestored
           b0 == copy[id][f0]
           fs == manifest[id].files
<1>1. /\ id \in Id /\ id \notin Shipped /\ manifest[id] \in Manifest
      /\ Len(parts) \in Nat /\ Len(fs) \in Nat
      /\ Len(parts) + 1 \in 1..Len(fs)
      /\ f0 = fs[Len(parts) + 1] /\ f0 \in File /\ b0 \in Body
  BY RestoreFacts
<1>2. /\ disk' = [disk EXCEPT ![f0] = b0] /\ parts' = Append(parts, b0)
      /\ at = "restore" /\ UNCHANGED <<copy, manifest, at, id, cand, settled, trail, whole>>
  BY DEF RestoreFile, Restore
<1>3. parts \in Seq(Body) /\ disk \in [File -> Body \cup {Absent}]
  BY DEF CandidateInv, CandidateTypeOK
<1> HIDE DEF f0
<1>4. /\ parts' \in Seq(Body) /\ Len(parts') = Len(parts) + 1
      /\ \A k \in 1..Len(parts) : parts'[k] = parts[k]
      /\ parts'[Len(parts) + 1] = b0
  BY <1>1, <1>2, <1>3, AppendFacts
<1>5. disk' \in [File -> Body \cup {Absent}]
  BY <1>1, <1>2, <1>3
<1>6. disk'[f0] = b0 /\ \A f \in File \ {f0} : disk'[f] = disk[f]
  BY <1>1, <1>2, <1>3
<1>7. CandidateTypeOK'
  BY <1>2, <1>4, <1>5 DEF CandidateInv, CandidateTypeOK
<1>8. Restoring'
  <2>1. \A k \in 1..Len(parts') : parts'[k] = copy[id][fs[k]] /\ disk'[fs[k]] = copy[id][fs[k]]
    <3> SUFFICES ASSUME NEW k \in 1..Len(parts')
                 PROVE  parts'[k] = copy[id][fs[k]] /\ disk'[fs[k]] = copy[id][fs[k]]
      OBVIOUS
    <3>1. CASE k = Len(parts) + 1
      BY <3>1, <1>1, <1>4, <1>6
    <3>2. CASE k # Len(parts) + 1
      <4>1. k \in 1..Len(parts) /\ k \in 1..Len(fs)
        BY <3>2, <1>1, <1>4
      <4>2. parts[k] = copy[id][fs[k]] /\ disk[fs[k]] = copy[id][fs[k]]
        BY <4>1, <1>2 DEF CandidateInv, Restoring
      <4>3. fs[k] \in File
        BY <4>1, <1>1, ManifestFacts
      <4> QED
        BY <4>1, <4>2, <4>3, <1>4, <1>6
    <3> QED
      BY <3>1, <3>2
  <2>2. \A f \in File : (\A k \in 1..Len(parts') : fs[k] # f) => Read(disk[f])' = settled[f]
    <3> SUFFICES ASSUME NEW f \in File, \A k \in 1..Len(parts') : fs[k] # f
                 PROVE  Read(disk[f])' = settled[f]
      OBVIOUS
    <3>1. f # f0 /\ \A k \in 1..Len(parts) : fs[k] # f
      BY <1>1, <1>4
    <3>2. Read(disk[f]) = settled[f]
      BY <3>1, <1>2 DEF CandidateInv, Restoring
    <3> QED
      BY <3>1, <3>2, <1>6 DEF Read
  <2>3. cand = <<>> /\ manifest[id] # None
    BY <1>2 DEF CandidateInv, Restoring
  <2>4. Len(parts') <= Len(fs)
    BY <1>1, <1>4
  <2> QED
    BY <1>1, <1>2, <2>1, <2>2, <2>3, <2>4 DEF Restoring
<1> QED
  BY <1>2, <1>7, <1>8 DEF CandidateInv, ManifestsRestore, Shipment, Resting, Applying

LEMMA CompareKeeps ==
  ASSUME CandidateInv, Compare
  PROVE  CandidateInv'
<1>1. /\ UNCHANGED <<disk, copy, manifest>> /\ at' = "idle" /\ id' = None /\ cand' = <<>>
      /\ parts' = <<>> /\ settled' = Tree(disk') /\ whole' \in BOOLEAN
  BY DEF Compare, Return, Matches
<1>2. trail' \in Seq([id : Id, tree : [File -> Body]])
  BY FrontSeq DEF Compare, CandidateInv, CandidateTypeOK
<1>3. Tree(disk') \in [File -> Body] /\ parts' \in Seq(Body)
  BY <1>1, ReadFacts DEF CandidateInv, CandidateTypeOK, Tree
<1>4. CandidateTypeOK'
  BY <1>1, <1>2, <1>3 DEF CandidateInv, CandidateTypeOK
<1>5. Tree(disk)' = Tree(disk')
  BY DEF Tree
<1>6. ManifestsRestore' /\ Shipment'
  BY <1>1 DEF CandidateInv, ManifestsRestore, Shipment
<1> QED
  BY <1>1, <1>4, <1>5, <1>6 DEF CandidateInv, Resting, Applying, Restoring

LEMMA StageKeeps ==
  ASSUME CandidateInv, NEW f \in File, NEW b \in Content, Stage(f, b)
  PROVE  CandidateInv'
<1>1. disk' = [disk EXCEPT ![f] = b] /\ settled' = Tree(disk') /\ trail' = <<>>
      /\ at = "idle" /\ UNCHANGED <<copy, manifest, at, id, cand, parts, whole>>
  BY DEF Stage
<1>2. disk' \in [File -> Body \cup {Absent}]
  BY <1>1 DEF CandidateInv, CandidateTypeOK, Body
<1>3. Tree(disk') \in [File -> Body]
  BY <1>2, ReadFacts DEF Tree
<1>4. trail' \in Seq([id : Id, tree : [File -> Body]])
  BY <1>1
<1>5. CandidateTypeOK'
  BY <1>1, <1>2, <1>3, <1>4 DEF CandidateInv, CandidateTypeOK
<1>6. Tree(disk)' = Tree(disk')
  BY DEF Tree
<1>7. ManifestsRestore' /\ Shipment'
  BY <1>1 DEF CandidateInv, ManifestsRestore, Shipment
<1> QED
  BY <1>1, <1>5, <1>6, <1>7 DEF CandidateInv, Resting, Applying, Restoring

LEMMA NextKeeps == CandidateInv /\ [Next]_vars => CandidateInv'
<1> SUFFICES ASSUME CandidateInv, [Next]_vars PROVE CandidateInv'
  OBVIOUS
<1>1. CASE \E i \in Id, c \in Candidate : BeginApply(i, c)
  BY <1>1, BeginApplyKeeps
<1>2. CASE RefuseFile \/ RestoreThrows \/ Kill
  BY <1>2, BreakOffKeeps DEF RefuseFile, RestoreThrows, Kill
<1>3. CASE KeepParent
  BY <1>3, KeepParentKeeps
<1>4. CASE WriteFile
  BY <1>4, WriteFileKeeps
<1>5. CASE WriteManifest
  BY <1>5, WriteManifestKeeps
<1>6. CASE \E i \in Id : BeginRollback(i)
  BY <1>6, BeginRollbackKeeps
<1>7. CASE RestoreFile
  BY <1>7, RestoreFileKeeps
<1>8. CASE Compare
  BY <1>8, CompareKeeps
<1>9. CASE \E f \in File \ Refused, b \in Content : Stage(f, b)
  BY <1>9, StageKeeps
<1>10. CASE UNCHANGED vars
  <2>1. Tree(disk)' = Tree(disk)
    BY <1>10 DEF vars, Tree
  <2>2. \A f \in File : Read(disk[f])' = Read(disk[f])
    BY <1>10 DEF vars, Read
  <2>3. Written' = Written
    BY <1>10 DEF vars, Written
  <2>4. CandidateTypeOK' /\ ManifestsRestore' /\ Shipment'
    BY <1>10 DEF vars, CandidateInv, CandidateTypeOK, ManifestsRestore, Shipment
  <2>5. Resting'
    BY <1>10, <2>1 DEF vars, CandidateInv, Resting
  <2>6. Applying'
    BY <1>10, <2>2, <2>3 DEF vars, CandidateInv, Applying
  <2>7. Restoring'
    BY <1>10, <2>2 DEF vars, CandidateInv, Restoring
  <2> QED
    BY <2>4, <2>5, <2>6, <2>7 DEF CandidateInv
<1> QED
  BY <1>1, <1>2, <1>3, <1>4, <1>5, <1>6, <1>7, <1>8, <1>9, <1>10 DEF Next

\* What a manifest and its copies say is true at every step of a call, and of
\* one that was killed (apply-candidate.ts:29-66, rollback-candidate.ts:6-28).
THEOREM CandidateInvariant == Spec => []CandidateInv
<1> QED
  BY CandidateInit, NextKeeps, PTL DEF Spec

\* Every variable keeps its type: the copies, the manifests and what a call has
\* read so far (apply-candidate.ts:13-67, rollback-candidate.ts:6-28).
THEOREM CandidateTypes == Spec => []CandidateTypeOK
<1>1. CandidateInv => CandidateTypeOK
  BY DEF CandidateInv
<1> QED
  BY <1>1, CandidateInvariant, PTL

\* A candidate whose manifest was written can be rolled back, whatever was
\* killed and whatever else was written since: the copies are there and have the
\* hash of the manifest (rollback-candidate.ts:13-27).
THEOREM ManifestsAlwaysRestore == Spec => []ManifestsRestore
<1>1. CandidateInv => ManifestsRestore
  BY DEF CandidateInv
<1> QED
  BY <1>1, CandidateInvariant, PTL

(***************************************************************************)
(* A step of AtomicCandidates, or of none                                  *)
(***************************************************************************)

Files(i) == {manifest[i].files[k] : k \in 1..Len(manifest[i].files)}
Given(c) == {c[k].file : k \in 1..Len(c)}
Change(c) == [f \in Given(c) |-> c[CHOOSE k \in 1..Len(c) : c[k].file = f].content]

LEMMA ParentAt ==
  ASSUME NEW i \in Id
  PROVE  /\ Parent[i] = IF manifest[i] = None \/ i \in Shipped THEN None
                        ELSE [f \in Files(i) |-> copy[i][f]]
         /\ Parent'[i] = IF manifest'[i] = None \/ i \in Shipped THEN None
                         ELSE [f \in {manifest'[i].files[k] : k \in 1..Len(manifest'[i].files)}
                                 |-> copy'[i][f]]
         /\ manifest'[i] = manifest[i] /\ copy'[i] = copy[i] => Parent'[i] = Parent[i]
         /\ manifest'[i] = manifest[i] /\ manifest[i] = None => Parent'[i] = Parent[i]
BY DEF Parent, Files

LEMMA ParentFun == Parent = [i \in Id |-> Parent[i]] /\ Parent' = [i \in Id |-> Parent'[i]]
BY DEF Parent

LEMMA ParentSame == UNCHANGED <<copy, manifest>> => UNCHANGED Parent
BY DEF Parent

\* What a candidate writes to a file.
LEMMA ChangeAt ==
  ASSUME NEW c \in Candidate
  PROVE  /\ Change(c) \in Changes
         /\ DOMAIN Change(c) = Given(c)
         /\ Given(c) \subseteq File
         /\ \A k \in 1..Len(c) : c[k].file \in Given(c) /\ Change(c)[c[k].file] = c[k].content
<1>1. Change(c) \in Changes
  BY DEF Changes, Change, Given
<1>2. Given(c) \subseteq File
  BY CandidateFacts DEF Given
<1>3. ASSUME NEW k \in 1..Len(c)
      PROVE  c[k].file \in Given(c) /\ Change(c)[c[k].file] = c[k].content
  <2>1. c[k].file \in Given(c)
    BY DEF Given
  <2> DEFINE l == CHOOSE l \in 1..Len(c) : c[l].file = c[k].file
  <2>2. l \in 1..Len(c) /\ c[l].file = c[k].file
    OBVIOUS
  <2>3. l = k
    BY <2>2, CandidateAssumption
  <2>4. Change(c)[c[k].file] = c[l].content
    BY <2>1 DEF Change
  <2> QED
    BY <2>1, <2>3, <2>4
<1> QED
  BY <1>1, <1>2, <1>3 DEF Change

\* The tree of a call that applies has what it has written, over what it found.
LEMMA AppliedTree ==
  ASSUME CandidateInv, at \in {"keep", "write"}
  PROVE  LET g == Change(cand)
             D == {cand[k].file : k \in 1..Written}
         IN  /\ D \in SUBSET DOMAIN g
             /\ Tree(disk) = Atomic!Over([f \in D |-> g[f]])
<1> DEFINE g == Change(cand)
           D == {cand[k].file : k \in 1..Written}
<1>1. cand \in Candidate /\ parts \in Seq(Body)
  BY DEF CandidateInv, CandidateTypeOK, Applying
<1>2. Len(parts) \in Nat /\ Len(cand) \in Nat /\ Len(parts) <= Len(cand)
  BY <1>1, CandidateFacts DEF CandidateInv, Applying
<1>3. \A k \in 1..Written : k \in 1..Len(cand)
  BY <1>2 DEF Written
<1>4. D \in SUBSET DOMAIN g
  BY <1>1, <1>3, ChangeAt
<1>5. ASSUME NEW f \in File
      PROVE  Read(disk[f]) = IF f \in D THEN g[f] ELSE settled[f]
  <2>1. CASE f \in D
    <3>1. PICK k \in 1..Written : f = cand[k].file
      BY <2>1
    <3>2. disk[f] = cand[k].content /\ g[f] = cand[k].content /\ cand[k].content \in Body
      BY <1>1, <1>3, <3>1, ChangeAt, CandidateFacts DEF CandidateInv, Applying, Body
    <3> QED
      BY <2>1, <3>2, ReadFacts
  <2>2. CASE f \notin D
    BY <2>2 DEF CandidateInv, Applying
  <2> QED
    BY <2>1, <2>2
<1> HIDE DEF D, g
<1>6. Tree(disk) = Atomic!Over([f \in D |-> g[f]])
  BY <1>5 DEF Tree, Atomic!Over
<1> QED
  BY <1>4, <1>6 DEF D, g

\* The tree of a call that rolls back has what it has restored, over what it
\* found.
LEMMA RestoredTree ==
  ASSUME CandidateInv, at = "restore"
  PROVE  LET D == {manifest[id].files[k] : k \in 1..Len(parts)}
         IN  /\ D \in SUBSET Files(id)
             /\ Tree(disk) = Atomic!Over([f \in D |-> copy[id][f]])
<1> DEFINE D == {manifest[id].files[k] : k \in 1..Len(parts)}
<1>1. id \in Id /\ manifest[id] \in Manifest /\ parts \in Seq(Body)
  BY DEF CandidateInv, CandidateTypeOK, Restoring
<1>2. /\ Len(parts) \in Nat /\ Len(manifest[id].files) \in Nat
      /\ Len(parts) <= Len(manifest[id].files)
  BY <1>1, ManifestFacts DEF CandidateInv, Restoring
<1>3. D \in SUBSET Files(id)
  BY <1>2 DEF Files
<1>4. ASSUME NEW f \in File
      PROVE  Read(disk[f]) = IF f \in D THEN copy[id][f] ELSE settled[f]
  <2>1. CASE f \in D
    <3>1. PICK k \in 1..Len(parts) : f = manifest[id].files[k]
      BY <2>1
    <3>2. disk[f] = copy[id][f] /\ copy[id][f] = parts[k] /\ parts[k] \in Body
      BY <1>1, <3>1, ElementOf DEF CandidateInv, Restoring
    <3> QED
      BY <2>1, <3>2, ReadFacts
  <2>2. CASE f \notin D
    BY <2>2 DEF CandidateInv, Restoring
  <2> QED
    BY <2>1, <2>2
<1> HIDE DEF D
<1>5. Tree(disk) = Atomic!Over([f \in D |-> copy[id][f]])
  BY <1>4 DEF Tree, Atomic!Over
<1> QED
  BY <1>3, <1>5 DEF D

LEMMA InitRefines == Init => Atomic!Init
<1> SUFFICES ASSUME Init PROVE Atomic!Init
  OBVIOUS
<1>1. settled \in [File -> Body] /\ whole = TRUE
  BY CandidateInit DEF CandidateInv, CandidateTypeOK, Init
<1>2. \A i \in Id : manifest[i] = None \/ i \in Shipped
  BY DEF Init
<1>3. Parent = [i \in Id |-> None]
  BY <1>2, ParentAt, ParentFun
<1> QED
  BY <1>1, <1>3 DEF Atomic!Init

LEMMA BreakOffRefines ==
  ASSUME CandidateInv, at # "idle", BreakOff
  PROVE  Atomic!Next
<1>1. settled' = Tree(disk) /\ whole' = FALSE /\ UNCHANGED Parent
  <2>1. Tree(disk') = Tree(disk)
    BY DEF BreakOff, Tree
  <2> QED
    BY <2>1, ParentSame DEF BreakOff, Return
<1>2. CASE at \in {"keep", "write"}
  <2>1. cand \in Candidate
    BY <1>2 DEF CandidateInv, Applying
  <2>2. Atomic!Partly(Change(cand))
    BY <1>1, <1>2, AppliedTree DEF Atomic!Partly
  <2> QED
    BY <2>1, <2>2, ChangeAt DEF Atomic!Next
<1>3. CASE at = "restore" /\ id \in Shipped
  <2>1. \A f \in File : Read(disk[f]) = settled[f]
    BY <1>3 DEF CandidateInv, Restoring
  <2>2. Tree(disk) = settled
    BY <2>1 DEF Tree, CandidateInv, CandidateTypeOK
  <2> QED
    BY <1>1, <2>2 DEF Atomic!Next, Atomic!Refuse
<1>4. CASE at = "restore" /\ id \notin Shipped
  <2>1. id \in Id /\ manifest[id] # None /\ manifest[id] \in Manifest
    BY <1>4 DEF CandidateInv, CandidateTypeOK, Restoring
  <2>2. Files(id) \in SUBSET File
    BY <2>1, ManifestFacts DEF Files
  <2>3. Parent[id] = [f \in Files(id) |-> copy[id][f]]
    BY <1>4, <2>1, ParentAt
  <2>4. Parent[id] # None
    BY <2>1, <2>2, <2>3, CandidateAssumption DEF CandidateInv, CandidateTypeOK
  <2>5. PICK D \in SUBSET Files(id) : Tree(disk) = Atomic!Over([f \in D |-> copy[id][f]])
    BY <1>4, RestoredTree
  <2>6. [f \in D |-> Parent[id][f]] = [f \in D |-> copy[id][f]]
    BY <2>3
  <2>7. Atomic!Partly(Parent[id])
    BY <1>1, <2>3, <2>5, <2>6 DEF Atomic!Partly
  <2> QED
    BY <2>1, <2>4, <2>7 DEF Atomic!Next
<1> QED
  BY <1>2, <1>3, <1>4 DEF CandidateInv, CandidateTypeOK

LEMMA WriteManifestRefines ==
  ASSUME CandidateInv, WriteManifest
  PROVE  Atomic!Next
<1> DEFINE g == Change(cand)
<1>1. /\ id \in Id /\ id \notin Shipped /\ cand \in Candidate
      /\ Len(cand) = Len(parts) /\ Len(cand) \in Nat
      /\ manifest'[id] # None /\ Len(manifest'[id].files) = Len(cand)
      /\ \A k \in 1..Len(cand) : manifest'[id].files[k] = cand[k].file
      /\ \A i \in Id \ {id} : manifest'[i] = manifest[i]
  BY NewManifest, CandidateAssumption
<1>2. /\ at = "keep" /\ UNCHANGED <<disk, copy>> /\ whole' = TRUE /\ settled' = Tree(disk')
  BY DEF WriteManifest, Return
<1>3. settled' = Atomic!Over(g)
  <2>1. {cand[k].file : k \in 1..Written} = Given(cand)
    BY <1>1, <1>2 DEF Written, Given
  <2>2. Tree(disk) = Atomic!Over([f \in Given(cand) |-> g[f]])
    BY <1>2, <2>1, AppliedTree
  <2>3. [f \in Given(cand) |-> g[f]] = g
    BY DEF Change
  <2>4. Tree(disk') = Tree(disk)
    BY <1>2 DEF Tree
  <2> QED
    BY <1>2, <2>2, <2>3, <2>4
<1>4. Parent' = [Parent EXCEPT ![id] = [f \in DOMAIN g |-> settled[f]]]
  <2>1. {manifest'[id].files[k] : k \in 1..Len(manifest'[id].files)} = Given(cand)
    BY <1>1 DEF Given
  <2>2. Parent'[id] = [f \in Given(cand) |-> copy[id][f]]
    BY <1>1, <1>2, <2>1, ParentAt
  <2>3. \A f \in Given(cand) : copy[id][f] = settled[f]
    BY <1>1, <1>2 DEF CandidateInv, Applying, Given
  <2>4. Parent'[id] = [f \in DOMAIN g |-> settled[f]]
    BY <1>1, <2>2, <2>3, ChangeAt
  <2>5. \A i \in Id \ {id} : Parent'[i] = Parent[i]
    BY <1>1, <1>2, ParentAt
  <2> QED
    BY <1>1, <2>4, <2>5, ParentFun
<1>5. Atomic!Apply(id, g)
  BY <1>2, <1>3, <1>4 DEF Atomic!Apply
<1> QED
  BY <1>1, <1>5, ChangeAt DEF Atomic!Next

\* The hash of what was restored is the manifest's: rollbackCandidate never
\* throws after its writes.
LEMMA CompareMatches ==
  ASSUME CandidateInv, Compare
  PROVE  Matches /\ id \notin Shipped
<1>1. /\ at = "restore" /\ id \in Id /\ manifest[id] \in Manifest /\ manifest[id] # None
      /\ Len(parts) = Len(manifest[id].files) /\ parts \in Seq(Body)
  BY DEF Compare, CandidateInv, CandidateTypeOK, Restoring
<1>2. id \notin Shipped
  <2>1. Example \in Manifest /\ Example.files # <<>>
    BY CandidateAssumption
  <2>2. Example.files \in Seq(File)
    BY <2>1 DEF Manifest
  <2>3. Len(Example.files) # 0
    BY <2>1, <2>2
  <2> QED
    BY <1>1, <2>3 DEF CandidateInv, Restoring, Shipment
<1>3. /\ Len(manifest[id].parts) = Len(parts) /\ manifest[id].parts \in Seq(Body)
      /\ \A k \in 1..Len(parts) : manifest[id].parts[k] = copy[id][manifest[id].files[k]]
  BY <1>1, <1>2, ManifestFacts DEF CandidateInv, ManifestsRestore
<1>4. \A k \in 1..Len(parts) : parts[k] = manifest[id].parts[k]
  BY <1>1, <1>3 DEF CandidateInv, Restoring
<1>5. parts = manifest[id].parts
  BY <1>1, <1>3, <1>4
<1> QED
  BY <1>2, <1>5 DEF Matches

LEMMA CompareRefines ==
  ASSUME CandidateInv, Compare
  PROVE  Atomic!Next
<1>1. /\ at = "restore" /\ id \in Id /\ manifest[id] \in Manifest /\ manifest[id] # None
      /\ Len(parts) = Len(manifest[id].files) /\ id \notin Shipped
  BY CompareMatches DEF Compare, CandidateInv, CandidateTypeOK, Restoring
<1>2. /\ whole' = TRUE /\ UNCHANGED <<disk, copy, manifest>> /\ settled' = Tree(disk')
  BY CompareMatches DEF Compare, Return
<1>3. Files(id) \in SUBSET File /\ Parent[id] = [f \in Files(id) |-> copy[id][f]]
  BY <1>1, ManifestFacts, ParentAt DEF Files
<1>4. Parent[id] # None
  BY <1>1, <1>3, CandidateAssumption DEF CandidateInv, CandidateTypeOK
<1>5. Tree(disk) = Atomic!Over(Parent[id])
  BY <1>1, <1>3, RestoredTree DEF Files
<1>6. settled' = Atomic!Over(Parent[id]) /\ UNCHANGED Parent
  <2>1. Tree(disk') = Tree(disk)
    BY <1>2 DEF Tree
  <2> QED
    BY <1>2, <1>5, <2>1, ParentSame
<1>7. Atomic!Rollback(id)
  BY <1>2, <1>4, <1>6 DEF Atomic!Rollback
<1> QED
  BY <1>1, <1>7 DEF Atomic!Next

LEMMA StageRefines ==
  ASSUME CandidateInv, NEW f \in File, NEW b \in Content, Stage(f, b)
  PROVE  Atomic!Next
<1>1. /\ disk' = [disk EXCEPT ![f] = b] /\ settled = Tree(disk) /\ settled' = Tree(disk')
      /\ UNCHANGED <<copy, manifest, whole>> /\ disk \in [File -> Body \cup {Absent}]
  BY DEF Stage, CandidateInv, CandidateTypeOK, Resting
<1>2. b \in Body /\ Read(b) = b
  BY ReadFacts DEF Body
<1>3. settled' = [settled EXCEPT ![f] = b]
  BY <1>1, <1>2 DEF Tree
<1>4. Atomic!Stage(f, b)
  BY <1>1, <1>3, ParentSame DEF Atomic!Stage
<1> QED
  BY <1>2, <1>4 DEF Atomic!Next

LEMMA NextRefines ==
  CandidateInv /\ [Next]_vars => [Atomic!Next]_<<settled, Parent, whole>>
<1> SUFFICES ASSUME CandidateInv, [Next]_vars
             PROVE  [Atomic!Next]_<<settled, Parent, whole>>
  OBVIOUS
<1>1. CASE \E i \in Id, c \in Candidate : BeginApply(i, c)
  BY <1>1, ParentSame DEF BeginApply
<1>2. CASE RefuseFile \/ RestoreThrows \/ Kill
  BY <1>2, BreakOffRefines DEF RefuseFile, RestoreThrows, Kill
<1>3. CASE KeepParent
  <2>1. manifest[id] = None /\ id \in Id /\ UNCHANGED <<manifest, settled, whole>>
    BY <1>3 DEF KeepParent, CandidateInv, Applying
  <2>2. \A i \in Id \ {id} : copy'[i] = copy[i]
    BY <1>3 DEF KeepParent, CandidateInv, CandidateTypeOK
  <2>3. \A i \in Id : Parent'[i] = Parent[i]
    BY <2>1, <2>2, ParentAt
  <2> QED
    BY <2>1, <2>3, ParentFun
<1>4. CASE WriteFile
  BY <1>4, ParentSame DEF WriteFile
<1>5. CASE WriteManifest
  BY <1>5, WriteManifestRefines
<1>6. CASE \E i \in Id : BeginRollback(i)
  BY <1>6, ParentSame DEF BeginRollback
<1>7. CASE RestoreFile
  BY <1>7, ParentSame DEF RestoreFile
<1>8. CASE Compare
  BY <1>8, CompareRefines
<1>9. CASE \E f \in File \ Refused, b \in Content : Stage(f, b)
  BY <1>9, StageRefines
<1>10. CASE UNCHANGED vars
  BY <1>10, ParentSame DEF vars
<1> QED
  BY <1>1, <1>2, <1>3, <1>4, <1>5, <1>6, <1>7, <1>8, <1>9, <1>10 DEF Next

\* "Rollback restores the parent snapshot" (overlay/.omp/manifests/README.md:5):
\* applying and rolling back a file at a time is applying and rolling back at
\* once, save for the calls that were refused or killed, which leave some of
\* their files written.
THEOREM CandidatesAtomic == Spec => ImplementsAtomic
<1>1. CandidateInv /\ [Next]_vars => [Atomic!Next]_<<settled, Parent, whole>>
  BY NextRefines
<1> QED
  BY <1>1, InitRefines, CandidateInvariant, PTL DEF ImplementsAtomic, Atomic!Spec, Spec

(***************************************************************************)
(* Rolling back in the reverse order.  Each candidate of the trail has its *)
(* manifest, copies of what its tree had where it wrote, and elsewhere its *)
(* tree is the one the next candidate found, or that the last call left.   *)
(***************************************************************************)

LinkAt(e, next, mf, cp) ==
  LET files == mf[e.id].files
  IN /\ e.id \notin Shipped /\ mf[e.id] # None
     /\ \A k \in 1..Len(files) : cp[e.id][files[k]] = e.tree[files[k]]
     /\ \A f \in File : (\A k \in 1..Len(files) : files[k] # f) => next[f] = e.tree[f]

Linked ==
  \A j \in 1..Len(trail) :
    LinkAt(trail[j], IF j = Len(trail) THEN settled ELSE trail[j + 1].tree, manifest, copy)

LEMMA TrailFacts ==
  ASSUME CandidateTypeOK, NEW j \in 1..Len(trail)
  PROVE  trail[j].id \in Id /\ trail[j].tree \in [File -> Body]
<1>1. trail \in Seq([id : Id, tree : [File -> Body]])
  BY DEF CandidateTypeOK
<1>2. trail[j] \in [id : Id, tree : [File -> Body]]
  BY <1>1, ElementOf
<1> QED
  BY <1>2

\* The candidates of the trail are left alone by a step of another one.
LEMMA OthersKeepLinked ==
  ASSUME CandidateTypeOK, Linked, trail' = trail, settled' = settled,
         \A n \in Id : manifest[n] # None => manifest'[n] = manifest[n] /\ copy'[n] = copy[n]
  PROVE  Linked'
<1>1. Len(trail) \in Nat
  BY DEF CandidateTypeOK
<1>2. \A j \in 1..Len(trail) : trail[j].id \in Id /\ manifest[trail[j].id] # None
  BY TrailFacts DEF Linked, LinkAt
<1>3. \A j \in 1..Len(trail) :
        manifest'[trail[j].id] = manifest[trail[j].id] /\ copy'[trail[j].id] = copy[trail[j].id]
  BY <1>2
<1>4. \A j \in 1..Len(trail) : \A next :
        LinkAt(trail[j], next, manifest, copy) => LinkAt(trail[j], next, manifest', copy')
  BY <1>3 DEF LinkAt
<1> QED
  BY <1>4 DEF Linked

LEMMA NoTrail ==
  ASSUME trail' = <<>>
  PROVE  Linked'
BY DEF Linked, LinkAt

\* What the last candidate found is there again once its files are restored.
LEMMA LastRestored ==
  ASSUME CandidateInv, Linked, Compare, trail # <<>>, id = Last(trail).id
  PROVE  Tree(disk) = Last(trail).tree
<1> DEFINE n == Len(trail)
           m == manifest[id]
           t == Last(trail).tree
<1>1. n \in Nat /\ n > 0 /\ Last(trail) = trail[n]
  BY DEF CandidateInv, CandidateTypeOK, Last
<1>2. n \in 1..n /\ t \in [File -> Body]
  BY <1>1, TrailFacts DEF CandidateInv
<1>3. /\ \A k \in 1..Len(m.files) : copy[id][m.files[k]] = t[m.files[k]]
      /\ \A f \in File : (\A k \in 1..Len(m.files) : m.files[k] # f) => settled[f] = t[f]
  BY <1>1, <1>2 DEF Linked, LinkAt
<1>4. /\ \A k \in 1..Len(m.files) : disk[m.files[k]] = copy[id][m.files[k]]
      /\ \A f \in File : (\A k \in 1..Len(m.files) : m.files[k] # f) => Read(disk[f]) = settled[f]
  BY DEF Compare, CandidateInv, Restoring
<1>5. \A f \in File : Read(disk[f]) = t[f]
  <2> SUFFICES ASSUME NEW f \in File PROVE Read(disk[f]) = t[f]
    OBVIOUS
  <2>1. CASE \E k \in 1..Len(m.files) : m.files[k] = f
    <3>1. disk[f] = t[f] /\ t[f] \in Body
      BY <1>2, <1>3, <1>4, <2>1
    <3> QED
      BY <3>1, ReadFacts
  <2>2. CASE \A k \in 1..Len(m.files) : m.files[k] # f
    BY <1>3, <1>4, <2>2
  <2> QED
    BY <2>1, <2>2
<1> QED
  BY <1>2, <1>5 DEF Tree

LEMMA WriteManifestLinks ==
  ASSUME CandidateInv, Linked, WriteManifest
  PROVE  Linked'
<1> DEFINE n == Len(trail)
           e == [id |-> id, tree |-> settled]
<1>1. /\ id \in Id /\ id \notin Shipped /\ cand \in Candidate /\ manifest[id] = None
      /\ Len(cand) = Len(parts) /\ Len(cand) \in Nat
      /\ manifest'[id] # None /\ Len(manifest'[id].files) = Len(cand)
      /\ \A k \in 1..Len(cand) : manifest'[id].files[k] = cand[k].file
      /\ \A i \in Id \ {id} : manifest'[i] = manifest[i]
  BY NewManifest, CandidateAssumption DEF CandidateInv, Applying, WriteManifest
<1>2. /\ at = "keep" /\ copy' = copy /\ settled' = Tree(disk)
      /\ trail' = Append(trail, e)
  BY DEF WriteManifest, Return, Tree
<1>3. /\ n \in Nat /\ Len(trail') = n + 1 /\ trail'[n + 1] = e
      /\ \A j \in 1..n : trail'[j] = trail[j]
  <2>1. trail \in Seq([id : Id, tree : [File -> Body]]) /\ e \in [id : Id, tree : [File -> Body]]
    BY <1>1 DEF CandidateInv, CandidateTypeOK
  <2> QED
    BY <1>2, <2>1, AppendFacts
<1>4. /\ \A k \in 1..Len(cand) : copy[id][cand[k].file] = settled[cand[k].file]
      /\ \A f \in File : (\A k \in 1..Len(cand) : cand[k].file # f) => Read(disk[f]) = settled[f]
  BY <1>1, <1>2 DEF CandidateInv, Applying, Written
<1>5. SUFFICES ASSUME NEW j \in 1..n + 1
               PROVE  LinkAt(trail'[j], IF j = n + 1 THEN Tree(disk) ELSE trail'[j + 1].tree,
                             manifest', copy')
  BY <1>2, <1>3 DEF Linked
<1>6. CASE j = n + 1
  <2>1. \A f \in File : Tree(disk)[f] = Read(disk[f])
    BY DEF Tree
  <2>2. trail'[j].id = id /\ trail'[j].tree = settled
    BY <1>3, <1>6
  <2> QED
    BY <1>1, <1>2, <1>4, <1>6, <2>1, <2>2 DEF LinkAt
<1>7. CASE j # n + 1
  <2>1. j \in 1..n /\ trail'[j] = trail[j]
    BY <1>3, <1>7
  <2>2. LinkAt(trail[j], IF j = n THEN settled ELSE trail[j + 1].tree, manifest, copy)
    BY <2>1 DEF Linked
  <2>3. trail[j].id \in Id /\ manifest[trail[j].id] # None
    BY <2>1, <2>2, TrailFacts DEF LinkAt, CandidateInv
  <2>4. manifest'[trail[j].id] = manifest[trail[j].id]
    BY <1>1, <2>3
  <2>5. trail'[j + 1].tree = IF j = n THEN settled ELSE trail[j + 1].tree
    BY <1>3, <2>1
  <2> DEFINE next == trail'[j + 1].tree
  <2>6. LinkAt(trail[j], next, manifest, copy)
    BY <2>2, <2>5
  <2> HIDE DEF next
  <2>7. LinkAt(trail[j], next, manifest', copy')
    BY <1>2, <2>4, <2>6 DEF LinkAt
  <2> QED
    BY <1>7, <2>1, <2>7 DEF next
<1> QED
  BY <1>6, <1>7

LEMMA CompareLinks ==
  ASSUME CandidateInv, Linked, Compare
  PROVE  Linked'
<1> DEFINE n == Len(trail)
<1>1. CASE Matches /\ trail # <<>> /\ id = Last(trail).id
  <2>1. trail' = Front(trail) /\ copy' = copy /\ manifest' = manifest /\ settled' = Tree(disk)
    BY <1>1 DEF Compare, Return, Tree
  <2>2. n \in Nat /\ n > 0 /\ Last(trail) = trail[n]
    BY <1>1 DEF CandidateInv, CandidateTypeOK, Last
  <2>3. Len(trail') = n - 1 /\ \A j \in 1..n - 1 : trail'[j] = trail[j]
    BY <1>1, <2>1, FrontFacts DEF CandidateInv, CandidateTypeOK
  <2>4. settled' = trail[n].tree
    BY <1>1, <2>1, <2>2, LastRestored
  <2>5. \A j \in 1..n - 1 :
          (IF j = n - 1 THEN settled' ELSE trail'[j + 1].tree) = trail[j + 1].tree
    BY <2>2, <2>3, <2>4
  <2> QED
    <3> SUFFICES ASSUME NEW j \in 1..n - 1
                 PROVE  LinkAt(trail'[j], IF j = n - 1 THEN settled' ELSE trail'[j + 1].tree,
                               manifest', copy')
      BY <2>3 DEF Linked
    <3>1. LinkAt(trail[j], trail[j + 1].tree, manifest, copy)
      BY <2>2 DEF Linked
    <3> QED
      BY <2>1, <2>3, <2>5, <3>1
<1>2. CASE ~(Matches /\ trail # <<>> /\ id = Last(trail).id)
  BY <1>2, NoTrail DEF Compare
<1> QED
  BY <1>1, <1>2

LEMMA LinkedNext == CandidateInv /\ Linked /\ [Next]_vars => Linked'
<1> SUFFICES ASSUME CandidateInv, Linked, [Next]_vars PROVE Linked'
  OBVIOUS
<1> USE DEF CandidateInv
<1>1. CASE \E i \in Id, c \in Candidate : BeginApply(i, c)
  BY <1>1, OthersKeepLinked DEF BeginApply
<1>2. CASE RefuseFile \/ RestoreThrows \/ Kill
  BY <1>2, NoTrail DEF RefuseFile, RestoreThrows, Kill, BreakOff
<1>3. CASE KeepParent
  <2>1. id \in Id /\ manifest[id] = None
    BY <1>3 DEF KeepParent, Applying
  <2>2. \A i \in Id : i # id => copy'[i] = copy[i]
    BY <1>3, <2>1 DEF KeepParent, CandidateTypeOK
  <2> QED
    BY <1>3, <2>1, <2>2, OthersKeepLinked DEF KeepParent
<1>4. CASE WriteFile
  BY <1>4, OthersKeepLinked DEF WriteFile
<1>5. CASE WriteManifest
  BY <1>5, WriteManifestLinks
<1>6. CASE \E i \in Id : BeginRollback(i)
  BY <1>6, OthersKeepLinked DEF BeginRollback
<1>7. CASE RestoreFile
  BY <1>7, OthersKeepLinked DEF RestoreFile
<1>8. CASE Compare
  BY <1>8, CompareLinks
<1>9. CASE \E f \in File \ Refused, b \in Content : Stage(f, b)
  BY <1>9, NoTrail DEF Stage
<1>10. CASE UNCHANGED vars
  BY <1>10, OthersKeepLinked DEF vars
<1> QED
  BY <1>1, <1>2, <1>3, <1>4, <1>5, <1>6, <1>7, <1>8, <1>9, <1>10 DEF Next

\* Candidates applied one after the other and rolled back in the reverse order
\* give each in turn the whole tree it found, as long as nothing else wrote to
\* it (rollback-candidate.ts:13-27).
THEOREM ReverseUnwinds == Spec => UnwindsInReverse
<1>1. Init => Linked
  BY DEF Init, Linked
<1>2. CandidateInv /\ Linked /\ [Next]_vars =>
        [Compare /\ Matches /\ trail # <<>> /\ id = Last(trail).id
           => Tree(disk) = Last(trail).tree]_vars
  BY LastRestored
<1> QED
  BY <1>1, <1>2, CandidateInit, NextKeeps, LinkedNext, PTL DEF Spec, UnwindsInReverse
=============================================================================
