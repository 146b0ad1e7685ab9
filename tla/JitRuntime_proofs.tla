-------------------------- MODULE JitRuntime_proofs --------------------------
(***************************************************************************)
(* Theorems about JitRuntime for any packages, runs, stop calls and        *)
(* instances.                                                              *)
(***************************************************************************)

EXTENDS JitRuntime, FiniteSetTheorems, TLAPS

(***************************************************************************)
(* Lemmas about entries and the slot table                                 *)
(***************************************************************************)

\* An entry has the fields of its record type.
LEMMA EntryFields ==
  ASSUME NEW e \in Entry
  PROVE  /\ e.session \in Session /\ e.id \in Id
         /\ e.slot \in Slot /\ e.instance \in Instance
         /\ <<e.id, e.slot>> \in Package
BY DEF Entry

\* The object that define builds for a package is an entry.
LEMMA NewEntry ==
  ASSUME NEW s \in Session, NEW p \in Package, NEW n \in Instance
  PROVE  [session |-> s, id |-> p[1], slot |-> p[2], instance |-> n] \in Entry
<1>1. p \in Id \X Slot
  BY JitAssumption
<1>2. p[1] \in Id /\ p[2] \in Slot /\ <<p[1], p[2]>> = p
  BY <1>1
<1> QED
  BY <1>2 DEF Entry

\* claimSlot and releaseSlot return tables.
LEMMA TableTypes ==
  ASSUME NEW t \in SlotTable, NEW s \in Slot, NEW id \in Id
  PROVE  Claim(t, s, id) \in SlotTable /\ Release(t, s, id) \in SlotTable
BY DEF SlotTable, Claim, Release

\* disposeAll's releases leave a table.
LEMMA ReleaseAllType ==
  ASSUME NEW D, slots \in SlotTable
  PROVE  ReleaseAll(D) \in SlotTable
BY DEF SlotTable, ReleaseAll

\* What the teardown of one entry does to the table and the sets.
LEMMA TeardownTypes ==
  ASSUME TypeOK, NEW e \in Entry, Unmount(e) \/ DisposerThrows(e)
  PROVE  /\ slots' \in SlotTable
         /\ mounted' \subseteq Entry
         /\ live' \subseteq Entry
         /\ live \ live' \subseteq {e}
BY EntryFields, TableTypes DEF TypeOK, Unmount, DisposerThrows

(***************************************************************************)
(* The inductive invariant of every use: the types and the exact counts.   *)
(* TypeOK alone is not inductive, since a count that is lowered must be    *)
(* positive.                                                               *)
(***************************************************************************)

CountInv == TypeOK /\ InFlightExact

\* The promises that captured e.
RunsOf(e) == {r \in Run : runs[r] = e}

\* The runs that captured an entry are finitely many, so that they can be
\* counted.
LEMMA RunsOfFinite ==
  ASSUME NEW e
  PROVE  IsFiniteSet(RunsOf(e)) /\ Cardinality(RunsOf(e)) \in Nat
<1>1. IsFiniteSet(RunsOf(e))
  BY JitAssumption, FS_Subset DEF RunsOf
<1> QED
  BY <1>1, FS_CardinalityType

\* An entry is idle exactly when no promise captured it.
LEMMA IdleMeansNoRun ==
  ASSUME CountInv, NEW e \in Entry
  PROVE  inFlight[e] = 0 <=> \A r \in Run : runs[r] # e
<1>1. inFlight[e] = Cardinality(RunsOf(e))
  BY DEF CountInv, InFlightExact, RunsOf
<1>2. Cardinality(RunsOf(e)) = 0 <=> RunsOf(e) = {}
  BY RunsOfFinite, FS_EmptySet
<1> QED
  BY <1>1, <1>2 DEF RunsOf

\* A fresh runtime counts right (jit.js:8-11).
LEMMA CountInit == Init => CountInv
<1> SUFFICES ASSUME Init PROVE CountInv
  OBVIOUS
<1>1. TypeOK
  BY DEF Init, TypeOK, SlotTable, EmptySlots
<1>2. ASSUME NEW e \in Entry
      PROVE  inFlight[e] = Cardinality({r \in Run : runs[r] = e})
  <2>1. {r \in Run : runs[r] = e} = {}
    BY JitAssumption DEF Init
  <2> QED
    BY <2>1, FS_EmptySet DEF Init
<1> QED
  BY <1>1, <1>2 DEF CountInv, InFlightExact

\* Steps that leave the runs and the counts alone keep the counts exact.
LEMMA CountsKept ==
  ASSUME InFlightExact, UNCHANGED <<inFlight, runs>>
  PROVE  InFlightExact'
BY DEF InFlightExact

\* define, thrown or not, leaves every variable its type (jit.js:17-32).
LEMMA DefineTypes ==
  ASSUME TypeOK, NEW s \in Session, NEW p \in Package,
         Define(s, p[1], p[2]) \/ DefineThrows(s, p[1], p[2])
  PROVE  TypeOK'
<1>1. p[1] \in Id /\ p[2] \in Slot
  BY JitAssumption
<1>2. slots' \in SlotTable
  BY <1>1, TableTypes DEF TypeOK, Define, DefineThrows
<1>3. mounted' \subseteq Entry /\ live' \subseteq Entry
  BY NewEntry DEF TypeOK, Define, DefineThrows
<1> QED
  BY <1>2, <1>3 DEF TypeOK, Define, DefineThrows

\* run counts the promise it hands out on the entry it captured, and on no
\* other (jit.js:37-42).
LEMMA StartRunCounts ==
  ASSUME CountInv, NEW r \in Run, NEW s \in Session, NEW id \in Id, StartRun(r, s, id)
  PROVE  CountInv'
<1>1. PICK e \in AtKey(s, id) :
        /\ runs' = [runs EXCEPT ![r] = e]
        /\ inFlight' = [inFlight EXCEPT ![e] = @ + 1]
  BY DEF StartRun
<1>2. e \in Entry /\ e # NoEntry /\ runs[r] = NoEntry
  BY JitAssumption DEF AtKey, CountInv, TypeOK, StartRun
<1>3. TypeOK'
  BY <1>1, <1>2 DEF CountInv, TypeOK, StartRun
<1>4. ASSUME NEW d \in Entry
      PROVE  inFlight'[d] = Cardinality({q \in Run : runs'[q] = d})
  <2>1. inFlight[d] = Cardinality(RunsOf(d)) /\ inFlight[d] \in Nat
    BY DEF CountInv, InFlightExact, RunsOf, TypeOK
  <2>2. CASE d = e
    <3>1. {q \in Run : runs'[q] = d} = RunsOf(d) \cup {r}
      BY <1>1, <2>2 DEF RunsOf, CountInv, TypeOK
    <3>2. r \notin RunsOf(d)
      BY <1>2, <2>2 DEF RunsOf
    <3>3. Cardinality(RunsOf(d) \cup {r}) = Cardinality(RunsOf(d)) + 1
      BY <3>2, RunsOfFinite, FS_AddElement
    <3> QED
      BY <1>1, <1>2, <2>1, <2>2, <3>1, <3>3 DEF CountInv, TypeOK
  <2>3. CASE d # e
    <3>1. {q \in Run : runs'[q] = d} = RunsOf(d)
      BY <1>1, <1>2, <2>3, JitAssumption DEF RunsOf, CountInv, TypeOK
    <3> QED
      BY <1>1, <1>2, <2>1, <2>3, <3>1 DEF CountInv, TypeOK
  <2> QED
    BY <2>2, <2>3
<1> QED
  BY <1>3, <1>4 DEF CountInv, InFlightExact

\* The finally handler takes back exactly that one (jit.js:41-43).
LEMMA EndRunCounts ==
  ASSUME CountInv, NEW r \in Run, EndRun(r)
  PROVE  CountInv'
<1> DEFINE e == runs[r]
<1>1. e \in Entry /\ e # NoEntry
  BY DEF CountInv, TypeOK, EndRun
<1>2. r \in RunsOf(e)
  BY DEF RunsOf
<1>3. inFlight[e] = Cardinality(RunsOf(e)) /\ inFlight[e] \in Nat
  BY <1>1 DEF CountInv, InFlightExact, RunsOf, TypeOK
<1>4. /\ Cardinality(RunsOf(e) \ {r}) = inFlight[e] - 1
      /\ Cardinality(RunsOf(e) \ {r}) \in Nat
  BY <1>2, <1>3, RunsOfFinite, FS_RemoveElement, FS_CardinalityType
<1>5. TypeOK'
  <2>1. inFlight' \in [Entry -> Nat]
    BY <1>1, <1>4 DEF EndRun, CountInv, TypeOK
  <2> QED
    BY <2>1 DEF EndRun, CountInv, TypeOK
<1>6. ASSUME NEW d \in Entry
      PROVE  inFlight'[d] = Cardinality({q \in Run : runs'[q] = d})
  <2>1. CASE d = e
    <3>1. {q \in Run : runs'[q] = d} = RunsOf(e) \ {r}
      BY <1>1, <2>1, JitAssumption DEF RunsOf, EndRun, CountInv, TypeOK
    <3> QED
      BY <1>1, <1>4, <2>1, <3>1 DEF EndRun, CountInv, TypeOK
  <2>2. CASE d # e
    <3>1. {q \in Run : runs'[q] = d} = RunsOf(d)
      BY <1>1, <2>2, JitAssumption DEF RunsOf, EndRun, CountInv, TypeOK
    <3>2. inFlight[d] = Cardinality(RunsOf(d))
      BY DEF CountInv, InFlightExact, RunsOf
    <3> QED
      BY <1>1, <2>2, <3>1, <3>2 DEF EndRun, CountInv, TypeOK
  <2> QED
    BY <2>1, <2>2
<1> QED
  BY <1>5, <1>6 DEF CountInv, InFlightExact

\* No step of stop touches a count or leaves a type (jit.js:53-67).
LEMMA StopTypes ==
  ASSUME TypeOK, NEW c \in StopCall,
         \/ \E s \in Session, id \in Id : BeginStop(c, s, id)
         \/ FinishStop(c)
         \/ GiveUpStop(c)
  PROVE  TypeOK' /\ UNCHANGED <<inFlight, runs>>
<1>1. CASE \E s \in Session, id \in Id : BeginStop(c, s, id)
  <2>1. PICK s \in Session, id \in Id : BeginStop(c, s, id)
    BY <1>1
  <2>2. PICK e \in AtKey(s, id) :
          \/ (Unmount(e) \/ DisposerThrows(e)) /\ UNCHANGED stopping
          \/ /\ stopping' = [stopping EXCEPT ![c] = e]
             /\ UNCHANGED <<slots, mounted, live>>
    BY <2>1 DEF BeginStop, Stop
  <2>3. e \in Entry
    BY DEF AtKey, TypeOK
  <2> QED
    BY <2>1, <2>2, <2>3, TeardownTypes DEF BeginStop, Stop, TypeOK
<1>2. CASE FinishStop(c)
  <2>1. stopping[c] \in Entry
    BY <1>2 DEF FinishStop, TypeOK
  <2> QED
    BY <1>2, <2>1, TeardownTypes DEF FinishStop, TypeOK
<1>3. CASE GiveUpStop(c)
  BY <1>3 DEF GiveUpStop, TypeOK
<1> QED
  BY <1>1, <1>2, <1>3

\* Neither does disposeAll, finished or thrown (jit.js:69-77).
LEMMA DisposeAllTypes ==
  ASSUME TypeOK, NEW S, DisposeAll(S) \/ DisposeAllThrows(S)
  PROVE  TypeOK' /\ UNCHANGED <<inFlight, runs>>
<1>1. slots' \in SlotTable
  BY ReleaseAllType DEF DisposeAll, DisposeAllThrows, TypeOK
<1>2. mounted' \subseteq Entry /\ live' \subseteq Entry
  BY DEF DisposeAll, DisposeAllThrows, TypeOK
<1> QED
  BY <1>1, <1>2 DEF DisposeAll, DisposeAllThrows, TypeOK

\* Every step of the runtime keeps the counts exact.
LEMMA CountNext == CountInv /\ [Next]_jitVars => CountInv'
<1> SUFFICES ASSUME CountInv, [Next]_jitVars PROVE CountInv'
  OBVIOUS
<1>1. ASSUME NEW s \in Session, NEW p \in Package,
             Define(s, p[1], p[2]) \/ DefineThrows(s, p[1], p[2])
      PROVE  CountInv'
  BY <1>1, DefineTypes, CountsKept DEF CountInv, Define, DefineThrows
<1>2. ASSUME NEW r \in Run, NEW s \in Session, NEW id \in Id, StartRun(r, s, id)
      PROVE  CountInv'
  BY <1>2, StartRunCounts
<1>3. ASSUME NEW r \in Run, EndRun(r)
      PROVE  CountInv'
  BY <1>3, EndRunCounts
<1>4. ASSUME NEW c \in StopCall,
             \/ \E s \in Session, id \in Id : BeginStop(c, s, id)
             \/ FinishStop(c)
             \/ GiveUpStop(c)
      PROVE  CountInv'
  BY <1>4, StopTypes, CountsKept DEF CountInv
<1>5. ASSUME NEW S, DisposeAll(S) \/ DisposeAllThrows(S)
      PROVE  CountInv'
  BY <1>5, DisposeAllTypes, CountsKept DEF CountInv
<1>6. CASE UNCHANGED jitVars
  BY <1>6 DEF CountInv, TypeOK, InFlightExact, jitVars
<1> QED
  BY <1>1, <1>2, <1>3, <1>4, <1>5, <1>6 DEF Next

\* The variables of the runtime have their types, and every entry counts
\* exactly the promises that captured it, whatever its callers do.
THEOREM CountsAreExact == Spec => [](TypeOK /\ InFlightExact)
<1>1. CountInv => TypeOK /\ InFlightExact
  BY DEF CountInv
<1> QED
  BY <1>1, CountInit, CountNext, PTL DEF Spec

(***************************************************************************)
(* No disposer runs under a run                                            *)
(***************************************************************************)

\* What an action takes out of live is idle.
LEMMA DisposedAreIdle ==
  ASSUME CountInv, Next, NEW e \in live, e \notin live'
  PROVE  inFlight[e] = 0
<1>1. CASE \E c \in StopCall, s \in Session, id \in Id : BeginStop(c, s, id)
  <2>1. PICK c \in StopCall, s \in Session, id \in Id : BeginStop(c, s, id)
    BY <1>1
  <2>2. PICK d \in AtKey(s, id) :
          \/ /\ inFlight[d] = 0
             /\ Unmount(d) \/ DisposerThrows(d)
          \/ UNCHANGED live
    BY <2>1 DEF BeginStop, Stop
  <2> QED
    BY <2>2 DEF Unmount, DisposerThrows
<1>2. CASE \E c \in StopCall : FinishStop(c)
  BY <1>2 DEF FinishStop, Unmount, DisposerThrows
<1>3. CASE \E S \in {{s} : s \in Session} \cup {Session} : DisposeAll(S)
  BY <1>3 DEF DisposeAll
<1>4. CASE \E S \in {{s} : s \in Session} \cup {Session} : DisposeAllThrows(S)
  BY <1>4 DEF DisposeAllThrows
<1>5. CASE \E s \in Session, p \in Package : Define(s, p[1], p[2])
  BY <1>5 DEF Define
<1>6. ASSUME UNCHANGED live
      PROVE  FALSE
  BY <1>6
<1> QED
  BY <1>1, <1>2, <1>3, <1>4, <1>5, <1>6
  DEF Next, DefineThrows, StartRun, EndRun, GiveUpStop

\* stop and disposeAll never dispose an entry that a pending run captured, for
\* any number of sessions and concurrent callers and with faulty package code
\* (jit.js:57-64 and 71-73).
THEOREM DrainOrFailClosed == Spec => DisposeOnlyIdle
<1>1. CountInv /\ [Next]_jitVars =>
        [\A e \in live : e \notin live' => \A r \in Run : runs[r] # e]_jitVars
  <2> SUFFICES ASSUME CountInv, Next, NEW e \in live, e \notin live'
               PROVE  \A r \in Run : runs[r] # e
    OBVIOUS
  <2>1. e \in Entry
    BY DEF CountInv, TypeOK
  <2> QED
    BY <2>1, DisposedAreIdle, IdleMeansNoRun
<1> QED
  BY <1>1, CountInit, CountNext, PTL DEF Spec, DisposeOnlyIdle

(***************************************************************************)
(* One session whose callers serialise their teardowns.  The properties    *)
(* need one another: a mount is refused only because every mounted plugin  *)
(* holds its slot, a plugin keeps its slot only because no stale stop      *)
(* releases it, and a stop is never stale because its entry cannot leave   *)
(* the map while it sleeps.                                                *)
(***************************************************************************)

\* The map has one entry to a key.
KeysUnique ==
  \A e, f \in mounted : e.session = f.session /\ e.id = f.id => e = f

\* A run's entry is still mounted.
RunsHoldMounted == \A r \in Run : runs[r] # NoEntry => runs[r] \in mounted

\* Two sleeping stops wait for different entries.
StopsDistinct ==
  \A c, d \in StopCall : stopping[c] # NoEntry /\ stopping[c] = stopping[d] => c = d

\* The table gives a singleton slot one id at most.
SlotsSingle ==
  \A s \in Slot \ {Capability} : \A i, j \in slots[s] : i = j

SerialInv ==
  /\ CountInv
  /\ KeysUnique
  /\ LiveAreMounted
  /\ MountedHoldsSlot
  /\ RunsHoldMounted
  /\ StopTargetsMounted
  /\ StopsDistinct
  /\ SlotsSingle

\* A fresh runtime satisfies the invariant of a serialised session.
LEMMA SerialInit == Init => SerialInv
BY CountInit DEF Init, SerialInv, KeysUnique, LiveAreMounted, MountedHoldsSlot,
   RunsHoldMounted, StopTargetsMounted, StopsDistinct, SlotsSingle, EmptySlots

\* Removing a set of idle, unawaited mounted entries and releasing their slots
\* under their own ids keeps the invariant.
LEMMA RemovalKeeps ==
  ASSUME Disciplined, SerialInv, CountInv', NEW D \in SUBSET mounted,
         \A e \in D : inFlight[e] = 0,
         mounted' = mounted \ D, live' = live \ D,
         slots' = [s \in Slot |-> slots[s] \ {e.id : e \in {d \in D : d.slot = s}}],
         UNCHANGED runs,
         \A c \in StopCall : stopping'[c] \in {stopping[c], NoEntry},
         \A c \in StopCall : stopping'[c] # NoEntry => stopping[c] \notin D
  PROVE  SerialInv'
<1> USE DEF SerialInv
<1>1. KeysUnique'
  BY DEF KeysUnique
<1>2. LiveAreMounted'
  BY DEF LiveAreMounted
<1>3. MountedHoldsSlot'
  <2> SUFFICES ASSUME NEW m \in mounted, m \notin D
               PROVE  m.id \in slots'[m.slot]
    BY DEF MountedHoldsSlot
  <2>1. m \in Entry /\ m.slot \in Slot /\ m.session \in Session
    BY EntryFields DEF CountInv, TypeOK
  <2>2. m.id \in slots[m.slot]
    BY DEF MountedHoldsSlot
  <2>3. ASSUME NEW e \in D, e.id = m.id
        PROVE  FALSE
    <3>1. e \in mounted /\ e.session \in Session
      BY EntryFields DEF CountInv, TypeOK
    <3>2. e.session = m.session
      BY <2>1, <3>1 DEF Disciplined
    <3> QED
      BY <2>3, <3>1, <3>2 DEF KeysUnique
  <2> QED
    BY <2>1, <2>2, <2>3
<1>4. RunsHoldMounted'
  <2> SUFFICES ASSUME NEW r \in Run, runs[r] # NoEntry
               PROVE  runs[r] \in mounted \ D
    BY DEF RunsHoldMounted
  <2>1. runs[r] \in mounted /\ runs[r] \in Entry
    BY DEF RunsHoldMounted, CountInv, TypeOK
  <2>2. inFlight[runs[r]] # 0
    BY <2>1, IdleMeansNoRun
  <2> QED
    BY <2>1, <2>2
<1>5. StopTargetsMounted'
  BY DEF StopTargetsMounted
<1>6. StopsDistinct'
  BY DEF StopsDistinct
<1>7. SlotsSingle'
  BY DEF SlotsSingle, CountInv, TypeOK, SlotTable
<1> QED
  BY <1>1, <1>2, <1>3, <1>4, <1>5, <1>6, <1>7

\* Under the invariant, stop removes exactly the entry it captured.
LEMMA UnmountRemovesOne ==
  ASSUME SerialInv, NEW e \in mounted, Unmount(e)
  PROVE  /\ mounted' = mounted \ {e}
         /\ live' = live \ {e}
         /\ slots' = [s \in Slot |-> slots[s] \ {d.id : d \in {m \in {e} : m.slot = s}}]
<1>1. e \in Entry /\ e.slot \in Slot /\ slots \in SlotTable
  BY EntryFields DEF SerialInv, CountInv, TypeOK
<1>2. AtKey(e.session, e.id) = {e}
  BY DEF AtKey, SerialInv, KeysUnique
<1>3. slots' = [s \in Slot |-> slots[s] \ {d.id : d \in {m \in {e} : m.slot = s}}]
  <2>1. slots' = [slots EXCEPT ![e.slot] = slots[e.slot] \ {e.id}]
    BY DEF Unmount, Release
  <2>2. ASSUME NEW s \in Slot
        PROVE  slots'[s] = slots[s] \ {d.id : d \in {m \in {e} : m.slot = s}}
    <3>1. CASE s = e.slot
      BY <1>1, <2>1, <3>1 DEF SlotTable
    <3>2. CASE s # e.slot
      BY <1>1, <2>1, <3>2 DEF SlotTable
    <3> QED
      BY <3>1, <3>2
  <2>3. slots' = [s \in Slot |-> slots'[s]]
    BY <1>1, <2>1 DEF SlotTable
  <2> QED
    BY <2>2, <2>3
<1> QED
  BY <1>2, <1>3 DEF Unmount

\* The end of stop keeps the map, the table and what is live in agreement
\* (jit.js:64-66).
LEMMA UnmountKeeps ==
  ASSUME Disciplined, SerialInv, CountInv', NEW e \in mounted, Unmount(e),
         inFlight[e] = 0, UNCHANGED runs,
         \A c \in StopCall : stopping'[c] \in {stopping[c], NoEntry},
         \A c \in StopCall : stopping'[c] # NoEntry => stopping[c] # e
  PROVE  SerialInv'
<1>1. /\ mounted' = mounted \ {e}
      /\ live' = live \ {e}
      /\ slots' = [s \in Slot |-> slots[s] \ {d.id : d \in {m \in {e} : m.slot = s}}]
  BY UnmountRemovesOne
<1>2. {e} \in SUBSET mounted /\ \A d \in {e} : inFlight[d] = 0
  OBVIOUS
<1>3. \A c \in StopCall : stopping'[c] # NoEntry => stopping[c] \notin {e}
  OBVIOUS
<1> QED
  BY <1>1, <1>2, <1>3, RemovalKeeps

\* The slot part of a define: whoever is mounted and not of this id keeps its
\* slot, since a singleton slot that admits id holds no other.
LEMMA ClaimKeeps ==
  ASSUME SerialInv, NEW slot \in Slot, NEW id \in Id,
         CanClaim(slots, slot, id), slots' = Claim(slots, slot, id)
  PROVE  /\ \A m \in mounted : m.id \in slots'[m.slot]
         /\ id \in slots'[slot]
         /\ SlotsSingle'
<1>1. slots \in SlotTable
  BY DEF SerialInv, CountInv, TypeOK
<1>2. \A m \in mounted : m.slot \in Slot /\ m.id \in slots[m.slot]
  BY EntryFields DEF SerialInv, MountedHoldsSlot, CountInv, TypeOK
<1>3. \A s \in Slot \ {slot} : slots'[s] = slots[s]
  BY <1>1 DEF Claim, SlotTable
<1>4. slot = Capability => slots'[slot] = slots[slot] \cup {id}
  BY <1>1 DEF Claim, SlotTable
<1>5. slot # Capability => slots'[slot] = {id} /\ slots[slot] \subseteq {id}
  BY <1>1 DEF Claim, SlotTable, CanClaim
<1>6. SlotsSingle'
  BY <1>3, <1>4, <1>5 DEF SlotsSingle, SerialInv
<1>7. \A m \in mounted : m.id \in slots'[m.slot]
  BY <1>2, <1>3, <1>4, <1>5
<1> QED
  BY <1>4, <1>5, <1>6, <1>7

\* define mounts only where no other plugin has the slot or the key, so it
\* keeps the invariant (jit.js:19-30).
LEMMA DefineSerial ==
  ASSUME Disciplined, SerialInv, CountInv', NEW s \in Session, NEW p \in Package,
         Define(s, p[1], p[2])
  PROVE  SerialInv'
<1>1. p[1] \in Id /\ p[2] \in Slot
  BY JitAssumption
<1>2. PICK n \in Instance :
        LET e == [session |-> s, id |-> p[1], slot |-> p[2], instance |-> n] IN
        Unused(e) /\ mounted' = mounted \cup {e} /\ live' = live \cup {e}
  BY DEF Define
<1> DEFINE e == [session |-> s, id |-> p[1], slot |-> p[2], instance |-> n]
<1>3. mounted' = mounted \cup {e} /\ live' = live \cup {e} /\ e \notin mounted
  BY <1>2 DEF Unused
<1>4. /\ \A m \in mounted : m.id \in slots'[m.slot]
      /\ e.id \in slots'[e.slot]
      /\ SlotsSingle'
  BY <1>1, ClaimKeeps DEF Define
<1>5. KeysUnique'
  <2>1. \A m \in mounted : ~(m.session = e.session /\ m.id = e.id)
    BY DEF Define, AtKey
  <2> QED
    BY <1>3, <2>1 DEF KeysUnique, SerialInv
<1>6. LiveAreMounted'
  BY <1>3 DEF LiveAreMounted, SerialInv
<1>7. MountedHoldsSlot'
  BY <1>3, <1>4 DEF MountedHoldsSlot
<1>8. RunsHoldMounted' /\ StopTargetsMounted' /\ StopsDistinct'
  BY <1>3 DEF Define, RunsHoldMounted, StopTargetsMounted, StopsDistinct, SerialInv
<1> QED
  BY <1>4, <1>5, <1>6, <1>7, <1>8 DEF SerialInv

\* A define that throws claims a slot that is free or its own, which no
\* mounted plugin loses (jit.js:20-29).
LEMMA DefineThrowsSerial ==
  ASSUME SerialInv, CountInv', NEW s \in Session, NEW p \in Package,
         DefineThrows(s, p[1], p[2])
  PROVE  SerialInv'
<1>1. p[1] \in Id /\ p[2] \in Slot
  BY JitAssumption
<1>2. (\A m \in mounted : m.id \in slots'[m.slot]) /\ SlotsSingle'
  BY <1>1, ClaimKeeps DEF DefineThrows
<1> QED
  BY <1>2 DEF DefineThrows, SerialInv, KeysUnique, LiveAreMounted, MountedHoldsSlot,
     RunsHoldMounted, StopTargetsMounted, StopsDistinct

\* A run captures an entry that is mounted; one that settles captures
\* nothing any more (jit.js:35-43).
LEMMA RunSerial ==
  ASSUME SerialInv, CountInv', NEW r \in Run,
         \/ \E s \in Session, id \in Id : StartRun(r, s, id)
         \/ EndRun(r)
  PROVE  SerialInv'
<1>1. UNCHANGED <<slots, mounted, live, stopping>>
  BY DEF StartRun, EndRun
<1>2. RunsHoldMounted'
  <2>1. CASE \E s \in Session, id \in Id : StartRun(r, s, id)
    <3>1. PICK e \in mounted : runs' = [runs EXCEPT ![r] = e]
      BY <2>1 DEF StartRun, AtKey
    <3> QED
      BY <1>1, <3>1 DEF RunsHoldMounted, SerialInv, CountInv, TypeOK
  <2>2. CASE EndRun(r)
    BY <1>1, <2>2 DEF EndRun, RunsHoldMounted, SerialInv, CountInv, TypeOK
  <2> QED
    BY <2>1, <2>2
<1> QED
  BY <1>1, <1>2 DEF SerialInv, KeysUnique, LiveAreMounted, MountedHoldsSlot,
     StopTargetsMounted, StopsDistinct, SlotsSingle

\* A stop that begins either unmounts an idle entry no stop waits for, or
\* becomes the only stop that waits for a busy one (jit.js:53-60).
LEMMA BeginStopSerial ==
  ASSUME Disciplined, SerialInv, CountInv', NEW c \in StopCall,
         NEW s \in Session, NEW id \in Id, BeginStop(c, s, id)
  PROVE  SerialInv'
<1>1. PICK e \in AtKey(s, id) :
        /\ ~Awaited(e)
        /\ \/ inFlight[e] = 0 /\ Unmount(e) /\ UNCHANGED stopping
           \/ /\ stopping' = [stopping EXCEPT ![c] = e]
              /\ UNCHANGED <<slots, mounted, live>>
  BY DEF BeginStop, Stop, Disciplined, DisposerThrows
<1>2. e \in mounted /\ e \in Entry /\ UNCHANGED runs /\ stopping[c] = NoEntry
  BY DEF AtKey, SerialInv, CountInv, TypeOK, BeginStop, Stop
<1>3. \A d \in StopCall : stopping[d] # e
  BY <1>1 DEF Awaited
<1>4. CASE inFlight[e] = 0 /\ Unmount(e) /\ UNCHANGED stopping
  BY <1>2, <1>3, <1>4, UnmountKeeps
<1>5. CASE /\ stopping' = [stopping EXCEPT ![c] = e]
           /\ UNCHANGED <<slots, mounted, live>>
  <2>1. StopTargetsMounted' /\ StopsDistinct'
    BY <1>2, <1>3, <1>5 DEF StopTargetsMounted, StopsDistinct, SerialInv, CountInv, TypeOK
  <2> QED
    BY <1>2, <1>5, <2>1 DEF SerialInv, KeysUnique, LiveAreMounted, MountedHoldsSlot,
       RunsHoldMounted, SlotsSingle
<1> QED
  BY <1>1, <1>4, <1>5

\* A stop that wakes unmounts the entry it captured, which is still mounted,
\* or gives up and changes nothing (jit.js:58-66).
LEMMA EndStopSerial ==
  ASSUME Disciplined, SerialInv, CountInv', NEW c \in StopCall,
         FinishStop(c) \/ GiveUpStop(c)
  PROVE  SerialInv'
<1>1. CASE FinishStop(c)
  <2>1. PICK e \in mounted :
           /\ e = stopping[c] /\ e # NoEntry /\ inFlight[e] = 0 /\ Unmount(e)
           /\ stopping' = [stopping EXCEPT ![c] = NoEntry]
           /\ UNCHANGED runs
    BY <1>1 DEF FinishStop, Disciplined, DisposerThrows, SerialInv, StopTargetsMounted
  <2>2. \A d \in StopCall : stopping'[d] # NoEntry => d # c /\ stopping[d] # e
    BY <2>1 DEF SerialInv, StopsDistinct, CountInv, TypeOK
  <2>3. \A d \in StopCall : stopping'[d] \in {stopping[d], NoEntry}
    BY <2>1 DEF SerialInv, CountInv, TypeOK
  <2> QED
    BY <2>1, <2>2, <2>3, UnmountKeeps
<1>2. CASE GiveUpStop(c)
  BY <1>2 DEF GiveUpStop, SerialInv, CountInv, TypeOK, KeysUnique, LiveAreMounted,
     MountedHoldsSlot, RunsHoldMounted, StopTargetsMounted, StopsDistinct, SlotsSingle
<1> QED
  BY <1>1, <1>2

\* Under plain ids disposeAll releases each entry's own slot.
LEMMA ReleaseAllOwnIds ==
  ASSUME Disciplined, TypeOK, NEW D \in SUBSET mounted
  PROVE  ReleaseAll(D) = [s \in Slot |-> slots[s] \ {e.id : e \in {d \in D : d.slot = s}}]
<1>1. \A e \in D : KeyPart[e.id] = e.id
  BY EntryFields DEF TypeOK, Disciplined
<1>2. ASSUME NEW s \in Slot
      PROVE  {KeyPart[e.id] : e \in {d \in D : d.slot = s}}
               = {e.id : e \in {d \in D : d.slot = s}}
  BY <1>1
<1> QED
  BY <1>2 DEF ReleaseAll

\* disposeAll, finished or thrown, takes away entries no stop waits for
\* together with their slots (jit.js:69-77).
LEMMA DisposeAllSerial ==
  ASSUME Disciplined, SerialInv, CountInv', NEW S, DisposeAll(S) \/ DisposeAllThrows(S)
  PROVE  SerialInv'
<1>1. PICK D \in SUBSET Owned(S) :
        /\ \A e \in D : inFlight[e] = 0
        /\ mounted' = mounted \ D /\ live' = live \ D /\ slots' = ReleaseAll(D)
  BY DEF DisposeAll, DisposeAllThrows, Disciplined
<1>2. D \in SUBSET mounted /\ TypeOK
  BY DEF Owned, SerialInv, CountInv
<1>3. \A e \in Owned(S) : \A c \in StopCall : stopping[c] # e
  BY DEF DisposeAll, DisposeAllThrows, Disciplined, Awaited
<1>4. slots' = [s \in Slot |-> slots[s] \ {e.id : e \in {d \in D : d.slot = s}}]
  BY <1>1, <1>2, ReleaseAllOwnIds
<1>5. UNCHANGED <<runs, stopping>>
  BY DEF DisposeAll, DisposeAllThrows
<1> QED
  BY <1>1, <1>2, <1>3, <1>4, <1>5, RemovalKeeps

\* Every step of a serialised session keeps its invariant.
LEMMA SerialNext == Disciplined /\ SerialInv /\ [Next]_jitVars => SerialInv'
<1> SUFFICES ASSUME Disciplined, SerialInv, [Next]_jitVars PROVE SerialInv'
  OBVIOUS
<1>1. CountInv'
  BY CountNext DEF SerialInv
<1>2. CASE UNCHANGED jitVars
  BY <1>1, <1>2 DEF jitVars, SerialInv, KeysUnique, LiveAreMounted, MountedHoldsSlot,
     RunsHoldMounted, StopTargetsMounted, StopsDistinct, SlotsSingle
<1> QED
  BY <1>1, <1>2, DefineSerial, DefineThrowsSerial, RunSerial, BeginStopSerial,
     EndStopSerial, DisposeAllSerial DEF Next

\* In one session with serialised teardowns, every live plugin can still be
\* stopped, holds its slot, and shares no singleton slot with another, and a
\* sleeping stop waits for a plugin that is still there.
THEOREM SerialSessionSafe ==
  ASSUME Disciplined
  PROVE  Spec => [](LiveAreMounted /\ MountedHoldsSlot /\ OneOccupant /\ StopTargetsMounted)
<1>1. SerialInv => LiveAreMounted /\ MountedHoldsSlot /\ OneOccupant /\ StopTargetsMounted
  <2> SUFFICES ASSUME SerialInv PROVE OneOccupant
    BY DEF SerialInv
  <2> SUFFICES ASSUME NEW e \in live, NEW f \in live, e.slot = f.slot, e.slot # Capability
               PROVE  e = f
    BY DEF OneOccupant
  <2>1. /\ e \in mounted /\ f \in mounted
        /\ e.slot \in Slot /\ e.session \in Session /\ f.session \in Session
    BY EntryFields DEF SerialInv, LiveAreMounted, CountInv, TypeOK
  <2>2. e.id = f.id
    BY <2>1 DEF SerialInv, MountedHoldsSlot, SlotsSingle
  <2>3. e.session = f.session
    BY <2>1 DEF Disciplined
  <2> QED
    BY <2>1, <2>2, <2>3 DEF SerialInv, KeysUnique
<1>2. SerialInv /\ [Next]_jitVars => SerialInv'
  BY SerialNext
<1> QED
  BY <1>1, <1>2, SerialInit, PTL DEF Spec

(***************************************************************************)
(* The disciplined runtime implements the registry.                        *)
(***************************************************************************)

\* One package stands for one mounted entry.
LEMMA PackageIdentifies ==
  ASSUME Disciplined, SerialInv, NEW e \in mounted, NEW f \in mounted, e.id = f.id
  PROVE  e = f
<1>1. e.session \in Session /\ f.session \in Session
  BY EntryFields DEF SerialInv, CountInv, TypeOK
<1> QED
  BY <1>1 DEF Disciplined, SerialInv, KeysUnique

\* Define is the registry's Mount.
LEMMA DefineMounts ==
  ASSUME Disciplined, SerialInv, NEW s \in Session, NEW p \in Package,
         Define(s, p[1], p[2])
  PROVE  Registry!Mount(p)
<1>1. p[1] \in Id /\ p[2] \in Slot /\ <<p[1], p[2]>> = p
  BY JitAssumption
<1>2. PICK n \in Instance :
        mounted' = mounted \cup
          {[session |-> s, id |-> p[1], slot |-> p[2], instance |-> n]}
  BY DEF Define
<1>3. Held' = Held \cup {p}
  <2> DEFINE e == [session |-> s, id |-> p[1], slot |-> p[2], instance |-> n]
  <2>1. PackageOf(e) = p
    BY <1>1 DEF PackageOf
  <2>2. mounted' = mounted \cup {e}
    BY <1>2
  <2>3. Held' = {PackageOf(m) : m \in mounted \cup {e}}
    BY <2>2 DEF Held, PackageOf
  <2> HIDE DEF e
  <2> QED
    BY <2>1, <2>3 DEF Held
<1>4. Using' = Using
  BY DEF Using, Define
<1>5. ASSUME NEW m \in mounted
      PROVE  m.id # p[1] /\ (p[2] = Capability \/ m.slot # p[2])
  <2>1. m.session \in Session /\ m.id \in slots[m.slot]
    BY EntryFields DEF SerialInv, MountedHoldsSlot, CountInv, TypeOK
  <2>2. m.session = s
    BY <2>1 DEF Disciplined
  <2>3. m.id # p[1]
    BY <2>2 DEF Define, AtKey
  <2>4. p[2] = Capability \/ slots[p[2]] \subseteq {p[1]}
    BY DEF Define, CanClaim
  <2> QED
    BY <2>1, <2>3, <2>4
<1>6. \A q \in Held : q[1] # p[1] /\ (p[2] = Capability \/ q[2] # p[2])
  BY <1>5 DEF Held, PackageOf
<1> QED
  BY <1>3, <1>4, <1>6 DEF Registry!Mount

\* Removing idle entries is the registry's Retire.
LEMMA RemovalRetires ==
  ASSUME Disciplined, SerialInv, NEW D \in SUBSET mounted,
         \A e \in D : inFlight[e] = 0, mounted' = mounted \ D, UNCHANGED runs
  PROVE  \E Q \in SUBSET Held : Registry!Retire(Q)
<1> DEFINE Q == {PackageOf(e) : e \in D}
<1>1. Q \in SUBSET Held
  BY DEF Held
<1>2. ASSUME NEW m \in mounted, NEW e \in D, PackageOf(m) = PackageOf(e)
      PROVE  m = e
  <2>1. m.id = e.id
    BY <1>2 DEF PackageOf
  <2> QED
    BY <2>1, PackageIdentifies
<1>3. Held' = Held \ Q
  BY <1>2 DEF Held
<1>4. ASSUME NEW r \in Run
      PROVE  Using[r] \notin Q
  <2>1. CASE runs[r] = NoEntry
    <3>1. Using[r] = NoEntry
      BY <2>1 DEF Using
    <3>2. \A e \in D : PackageOf(e) \in Package
      BY EntryFields DEF PackageOf, SerialInv, CountInv, TypeOK
    <3> QED
      BY <3>1, <3>2, JitAssumption
  <2>2. CASE runs[r] # NoEntry
    <3>1. runs[r] \in mounted /\ runs[r] \in Entry /\ Using[r] = PackageOf(runs[r])
      BY <2>2 DEF SerialInv, RunsHoldMounted, CountInv, TypeOK, Using
    <3>2. runs[r] \notin D
      BY <3>1, IdleMeansNoRun DEF SerialInv
    <3> QED
      BY <3>1, <3>2, <1>2
  <2> QED
    BY <2>1, <2>2
<1>5. Using' = Using
  BY DEF Using
<1> QED
  BY <1>1, <1>3, <1>4, <1>5 DEF Registry!Retire

\* A run that starts or settles is a Start or a Settle of the registry, or a
\* stutter (jit.js:34-46).
LEMMA RunSteps ==
  ASSUME SerialInv, NEW r \in Run,
         \/ \E s \in Session, id \in Id : StartRun(r, s, id)
         \/ EndRun(r)
  PROVE  \/ \E p \in Held : Registry!Start(r, p)
         \/ Registry!Settle(r)
<1>1. Held' = Held
  BY DEF Held, StartRun, EndRun
<1>2. CASE \E s \in Session, id \in Id : StartRun(r, s, id)
  <2>1. PICK e \in mounted : runs' = [runs EXCEPT ![r] = e] /\ runs[r] = NoEntry
    BY <1>2 DEF StartRun, AtKey
  <2>2. e # NoEntry
    BY JitAssumption DEF SerialInv, CountInv, TypeOK
  <2>3. Using' = [Using EXCEPT ![r] = PackageOf(e)]
    BY <2>1, <2>2 DEF Using, SerialInv, CountInv, TypeOK
  <2>4. PackageOf(e) \in Held /\ Using[r] = NoEntry
    BY <2>1 DEF Held, Using
  <2> QED
    BY <1>1, <2>3, <2>4 DEF Registry!Start
<1>3. CASE EndRun(r)
  <2>1. Using' = [Using EXCEPT ![r] = NoEntry]
    BY <1>3 DEF EndRun, Using, SerialInv, CountInv, TypeOK
  <2> QED
    BY <1>1, <2>1 DEF Registry!Settle
<1> QED
  BY <1>2, <1>3

\* A step of stop retires one plugin of the registry or stutters
\* (jit.js:53-67).
LEMMA StopSteps ==
  ASSUME Disciplined, SerialInv, NEW c \in StopCall,
         \/ \E s \in Session, id \in Id : BeginStop(c, s, id)
         \/ FinishStop(c)
         \/ GiveUpStop(c)
  PROVE  \/ \E Q \in SUBSET Held : Registry!Retire(Q)
         \/ UNCHANGED <<Held, Using>>
<1>1. ASSUME NEW e \in mounted, inFlight[e] = 0, Unmount(e), UNCHANGED runs
      PROVE  \E Q \in SUBSET Held : Registry!Retire(Q)
  <2>1. mounted' = mounted \ {e} /\ {e} \in SUBSET mounted
    BY <1>1, UnmountRemovesOne
  <2> QED
    BY <1>1, <2>1, RemovalRetires
<1>2. ASSUME UNCHANGED <<mounted, runs>>
      PROVE  UNCHANGED <<Held, Using>>
  BY <1>2 DEF Held, Using
<1>3. CASE \E s \in Session, id \in Id : BeginStop(c, s, id)
  BY <1>1, <1>2, <1>3 DEF BeginStop, Stop, AtKey, Disciplined, DisposerThrows
<1>4. CASE FinishStop(c)
  BY <1>1, <1>4 DEF FinishStop, Disciplined, DisposerThrows, SerialInv, StopTargetsMounted
<1>5. CASE GiveUpStop(c)
  BY <1>2, <1>5 DEF GiveUpStop
<1> QED
  BY <1>3, <1>4, <1>5

\* disposeAll retires a set of plugins (jit.js:69-77).
LEMMA DisposeAllSteps ==
  ASSUME Disciplined, SerialInv, NEW S, DisposeAll(S) \/ DisposeAllThrows(S)
  PROVE  \E Q \in SUBSET Held : Registry!Retire(Q)
<1>1. PICK D \in SUBSET mounted :
        (\A e \in D : inFlight[e] = 0) /\ mounted' = mounted \ D
  BY DEF DisposeAll, DisposeAllThrows, Disciplined, Owned
<1>2. UNCHANGED runs
  BY DEF DisposeAll, DisposeAllThrows
<1> QED
  BY <1>1, <1>2, RemovalRetires

\* Every step of a serialised session is a step of the registry or a stutter.
LEMMA RegistryNext ==
  ASSUME Disciplined, SerialInv, [Next]_jitVars
  PROVE  [Registry!Next]_<<Held, Using>>
<1>1. ASSUME NEW s \in Session, NEW p \in Package, Define(s, p[1], p[2])
      PROVE  Registry!Next
  BY <1>1, DefineMounts DEF Registry!Next
<1>2. ASSUME UNCHANGED <<mounted, runs>>
      PROVE  UNCHANGED <<Held, Using>>
  BY <1>2 DEF Held, Using
<1>3. ASSUME NEW r \in Run,
             \/ \E s \in Session, id \in Id : StartRun(r, s, id)
             \/ EndRun(r)
      PROVE  Registry!Next
  BY <1>3, RunSteps DEF Registry!Next
<1>4. ASSUME NEW c \in StopCall,
             \/ \E s \in Session, id \in Id : BeginStop(c, s, id)
             \/ FinishStop(c)
             \/ GiveUpStop(c)
      PROVE  [Registry!Next]_<<Held, Using>>
  BY <1>4, StopSteps DEF Registry!Next
<1>5. ASSUME NEW S, DisposeAll(S) \/ DisposeAllThrows(S)
      PROVE  Registry!Next
  BY <1>5, DisposeAllSteps DEF Registry!Next
<1>6. ASSUME NEW s \in Session, NEW p \in Package, DefineThrows(s, p[1], p[2])
      PROVE  UNCHANGED <<Held, Using>>
  BY <1>2, <1>6 DEF DefineThrows
<1>7. CASE UNCHANGED jitVars
  BY <1>2, <1>7 DEF jitVars
<1> QED
  BY <1>1, <1>3, <1>4, <1>5, <1>6, <1>7 DEF Next

\* The runtime, used by one session that serialises its teardowns, implements
\* the registry: exclusive singleton slots, runs only on mounted plugins, and
\* no plugin retired under a run.
THEOREM SerialSessionImplementsRegistry ==
  ASSUME Disciplined
  PROVE  Spec => ImplementsRegistry
<1>1. Init => Registry!Init
  BY DEF Init, Registry!Init, Held, Using
<1>2. SerialInv /\ [Next]_jitVars => [Registry!Next]_Registry!vars
  BY RegistryNext DEF Registry!vars
<1>3. SerialInv /\ [Next]_jitVars => SerialInv'
  BY SerialNext
<1> QED
  BY <1>1, <1>2, <1>3, SerialInit, PTL DEF Spec, ImplementsRegistry, Registry!Spec
=============================================================================
