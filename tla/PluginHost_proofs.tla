--------------------------- MODULE PluginHost_proofs ---------------------------
(***************************************************************************)
(* Theorems about PluginHost for any session, packages, tasks, templates,  *)
(* `slots` lists, runs and calls, under the discipline of JitRuntime and   *)
(* with package code that does not fail.                                   *)
(***************************************************************************)

EXTENDS PluginHost, JitRuntime_proofs, SequenceTheorems

(***************************************************************************)
(* The inductive invariant: the runtime's own, the agreement of table and  *)
(* cells with the map, and what a rollback under way may count on.         *)
(***************************************************************************)

\* Nobody but its call deals with a module that is being rolled back: no run
\* uses it, no stop waits for it, and the call itself never has to wait.
RollbackQuiet ==
  /\ \A r \in Run : runs[r] \notin RollingBack
  /\ \A c \in StopCall : stopping[c] \notin RollingBack
  /\ \A y \in Synth : stopping[y] = NoEntry

\* What a rollback has still to stop by id is, if it is mounted, the module
\* that the call mounted.
RollbackOwn ==
  /\ \A e \in RollingBack : e.id \in Templates
  /\ \A e \in RollingBack : \A m \in mounted : m.id = e.id => m = e

\* What it has stopped is gone.
RollbackDone ==
  \A y \in Synth : \A k \in DOMAIN rollback[y] : k > left[y] => rollback[y][k] \notin mounted

\* An unloaded plugin mounts nothing and has no profile attached.
UnloadedEmpty == ~registered => mounted = {} /\ ~attached

Agreement ==
  /\ SerialInv
  /\ SlotTableExact
  /\ ContextMatches
  /\ RollbackQuiet
  /\ RollbackOwn
  /\ RollbackDone

HostInv == HostTypeOK /\ Agreement /\ UnloadedEmpty

HostDiscipline == Disciplined /\ Faults = {}

(***************************************************************************)
(* Lemmas about a table, a map and cells that agree                        *)
(***************************************************************************)

\* What slots.js keeps of the entries in M.
HeldIn(M, s) == {e.id : e \in {d \in M : d.slot = s}}

\* No two entries of M have one id, and no two share a singleton slot.
Exclusive(M) ==
  \A e, f \in M : e.id = f.id \/ (e.slot = f.slot /\ e.slot # Capability) => e = f

\* The map of a disciplined session is exclusive.
LEMMA MountedExclusive ==
  ASSUME Disciplined, SerialInv
  PROVE  Exclusive(mounted)
<1> SUFFICES ASSUME NEW e \in mounted, NEW f \in mounted,
                    e.id = f.id \/ (e.slot = f.slot /\ e.slot # Capability)
             PROVE  e = f
  BY DEF Exclusive
<1>1. e.slot \in Slot /\ e.id \in slots[e.slot] /\ f.id \in slots[f.slot]
  BY EntryFields DEF SerialInv, MountedHoldsSlot, CountInv, TypeOK
<1>2. e.id = f.id
  BY <1>1 DEF SerialInv, SlotsSingle
<1> QED
  BY <1>2, PackageIdentifies

\* A template's disposer leaves exactly the modules that stay: it empties a
\* cell only of the one occupant, and takes only its own id from the list
\* (templates.js:16-18 and 83-85).
LEMMA DisposedShows ==
  ASSUME NEW cells, NEW M, NEW D, D \subseteq M, Exclusive(M), NEW R, R = M \ D,
         NEW s \in Slot, cells[s] = OfTemplates(M, s)
  PROVE  Disposed(cells, D)[s] = OfTemplates(R, s)
<1>1. CASE s = Capability
  <2>1. Disposed(cells, D)[s] = {e \in cells[s] : \A d \in OfTemplates(D, s) : d.id # e.id}
    BY <1>1 DEF Disposed
  <2> QED
    BY <2>1 DEF OfTemplates, Exclusive
<1>2. CASE s # Capability
  <2>1. Disposed(cells, D)[s] = IF OfTemplates(D, s) # {} THEN {} ELSE cells[s]
    BY <1>2 DEF Disposed
  <2>2. ASSUME OfTemplates(D, s) # {}
        PROVE  OfTemplates(R, s) = {}
    BY <1>2, <2>2 DEF OfTemplates, Exclusive
  <2>3. ASSUME OfTemplates(D, s) = {}
        PROVE  OfTemplates(R, s) = OfTemplates(M, s)
    BY <2>3 DEF OfTemplates
  <2> QED
    BY <2>1, <2>2, <2>3
<1> QED
  BY <1>1, <1>2

\* apply() of templates that meet a free slot shows them beside what is there
\* (templates.js:15 and 80-82).
LEMMA AppliedShows ==
  ASSUME NEW cells, NEW M, NEW N, NEW U, U = M \cup N, Exclusive(U), M \cap N = {},
         NEW s \in Slot, cells[s] = OfTemplates(M, s)
  PROVE  Applied(cells, N)[s] = OfTemplates(U, s)
<1>1. CASE s = Capability
  <2>1. Applied(cells, N)[s] = cells[s] \cup OfTemplates(N, s)
    BY <1>1 DEF Applied
  <2> QED
    BY <2>1 DEF OfTemplates
<1>2. CASE s # Capability
  <2>1. Applied(cells, N)[s] = IF OfTemplates(N, s) # {} THEN OfTemplates(N, s) ELSE cells[s]
    BY <1>2 DEF Applied
  <2>2. ASSUME OfTemplates(N, s) # {}
        PROVE  OfTemplates(U, s) = OfTemplates(N, s)
    BY <1>2, <2>2 DEF OfTemplates, Exclusive
  <2>3. ASSUME OfTemplates(N, s) = {}
        PROVE  OfTemplates(U, s) = OfTemplates(M, s)
    BY <2>3 DEF OfTemplates
  <2> QED
    BY <2>1, <2>2, <2>3
<1> QED
  BY <1>1, <1>2

\* A module that is being rolled back is an entry.
LEMMA RollingBackEntries ==
  ASSUME HostTypeOK
  PROVE  /\ RollingBack \subseteq Entry
         /\ \A y \in Synth : \A k \in DOMAIN rollback[y] :
              rollback[y][k] \in RollingBack /\ rollback[y][k] \in Entry
         /\ \A y \in Synth : /\ left[y] \in Nat /\ Len(rollback[y]) \in Nat
                             /\ DOMAIN rollback[y] = 1 .. Len(rollback[y])
<1>1. ASSUME NEW y \in Synth
      PROVE  /\ \A k \in DOMAIN rollback[y] : rollback[y][k] \in Entry
             /\ left[y] \in Nat /\ Len(rollback[y]) \in Nat
             /\ DOMAIN rollback[y] = 1 .. Len(rollback[y])
  <2>1. rollback[y] \in Seq(Entry) /\ left[y] \in Nat
    BY DEF HostTypeOK
  <2> QED
    BY <2>1, LenProperties, ElementOfSeq
<1> QED
  BY <1>1 DEF RollingBack

(***************************************************************************)
(* Initial states, and steps that take nothing away                        *)
(***************************************************************************)

\* A plugin that has just been applied satisfies the invariant (apply.js:19-44).
LEMMA HostInitInv == HostInit => HostInv
<1> SUFFICES ASSUME HostInit PROVE HostInv
  OBVIOUS
<1>1. Init /\ SerialInv /\ TypeOK
  BY SerialInit DEF HostInit, SerialInv, CountInv
<1>2. \A y \in Synth : rollback[y] = <<>> /\ left[y] = 0
  BY DEF HostInit
<1>3. <<>> \in Seq(Entry) /\ Len(<<>>) = 0 /\ DOMAIN <<>> = {}
  OBVIOUS
<1>4. HostTypeOK
  <2>1. /\ rollback \in [Synth -> Seq(Entry)] /\ left \in [Synth -> Nat]
        /\ \A y \in Synth : left[y] <= Len(rollback[y])
    BY <1>2, <1>3 DEF HostInit
  <2>2. context \in [Slot -> SUBSET Entry]
    BY DEF HostInit
  <2> QED
    BY <1>1, <2>1, <2>2 DEF HostInit, HostTypeOK
<1>5. RollingBack = {}
  BY <1>2, <1>3 DEF RollingBack
<1>6. SlotTableExact /\ ContextMatches
  BY <1>1 DEF Init, HostInit, EmptySlots, SlotTableExact, ContextMatches, OfTemplates
<1>7. RollbackQuiet /\ RollbackOwn
  <2>1. \A y \in Synth : y \in StopCall
    BY HostAssumption
  <2> QED
    BY <1>1, <1>5, <2>1 DEF Init, RollbackQuiet, RollbackOwn
<1> QED
  BY <1>1, <1>2, <1>3, <1>4, <1>6, <1>7
  DEF HostInv, Agreement, HostInit, RollbackDone, UnloadedEmpty

\* A step that starts or ends no rollback, mounts no template, and puts nobody
\* on a module being rolled back leaves every rollback what it counts on.
LEMMA RollbackKept ==
  ASSUME HostTypeOK, Agreement, UNCHANGED <<rollback, left>>,
         \A m \in mounted' \ mounted : m.id \notin Templates,
         \A r \in Run : runs'[r] \notin RollingBack,
         \A c \in StopCall : stopping'[c] \notin RollingBack,
         \A y \in Synth : stopping'[y] = NoEntry
  PROVE  RollbackQuiet' /\ RollbackOwn' /\ RollbackDone'
<1>1. RollingBack' = RollingBack
  BY DEF RollingBack
<1>2. RollbackQuiet'
  BY <1>1 DEF RollbackQuiet
<1>3. RollbackOwn'
  BY <1>1 DEF RollbackOwn, Agreement
<1>4. RollbackDone'
  <2> SUFFICES ASSUME NEW y \in Synth, NEW k \in DOMAIN rollback[y], k > left[y],
                      rollback[y][k] \in mounted'
               PROVE  FALSE
    BY DEF RollbackDone
  <2>1. rollback[y][k] \in RollingBack
    BY RollingBackEntries
  <2>2. rollback[y][k] \in mounted
    BY <2>1 DEF Agreement, RollbackOwn
  <2> QED
    BY <2>2 DEF Agreement, RollbackDone
<1> QED
  BY <1>2, <1>3, <1>4

\* A step that leaves the map, the table and the cells alone keeps their
\* agreement.
LEMMA AgreementKept ==
  ASSUME SlotTableExact, ContextMatches, UNCHANGED <<slots, mounted, context>>
  PROVE  SlotTableExact' /\ ContextMatches'
BY DEF SlotTableExact, ContextMatches, OfTemplates

\* A define of a package that is no template adds its id to its slot and shows
\* no cell (jit.js:19-31).
LEMMA DefineAgrees ==
  ASSUME HostDiscipline, HostTypeOK, Agreement, NEW p \in Package, p[1] \notin Templates,
         Define(sid, p[1], p[2]), UNCHANGED <<context, rollback, left>>
  PROVE  Agreement'
<1>1. p[1] \in Id /\ p[2] \in Slot /\ sid \in Session
  BY JitAssumption, HostAssumption
<1>2. SerialInv /\ SerialInv'
  <2>1. Next
    BY <1>1 DEF Next
  <2> QED
    BY <2>1, SerialNext DEF HostDiscipline, Agreement
<1>3. PICK n \in Instance :
        LET e == [session |-> sid, id |-> p[1], slot |-> p[2], instance |-> n] IN
        mounted' = mounted \cup {e}
  BY DEF Define
<1>4. PICK e : e.id = p[1] /\ e.slot = p[2] /\ mounted' = mounted \cup {e}
  BY <1>3
<1>5. SlotTableExact'
  <2> SUFFICES ASSUME NEW s \in Slot PROVE slots'[s] = HeldIn(mounted', s)
    BY DEF SlotTableExact, HeldIn
  <2>1. slots[s] = HeldIn(mounted, s) /\ slots \in SlotTable
    BY <1>2 DEF Agreement, SlotTableExact, HeldIn, SerialInv, CountInv, TypeOK
  <2>2. CASE s = p[2]
    <3>1. slots'[s] = slots[s] \cup {p[1]}
      BY <2>1, <2>2 DEF Define, CanClaim, Claim, SlotTable
    <3> QED
      BY <1>4, <2>1, <2>2, <3>1 DEF HeldIn
  <2>3. CASE s # p[2]
    <3>1. slots'[s] = slots[s]
      BY <2>1, <2>3 DEF Define, Claim, SlotTable
    <3> QED
      BY <1>4, <2>1, <2>3, <3>1 DEF HeldIn
  <2> QED
    BY <2>2, <2>3
<1>6. ContextMatches'
  BY <1>4 DEF Agreement, ContextMatches, OfTemplates
<1>7. RollbackQuiet' /\ RollbackOwn' /\ RollbackDone'
  <2>1. UNCHANGED <<runs, stopping>>
    BY DEF Define
  <2>2. \A m \in mounted' \ mounted : m.id \notin Templates
    BY <1>4
  <2> QED
    BY <2>1, <2>2, RollbackKept DEF Agreement, RollbackQuiet
<1> QED
  BY <1>2, <1>5, <1>6, <1>7 DEF Agreement

\* Where package code does not fail, a define that throws after its claim
\* found its own id mounted in that slot, so that the table stays as it was
\* (jit.js:20-22).
LEMMA DefineThrowsNothing ==
  ASSUME HostDiscipline, Agreement, NEW p \in Package, DefineThrows(sid, p[1], p[2])
  PROVE  UNCHANGED jitVars
<1>1. p \in Id \X Slot /\ slots \in SlotTable
  BY JitAssumption DEF Agreement, SerialInv, CountInv, TypeOK
<1>2. PICK e \in mounted : e.id = p[1]
  BY DEF DefineThrows, HostDiscipline, AtKey
<1>3. e \in Entry /\ e.id \in slots[e.slot]
  BY DEF Agreement, SerialInv, MountedHoldsSlot, CountInv, TypeOK
<1>4. <<e.id, e.slot>> = p
  BY <1>2, <1>3, EntryFields DEF HostDiscipline, Disciplined
<1>5. p[1] \in slots[p[2]]
  BY <1>1, <1>3, <1>4
<1>6. slots' = slots
  BY <1>1, <1>5 DEF DefineThrows, CanClaim, Claim, SlotTable
<1> QED
  BY <1>6 DEF DefineThrows, jitVars

\* A step that takes idle entries out of the map with their ids and their
\* cells keeps the three in agreement.
LEMMA RemovalAgrees ==
  ASSUME HostDiscipline, Agreement, NEW D \in SUBSET mounted,
         mounted' = mounted \ D, context' = Disposed(context, D),
         slots' = [s \in Slot |-> slots[s] \ {e.id : e \in {d \in D : d.slot = s}}]
  PROVE  SlotTableExact' /\ ContextMatches'
<1>1. Exclusive(mounted) /\ D \subseteq mounted
  BY MountedExclusive DEF HostDiscipline, Agreement
<1>2. SlotTableExact'
  <2> SUFFICES ASSUME NEW s \in Slot PROVE slots'[s] = HeldIn(mounted', s)
    BY DEF SlotTableExact, HeldIn
  <2>1. slots[s] = HeldIn(mounted, s) /\ slots'[s] = slots[s] \ HeldIn(D, s)
    BY DEF Agreement, SlotTableExact, HeldIn
  <2>2. HeldIn(mounted', s) = HeldIn(mounted, s) \ HeldIn(D, s)
    BY <1>1 DEF HeldIn, Exclusive
  <2> QED
    BY <2>1, <2>2
<1>3. ContextMatches'
  <2> SUFFICES ASSUME NEW s \in Slot PROVE Disposed(context, D)[s] = OfTemplates(mounted', s)
    BY DEF ContextMatches, OfTemplates
  <2>1. context[s] = OfTemplates(mounted, s)
    BY DEF Agreement, ContextMatches
  <2> QED
    BY <1>1, <2>1, DisposedShows
<1> QED
  BY <1>2, <1>3

\* So does the end of a stop.
LEMMA UnmountAgrees ==
  ASSUME HostDiscipline, Agreement, NEW e \in mounted, Unmount(e),
         context' = Disposed(context, {e})
  PROVE  SlotTableExact' /\ ContextMatches'
<1>1. /\ mounted' = mounted \ {e} /\ {e} \in SUBSET mounted
      /\ slots' = [s \in Slot |-> slots[s] \ {d.id : d \in {m \in {e} : m.slot = s}}]
  BY UnmountRemovesOne DEF Agreement
<1> QED
  BY <1>1, RemovalAgrees

\* The entry under a key of the session is the one with that id.
LEMMA AtKeyIsOne ==
  ASSUME HostDiscipline, Agreement, NEW e \in mounted
  PROVE  AtKey(sid, e.id) = {e}
<1>1. e.session = sid
  BY EntryFields, HostAssumption DEF HostDiscipline, Disciplined, Agreement, SerialInv,
     CountInv, TypeOK
<1> QED
  BY <1>1, PackageIdentifies DEF AtKey, HostDiscipline, Agreement

(***************************************************************************)
(* The steps of the tools on the runtime                                   *)
(***************************************************************************)

\* A run that starts is on a module its caller knows, and one that settles
\* leaves nothing (apply.js:63).
LEMMA RunAgrees ==
  ASSUME HostDiscipline, HostTypeOK, Agreement, NEW r \in Run,
         (\E id \in Id : RunTool(r, id)) \/ RunSettles(r)
  PROVE  Agreement'
<1>1. UNCHANGED <<slots, mounted, stopping, context, rollback, left>>
  BY DEF RunTool, RunSettles, StartRun, EndRun, hostVars, synthVars
<1>2. SerialInv'
  <2>1. Next
    BY HostAssumption DEF RunTool, RunSettles, Next
  <2> QED
    BY <2>1, SerialNext DEF HostDiscipline, Agreement
<1>3. NoEntry \notin RollingBack
  BY RollingBackEntries, JitAssumption
<1>4. \A q \in Run : runs'[q] \notin RollingBack
  <2>1. CASE RunSettles(r)
    BY <1>3, <2>1 DEF RunSettles, EndRun, Agreement, RollbackQuiet, HostTypeOK, TypeOK
  <2>2. CASE \E id \in Id : RunTool(r, id)
    <3>1. PICK id \in Id : RunTool(r, id)
      BY <2>2
    <3>2. PICK e \in AtKey(sid, id) : runs' = [runs EXCEPT ![r] = e]
      BY <3>1 DEF RunTool, StartRun
    <3>3. e \notin RollingBack
      BY <3>1 DEF RunTool, Known
    <3> QED
      BY <3>2, <3>3 DEF Agreement, RollbackQuiet, HostTypeOK, TypeOK
  <2> QED
    BY <2>1, <2>2
<1>5. RollbackQuiet' /\ RollbackOwn' /\ RollbackDone'
  BY <1>1, <1>4, RollbackKept DEF Agreement, RollbackQuiet
<1> QED
  BY <1>1, <1>2, <1>5, AgreementKept DEF Agreement

\* A stop that begins takes an idle entry away with its slot and its cell, or
\* sleeps and changes none of them (jit.js:53-66).
LEMMA BeginStopAgrees ==
  ASSUME HostDiscipline, Agreement, NEW c \in StopCall, NEW id \in Id, BeginStop(c, sid, id),
         context' = IF stopping' = stopping THEN Disposed(context, AtKey(sid, id)) ELSE context
  PROVE  /\ SerialInv' /\ SlotTableExact' /\ ContextMatches'
         /\ UNCHANGED runs
         /\ \E e \in AtKey(sid, id) :
              \/ mounted' = mounted \ {e} /\ UNCHANGED stopping
              \/ /\ UNCHANGED mounted /\ inFlight[e] > 0 /\ stopping[c] = NoEntry
                 /\ stopping' = [stopping EXCEPT ![c] = e]
<1>1. SerialInv'
  <2>1. Next
    BY HostAssumption DEF Next
  <2> QED
    BY <2>1, SerialNext DEF HostDiscipline, Agreement
<1>2. PICK e \in AtKey(sid, id) :
        \/ inFlight[e] = 0 /\ Unmount(e) /\ UNCHANGED stopping
        \/ /\ inFlight[e] > 0 /\ stopping[c] = NoEntry
           /\ stopping' = [stopping EXCEPT ![c] = e]
           /\ UNCHANGED <<slots, mounted>>
  BY DEF BeginStop, Stop, DisposerThrows, HostDiscipline, Disciplined
<1>3. e \in mounted /\ e \in Entry /\ e.id = id
  BY DEF AtKey, Agreement, SerialInv, CountInv, TypeOK
<1>4. UNCHANGED runs
  BY DEF BeginStop, Stop
<1>5. CASE inFlight[e] = 0 /\ Unmount(e) /\ UNCHANGED stopping
  <2>1. AtKey(sid, id) = {e}
    BY <1>3, AtKeyIsOne
  <2>2. context' = Disposed(context, {e})
    BY <1>5, <2>1
  <2>3. mounted' = mounted \ {e}
    BY <1>3, <1>5, UnmountRemovesOne DEF Agreement
  <2> QED
    BY <1>1, <1>3, <1>4, <1>5, <2>2, <2>3, UnmountAgrees
<1>6. CASE /\ inFlight[e] > 0 /\ stopping[c] = NoEntry
           /\ stopping' = [stopping EXCEPT ![c] = e]
           /\ UNCHANGED <<slots, mounted>>
  <2>1. stopping'[c] = e /\ e # NoEntry
    BY <1>3, <1>6, JitAssumption DEF Agreement, SerialInv, CountInv, TypeOK
  <2>2. UNCHANGED context
    BY <1>6, <2>1
  <2> QED
    BY <1>1, <1>4, <1>6, <2>2, AgreementKept DEF Agreement
<1> QED
  BY <1>2, <1>5, <1>6

\* A stop the agent asks for is of a module it knows (apply.js:64).
LEMMA StopToolAgrees ==
  ASSUME HostDiscipline, HostTypeOK, Agreement, NEW c \in StopCall \ Synth, NEW id \in Id,
         StopTool(c, id)
  PROVE  Agreement'
<1>1. /\ SerialInv' /\ SlotTableExact' /\ ContextMatches' /\ UNCHANGED runs
      /\ \E e \in AtKey(sid, id) :
           \/ mounted' = mounted \ {e} /\ UNCHANGED stopping
           \/ UNCHANGED mounted /\ stopping' = [stopping EXCEPT ![c] = e]
  BY BeginStopAgrees DEF StopTool
<1>2. PICK e \in AtKey(sid, id) :
        \/ mounted' = mounted \ {e} /\ UNCHANGED stopping
        \/ UNCHANGED mounted /\ stopping' = [stopping EXCEPT ![c] = e]
  BY <1>1
<1>3. e \notin RollingBack /\ UNCHANGED <<rollback, left>>
  BY DEF StopTool, Known, synthVars
<1>4. /\ \A d \in StopCall : stopping'[d] \notin RollingBack
      /\ \A y \in Synth : stopping'[y] = NoEntry
  BY <1>2, <1>3, HostAssumption DEF Agreement, RollbackQuiet, HostTypeOK, TypeOK
<1>5. RollbackQuiet' /\ RollbackOwn' /\ RollbackDone'
  BY <1>1, <1>2, <1>3, <1>4, RollbackKept DEF Agreement, RollbackQuiet
<1> QED
  BY <1>1, <1>5 DEF Agreement

\* A sleeping stop that ends is the agent's, of an entry that is still mounted
\* (jit.js:58-66).
LEMMA EndStopAgrees ==
  ASSUME HostDiscipline, HostTypeOK, Agreement, NEW c \in StopCall,
         StopEnds(c) \/ StopThrows(c)
  PROVE  Agreement'
<1>1. UNCHANGED <<runs, rollback, left>> /\ stopping' = [stopping EXCEPT ![c] = NoEntry]
  BY DEF StopEnds, StopThrows, FinishStop, GiveUpStop, hostVars, synthVars
<1>2. SerialInv'
  <2>1. Next
    BY DEF StopEnds, StopThrows, Next
  <2> QED
    BY <2>1, SerialNext DEF HostDiscipline, Agreement
<1>3. SlotTableExact' /\ ContextMatches' /\ mounted' \subseteq mounted
  <2>1. CASE StopEnds(c)
    <3>1. PICK e \in mounted : e = stopping[c] /\ Unmount(e)
      BY <2>1 DEF StopEnds, FinishStop, DisposerThrows, HostDiscipline, Disciplined,
         Agreement, SerialInv, StopTargetsMounted
    <3>2. context' = Disposed(context, {e})
      BY <2>1, <3>1 DEF StopEnds
    <3> QED
      BY <3>1, <3>2, UnmountAgrees DEF Unmount
  <2>2. CASE StopThrows(c)
    BY <2>2, AgreementKept DEF StopThrows, GiveUpStop, hostVars, Agreement
  <2> QED
    BY <2>1, <2>2
<1>4. NoEntry \notin RollingBack
  BY RollingBackEntries, JitAssumption
<1>5. /\ \A d \in StopCall : stopping'[d] \notin RollingBack
      /\ \A y \in Synth : stopping'[y] = NoEntry
  BY <1>1, <1>4, HostAssumption DEF Agreement, RollbackQuiet, HostTypeOK, TypeOK
<1>6. RollbackQuiet' /\ RollbackOwn' /\ RollbackDone'
  BY <1>1, <1>3, <1>5, RollbackKept DEF Agreement, RollbackQuiet
<1> QED
  BY <1>2, <1>3, <1>6 DEF Agreement

(***************************************************************************)
(* The rollback of a synthesize call                                       *)
(***************************************************************************)

\* A rollback's next stop finds nothing, or the idle module its call mounted,
\* which it takes away in one callback (synthesize.js:59-65).
LEMMA RollbackStops ==
  ASSUME HostDiscipline, HostTypeOK, Agreement, NEW y \in Synth, RollbackNext(y),
         NEW e, e = rollback[y][left[y]]
  PROVE  /\ mounted' = mounted \ {e} /\ UNCHANGED <<runs, stopping>>
         /\ SerialInv' /\ SlotTableExact' /\ ContextMatches'
<1>1. left[y] \in DOMAIN rollback[y]
  BY RollingBackEntries DEF RollbackNext, HostTypeOK
<1>2. e \in RollingBack /\ e \in Entry /\ e.id \in Id
  BY <1>1, RollingBackEntries, EntryFields
<1>3. AtKey(sid, e.id) \subseteq {e}
  BY <1>2 DEF AtKey, Agreement, RollbackOwn
<1>4. CASE AtKey(sid, e.id) = {} /\ UNCHANGED <<jitVars, context>>
  <2>1. UNCHANGED <<slots, mounted, runs, stopping>>
    BY <1>4 DEF jitVars
  <2>2. SerialInv'
    BY <1>4, SerialNext DEF HostDiscipline, Agreement
  <2>3. e \in mounted => e.session = sid
    BY <1>2, EntryFields, HostAssumption DEF HostDiscipline, Disciplined
  <2>4. e \notin mounted
    BY <1>4, <2>3 DEF AtKey
  <2> QED
    BY <1>4, <2>1, <2>2, <2>4, AgreementKept DEF Agreement
<1>5. CASE /\ Stop(y, sid, e.id)
           /\ context' = IF stopping' = stopping THEN Disposed(context, AtKey(sid, e.id))
                         ELSE context
  <2>1. \A d \in AtKey(sid, e.id) : ~Awaited(d)
    BY <1>2, <1>3 DEF Awaited, Agreement, RollbackQuiet
  <2>2. BeginStop(y, sid, e.id) /\ y \in StopCall
    BY <1>5, <2>1, HostAssumption DEF BeginStop
  <2>3. /\ SerialInv' /\ SlotTableExact' /\ ContextMatches' /\ UNCHANGED runs
        /\ \E d \in AtKey(sid, e.id) :
             \/ mounted' = mounted \ {d} /\ UNCHANGED stopping
             \/ inFlight[d] > 0
    BY <1>2, <1>5, <2>2, BeginStopAgrees
  <2>4. inFlight[e] = 0
    BY <1>2, IdleMeansNoRun DEF Agreement, RollbackQuiet, SerialInv
  <2> QED
    BY <1>3, <2>3, <2>4
<1> QED
  BY <1>4, <1>5 DEF RollbackNext

\* Every other rollback still finds what it counts on, and this one has one
\* module less to stop.
LEMMA RollbackNextAgrees ==
  ASSUME HostDiscipline, HostTypeOK, Agreement, NEW y \in Synth, RollbackNext(y)
  PROVE  Agreement'
<1>1. PICK e : e = rollback[y][left[y]]
  OBVIOUS
<1>2. /\ mounted' = mounted \ {e} /\ UNCHANGED <<runs, stopping>>
      /\ SerialInv' /\ SlotTableExact' /\ ContextMatches'
  BY <1>1, RollbackStops
<1>3. left' = [left EXCEPT ![y] = left[y] - 1] /\ UNCHANGED rollback
  BY DEF RollbackNext
<1>4. RollingBack' = RollingBack
  BY <1>3 DEF RollingBack
<1>5. RollbackQuiet' /\ RollbackOwn'
  BY <1>2, <1>4 DEF RollbackQuiet, RollbackOwn, Agreement
<1>6. RollbackDone'
  <2> SUFFICES ASSUME NEW z \in Synth, NEW k \in DOMAIN rollback[z], k > left'[z],
                      rollback[z][k] \in mounted'
               PROVE  FALSE
    BY <1>3 DEF RollbackDone
  <2>1. k \in Nat /\ left[z] \in Nat /\ left[y] \in Nat
    BY RollingBackEntries
  <2>2. ~(k > left[z])
    BY <1>2 DEF Agreement, RollbackDone
  <2>3. z = y /\ k = left[y]
    BY <1>3, <2>1, <2>2 DEF HostTypeOK
  <2> QED
    BY <1>1, <1>2, <2>3
<1> QED
  BY <1>2, <1>5, <1>6 DEF Agreement

\* The end of the call drops a list of modules that are all gone.
LEMMA EndSynthesizeAgrees ==
  ASSUME HostDiscipline, HostTypeOK, Agreement, NEW y \in Synth, EndSynthesize(y)
  PROVE  Agreement'
<1>1. UNCHANGED <<slots, mounted, runs, stopping, context, left>>
  BY DEF EndSynthesize, jitVars
<1>2. SerialInv'
  BY SerialNext DEF EndSynthesize, HostDiscipline, Agreement
<1>3. \A z \in Synth : rollback'[z] = rollback[z] \/ rollback'[z] = <<>>
  BY DEF EndSynthesize, HostTypeOK
<1>4. DOMAIN <<>> = {}
  OBVIOUS
<1>5. RollingBack' \subseteq RollingBack
  BY <1>3, <1>4 DEF RollingBack
<1>6. RollbackQuiet' /\ RollbackOwn'
  BY <1>1, <1>5 DEF RollbackQuiet, RollbackOwn, Agreement
<1>7. RollbackDone'
  BY <1>1, <1>3, <1>4 DEF RollbackDone, Agreement
<1> QED
  BY <1>1, <1>2, <1>6, <1>7, AgreementKept DEF Agreement

(***************************************************************************)
(* The disposer of the plugin                                              *)
(***************************************************************************)

\* Unloading, finished or thrown, takes whole entries away, those of a
\* rollback included (apply.js:97-102).
LEMMA UnloadAgrees ==
  ASSUME HostDiscipline, HostTypeOK, Agreement, Unload \/ UnloadThrows
  PROVE  Agreement' /\ (Unload => mounted' = {})
<1>1. Owned({sid}) = mounted
  <2>1. \A e \in mounted : e.session \in Session
    BY EntryFields DEF HostTypeOK, TypeOK
  <2>2. \A e \in mounted : e.session = sid
    BY <2>1, HostAssumption DEF HostDiscipline, Disciplined
  <2> QED
    BY <2>2 DEF Owned
<1>2. CASE Unload /\ mounted = {}
  <2>1. UNCHANGED jitVars
    BY <1>1, <1>2 DEF Unload
  <2>2. SerialInv' /\ UNCHANGED <<slots, mounted, runs, stopping>>
    BY <2>1, SerialNext DEF HostDiscipline, Agreement, jitVars
  <2>3. \A s \in Slot : context'[s] = {}
    BY <1>1, <1>2 DEF Unload, Disposed, Agreement, ContextMatches, OfTemplates
  <2>4. ContextMatches' /\ SlotTableExact'
    BY <1>2, <2>2, <2>3 DEF ContextMatches, OfTemplates, SlotTableExact, Agreement
  <2>5. RollbackQuiet' /\ RollbackOwn' /\ RollbackDone'
    BY <1>2, <2>2, RollbackKept DEF Unload, synthVars, Agreement, RollbackQuiet
  <2> QED
    BY <1>2, <2>2, <2>4, <2>5 DEF Agreement
<1>3. CASE UnloadThrows \/ (Unload /\ mounted # {})
  <2>1. DisposeAll({sid}) \/ DisposeAllThrows({sid})
    BY <1>1, <1>3 DEF Unload, UnloadThrows
  <2>2. SerialInv'
    <3>1. Next
      BY <2>1, HostAssumption DEF Next
    <3> QED
      BY <3>1, SerialNext DEF HostDiscipline, Agreement
  <2>3. PICK D \in SUBSET mounted :
          /\ mounted' = mounted \ D /\ slots' = ReleaseAll(D)
          /\ context' = Disposed(context, D)
          /\ Unload => D = mounted
    BY <1>1, <1>3 DEF Unload, UnloadThrows, DisposeAll, DisposeAllThrows
  <2>4. slots' = [s \in Slot |-> slots[s] \ {e.id : e \in {d \in D : d.slot = s}}]
    BY <2>3, ReleaseAllOwnIds DEF HostDiscipline, HostTypeOK
  <2>5. SlotTableExact' /\ ContextMatches'
    BY <2>3, <2>4, RemovalAgrees
  <2>6. UNCHANGED <<runs, stopping, rollback, left>>
    BY <2>1 DEF Unload, UnloadThrows, DisposeAll, DisposeAllThrows, synthVars
  <2>7. RollbackQuiet' /\ RollbackOwn' /\ RollbackDone'
    BY <2>3, <2>6, RollbackKept DEF Agreement, RollbackQuiet
  <2> QED
    BY <2>2, <2>3, <2>5, <2>7 DEF Agreement
<1> QED
  BY <1>2, <1>3

(***************************************************************************)
(* The mounts of a synthesize call                                         *)
(***************************************************************************)

\* What the callback of a synthesize call does: it mounts new modules of one
\* task, at most one to a slot, and of those it has to undo stops the last.
Mounted(y, task, new, stopped, undo) ==
  /\ new \subseteq Entry /\ stopped \subseteq new
  /\ \A e \in new : /\ e.id = Template[task][e.slot]
                    /\ Unused(e) /\ e \notin RollingBack
                    /\ CanClaim(slots, e.slot, e.id) /\ AtKey(sid, e.id) = {}
  /\ \A e, f \in new : e.slot = f.slot => e = f
  /\ \A e \in new : \A d \in RollingBack : d.id # e.id
  /\ mounted' = (mounted \cup new) \ stopped
  /\ live' = (live \cup new) \ stopped
  /\ slots' \in SlotTable
  /\ \A s \in Slot : slots'[s] = (slots[s] \cup HeldIn(new, s)) \ HeldIn(stopped, s)
  /\ context' = Disposed(Applied(context, new), stopped)
  /\ undo \in Seq(Entry) /\ \A k \in DOMAIN undo : undo[k] \in new
  /\ rollback' = [rollback EXCEPT ![y] = undo]
  /\ left' = [left EXCEPT ![y] = IF undo = <<>> THEN 0 ELSE Len(undo) - 1]
  /\ undo # <<>> => undo[Len(undo)] \in stopped

\* A template is a package of its own slot, and no two templates share an id
\* (templates.js:8, 28, 54 and 74).
LEMMA TemplatePackages ==
  ASSUME NEW s \in Slot, NEW t \in Task
  PROVE  /\ Template[t][s] \in Id /\ Template[t][s] \in Templates
         /\ <<Template[t][s], s>> \in Package
         /\ \A r \in Slot, u \in Task : Template[u][r] = Template[t][s] => r = s /\ u = t
<1>1. Template[t][s] \in Id /\ <<Template[t][s], s>> \in Package
  BY HostAssumption
<1>2. Template[t][s] \in Templates
  BY DEF Templates
<1> QED
  BY <1>1, <1>2, HostAssumption

\* The new entries are the modules of the first n slots of the list.
FirstOf(new, task, order, n) ==
  /\ \A k \in 1 .. n : \E e \in new : e.slot = order[k] /\ e.id = Template[task][order[k]]
  /\ \A e \in new : \E k \in 1 .. n : e.slot = order[k] /\ e.id = Template[task][order[k]]

\* The claim that a failed define leaves behind is one its slot has already:
\* its own template is mounted there, or the call has just mounted it
\* (synthesize.js:36-46, jit.js:20-22).
LEMMA ClaimsAreHeld ==
  ASSUME HostDiscipline, HostTypeOK, Agreement, NEW task \in Task, NEW order \in Order,
         NEW n \in 0 .. Len(order), Mountable(task, order, n), NEW new,
         NEW s \in Slot, NEW after, after = slots[s] \cup HeldIn(new, s),
         FirstOf(new, task, order, n)
  PROVE  /\ s \in ClaimedSlots(task, order, n) => Claim(slots, s, Template[task][s])[s] = after
         /\ s \notin ClaimedSlots(task, order, n) => slots[s] = after
<1>1. Len(order) \in Nat /\ DOMAIN order = 1 .. Len(order)
  <2>1. order \in Seq({order[k] : k \in DOMAIN order})
    BY HostAssumption
  <2> QED
    BY <2>1, LenProperties
<1>2. slots \in SlotTable /\ Template[task][s] \in Id
  BY TemplatePackages DEF Agreement, SerialInv, CountInv, TypeOK
<1>3. HeldIn(new, s) \subseteq {Template[task][s]}
  BY DEF HeldIn, FirstOf
<1>4. CASE s \in ClaimedSlots(task, order, n)
  <2>1. PICK k \in DOMAIN order : k <= n + 1 /\ order[k] = s
    BY <1>4 DEF ClaimedSlots
  <2>2. Template[task][s] \in slots[s] \cup HeldIn(new, s)
    <3>1. CASE k \in 1 .. n
      BY <2>1, <3>1 DEF HeldIn, FirstOf
    <3>2. CASE k = n + 1
      <4>1. ~Mounts(task, order, n + 1)
        BY <1>1, <3>2 DEF Mountable
      <4>2. CASE \E j \in 1 .. n : order[j] = s
        BY <4>2 DEF HeldIn, FirstOf
      <4>3. CASE ~ \E j \in 1 .. n : order[j] = s
        <5>1. AtKey(sid, Template[task][s]) # {}
          BY <1>4, <2>1, <3>2, <4>1, <4>3 DEF Mounts, ClaimedSlots
        <5>2. PICK e \in mounted : e.id = Template[task][s]
          BY <5>1 DEF AtKey
        <5>3. e \in Entry /\ e.id \in slots[e.slot]
          BY DEF Agreement, SerialInv, MountedHoldsSlot, CountInv, TypeOK
        <5>4. e.slot = s
          <6>1. <<e.id, e.slot>> \in Package /\ <<e.id, s>> \in Package
            BY <5>2, <5>3, EntryFields, TemplatePackages
          <6>2. <<e.id, e.slot>> = <<e.id, s>>
            BY <6>1 DEF HostDiscipline, Disciplined
          <6> QED
            BY <6>2
        <5> QED
          BY <5>2, <5>3, <5>4
      <4> QED
        BY <4>2, <4>3
    <3> QED
      BY <1>1, <2>1, <3>1, <3>2
  <2>3. s = Capability \/ slots[s] \subseteq {Template[task][s]}
    BY <1>4 DEF ClaimedSlots, CanClaim
  <2>4. Claim(slots, s, Template[task][s])[s]
          = IF s = Capability THEN slots[s] \cup {Template[task][s]} ELSE {Template[task][s]}
    BY <1>2 DEF Claim, SlotTable
  <2> QED
    BY <1>3, <1>4, <2>2, <2>3, <2>4
<1>5. CASE s \notin ClaimedSlots(task, order, n)
  <2>1. HeldIn(new, s) = {}
    <3> SUFFICES ASSUME NEW e \in new, e.slot = s PROVE FALSE
      BY DEF HeldIn
    <3>1. PICK k \in 1 .. n : order[k] = s
      BY DEF FirstOf
    <3>2. CanClaim(slots, s, Template[task][s])
      BY <3>1 DEF Mountable, Mounts
    <3>3. k \in DOMAIN order /\ k <= n + 1
      BY <1>1
    <3> QED
      BY <1>5, <3>1, <3>2, <3>3 DEF ClaimedSlots
  <2> QED
    BY <1>5, <2>1
<1> QED
  BY <1>4, <1>5

\* A synthesize call does just that (synthesize.js:35-65).
LEMMA SynthesizeMounts ==
  ASSUME HostDiscipline, HostTypeOK, Agreement, NEW y \in Synth, NEW task \in Task,
         NEW order \in Order, Synthesize(y, task, order)
  PROVE  \E new, stopped, undo : Mounted(y, task, new, stopped, undo)
<1>0. PICK n \in 0 .. Len(order) : \E fresh \in [1 .. n -> Instance] :
       LET made == [k \in 1 .. n |-> [session |-> sid, id |-> Template[task][order[k]],
                                      slot |-> order[k], instance |-> fresh[k]]]
           new == {made[k] : k \in 1 .. n}
           undo == IF n = Len(order) THEN <<>> ELSE Undone(task, order, made)
           stopped == IF undo = <<>> THEN {} ELSE {undo[Len(undo)]}
       IN
       /\ Mountable(task, order, n)
       /\ \A e \in new : Unused(e) /\ e \notin RollingBack
       /\ mounted' = (mounted \cup new) \ stopped
       /\ live' = (live \cup new) \ stopped
       /\ slots' = [s \in Slot |->
            (IF s \in ClaimedSlots(task, order, n)
               THEN Claim(slots, s, Template[task][s])[s] ELSE slots[s])
            \ {e.id : e \in {d \in stopped : d.slot = s}}]
       /\ context' = Disposed(Applied(context, new), stopped)
       /\ rollback' = [rollback EXCEPT ![y] = undo]
       /\ left' = [left EXCEPT ![y] = IF undo = <<>> THEN 0 ELSE Len(undo) - 1]
  BY DEF Synthesize
<1>1. PICK fresh \in [1 .. n -> Instance] :
       LET made == [k \in 1 .. n |-> [session |-> sid, id |-> Template[task][order[k]],
                                      slot |-> order[k], instance |-> fresh[k]]]
           new == {made[k] : k \in 1 .. n}
           undo == IF n = Len(order) THEN <<>> ELSE Undone(task, order, made)
           stopped == IF undo = <<>> THEN {} ELSE {undo[Len(undo)]}
       IN
       /\ Mountable(task, order, n)
       /\ \A e \in new : Unused(e) /\ e \notin RollingBack
       /\ mounted' = (mounted \cup new) \ stopped
       /\ live' = (live \cup new) \ stopped
       /\ slots' = [s \in Slot |->
            (IF s \in ClaimedSlots(task, order, n)
               THEN Claim(slots, s, Template[task][s])[s] ELSE slots[s])
            \ {e.id : e \in {d \in stopped : d.slot = s}}]
       /\ context' = Disposed(Applied(context, new), stopped)
       /\ rollback' = [rollback EXCEPT ![y] = undo]
       /\ left' = [left EXCEPT ![y] = IF undo = <<>> THEN 0 ELSE Len(undo) - 1]
  BY <1>0
<1> DEFINE made == [k \in 1 .. n |-> [session |-> sid, id |-> Template[task][order[k]],
                                      slot |-> order[k], instance |-> fresh[k]]]
           new == {made[k] : k \in 1 .. n}
           undo == IF n = Len(order) THEN <<>> ELSE made
           stopped == IF undo = <<>> THEN {} ELSE {undo[Len(undo)]}
<1>2. n \in Nat /\ Len(order) \in Nat
  <2>1. order \in Seq({order[k] : k \in DOMAIN order})
    BY HostAssumption
  <2> QED
    BY <2>1, LenProperties
<1>3. ASSUME NEW k \in 1 .. n
      PROVE  /\ order[k] \in Slot /\ made[k] \in Entry
             /\ made[k].id = Template[task][order[k]] /\ made[k].slot = order[k]
             /\ CanClaim(slots, made[k].slot, made[k].id) /\ AtKey(sid, made[k].id) = {}
             /\ \A j \in 1 .. n : order[j] = order[k] => j = k
  <2>1. \A j \in 1 .. n : Mounts(task, order, j)
    BY <1>1 DEF Mountable
  <2>2. order[k] \in Slot
    BY <2>1 DEF Mounts
  <2>3. /\ <<Template[task][order[k]], order[k]>> \in Package
        /\ Template[task][order[k]] \in Id
    BY <2>2, TemplatePackages
  <2>4. made[k] = [session |-> sid, id |-> Template[task][order[k]],
                   slot |-> order[k], instance |-> fresh[k]]
    OBVIOUS
  <2>5. made[k] \in Entry
    BY <2>2, <2>3, <2>4, HostAssumption DEF Entry
  <2>6. \A j \in 1 .. n : order[j] = order[k] => j = k
    BY <1>2, <2>1 DEF Mounts
  <2> QED
    BY <2>1, <2>2, <2>4, <2>5, <2>6 DEF Mounts
<1>4. made \in Seq(Entry) /\ Len(made) = n /\ DOMAIN made = 1 .. n
  <2>1. made \in [1 .. n -> Entry]
    BY <1>3
  <2> QED
    BY <1>2, <2>1
<1> HIDE DEF made
<1>5. undo \in Seq(Entry) /\ \A k \in DOMAIN undo : undo[k] \in new
  BY <1>4
<1>6. stopped \subseteq new /\ (undo # <<>> => undo[Len(undo)] \in stopped)
  <2>1. ASSUME undo # <<>>
        PROVE  Len(undo) \in DOMAIN undo
    BY <1>5, <2>1, EmptySeq, LenProperties
  <2> QED
    BY <1>5, <2>1
<1>7. FirstOf(new, task, order, n)
  BY <1>3 DEF FirstOf
<1>8. \A e \in new : /\ e \in Entry /\ e.id = Template[task][e.slot]
                     /\ CanClaim(slots, e.slot, e.id) /\ AtKey(sid, e.id) = {}
  <2> SUFFICES ASSUME NEW k \in 1 .. n
               PROVE  /\ made[k] \in Entry /\ made[k].id = Template[task][made[k].slot]
                      /\ CanClaim(slots, made[k].slot, made[k].id)
                      /\ AtKey(sid, made[k].id) = {}
    OBVIOUS
  <2> QED
    BY <1>3
<1>9. \A e, f \in new : e.slot = f.slot => e = f
  BY <1>3
<1>10. /\ Mountable(task, order, n)
       /\ \A e \in new : Unused(e) /\ e \notin RollingBack
       /\ mounted' = (mounted \cup new) \ stopped
       /\ live' = (live \cup new) \ stopped
       /\ slots' = [s \in Slot |->
            (IF s \in ClaimedSlots(task, order, n)
               THEN Claim(slots, s, Template[task][s])[s] ELSE slots[s]) \ HeldIn(stopped, s)]
       /\ context' = Disposed(Applied(context, new), stopped)
       /\ rollback' = [rollback EXCEPT ![y] = undo]
       /\ left' = [left EXCEPT ![y] = IF undo = <<>> THEN 0 ELSE Len(undo) - 1]
  BY <1>1 DEF made, Undone, HeldIn
<1> HIDE DEF new, undo, stopped
<1>11. ASSUME NEW s \in Slot
       PROVE  slots'[s] = (slots[s] \cup HeldIn(new, s)) \ HeldIn(stopped, s)
  <2>1. PICK after : after = slots[s] \cup HeldIn(new, s)
    OBVIOUS
  <2>2. /\ s \in ClaimedSlots(task, order, n) => Claim(slots, s, Template[task][s])[s] = after
        /\ s \notin ClaimedSlots(task, order, n) => slots[s] = after
    BY <1>7, <1>10, <2>1, ClaimsAreHeld
  <2> QED
    BY <1>10, <2>1, <2>2
<1>12. slots' \in SlotTable
  <2>1. \A s \in Slot : slots'[s] \subseteq Id
    <3> SUFFICES ASSUME NEW s \in Slot PROVE slots'[s] \subseteq Id
      OBVIOUS
    <3>1. slots[s] \subseteq Id
      BY DEF Agreement, SerialInv, CountInv, TypeOK, SlotTable
    <3>2. HeldIn(new, s) \subseteq Id
      BY <1>8, EntryFields DEF HeldIn
    <3> QED
      BY <1>11, <3>1, <3>2
  <2> QED
    BY <1>10, <2>1 DEF SlotTable
<1>13. \A e \in new : \A d \in RollingBack : d.id # e.id
  BY <1>8, EntryFields DEF Synthesize
<1>14. Mounted(y, task, new, stopped, undo)
  BY <1>5, <1>6, <1>8, <1>9, <1>10, <1>11, <1>12, <1>13 DEF Mounted
<1> QED
  BY <1>14

\* The modules a call mounts fit in beside what is mounted: a new id, and a
\* slot that was free.
LEMMA NewModulesFit ==
  ASSUME HostDiscipline, HostTypeOK, Agreement, NEW y, NEW task \in Task,
         NEW new, NEW stopped, NEW undo, Mounted(y, task, new, stopped, undo)
  PROVE  Exclusive(mounted \cup new) /\ mounted \cap new = {}
<1>1. Exclusive(mounted)
  BY MountedExclusive DEF HostDiscipline, Agreement
<1>2. ASSUME NEW e \in mounted, NEW f \in new
      PROVE  e.id # f.id /\ ~(e.slot = f.slot /\ e.slot # Capability)
  <2>1. AtKey(sid, e.id) = {e}
    BY AtKeyIsOne
  <2>2. e.id # f.id
    BY <2>1 DEF Mounted
  <2>3. e.id \in slots[e.slot]
    BY DEF Agreement, SerialInv, MountedHoldsSlot
  <2>4. f.slot = Capability \/ slots[f.slot] \subseteq {f.id}
    BY DEF Mounted, CanClaim
  <2> QED
    BY <2>2, <2>3, <2>4
<1>3. ASSUME NEW e \in new, NEW f \in new, e.id = f.id \/ e.slot = f.slot
      PROVE  e = f
  <2>1. e.slot \in Slot /\ f.slot \in Slot
    BY EntryFields DEF Mounted
  <2>2. e.id = Template[task][e.slot] /\ f.id = Template[task][f.slot]
    BY DEF Mounted
  <2>3. \A r, s \in Slot : Template[task][r] = Template[task][s] => r = s
    BY HostAssumption
  <2>4. e.slot = f.slot
    BY <1>3, <2>1, <2>2, <2>3
  <2> QED
    BY <2>4 DEF Mounted
<1> QED
  BY <1>1, <1>2, <1>3 DEF Exclusive

\* The mounts of a call, with the first stop of its rollback, keep table and
\* cells in agreement with the map.
LEMMA MountsAgree ==
  ASSUME HostDiscipline, HostTypeOK, Agreement, NEW y, NEW task \in Task,
         NEW new, NEW stopped, NEW undo, Mounted(y, task, new, stopped, undo)
  PROVE  SlotTableExact' /\ ContextMatches'
<1>1. PICK all : all = mounted \cup new
  OBVIOUS
<1>2. Exclusive(all) /\ mounted \cap new = {}
  BY <1>1, NewModulesFit
<1>3. stopped \subseteq all /\ mounted' = all \ stopped
  BY <1>1 DEF Mounted
<1>4. SlotTableExact'
  <2> SUFFICES ASSUME NEW s \in Slot PROVE slots'[s] = HeldIn(mounted', s)
    BY DEF SlotTableExact, HeldIn
  <2>1. slots[s] = HeldIn(mounted, s)
    BY DEF Agreement, SlotTableExact, HeldIn
  <2>2. slots'[s] = (HeldIn(mounted, s) \cup HeldIn(new, s)) \ HeldIn(stopped, s)
    BY <2>1 DEF Mounted
  <2>3. HeldIn(mounted', s) = (HeldIn(mounted, s) \cup HeldIn(new, s)) \ HeldIn(stopped, s)
    BY <1>1, <1>2, <1>3 DEF HeldIn, Exclusive
  <2> QED
    BY <2>2, <2>3
<1>5. ContextMatches'
  <2> SUFFICES ASSUME NEW s \in Slot PROVE context'[s] = OfTemplates(mounted', s)
    BY DEF ContextMatches, OfTemplates
  <2>1. context[s] = OfTemplates(mounted, s)
    BY DEF Agreement, ContextMatches
  <2>2. PICK cells : cells = Applied(context, new)
    OBVIOUS
  <2>3. cells[s] = OfTemplates(all, s)
    BY <1>1, <1>2, <2>1, <2>2, AppliedShows
  <2>4. Disposed(cells, stopped)[s] = OfTemplates(mounted', s)
    BY <1>2, <1>3, <2>3, DisposedShows
  <2> QED
    BY <2>2, <2>4 DEF Mounted
<1> QED
  BY <1>4, <1>5

\* They keep the invariant of the runtime.
LEMMA MountsSerial ==
  ASSUME HostDiscipline, HostTypeOK, Agreement, NEW y, NEW task \in Task,
         NEW new, NEW stopped, NEW undo, Mounted(y, task, new, stopped, undo),
         UNCHANGED <<inFlight, runs, stopping>>
  PROVE  SerialInv'
<1>1. SerialInv /\ CountInv /\ TypeOK
  BY DEF Agreement, SerialInv, CountInv
<1>2. Exclusive(mounted \cup new) /\ mounted \cap new = {}
  BY NewModulesFit
<1>3. /\ mounted' = (mounted \cup new) \ stopped
      /\ live' = (live \cup new) \ stopped
      /\ new \subseteq Entry /\ stopped \subseteq new
  BY DEF Mounted
<1>4. CountInv'
  <2>1. TypeOK'
    BY <1>1, <1>3 DEF TypeOK, Mounted
  <2> QED
    BY <1>1, <2>1, CountsKept DEF CountInv
<1>5. KeysUnique'
  BY <1>2, <1>3 DEF KeysUnique, Exclusive
<1>6. LiveAreMounted'
  BY <1>1, <1>3 DEF LiveAreMounted, SerialInv
<1>7. SlotTableExact'
  BY MountsAgree
<1>8. MountedHoldsSlot'
  <2>1. \A e \in mounted' : e.slot \in Slot
    BY <1>4, EntryFields DEF CountInv, TypeOK
  <2> QED
    BY <1>7, <2>1 DEF MountedHoldsSlot, SlotTableExact
<1>9. \A e \in mounted : e \in mounted'
  BY <1>2, <1>3
<1>10. RunsHoldMounted' /\ StopTargetsMounted' /\ StopsDistinct'
  BY <1>1, <1>9 DEF SerialInv, RunsHoldMounted, StopTargetsMounted, StopsDistinct
<1>11. SlotsSingle'
  <2> SUFFICES ASSUME NEW s \in Slot \ {Capability}, NEW i \in slots'[s], NEW j \in slots'[s]
               PROVE  i = j
    BY DEF SlotsSingle
  <2>1. PICK e \in mounted', f \in mounted' : e.id = i /\ f.id = j /\ e.slot = s /\ f.slot = s
    BY <1>7 DEF SlotTableExact
  <2> QED
    BY <1>2, <1>3, <2>1 DEF Exclusive
<1> QED
  BY <1>4, <1>5, <1>6, <1>8, <1>10, <1>11 DEF SerialInv

\* A call that fails begins a rollback that counts on what holds, and one under
\* way for another task is not disturbed (synthesize.js:33 and 58-65).
LEMMA SynthesizeAgrees ==
  ASSUME HostDiscipline, HostTypeOK, Agreement, NEW y \in Synth, NEW task \in Task,
         NEW order \in Order, Synthesize(y, task, order)
  PROVE  Agreement' /\ mounted \subseteq mounted'
<1>1. PICK new, stopped, undo : Mounted(y, task, new, stopped, undo)
  BY SynthesizeMounts
<1>2. UNCHANGED <<inFlight, runs, stopping>>
  BY DEF Synthesize
<1>3. SerialInv' /\ SlotTableExact' /\ ContextMatches'
  BY <1>1, <1>2, MountsSerial, MountsAgree
<1>4. Exclusive(mounted \cup new) /\ mounted \cap new = {}
  BY <1>1, NewModulesFit
<1>5. /\ mounted' = (mounted \cup new) \ stopped /\ stopped \subseteq new
      /\ undo \in Seq(Entry) /\ \A k \in DOMAIN undo : undo[k] \in new
      /\ rollback' = [rollback EXCEPT ![y] = undo]
      /\ left' = [left EXCEPT ![y] = IF undo = <<>> THEN 0 ELSE Len(undo) - 1]
      /\ undo # <<>> => undo[Len(undo)] \in stopped
      /\ new \subseteq Entry
  BY <1>1 DEF Mounted
<1>6. RollingBack' \subseteq RollingBack \cup new
  <2>1. \A z \in Synth : rollback'[z] = rollback[z] \/ rollback'[z] = undo
    BY <1>5 DEF HostTypeOK
  <2> QED
    BY <1>5, <2>1 DEF RollingBack
<1>7. RollbackQuiet'
  BY <1>1, <1>2, <1>6 DEF Mounted, Unused, RollbackQuiet, Agreement
<1>8. RollbackOwn'
  <2>1. ASSUME NEW e \in new
        PROVE  e.id \in Templates
    BY <1>1, EntryFields, TemplatePackages DEF Mounted
  <2>2. ASSUME NEW e \in RollingBack \cup new, NEW m \in mounted \cup new, m.id = e.id
        PROVE  m = e
    <3>1. CASE e \in new
      BY <1>4, <2>2, <3>1 DEF Exclusive
    <3>2. CASE e \in RollingBack
      BY <1>1, <2>2, <3>2 DEF Mounted, Agreement, RollbackOwn
    <3> QED
      BY <3>1, <3>2
  <2> QED
    BY <1>5, <1>6, <2>1, <2>2 DEF RollbackOwn, Agreement
<1>9. RollbackDone'
  <2> SUFFICES ASSUME NEW z \in Synth, NEW k \in DOMAIN rollback'[z], k > left'[z]
               PROVE  rollback'[z][k] \notin mounted'
    BY DEF RollbackDone
  <2>1. CASE z = y
    <3>1. rollback'[z] = undo /\ left'[z] = IF undo = <<>> THEN 0 ELSE Len(undo) - 1
      BY <1>5, <2>1 DEF HostTypeOK
    <3>2. DOMAIN undo = 1 .. Len(undo) /\ Len(undo) \in Nat
      BY <1>5, LenProperties
    <3>3. undo # <<>> /\ k = Len(undo)
      BY <3>1, <3>2
    <3> QED
      BY <1>5, <3>1, <3>3
  <2>2. CASE z # y
    <3>1. rollback'[z] = rollback[z] /\ left'[z] = left[z]
      BY <1>5, <2>2 DEF HostTypeOK
    <3>2. rollback[z][k] \in RollingBack /\ rollback[z][k] \notin mounted
      BY <3>1, RollingBackEntries DEF Agreement, RollbackDone
    <3>3. rollback[z][k] \notin new
      BY <1>1, <3>2 DEF Mounted
    <3> QED
      BY <1>5, <3>1, <3>2, <3>3
  <2> QED
    BY <2>1, <2>2
<1>10. mounted \subseteq mounted'
  BY <1>4, <1>5
<1> QED
  BY <1>3, <1>7, <1>8, <1>9, <1>10 DEF Agreement

(***************************************************************************)
(* Every step of the plugin                                                *)
(***************************************************************************)

\* improveness.define mounts a package of the agent's own, or throws and
\* leaves no claim that was not there (jit.js:19-31).
LEMMA DefineToolAgrees ==
  ASSUME HostDiscipline, HostTypeOK, Agreement, NEW p \in AgentPackage, DefineTool(p)
  PROVE  Agreement'
<1>1. p \in Package /\ p[1] \notin Templates
  BY HostAssumption
<1>2. UNCHANGED <<context, rollback, left>>
  BY DEF DefineTool, hostVars, synthVars
<1>3. CASE Define(sid, p[1], p[2])
  BY <1>1, <1>2, <1>3, DefineAgrees
<1>4. CASE DefineThrows(sid, p[1], p[2])
  <2>1. UNCHANGED jitVars
    BY <1>1, <1>4, DefineThrowsNothing
  <2>2. SerialInv'
    BY <2>1, SerialNext DEF HostDiscipline, Agreement
  <2>3. UNCHANGED <<slots, mounted, runs, stopping>>
    BY <2>1 DEF jitVars
  <2>4. SlotTableExact' /\ ContextMatches'
    BY <1>2, <2>3, AgreementKept DEF Agreement
  <2>5. RollbackQuiet' /\ RollbackOwn' /\ RollbackDone'
    BY <1>2, <2>3, RollbackKept DEF Agreement, RollbackQuiet
  <2> QED
    BY <2>2, <2>4, <2>5 DEF Agreement
<1> QED
  BY <1>3, <1>4 DEF DefineTool

\* A step that leaves the runtime, the cells and the rollbacks alone.
LEMMA NothingMounted ==
  ASSUME HostDiscipline, HostTypeOK, Agreement,
         UNCHANGED <<jitVars, context, rollback, left>>
  PROVE  Agreement'
<1>1. SerialInv'
  BY SerialNext DEF HostDiscipline, Agreement
<1>2. UNCHANGED <<slots, mounted, runs, stopping>>
  BY DEF jitVars
<1>3. SlotTableExact' /\ ContextMatches'
  BY <1>2, AgreementKept DEF Agreement
<1>4. RollbackQuiet' /\ RollbackOwn' /\ RollbackDone'
  BY <1>2, RollbackKept DEF Agreement, RollbackQuiet
<1> QED
  BY <1>1, <1>3, <1>4 DEF Agreement

\* The bus mounts a capability hint, which is no template (events.js:41-66).
LEMMA EmitAgrees ==
  ASSUME HostDiscipline, HostTypeOK, Agreement, NEW kind, NEW tool \in Tool, Emit(kind, tool)
  PROVE  Agreement'
<1>1. UNCHANGED <<context, rollback, left>>
  BY DEF Emit, synthVars
<1>2. CASE Define(sid, HintOf[tool], Capability)
  <2>1. HintOf[tool] \notin Templates
    BY HostAssumption DEF Hints
  <2>2. <<HintOf[tool], Capability>> \in Package
    BY HostAssumption DEF Hints
  <2>3. PICK p \in Package : p = <<HintOf[tool], Capability>>
    BY <2>2
  <2>4. p[1] = HintOf[tool] /\ p[2] = Capability
    BY <2>3
  <2> QED
    BY <1>1, <1>2, <2>1, <2>4, DefineAgrees
<1>3. CASE UNCHANGED jitVars
  BY <1>1, <1>3, NothingMounted
<1> QED
  BY <1>2, <1>3 DEF Emit

\* Every callback of the plugin keeps table, cells and rollbacks in agreement.
LEMMA HostNextAgrees ==
  ASSUME HostDiscipline, HostTypeOK, Agreement, [HostNext]_vars
  PROVE  Agreement'
<1>1. CASE \E p \in AgentPackage : DefineTool(p)
  BY <1>1, DefineToolAgrees
<1>2. CASE (\E r \in Run, id \in Id : RunTool(r, id)) \/ (\E r \in Run : RunSettles(r))
  BY <1>2, RunAgrees
<1>3. CASE \E c \in StopCall \ Synth, id \in Id : StopTool(c, id)
  BY <1>3, StopToolAgrees
<1>4. CASE \E c \in StopCall : StopEnds(c) \/ StopThrows(c)
  BY <1>4, EndStopAgrees
<1>5. CASE \E y \in Synth, t \in Task, o \in Order : Synthesize(y, t, o)
  BY <1>5, SynthesizeAgrees
<1>6. CASE \E y \in Synth : RollbackNext(y)
  BY <1>6, RollbackNextAgrees
<1>7. CASE \E y \in Synth : EndSynthesize(y)
  BY <1>7, EndSynthesizeAgrees
<1>8. CASE \E kind \in {"need_tool", "tool_fail"}, t \in Tool : Emit(kind, t)
  BY <1>8, EmitAgrees
<1>9. CASE (\E on \in BOOLEAN : TasteTool(on)) \/ (\E id \in Reloadable : HotReload(id))
  <2>1. UNCHANGED <<jitVars, context, rollback, left>>
    BY <1>9 DEF TasteTool, HotReload, synthVars
  <2> QED
    BY <2>1, NothingMounted
<1>10. CASE Unload \/ UnloadThrows
  BY <1>10, UnloadAgrees
<1>11. CASE UNCHANGED vars
  <2>1. UNCHANGED <<jitVars, context, rollback, left>>
    BY <1>11 DEF vars, hostVars, synthVars
  <2> QED
    BY <2>1, NothingMounted
<1> QED
  BY <1>1, <1>2, <1>3, <1>4, <1>5, <1>6, <1>7, <1>8, <1>9, <1>10, <1>11 DEF HostNext

\* With the maps in agreement, the entries and the cells have their types.
LEMMA CellsTyped ==
  ASSUME HostTypeOK, Agreement',
         UNCHANGED context \/ \E cells, D : context' = Disposed(cells, D)
  PROVE  TypeOK' /\ context' \in [Slot -> SUBSET Entry]
<1>1. TypeOK'
  BY DEF Agreement, SerialInv, CountInv
<1>2. \A s \in Slot : context'[s] \subseteq Entry
  BY <1>1 DEF Agreement, ContextMatches, OfTemplates, TypeOK
<1>3. context' = [s \in Slot |-> context'[s]]
  BY DEF HostTypeOK, Disposed
<1> QED
  BY <1>1, <1>2, <1>3

\* What an action does to the cells: nothing, or the disposers of some modules
\* run on them.
LEMMA CellsChange ==
  ASSUME [HostNext]_vars
  PROVE  UNCHANGED context \/ \E cells, D : context' = Disposed(cells, D)
<1>1. CASE \E c \in StopCall \ Synth, id \in Id : StopTool(c, id)
  BY <1>1, Zenon DEF StopTool
<1>2. CASE \E c \in StopCall : StopEnds(c)
  BY <1>2, Zenon DEF StopEnds
<1>3. CASE \E y \in Synth, t \in Task, o \in Order : Synthesize(y, t, o)
  <2>1. PICK y \in Synth, t \in Task, o \in Order : Synthesize(y, t, o)
    BY <1>3
  <2>2. \E new, stopped : context' = Disposed(Applied(context, new), stopped)
    BY <2>1, Zenon DEF Synthesize
  <2> QED
    BY <2>2, Zenon
<1>4. CASE \E y \in Synth : RollbackNext(y)
  BY <1>4, Zenon DEF RollbackNext
<1>5. CASE Unload \/ UnloadThrows
  BY <1>5, Zenon DEF Unload, UnloadThrows
<1>6. CASE UNCHANGED context
  BY <1>6
<1>7. \/ \E c \in StopCall \ Synth, id \in Id : StopTool(c, id)
      \/ \E c \in StopCall : StopEnds(c)
      \/ \E y \in Synth, t \in Task, o \in Order : Synthesize(y, t, o)
      \/ \E y \in Synth : RollbackNext(y)
      \/ Unload \/ UnloadThrows
      \/ UNCHANGED context
  BY DEF HostNext, DefineTool, RunTool, RunSettles, StopThrows, EndSynthesize, Emit,
     TasteTool, HotReload, hostVars, vars
<1> QED
  BY <1>1, <1>2, <1>3, <1>4, <1>5, <1>6, <1>7

\* The lists of a rollback and their counters keep their types: the counter
\* stays within the list (synthesize.js:58-65).
LEMMA RollbackTyped ==
  ASSUME HostDiscipline, HostTypeOK, Agreement, [HostNext]_vars
  PROVE  /\ rollback' \in [Synth -> Seq(Entry)]
         /\ left' \in [Synth -> Nat]
         /\ \A y \in Synth : left'[y] <= Len(rollback'[y])
<1>1. CASE \E y \in Synth, t \in Task, o \in Order : Synthesize(y, t, o)
  <2>1. PICK y \in Synth, t \in Task, o \in Order : Synthesize(y, t, o)
    BY <1>1
  <2>2. PICK new, stopped, undo : Mounted(y, t, new, stopped, undo)
    BY <2>1, SynthesizeMounts
  <2>3. PICK m : m = IF undo = <<>> THEN 0 ELSE Len(undo) - 1
    OBVIOUS
  <2>4. /\ undo \in Seq(Entry) /\ rollback' = [rollback EXCEPT ![y] = undo]
        /\ left' = [left EXCEPT ![y] = m]
    BY <2>2, <2>3 DEF Mounted
  <2>5. Len(undo) \in Nat /\ (undo # <<>> => Len(undo) # 0)
    BY <2>4, LenProperties, EmptySeq
  <2>6. m \in Nat /\ m <= Len(undo)
    BY <2>3, <2>5
  <2> QED
    BY <2>4, <2>6 DEF HostTypeOK
<1>2. CASE \E y \in Synth : RollbackNext(y)
  <2>1. PICK y \in Synth : RollbackNext(y)
    BY <1>2
  <2>2. left[y] - 1 \in Nat /\ left[y] - 1 <= Len(rollback[y]) /\ Len(rollback[y]) \in Nat
    BY <2>1, RollingBackEntries DEF RollbackNext, HostTypeOK
  <2>3. UNCHANGED rollback /\ left' = [left EXCEPT ![y] = left[y] - 1]
    BY <2>1 DEF RollbackNext
  <2> QED
    BY <2>2, <2>3 DEF HostTypeOK
<1>3. CASE \E y \in Synth : EndSynthesize(y)
  <2>1. PICK y \in Synth : EndSynthesize(y)
    BY <1>3
  <2>2. UNCHANGED left /\ left[y] = 0 /\ rollback' = [rollback EXCEPT ![y] = <<>>]
    BY <2>1 DEF EndSynthesize
  <2>3. <<>> \in Seq(Entry) /\ Len(<<>>) = 0
    BY EmptySeq
  <2> QED
    BY <2>2, <2>3 DEF HostTypeOK
<1>4. CASE UNCHANGED <<rollback, left>>
  BY <1>4 DEF HostTypeOK
<1>5. \/ \E y \in Synth, t \in Task, o \in Order : Synthesize(y, t, o)
      \/ \E y \in Synth : RollbackNext(y)
      \/ \E y \in Synth : EndSynthesize(y)
      \/ UNCHANGED <<rollback, left>>
  BY DEF HostNext, DefineTool, RunTool, RunSettles, StopTool, StopEnds, StopThrows,
     Emit, TasteTool, HotReload, Unload, UnloadThrows, hostVars, synthVars, vars
<1> QED
  BY <1>1, <1>2, <1>3, <1>4, <1>5

\* Only the bus, the taste tools, hot reload and the disposer touch the tools,
\* the reminders, the profile and the report.
LEMMA BusFrame ==
  ASSUME [HostNext]_vars
  PROVE  \/ UNCHANGED <<registered, reminded, attached, lastReload>>
         \/ \E kind \in {"need_tool", "tool_fail"}, t \in Tool : Emit(kind, t)
         \/ \E on \in BOOLEAN : TasteTool(on)
         \/ \E id \in Reloadable : HotReload(id)
         \/ Unload \/ UnloadThrows
<1>1. ASSUME NEW p, DefineTool(p) PROVE UNCHANGED <<registered, busVars>>
  BY <1>1 DEF DefineTool, hostVars
<1>2. ASSUME NEW r, (\E id \in Id : RunTool(r, id)) \/ RunSettles(r)
      PROVE  UNCHANGED <<registered, busVars>>
  BY <1>2 DEF RunTool, RunSettles, hostVars
<1>3. ASSUME NEW c, (\E id \in Id : StopTool(c, id)) \/ StopEnds(c) \/ StopThrows(c)
      PROVE  UNCHANGED <<registered, busVars>>
  BY <1>3 DEF StopTool, StopEnds, StopThrows, hostVars
<1>4. ASSUME NEW y, NEW t, NEW o, Synthesize(y, t, o) PROVE UNCHANGED <<registered, busVars>>
  <2>1. UNCHANGED <<inFlight, runs, stopping, registered, busVars>>
    BY <1>4, Zenon DEF Synthesize
  <2> QED
    BY <2>1
<1>5. ASSUME NEW y, RollbackNext(y) \/ EndSynthesize(y) PROVE UNCHANGED <<registered, busVars>>
  BY <1>5 DEF RollbackNext, EndSynthesize
<1>6. ASSUME UNCHANGED vars PROVE UNCHANGED <<registered, busVars>>
  BY <1>6 DEF vars, hostVars
<1> QED
  BY <1>1, <1>2, <1>3, <1>4, <1>5, <1>6 DEF HostNext, busVars

\* Every step keeps the types of the plugin's state.
LEMMA HostTypesKept ==
  ASSUME HostDiscipline, HostTypeOK, Agreement, [HostNext]_vars
  PROVE  HostTypeOK'
<1>1. TypeOK' /\ context' \in [Slot -> SUBSET Entry]
  BY HostNextAgrees, CellsChange, CellsTyped
<1>2. /\ rollback' \in [Synth -> Seq(Entry)]
      /\ left' \in [Synth -> Nat]
      /\ \A y \in Synth : left'[y] <= Len(rollback'[y])
  BY RollbackTyped
<1>3. registered' \in BOOLEAN /\ reminded' \subseteq Tool /\ attached' \in BOOLEAN
  BY BusFrame DEF HostTypeOK, Emit, TasteTool, HotReload, Unload, UnloadThrows
<1>4. lastReload' \in Reload \cup {NoReload}
  <2>1. CASE \E id \in Reloadable : HotReload(id)
    BY <2>1 DEF HotReload, Reload
  <2>2. CASE UNCHANGED lastReload
    BY <2>2 DEF HostTypeOK
  <2> QED
    BY <2>1, <2>2, BusFrame DEF Emit, TasteTool, Unload, UnloadThrows
<1> QED
  BY <1>1, <1>2, <1>3, <1>4 DEF HostTypeOK

\* Without its tools the plugin mounts nothing any more and attaches no
\* profile; what it had started goes on (apply.js:97-102).
LEMMA UnloadedKept ==
  ASSUME HostDiscipline, HostInv, [HostNext]_vars
  PROVE  UnloadedEmpty'
<1>1. CASE registered /\ registered'
  BY <1>1 DEF UnloadedEmpty
<1>2. CASE registered /\ ~registered'
  <2>1. Unload
    BY <1>2, BusFrame DEF Emit, TasteTool, HotReload, UnloadThrows
  <2>2. mounted' = {}
    BY <2>1, UnloadAgrees DEF HostInv
  <2>3. attached' = FALSE
    BY <2>1 DEF Unload
  <2> QED
    BY <2>2, <2>3 DEF UnloadedEmpty
<1>3. CASE ~registered
  <2>1. mounted = {} /\ ~attached
    BY <1>3 DEF HostInv, UnloadedEmpty
  <2>2. \/ \E r \in Run : RunSettles(r)
        \/ \E c \in StopCall : StopEnds(c) \/ StopThrows(c)
        \/ \E y \in Synth : RollbackNext(y) \/ EndSynthesize(y)
        \/ UNCHANGED <<mounted, attached>>
    BY <1>3 DEF HostNext, DefineTool, JitTool, RunTool, StopTool, Synthesize, Emit, TasteTool,
       HotReload, Unload, UnloadThrows, hostVars, jitVars, busVars, vars
  <2>3. mounted' \subseteq mounted
    BY <2>2 DEF RunSettles, EndRun, StopEnds, FinishStop, StopThrows, GiveUpStop, RollbackNext,
       Stop, EndSynthesize, Unmount, DisposerThrows, jitVars
  <2>4. UNCHANGED attached
    BY <2>2 DEF RunSettles, StopEnds, StopThrows, RollbackNext, EndSynthesize, hostVars, busVars
  <2> QED
    BY <2>1, <2>3, <2>4 DEF UnloadedEmpty
<1>4. registered \in BOOLEAN
  BY DEF HostInv, HostTypeOK
<1> QED
  BY <1>1, <1>2, <1>3, <1>4

\* The invariant is inductive.
LEMMA HostNextInv == HostDiscipline /\ HostInv /\ [HostNext]_vars => HostInv'
<1> SUFFICES ASSUME HostDiscipline, HostInv, [HostNext]_vars PROVE HostInv'
  OBVIOUS
<1>1. HostTypeOK' /\ Agreement'
  BY HostTypesKept, HostNextAgrees DEF HostInv
<1> QED
  BY <1>1, UnloadedKept DEF HostInv

(***************************************************************************)
(* Theorems                                                                *)
(***************************************************************************)

\* Whatever tools, events, rollbacks, reloads and disposers do between the
\* awaits, the inductive invariant holds.
THEOREM HostInvariant ==
  ASSUME HostDiscipline
  PROVE  HostSpec => []HostInv
<1>1. HostInit => HostInv
  BY HostInitInv
<1>2. HostInv /\ [HostNext]_vars => HostInv'
  BY HostNextInv
<1> QED
  BY <1>1, <1>2, PTL DEF HostSpec

\* The state of the plugin keeps its types; a rollback's counter stays within
\* its list (apply.js:20-96, synthesize.js:58-65).
THEOREM HostTypes ==
  ASSUME HostDiscipline
  PROVE  HostSpec => []HostTypeOK
<1>1. HostInv => HostTypeOK
  BY DEF HostInv
<1> QED
  BY <1>1, HostInvariant, PTL

\* The slot table names exactly the ids of the mounted plugins, slot by slot,
\* after every mount, refusal, rollback, stop and teardown: the claim that a
\* refused define leaves behind is one the slot had already (slots.js:26-41,
\* jit.js:20-22, 65 and 74).
THEOREM TableAlwaysExact ==
  ASSUME HostDiscipline
  PROVE  HostSpec => []SlotTableExact
<1>1. HostInv => SlotTableExact
  BY DEF HostInv, Agreement
<1> QED
  BY <1>1, HostInvariant, PTL

\* The cells on ctx show exactly the mounted modules: a disposer that filters
\* the capability list by task takes its own module off it and no other
\* (templates.js:15-18 and 80-85).
THEOREM ContextAlwaysMatches ==
  ASSUME HostDiscipline
  PROVE  HostSpec => []ContextMatches
<1>1. HostInv => ContextMatches
  BY DEF HostInv, Agreement
<1> QED
  BY <1>1, HostInvariant, PTL

\* After the disposer has unregistered the tools nothing of the plugin is
\* left, and nothing comes back, also when a synthesize call was rolling back
\* and its loop goes on over plugins that are gone (apply.js:97-102,
\* synthesize.js:58-65).
THEOREM UnloadIsClean ==
  ASSUME HostDiscipline
  PROVE  HostSpec => []UnloadLeavesNothing
<1>1. HostInv => UnloadLeavesNothing
  <2> SUFFICES ASSUME HostInv, ~registered PROVE UnloadLeavesNothing
    BY DEF UnloadLeavesNothing
  <2>1. mounted = {} /\ ~attached
    BY DEF HostInv, UnloadedEmpty
  <2>2. live = {}
    BY <2>1 DEF HostInv, Agreement, SerialInv, LiveAreMounted
  <2>3. slots = EmptySlots
    <3>1. \A s \in Slot : slots[s] = {}
      BY <2>1 DEF HostInv, Agreement, SlotTableExact
    <3> QED
      BY <3>1 DEF HostInv, HostTypeOK, TypeOK, SlotTable, EmptySlots
  <2>4. context = [s \in Slot |-> {}]
    <3>1. \A s \in Slot : context[s] = {}
      BY <2>1 DEF HostInv, Agreement, ContextMatches, OfTemplates
    <3> QED
      BY <3>1 DEF HostInv, HostTypeOK
  <2> QED
    BY <2>1, <2>2, <2>3, <2>4 DEF UnloadLeavesNothing
<1> QED
  BY <1>1, HostInvariant, PTL

\* A synthesize call that failed throws only when none of the modules it had
\* mounted is left, whatever ran between its stops ("Mounts are
\* transactional", synthesize.js:5 and 58-66).
THEOREM MountsTransactional ==
  ASSUME HostDiscipline
  PROVE  HostSpec => RollbackUndoes
<1>1. ASSUME HostInv, NEW y \in Synth, EndSynthesize(y), NEW k \in DOMAIN rollback[y]
      PROVE  rollback[y][k] \notin mounted
  <2>1. left[y] = 0
    BY <1>1 DEF EndSynthesize
  <2>2. k > 0
    BY <1>1, RollingBackEntries DEF HostInv
  <2> QED
    BY <1>1, <2>1, <2>2 DEF HostInv, Agreement, RollbackDone
<1>2. HostInv =>
        [\A y \in Synth : EndSynthesize(y) =>
           \A k \in DOMAIN rollback[y] : rollback[y][k] \notin mounted]_vars
  BY <1>1
<1> QED
  BY <1>2, HostInvariant, PTL DEF RollbackUndoes

\* What only a synthesize call does to its own list.
LEMMA OnlyTheCallRollsBack ==
  ASSUME HostDiscipline, HostInv, [HostNext]_vars, NEW y \in Synth,
         rollback'[y] # rollback[y] \/ left'[y] # left[y]
  PROVE  \/ \E t \in Task, o \in Order : Synthesize(y, t, o)
         \/ RollbackNext(y)
         \/ EndSynthesize(y)
<1>1. ASSUME NEW z \in Synth, z # y,
             \/ \E t \in Task, o \in Order : Synthesize(z, t, o)
             \/ RollbackNext(z) \/ EndSynthesize(z)
      PROVE  rollback'[y] = rollback[y] /\ left'[y] = left[y]
  <2>1. CASE \E t \in Task, o \in Order : Synthesize(z, t, o)
    <3>1. PICK t, new, stopped, undo : Mounted(z, t, new, stopped, undo)
      BY <1>1, <2>1, SynthesizeMounts DEF HostInv
    <3> QED
      BY <1>1, <3>1 DEF Mounted, HostInv, HostTypeOK
  <2>2. CASE RollbackNext(z) \/ EndSynthesize(z)
    BY <1>1, <2>2 DEF RollbackNext, EndSynthesize, HostInv, HostTypeOK
  <2> QED
    BY <1>1, <2>1, <2>2
<1>2. \/ \E z \in Synth : \/ \E t \in Task, o \in Order : Synthesize(z, t, o)
                          \/ RollbackNext(z) \/ EndSynthesize(z)
      \/ UNCHANGED <<rollback, left>>
  BY DEF HostNext, DefineTool, RunTool, RunSettles, StopTool, StopEnds, StopThrows,
     Emit, TasteTool, HotReload, Unload, UnloadThrows, hostVars, synthVars, vars
<1> QED
  BY <1>1, <1>2

\* A synthesize call takes out of the map nothing but modules it mounted
\* itself, whoever else mounts, stops and unloads meanwhile, and also when an
\* earlier call holds modules of the same task (synthesize.js:46 and 58-65).
THEOREM RollbackSparesAll ==
  ASSUME HostDiscipline
  PROVE  HostSpec => RollbackSparesOthers
<1>1. ASSUME HostInv, [HostNext]_vars, NEW y \in Synth,
             rollback'[y] # rollback[y] \/ left'[y] # left[y],
             NEW e \in mounted \ mounted'
      PROVE  \E k \in DOMAIN rollback[y] : e = rollback[y][k]
  <2>1. CASE \E t \in Task, o \in Order : Synthesize(y, t, o)
    BY <1>1, <2>1, SynthesizeAgrees DEF HostInv
  <2>2. CASE RollbackNext(y)
    <3>1. PICK f : f = rollback[y][left[y]]
      OBVIOUS
    <3>2. mounted' = mounted \ {f}
      BY <1>1, <2>2, <3>1, RollbackStops DEF HostInv
    <3>3. left[y] \in DOMAIN rollback[y]
      BY <1>1, <2>2, RollingBackEntries DEF HostInv, HostTypeOK, RollbackNext
    <3> QED
      BY <1>1, <3>1, <3>2, <3>3
  <2>3. CASE EndSynthesize(y)
    BY <1>1, <2>3 DEF EndSynthesize, jitVars
  <2> QED
    BY <1>1, <2>1, <2>2, <2>3, OnlyTheCallRollsBack
<1>2. HostInv /\ [HostNext]_vars =>
        [\A y \in Synth : rollback'[y] # rollback[y] \/ left'[y] # left[y] =>
           \A e \in mounted \ mounted' : \E k \in DOMAIN rollback[y] : e = rollback[y][k]]_vars
  BY <1>1
<1> QED
  BY <1>2, HostInvariant, PTL DEF RollbackSparesOthers, HostSpec

\* A step of the plugin takes out of what is live only what nothing runs on.
LEMMA HostDisposesIdle ==
  ASSUME HostDiscipline, HostInv, [HostNext]_vars, NEW e \in live, e \notin live'
  PROVE  \A r \in Run : runs[r] # e
<1>1. SerialInv /\ CountInv /\ e \in Entry /\ live = mounted /\ live' = mounted'
  BY HostNextAgrees DEF HostInv, Agreement, SerialInv, LiveAreMounted, CountInv, TypeOK
<1>2. CASE \/ \E c \in StopCall, id \in Id : StopTool(c, id)
           \/ \E c \in StopCall : StopEnds(c) \/ StopThrows(c)
           \/ Unload \/ UnloadThrows
  <2>1. Next \/ UNCHANGED jitVars
    BY <1>2, HostAssumption DEF StopTool, StopEnds, StopThrows, Unload, UnloadThrows, Next
  <2>2. Next
    BY <1>1, <2>1 DEF jitVars
  <2> QED
    BY <1>1, <2>2, DisposedAreIdle, IdleMeansNoRun
<1>3. CASE \E y \in Synth, t \in Task, o \in Order : Synthesize(y, t, o)
  BY <1>1, <1>3, SynthesizeAgrees DEF HostInv
<1>4. CASE \E y \in Synth : RollbackNext(y)
  <2>1. PICK y \in Synth : RollbackNext(y)
    BY <1>4
  <2>2. PICK f : f = rollback[y][left[y]]
    OBVIOUS
  <2>3. mounted' = mounted \ {f}
    BY <2>1, <2>2, RollbackStops DEF HostInv
  <2>4. f \in RollingBack
    BY <2>1, <2>2, RollingBackEntries DEF HostInv, HostTypeOK, RollbackNext
  <2> QED
    BY <1>1, <2>3, <2>4 DEF HostInv, Agreement, RollbackQuiet
<1>5. ASSUME NEW p, DefineTool(p) PROVE live \subseteq live'
  BY <1>5 DEF DefineTool, Define, DefineThrows
<1>6. ASSUME NEW r, (\E id \in Id : RunTool(r, id)) \/ RunSettles(r) PROVE UNCHANGED live
  BY <1>6 DEF RunTool, RunSettles, StartRun, EndRun
<1>7. ASSUME NEW kind, NEW t, Emit(kind, t) PROVE live \subseteq live'
  BY <1>7 DEF Emit, Define, jitVars
<1>8. ASSUME \/ \E y \in Synth : EndSynthesize(y)
             \/ \E on \in BOOLEAN : TasteTool(on)
             \/ \E id \in Reloadable : HotReload(id)
             \/ UNCHANGED vars
      PROVE  UNCHANGED live
  BY <1>8 DEF EndSynthesize, TasteTool, HotReload, vars, jitVars
<1> QED
  BY <1>1, <1>2, <1>3, <1>4, <1>5, <1>6, <1>7, <1>8 DEF HostNext

\* The plugin keeps the promise of the runtime in all it does with it: no tool,
\* no rollback and no unload disposes a plugin under a run (jit.js:5 and 55-64,
\* synthesize.js:58-65, apply.js:97-102).
THEOREM HostDrains ==
  ASSUME HostDiscipline
  PROVE  HostSpec => DisposeOnlyIdle
<1>1. HostInv /\ [HostNext]_vars =>
        [\A e \in live : e \notin live' => \A r \in Run : runs[r] # e]_jitVars
  BY HostDisposesIdle
<1> QED
  BY <1>1, HostInvariant, PTL DEF DisposeOnlyIdle, HostSpec
=============================================================================
