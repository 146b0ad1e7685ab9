----------------------------- MODULE JitRuntime -----------------------------
(***************************************************************************)
(* createJitRuntime (plugins/dsh-improveness/src/jit.js): the plugins a    *)
(* session mounts at run time, the runs in flight through them, and the    *)
(* stop calls that wait for those runs.                                    *)
(*                                                                         *)
(* JavaScript runs one callback at a time, so an action is the code between *)
(* two awaits.  define, disposeAll and the synchronous part of run are one *)
(* step each; stop awaits a 5 ms timer while its entry has runs in flight, *)
(* and everything else may happen meanwhile.                               *)
(*                                                                         *)
(* An entry is the object that the map `mounted` holds: its fixed fields   *)
(* (session, id, slot) and an instance for the object's identity, so that  *)
(* a plugin stopped and defined again is another entry.  An instance is    *)
(* used again once nothing refers to the entry.  A call that throws before *)
(* it changes anything is a stuttering step and has no action.             *)
(***************************************************************************)

EXTENDS Integers, FiniteSets, Slots

CONSTANTS
  Session,     \* session ids
  Package,     \* the packages callers define, pairs <<id, slot>>
  Fenced,      \* the packages assertMountAllowed refuses
  KeyPart,     \* KeyPart[id] is `${session}::${id}`.split("::")[1]
  Instance,    \* object identities
  NoEntry,     \* undefined, where an entry could be
  Run,         \* promises of runs
  StopCall,    \* promises of stop calls
  Faults,      \* package code may fail in "apply", throw in "dispose"
  Serialised   \* callers start no stop or disposeAll on what a stop awaits

Entry == {e \in [session: Session, id: Id, slot: Slot, instance: Instance] :
            <<e.id, e.slot>> \in Package}

ASSUME JitAssumption ==
  /\ Package \subseteq Id \X Slot
  /\ KeyPart \in [Id -> Id]
  /\ NoEntry \notin Entry \cup Package
  /\ IsFiniteSet(Run)
  /\ Faults \subseteq {"apply", "dispose"}
  /\ Serialised \in BOOLEAN

VARIABLES
  slots,       \* the occupancy table
  mounted,     \* the entries the map holds
  live,        \* the entries whose apply() effects have not been inverted
  inFlight,    \* entry.inFlight
  runs,        \* the entry each pending run captured
  stopping     \* the entry each pending stop captured

jitVars == <<slots, mounted, live, inFlight, runs, stopping>>

TypeOK ==
  /\ slots \in SlotTable
  /\ mounted \subseteq Entry
  /\ live \subseteq Entry
  /\ inFlight \in [Entry -> Nat]
  /\ runs \in [Run -> Entry \cup {NoEntry}]
  /\ stopping \in [StopCall -> Entry \cup {NoEntry}]

Init ==
  /\ slots = EmptySlots
  /\ mounted = {}
  /\ live = {}
  /\ inFlight = [e \in Entry |-> 0]
  /\ runs = [r \in Run |-> NoEntry]
  /\ stopping = [c \in StopCall |-> NoEntry]

-----------------------------------------------------------------------------
(* Helpers *)

\* The entries under key(session, id): mounted.get, mounted.has.
AtKey(session, id) == {e \in mounted : e.session = session /\ e.id = id}

\* An entry object that nothing refers to yet.
Unused(e) ==
  /\ e \notin mounted \cup live
  /\ \A r \in Run : runs[r] # e
  /\ \A c \in StopCall : stopping[c] # e

Awaited(e) == \E c \in StopCall : stopping[c] = e

\* The end of stop: dispose, release the slot, delete the key.
Unmount(e) ==
  /\ live' = live \ {e}
  /\ slots' = Release(slots, e.slot, e.id)
  /\ mounted' = mounted \ AtKey(e.session, e.id)

\* A disposer that throws ends stop with the entry still mounted.
DisposerThrows(e) ==
  /\ "dispose" \in Faults
  /\ live' = live \ {e}
  /\ UNCHANGED <<slots, mounted>>

-----------------------------------------------------------------------------
(* define *)

\* assertMountAllowed does not throw: neither a frozen id nor a kernel path.
MountAllowed(id, slot) == <<id, slot>> \notin Fenced

\* define(sessionId, pkg) mounts: the policy fence and the slot admit it, its
\* key is free, apply() returned a disposer.
DefineOverMounted(session, id, slot) ==
  /\ MountAllowed(id, slot)
  /\ CanClaim(slots, slot, id)
  /\ slots' = Claim(slots, slot, id)
  /\ \E n \in Instance :
       LET e == [session |-> session, id |-> id, slot |-> slot, instance |-> n] IN
       /\ Unused(e)
       /\ mounted' = (mounted \ AtKey(session, id)) \cup {e}
       /\ live' = live \cup {e}
  /\ UNCHANGED <<inFlight, runs, stopping>>
Define(session, id, slot) ==
  /\ MountAllowed(id, slot)
  /\ CanClaim(slots, slot, id)
  /\ AtKey(session, id) = {}
  /\ slots' = Claim(slots, slot, id)
  /\ \E n \in Instance :
       LET e == [session |-> session, id |-> id, slot |-> slot, instance |-> n] IN
       /\ Unused(e)
       /\ mounted' = mounted \cup {e}
       /\ live' = live \cup {e}
  /\ UNCHANGED <<inFlight, runs, stopping>>

\* define throws after claimSlot: the key is taken, or apply() threw or
\* returned no disposer.  The claim stays.
DefineThrows(session, id, slot) ==
  /\ MountAllowed(id, slot)
  /\ CanClaim(slots, slot, id)
  /\ AtKey(session, id) # {} \/ "apply" \in Faults
  /\ slots' = Claim(slots, slot, id)
  /\ UNCHANGED <<mounted, live, inFlight, runs, stopping>>

-----------------------------------------------------------------------------
(* run: fn returned a promise.  A synchronous fn raises and lowers the count *)
(* in one callback and leaves nothing behind.                                *)

StartRun(r, session, id) ==
  /\ runs[r] = NoEntry
  /\ \E e \in AtKey(session, id) :
       /\ runs' = [runs EXCEPT ![r] = e]
       /\ inFlight' = [inFlight EXCEPT ![e] = @ + 1]
  /\ UNCHANGED <<slots, mounted, live, stopping>>

\* The promise settles, either way; finally lowers the captured entry's count.
\* The mutated form also lowers it in the catch of a rejected run.
EndRunTwice(r) ==
  /\ runs[r] # NoEntry
  /\ runs' = [runs EXCEPT ![r] = NoEntry]
  /\ inFlight' = [inFlight EXCEPT ![runs[r]] = @ - 2]
  /\ UNCHANGED <<slots, mounted, live, stopping>>
EndRun(r) ==
  /\ runs[r] # NoEntry
  /\ runs' = [runs EXCEPT ![r] = NoEntry]
  /\ inFlight' = [inFlight EXCEPT ![runs[r]] = @ - 1]
  /\ UNCHANGED <<slots, mounted, live, stopping>>

-----------------------------------------------------------------------------
(* stop *)

\* stop(session, id) up to its first await.  A stop of an idle entry ends in
\* the callback that called it; otherwise it captures the entry and sleeps.
Stop(c, session, id) ==
  /\ stopping[c] = NoEntry
  /\ \E e \in AtKey(session, id) :
       \/ /\ inFlight[e] = 0
          /\ Unmount(e) \/ DisposerThrows(e)
          /\ UNCHANGED stopping
       \/ /\ inFlight[e] > 0
          /\ stopping' = [stopping EXCEPT ![c] = e]
          /\ UNCHANGED <<slots, mounted, live>>
  /\ UNCHANGED <<inFlight, runs>>

\* A caller stops a plugin.  A stop of a free key returns at once.
BeginStop(c, session, id) ==
  /\ Serialised => \A e \in AtKey(session, id) : ~Awaited(e)
  /\ Stop(c, session, id)

\* A sleeping stop wakes and its captured entry is idle.
FinishStop(c) ==
  /\ stopping[c] # NoEntry
  /\ inFlight[stopping[c]] = 0
  /\ Unmount(stopping[c]) \/ DisposerThrows(stopping[c])
  /\ stopping' = [stopping EXCEPT ![c] = NoEntry]
  /\ UNCHANGED <<inFlight, runs>>

\* It wakes after the deadline with runs still in flight: stop throws.  The
\* time that passed is not modelled: the deadline may strike at any wake-up.
\* The mutated forms wait for ever, and dispose under the runs.
GiveUpNever(c) == FALSE /\ UNCHANGED jitVars
GiveUpByForce(c) ==
  /\ stopping[c] # NoEntry
  /\ inFlight[stopping[c]] > 0
  /\ Unmount(stopping[c])
  /\ stopping' = [stopping EXCEPT ![c] = NoEntry]
  /\ UNCHANGED <<inFlight, runs>>
GiveUpStop(c) ==
  /\ stopping[c] # NoEntry
  /\ inFlight[stopping[c]] > 0
  /\ stopping' = [stopping EXCEPT ![c] = NoEntry]
  /\ UNCHANGED <<slots, mounted, live, inFlight, runs>>

-----------------------------------------------------------------------------
(* disposeAll(sessionId), and disposeAll() for every session.  The map is   *)
(* walked in insertion order, which the model leaves open.                  *)

Owned(S) == {e \in mounted : e.session \in S}

\* The slots of the entries in D are released under the second "::" part of
\* their key.
ReleaseAll(D) ==
  [s \in Slot |-> slots[s] \ {KeyPart[e.id] : e \in {d \in D : d.slot = s}}]

\* The walk reaches the end.
DisposeAll(S) ==
  /\ Serialised => \A e \in Owned(S) : ~Awaited(e)
  /\ Owned(S) # {}
  /\ \A e \in Owned(S) : inFlight[e] = 0
  /\ live' = live \ Owned(S)
  /\ slots' = ReleaseAll(Owned(S))
  /\ mounted' = mounted \ Owned(S)
  /\ UNCHANGED <<inFlight, runs, stopping>>

\* The walk throws at e, which is busy or whose disposer throws; the entries
\* in D came before it.
DisposeAllThrows(S) ==
  /\ Serialised => \A e \in Owned(S) : ~Awaited(e)
  /\ \E e \in Owned(S), D \in SUBSET Owned(S) :
       /\ e \notin D
       /\ \A d \in D : inFlight[d] = 0
       /\ \/ inFlight[e] > 0 /\ live' = live \ D
          \/ /\ inFlight[e] = 0
             /\ "dispose" \in Faults
             /\ live' = live \ (D \cup {e})
       /\ slots' = ReleaseAll(D)
       /\ mounted' = mounted \ D
  /\ UNCHANGED <<inFlight, runs, stopping>>

-----------------------------------------------------------------------------

Next ==
  \/ \E s \in Session, p \in Package : Define(s, p[1], p[2])
  \/ \E s \in Session, p \in Package : DefineThrows(s, p[1], p[2])
  \/ \E r \in Run, s \in Session, id \in Id : StartRun(r, s, id)
  \/ \E r \in Run : EndRun(r)
  \/ \E c \in StopCall, s \in Session, id \in Id : BeginStop(c, s, id)
  \/ \E c \in StopCall : FinishStop(c)
  \/ \E c \in StopCall : GiveUpStop(c)
  \/ \E S \in {{s} : s \in Session} \cup {Session} : DisposeAll(S)
  \/ \E S \in {{s} : s \in Session} \cup {Session} : DisposeAllThrows(S)

\* A sleeping stop's timer fires and finds it past its deadline at the latest
\* when drainMs have passed.  Nothing obliges a plugin's run to settle.
WakeUps == \A c \in StopCall : WF_jitVars(FinishStop(c) \/ GiveUpStop(c))

Spec == Init /\ [][Next]_jitVars /\ WakeUps

-----------------------------------------------------------------------------
(* Properties of every use of the runtime *)

\* The count an entry keeps is the number of runs that captured it
\* (jit.js:37-49).
InFlightExact == \A e \in Entry : inFlight[e] = Cardinality({r \in Run : runs[r] = e})

\* No disposer runs under a run: stop and disposeAll drain or fail closed,
\* whatever stops, runs, re-definitions and teardowns happen around them
\* (jit.js:5 "Drain in-flight runs or fail-closed").
DisposeOnlyIdle ==
  [][\A e \in live : e \notin live' => \A r \in Run : runs[r] # e]_jitVars

\* A stop call settles even if the runs it waits for never do (jit.js:57-63).
StopSettles == \A c \in StopCall : (stopping[c] # NoEntry) ~> (stopping[c] = NoEntry)

\* "Two plugins claiming memory fail before mount" (README.md:66, slots.js:12):
\* no session has two plugins with different ids in one singleton slot.  With
\* several sessions on one runtime this fails: the table knows ids, not
\* sessions (jit.js:20 and 65).
OnePluginPerSlot ==
  \A e, f \in live :
    e.session = f.session /\ e.slot = f.slot /\ e.slot # Capability => e.id = f.id

-----------------------------------------------------------------------------
(* Properties of one session whose callers serialise their teardowns, with  *)
(* one slot to an id, ids without "::" and disposers that do not throw      *)

Disciplined ==
  /\ Serialised
  /\ "dispose" \notin Faults
  /\ \A s, t \in Session : s = t
  /\ \A p, q \in Package : p[1] = q[1] => p = q
  /\ \A id \in Id : KeyPart[id] = id

\* What is live is what the map holds: a plugin nobody can stop any more
\* cannot arise, and isMounted tells the truth (jit.js:64-66).
LiveAreMounted == live = mounted

\* A mounted plugin holds its slot until it is unmounted, so a second plugin
\* for a singleton is refused (slots.js:26-28, jit.js:20 and 65).
MountedHoldsSlot == \A e \in mounted : e.id \in slots[e.slot]

\* "One occupant for memory/planning/action" (slots.js:12): two live plugins
\* never share a singleton slot.
OneOccupant == \A e, f \in live : e.slot = f.slot /\ e.slot # Capability => e = f

\* What a sleeping stop captured is still mounted when it wakes
\* (jit.js:55-66), so that it disposes nothing twice and removes no later
\* plugin of the same id.
StopTargetsMounted == \A c \in StopCall : stopping[c] # NoEntry => stopping[c] \in mounted

\* The mounted packages and the package each run uses behave as the registry.
PackageOf(e) == <<e.id, e.slot>>
Held == {PackageOf(e) : e \in mounted}
Using == [r \in Run |-> IF runs[r] = NoEntry THEN NoEntry ELSE PackageOf(runs[r])]

Registry == INSTANCE PluginRegistry
              WITH NoPlugin <- NoEntry, held <- Held, using <- Using

ImplementsRegistry == Registry!Spec
=============================================================================
