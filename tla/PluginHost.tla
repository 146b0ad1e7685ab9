----------------------------- MODULE PluginHost -----------------------------
(***************************************************************************)
(* The dsh-improveness plugin in one session of its host                   *)
(* (plugins/dsh-improveness/src/apply.js): the tools it registers on the   *)
(* JIT runtime, the synthesizer that mounts a task's modules together or   *)
(* not at all (synthesize.js), the event bus that mounts capability hints  *)
(* (events.js), the strap of ModelTaste, hot reload (host-port-dsh.js) and *)
(* the disposer the host calls to unload it.                               *)
(*                                                                         *)
(* A synthesize call y runs its mounts in one callback.  If a mount fails, *)
(* it stops what it mounted, last first, and awaits each stop; the stop it *)
(* awaits is stopping[y].                                                  *)
(***************************************************************************)

EXTENDS JitRuntime, Sequences

CONSTANTS
  sid, hmr,     \* ctx.session.id, and the session id hotReload asks about
  Sections,     \* the sections that are on: "jit", "eventInject", "taste"
  AgentPackage, \* the packages the agent passes to improveness.define
  Task,         \* sanitized task ids
  Template,     \* Template[task][slot], the id of a module of the templates
  Order,        \* the `slots` lists given to synthesize
  Synth,        \* promises of synthesize calls
  Tool,         \* the tool ids events name
  HintOf,       \* HintOf[tool] is `hint.${tool}`
  Reloadable,   \* the ids given to hotReload
  NoReload      \* lastReload before the first call

Templates == UNION {{Template[t][s] : s \in Slot} : t \in Task}
Hints == {HintOf[t] : t \in Tool}

ASSUME HostAssumption ==
  /\ sid \in Session /\ hmr # sid
  /\ Synth \subseteq StopCall
  /\ Template \in [Task -> [Slot -> Id]]
  /\ \A t, u \in Task, r, s \in Slot : Template[t][s] = Template[u][r] => t = u /\ s = r
  /\ HintOf \in [Tool -> Id]
  /\ Hints \cap Templates = {}
  /\ \A p \in AgentPackage : p[1] \notin Templates \cup Hints
  /\ AgentPackage \cup {<<h, Capability>> : h \in Hints} \subseteq Package
  /\ \A t \in Task, s \in Slot : <<Template[t][s], s>> \in Package
  /\ \A p \in Fenced : p[1] \notin Templates \cup Hints
  /\ \A o \in Order : o \in Seq({o[k] : k \in DOMAIN o})

VARIABLES
  registered,  \* the tools map is not empty
  reminded,    \* injectedOnce, as far as it holds tool ids
  attached,    \* a taste profile is attached
  context,     \* the ctx.__jit* cell of each slot: the entries it shows
  rollback,    \* the entries a failed synthesize call has to undo
  left,        \* how many of them it has not stopped yet
  lastReload   \* what hotReload reported last

synthVars == <<rollback, left>>
busVars == <<reminded, attached, lastReload>>
hostVars == <<registered, context, synthVars, busVars>>
vars == <<jitVars, hostVars>>

Reload == [id: Reloadable, needsRestart: BOOLEAN, reloaded: BOOLEAN, drained: BOOLEAN]

HostTypeOK ==
  /\ TypeOK
  /\ registered \in BOOLEAN
  /\ reminded \subseteq Tool
  /\ attached \in BOOLEAN
  /\ context \in [Slot -> SUBSET Entry]
  /\ rollback \in [Synth -> Seq(Entry)]
  /\ left \in [Synth -> Nat]
  /\ \A y \in Synth : left[y] <= Len(rollback[y])
  /\ lastReload \in Reload \cup {NoReload}

HostInit ==
  /\ Init
  /\ registered = TRUE
  /\ reminded = {}
  /\ attached = FALSE
  /\ context = [s \in Slot |-> {}]
  /\ rollback = [y \in Synth |-> <<>>]
  /\ left = [y \in Synth |-> 0]
  /\ lastReload = NoReload

-----------------------------------------------------------------------------
(* The cells on ctx.  A template's apply() sets its slot's cell or appends  *)
(* to the capability list; its disposer deletes the cell or filters the     *)
(* list by task.                                                            *)

OfTemplates(E, s) == {e \in E : e.slot = s /\ e.id \in Templates}

Applied(cells, E) ==
  [s \in Slot |-> IF s = Capability THEN cells[s] \cup OfTemplates(E, s)
                  ELSE IF OfTemplates(E, s) # {} THEN OfTemplates(E, s) ELSE cells[s]]

\* The mutated form drops the whole capability list, like the other cells.
DisposedAlike(cells, E) ==
  [s \in Slot |-> IF OfTemplates(E, s) # {} THEN {} ELSE cells[s]]
Disposed(cells, E) ==
  [s \in Slot |->
    IF s = Capability
      THEN {e \in cells[s] : \A d \in OfTemplates(E, s) : d.id # e.id}
      ELSE IF OfTemplates(E, s) # {} THEN {} ELSE cells[s]]

-----------------------------------------------------------------------------
(* The tools on the runtime.  A caller learns of a module when synthesize   *)
(* returns it, so it neither runs nor stops a module being rolled back, nor *)
(* asks for a task again before the call that failed for it has thrown.     *)

RollingBack == UNION {{rollback[y][k] : k \in DOMAIN rollback[y]} : y \in Synth}

JitTool == registered /\ "jit" \in Sections
Known(id) == AtKey(sid, id) \cap RollingBack = {}

DefineTool(p) ==
  /\ JitTool
  /\ Define(sid, p[1], p[2]) \/ DefineThrows(sid, p[1], p[2])
  /\ UNCHANGED hostVars

RunTool(r, id) ==
  /\ JitTool
  /\ Known(id)
  /\ StartRun(r, sid, id)
  /\ UNCHANGED hostVars

RunSettles(r) == EndRun(r) /\ UNCHANGED hostVars

StopTool(c, id) ==
  /\ JitTool
  /\ Known(id)
  /\ BeginStop(c, sid, id)
  /\ context' = IF stopping' = stopping THEN Disposed(context, AtKey(sid, id)) ELSE context
  /\ UNCHANGED <<registered, synthVars, busVars>>

StopEnds(c) ==
  /\ FinishStop(c)
  /\ context' = Disposed(context, {stopping[c]})
  /\ UNCHANGED <<registered, synthVars, busVars>>

StopThrows(c) == GiveUpStop(c) /\ UNCHANGED hostVars

-----------------------------------------------------------------------------
(* synthesize                                                               *)

\* define mounts the k-th module of the list.  The modules before it are in
\* other slots, so the table it meets is the one the call found.  A slot that
\* has no template is not in Slot.
Mounts(task, order, k) ==
  /\ order[k] \in Slot
  /\ \A j \in 1 .. k - 1 : order[j] # order[k]
  /\ CanClaim(slots, order[k], Template[task][order[k]])
  /\ AtKey(sid, Template[task][order[k]]) = {}

\* n modules are mounted before the list ends or a mount throws.
Mountable(task, order, n) ==
  /\ \A k \in 1 .. n : Mounts(task, order, k)
  /\ n < Len(order) => ~Mounts(task, order, n + 1)

\* The slots claimed by then, that of a module whose key is taken included.
ClaimedSlots(task, order, n) ==
  {s \in Slot : /\ CanClaim(slots, s, Template[task][s])
                /\ \E k \in DOMAIN order : k <= n + 1 /\ order[k] = s}

\* What the catch block stops.  The mutated form lists an id before define
\* has mounted it, and so lists one that somebody else mounted.
UndoneWithFailed(task, order, made) ==
  LET k == Len(made) + 1 IN
  IF k \in DOMAIN order /\ order[k] \in Slot /\ AtKey(sid, Template[task][order[k]]) # {}
    THEN Append(made, CHOOSE e \in AtKey(sid, Template[task][order[k]]) : TRUE)
    ELSE made
Undone(task, order, made) == made

\* The call up to its first await.  A failed call has begun its first stop,
\* which finds an idle entry and ends in the same callback.
Synthesize(y, task, order) ==
  /\ JitTool
  /\ rollback[y] = <<>>
  /\ \A e \in RollingBack : \A s \in Slot : e.id # Template[task][s]
  /\ \E n \in 0 .. Len(order) : \E fresh \in [1 .. n -> Instance] :
       LET made == [k \in 1 .. n |-> [session |-> sid, id |-> Template[task][order[k]],
                                      slot |-> order[k], instance |-> fresh[k]]]
           new == {made[k] : k \in 1 .. n}
           undo == IF n = Len(order) THEN <<>> ELSE Undone(task, order, made)
           stopped == IF undo = <<>> THEN {} ELSE {undo[Len(undo)]}
       IN
       /\ Mountable(task, order, n)
       /\ \A e \in new : Unused(e) /\ e \notin RollingBack
       /\ mounted' = (mounted \cup new) \ stopped
       /\ live' = (live \cup new) \ stopped
       /\ slots' = [s \in Slot |->
            (IF s \in ClaimedSlots(task, order, n)
               THEN Claim(slots, s, Template[task][s])[s] ELSE slots[s])
            \ {e.id : e \in {d \in stopped : d.slot = s}}]
       /\ context' = Disposed(Applied(context, new), stopped)
       /\ rollback' = [rollback EXCEPT ![y] = undo]
       /\ left' = [left EXCEPT ![y] = IF undo = <<>> THEN 0 ELSE Len(undo) - 1]
  /\ UNCHANGED <<inFlight, runs, stopping, registered, busVars>>

\* The loop of the catch block begins the stop of the next id, which may end
\* at once, sleep, or find nothing; a stop that throws is swallowed.
RollbackNext(y) ==
  /\ left[y] > 0
  /\ stopping[y] = NoEntry
  /\ LET id == rollback[y][left[y]].id IN
     \/ /\ AtKey(sid, id) = {}
        /\ UNCHANGED <<jitVars, context>>
     \/ /\ Stop(y, sid, id)
        /\ context' = IF stopping' = stopping THEN Disposed(context, AtKey(sid, id)) ELSE context
  /\ left' = [left EXCEPT ![y] = @ - 1]
  /\ UNCHANGED <<registered, rollback, busVars>>

\* The loop ends and synthesize throws what it caught.  The mutated form
\* leaves out the first module of the list.
EndSynthesizeEarly(y) ==
  /\ rollback[y] # <<>>
  /\ left[y] <= 1
  /\ stopping[y] = NoEntry
  /\ rollback' = [rollback EXCEPT ![y] = <<>>]
  /\ left' = [left EXCEPT ![y] = 0]
  /\ UNCHANGED <<jitVars, registered, context, busVars>>
EndSynthesize(y) ==
  /\ rollback[y] # <<>>
  /\ left[y] = 0
  /\ stopping[y] = NoEntry
  /\ rollback' = [rollback EXCEPT ![y] = <<>>]
  /\ UNCHANGED <<jitVars, registered, context, left, busVars>>

-----------------------------------------------------------------------------
(* The event bus, the taste strap and hot reload                            *)

\* emit of an event that names a tool for the first time.  The tool counts as
\* reminded before the hint is mounted; only need_tool mounts one.
Emit(kind, tool) ==
  /\ registered
  /\ "eventInject" \in Sections
  /\ tool \notin reminded
  /\ reminded' = reminded \cup {tool}
  /\ IF kind = "need_tool" /\ "jit" \in Sections /\ AtKey(sid, HintOf[tool]) = {}
       THEN Define(sid, HintOf[tool], Capability)
       ELSE UNCHANGED jitVars
  /\ UNCHANGED <<registered, context, synthVars, attached, lastReload>>

\* improveness.taste.attach with a known profile, improveness.taste.detach.
TasteTool(on) ==
  /\ registered
  /\ "taste" \in Sections
  /\ attached' = on
  /\ UNCHANGED <<jitVars, registered, context, synthVars, reminded, lastReload>>

\* jit.inflight(session, id)
InFlightAt(session, id) ==
  IF AtKey(session, id) = {} THEN 0
  ELSE inFlight[CHOOSE e \in AtKey(session, id) : TRUE]

HotReload(id) ==
  /\ LET present == \E s \in Slot : id \in slots[s] IN
     lastReload' = [id |-> id, needsRestart |-> ~present, reloaded |-> present,
                    drained |-> present => InFlightAt(hmr, id) = 0]
  /\ UNCHANGED <<jitVars, registered, context, synthVars, reminded, attached>>

-----------------------------------------------------------------------------
(* The disposer of the plugin                                               *)

\* It detaches taste, disposes the session's plugins and unregisters the
\* tools.
Unload ==
  /\ registered
  /\ attached' = FALSE
  /\ IF Owned({sid}) = {} THEN UNCHANGED jitVars ELSE DisposeAll({sid})
  /\ context' = Disposed(context, Owned({sid}))
  /\ registered' = FALSE
  /\ UNCHANGED <<synthVars, reminded, lastReload>>

\* disposeAll throws, and the tools stay.  The mutated form unregisters them
\* in a finally block.
UnloadThrowsBare ==
  /\ registered
  /\ attached' = FALSE
  /\ DisposeAllThrows({sid})
  /\ context' = Disposed(context, mounted \ mounted')
  /\ registered' = FALSE
  /\ UNCHANGED <<synthVars, reminded, lastReload>>
UnloadThrows ==
  /\ registered
  /\ attached' = FALSE
  /\ DisposeAllThrows({sid})
  /\ context' = Disposed(context, mounted \ mounted')
  /\ UNCHANGED <<registered, synthVars, reminded, lastReload>>

-----------------------------------------------------------------------------

HostNext ==
  \/ \E p \in AgentPackage : DefineTool(p)
  \/ \E r \in Run, id \in Id : RunTool(r, id)
  \/ \E r \in Run : RunSettles(r)
  \/ \E c \in StopCall \ Synth, id \in Id : StopTool(c, id)
  \/ \E c \in StopCall : StopEnds(c)
  \/ \E c \in StopCall : StopThrows(c)
  \/ \E y \in Synth, t \in Task, o \in Order : Synthesize(y, t, o)
  \/ \E y \in Synth : RollbackNext(y)
  \/ \E y \in Synth : EndSynthesize(y)
  \/ \E kind \in {"need_tool", "tool_fail"}, t \in Tool : Emit(kind, t)
  \/ \E on \in BOOLEAN : TasteTool(on)
  \/ \E id \in Reloadable : HotReload(id)
  \/ Unload
  \/ UnloadThrows

HostSpec == HostInit /\ [][HostNext]_vars

-----------------------------------------------------------------------------
(* Properties.  Teardowns are serialised and package code does not fail.    *)

\* The table agrees with the map through every mount, refusal, rollback,
\* stop and teardown: no slot leaks, none is free while its plugin is
\* mounted (slots.js:26-41, jit.js:20, 65 and 74).
SlotTableExact == \A s \in Slot : slots[s] = {e.id : e \in {d \in mounted : d.slot = s}}

\* The cells the agent sees on ctx show exactly the modules that are mounted
\* (templates.js:15-18 and 80-85): undoing one task's module leaves the other
\* task's in place.
ContextMatches == \A s \in Slot : context[s] = OfTemplates(mounted, s)

\* "Mounts are transactional" (synthesize.js:5): when a failed call throws,
\* nothing it mounted is left, whatever happened between its stops.
RollbackUndoes ==
  [][\A y \in Synth : EndSynthesize(y) =>
       \A k \in DOMAIN rollback[y] : rollback[y][k] \notin mounted]_vars

\* A failed call stops by id, in several callbacks, but only what it mounted
\* itself, also when an earlier call holds modules of the same task, and when
\* the plugin is unloaded meanwhile (synthesize.js:46 and 58-65).
RollbackSparesOthers ==
  [][\A y \in Synth : rollback'[y] # rollback[y] \/ left'[y] # left[y] =>
       \A e \in mounted \ mounted' : \E k \in DOMAIN rollback[y] : e = rollback[y][k]]_vars

\* "No leftover registrations" (spatiotemporal-composability.md:45): when the
\* tools are gone, so are the plugins, their slots, their cells and the taste
\* strap, also under a synthesize call that is still rolling back.
UnloadLeavesNothing ==
  ~registered => /\ live = {} /\ mounted = {}
                 /\ slots = EmptySlots
                 /\ context = [s \in Slot |-> {}]
                 /\ ~attached

\* "HMR (drain in-flight or fail-closed)" (README.md:115): what hotReload
\* reports as reloaded has no run in flight.  It asks about a session nobody
\* has (host-port-dsh.js:66), so this fails.
ReloadDrained ==
  [][\A id \in Reloadable : HotReload(id) /\ lastReload'.reloaded =>
       \A e \in AtKey(sid, id) : inFlight[e] = 0]_vars
=============================================================================
