# Improveness: verification project

TLA+ models of the Improveness harness (the `dsh-improveness` plugin and the
drivers under `harness/omp`), TLC configurations that check them on small
instances, and TLAPS proofs of the results that hold for every instance.
`PROJECT.json` lists the runs, the mutants that show each property can fail, the
lines each definition models, the findings, the hazards and the theorems.

To check a run: `tlc -workers 2 -config host.cfg MCPluginHost`.
To check the proofs of a module: `tlapm CandidateStore_proofs.tla`, and so on for
`JitRuntime_proofs`, `PluginHost_proofs`, `DurableApply_proofs`,
`ArchiveSearch_proofs`, `ImproveShort_proofs` and `Localize_proofs`.

## The system and its parts

Improveness lets an agent change its own harness at two speeds. The JIT path
mounts plugins for one session in one of four slots (memory, planning and action
have one occupant, capability is a list) and takes them away again. The durable
path writes accepted plugins and playbook deltas to disk, with a copy to go back
to. A frozen checker decides which candidates are accepted.

| Component | State it keeps | Operations | Talks to |
|---|---|---|---|
| JIT runtime (`jit.js`, `slots.js`, `policy-fence.js`) | occupancy table, map of mounted entries with run counts | define, run, stop, disposeAll | package code (`apply()`, disposers) |
| Synthesizer (`synthesize.js`, `modules/templates.js`) | the ids a call has mounted; cells on `ctx` | synthesize, with rollback | JIT runtime |
| Event bus (`events.js`) | what was injected once, a log, the graph | emit, clearInjections | catalog, JIT runtime (hint mounts) |
| Plugin host (`apply.js`, `host-port-dsh.js`, `taste.js`) | the tool map, the last reload, the attached profile | the registered tools, hotReload, dispose | all of the above, core RPC |
| Core RPC (`core-client.js`, `dsh-core-runner.ts`) | none; one process per call | callCore, handle | drivers |
| Durable apply (`apply-snapshot.ts`) | generated root: candidates, installed directories, copies; require cache | applyDurablePlugin, rollbackDurablePlugin, list, uninstall | file system |
| Candidate store (`apply-candidate.ts`, `rollback-candidate.ts`) | staging files, parent snapshots, manifests | applyCandidate, rollbackCandidate | file system |
| Archive and search (`archive.ts`, `search.ts`, `self-harness.ts`, `improve-long.ts`) | snapshots with parent and fitness, review queue, reject log | runSearch, snapshotOverlay, sampleParent, decideAccept | checker, durable apply, staging |
| Playbook (`curate-playbook.ts`, `propose.ts`, `improve-short.ts`) | bullets with counters, in a file | curatePlaybook, proposeNextRecipe, improveShort | procedure graph |
| Procedure graph (`procedure-graph.js`) | nodes and edges, in a file | parseGraph, localize, applyEdits, scoreTrajectory | bus, playbook |
| ModelTaste (`packages/improveness-modeltaste`) | none | detectFailures, repairs, evaluateFit | taste strap |
| Sections and catalog (`sections.js`, `catalog.js`) | flags, read once | parseSections, expand, find | plugin host |
| Host ports (`harness/omp/host-port`) | wrap a runtime | the HostPort methods | JIT runtime, durable apply |

What is hard about it:

- **Interleaving.** JavaScript runs one callback at a time, but `stop` sleeps
  with an entry it captured, a failed `synthesize` awaits one stop after the
  other, runs are promises, and the host may unload the plugin at any moment.
- **Partial failure.** `define` claims before it applies, `disposeAll` throws in
  the middle of its walk, `synthesize` fails after some mounts, a rename
  succeeds and the next does not.
- **Identity.** Plugins are named by id; slots, rollbacks and reloads look ids
  up again after an await, or without the session.
- **Crashes.** The durable path, a candidate, and an accepted step of the search
  are sequences of file operations with no log.
- **Overlap.** The playbook and the graph are read, changed in memory and written
  back by processes that know nothing of one another.
- **Reuse.** Snapshot ids are step numbers, so that every search writes over the
  archive of the one before.

The correctness properties, component by component: the runtime drains or fails
closed, its counts are exact, its map, its table and what is really live agree; a
synthesize call mounts everything or nothing and disturbs nobody; an unloaded
plugin leaves nothing behind; the generated root only ever holds validated code
and never loses the last whole version; a candidate is applied and rolled back as a
whole, and what a manifest promises to restore is there; what the archive holds
was reviewed, is scored as it is, is better than its parent, and a search ends;
the playbook keeps its ids apart and what the curator refuses out, and loses no
count unless calls overlap; a graph that is written is sound, and a neighbourhood
is what its hops reach.

## Modules

### `Slots`, `JitRuntime`, `PluginRegistry`

`Slots` is `slots.js`: the table maps a slot to the set of ids that hold it
(`null` is the empty set; the order of the capability list is left out, since no
caller reads it).

`JitRuntime` is `createJitRuntime`. An action is the code between two awaits.

| Variable | Code |
|---|---|
| `slots` | `slots` |
| `mounted` | the entries of the map `mounted` |
| `live` | entries whose `apply()` has run and whose `dispose()` has not: what a caller can feel, not kept by the code |
| `inFlight` | `entry.inFlight` |
| `runs` | the promises `run` returned, each with the entry its closure captured |
| `stopping` | the `stop` calls asleep, each with the entry it captured |

`Define` and `DefineThrows` are the two ends of `define` (the second keeps the
claim); `StartRun` and `EndRun` bracket a run whose function is asynchronous (a
synchronous one changes nothing between two callbacks); `Stop` is `stop` up to
its first await, `FinishStop` and `GiveUpStop` are what it does when its timer
wakes it; `DisposeAll` and `DisposeAllThrows` are `disposeAll`. An `instance`
in an entry stands for the identity of the object, so that a plugin stopped and
defined again is another entry. Time is not modelled: a sleeping stop may find
its deadline past at any wake-up. `KeyPart` is `k.split("::")[1]` (jit.js:74).

`PluginRegistry` is the promise without tables, counters or waiting: a set of
plugins in place, runs that use them, `Mount`, `Retire`, `Start`, `Settle`.
`JitRuntime` implements it with `held` the packages of `mounted` and `using` the
packages of `runs`.

The constant `Serialised` is a discipline of the callers: nobody starts a stop
or a `disposeAll` on an entry that a sleeping stop waits for. Without it (two
stops of one plugin, or an unload during a stop) the code disposes an entry
twice and a stale stop removes a later plugin of the same id; what still holds
then is what `jit_open` checks.

### `PluginHost`

Extends `JitRuntime` with the plugin as `apply.js` wires it, in one session.
`Synthesize` is a whole successful call, or a failed one up to its first await:
the mounts are one callback, and the first stop of the rollback finds an idle
entry and ends in it. `RollbackNext` begins the next stop (by id; `stopping[y]`
is the stop the call awaits), `EndSynthesize` rethrows. `context` is the
`ctx.__jit*` cells as sets of entries, changed by the templates' `apply()` and
disposers (`Applied`, `Disposed`). `Emit` is `emit` for an event that names a
tool, with the hint mount of `apply.js:30-40`. `Unload` and `UnloadThrows` are
the disposer of `apply.js:97-102`; `HotReload` is `host-port-dsh.js:59-71`.

Three things are assumed of the callers, each a guard: they serialise teardowns
as above; they neither run nor stop a module of a call that is rolling back
(they do not know its ids yet); they do not ask for a task again while a call
that failed for it is still rolling back. Without the last, an unload that
throws half-way lets the old call's rollback stop, by id, what the new call
mounted. Package code does not fail here (`Faults` is empty): `jit_open` covers
that.

### `DurableApply`

The generated root of one id. `tree` maps the three places
(`.candidates/<id>`, `<id>`, `<id>.bak`) to a function from the files there to
the version each comes from. A step is one file operation (a recursive removal
is one step to a file), `Crash` kills the process between any two, and `cache`
is require's cache for the candidate's path, which lives as long as the process
(`Resident`: the search driver and the OMP host; not the runner `callCore`
spawns).

### `AtomicCandidates`, `CandidateStore`

`AtomicCandidates` is the promise of `overlay/.omp/manifests/README.md` and of the
`parent` directory: applying a candidate replaces some contents and remembers what
they replaced, rolling back puts them back, and a call that is refused or killed
leaves some of its files written.

`CandidateStore` is `applyCandidate` and `rollbackCandidate`, one file operation to
a step, with `Kill` between any two.

| Variable | Code |
|---|---|
| `disk` | the files under `harness/omp/staging` |
| `copy` | `staging/snapshots/<id>/parent` |
| `manifest` | `overlay/.omp/manifests/<id>.json`; a hash is the contents it is the hash of |
| `at`, `id`, `cand`, `parts` | the call in progress: its next operation, `input.id`, `input.files`, `parentParts` |
| `settled`, `trail`, `whole` | history: the tree the last call left, the candidates applied one on the other, whether the last call did what it was asked |

`BeginApply`, then `KeepParent` and `WriteFile` in turn (or `RefuseFile`, where
`assertEvolverWrite` throws), then `WriteManifest`; `BeginRollback`, then
`RestoreFile` in turn (or `RestoreThrows`), then `Compare`, which looks at the hash
after the writes. `Stage` is another driver that writes the tree between calls. The
repository ships one example manifest without its copies (`Shipped`). What is
assumed of the callers is that a candidate's id is new (`Unused`): the code does
not look, and would copy its own files over the parent's.

The refinement maps `tree` to `settled` (a call changes the abstract tree when it
ends) and `parent` to the copies a manifest names. A file that was not there comes
back empty, so absent and empty are one content in the abstract store.

### `ArchiveSearch`, `ReviewQueue`

`ArchiveSearch` is `runSearch` and `improveLong`, one write to a step, searches
following one another on one archive. A playbook is the set of recipe families its
text names, which is all `scorePlaybook` looks at; the proposer is any function of
its type, so that `proposeNextRecipe` is one of those covered.

| Variable | Code |
|---|---|
| `disk`, `overlay` | staged playbooks; the playbook of `overlay/.omp`, which no search writes |
| `book`, `meta` | `archive/<id>/files` as `loadSnapshotPlaybook` reads it; `archive/<id>/meta.json` |
| `filed`, `queue` | ids in `staging/manifests`; rows of `REVIEW_QUEUE.md` |
| `at`, `step`, `cap`, `parent`, `before`, `after` | the search in progress and what its step knows |
| `killed`, `searches` | history: whether a search was killed; how many began |

`Begin` is `ensureSeedArchive` up to its snapshot; `Accept` and `Reject` are a step
up to the decision, `Refuse` one whose proposer throws or names a kernel path; an
accepted step goes on with `Stage` (or `StageThrows`), `FileManifest`,
`AppendReviewRow`, `SnapshotFiles` and `SnapshotMeta`. `Sampled` compares
`fitness / (1 + children)` crosswise, in whole numbers; where several are greatest
the order of the directory decides, which is left open. A fitness is a count of
fixtures rather than a fraction of them: the total is the same for all.

`ReviewQueue` composes it with `CandidateStore` (`INSTANCE ... WITH`, both on one
staging tree): between searches a maintainer runs the rollback command a row names.

### `ProcedureGraph`, `Localize`, `ImproveShort`

`ProcedureGraph` has the graph, `parseGraph` and the edits of `applyEdits` as
operators. The kind of a node, the relation of an edge and its three texts are
reduced to one, since every caller gives the same to all. `Localize` is the
breadth-first search of `localize`, a turn of its loop at a time, next to a
definition by paths. Its loop is a recursive function that takes as many turns as
the graph has nodes, which is proved to be enough. Of several edges between the
same ends the code keeps the first one; the model leaves open which one that is.

`ImproveShort` is `improveShort` and the command of `curatePlaybook`, each in a
process of its own, as the hosts spawn them (`core-client.js`).

| Variable | Code |
|---|---|
| `playbook`, `graph` | `PLAYBOOK.md`, as its bullets; `PROCEDURE_GRAPH.json` |
| `at`, `lesson`, `passed`, `steps`, `section` | the call of a process: its next operation and its input |
| `read`, `current` | what it has read of the two files |
| `calls`, `curated`, `clash` | calls begun; history: playbooks written, and whether one was written over a change its writer had not read |

`ReadGraph` and `WriteGraph` are `maybeEditGraph`; `ReadPlaybook` and
`WritePlaybook` are `curatePlaybook`, `CurateThrows` its refusals. A lesson is a
line of text, up to case and spaces (`normalize`). Of a maintainer's playbook it is
assumed that no two bullets share an id or a text and that none is refused
(`ImproveAssumption`); a graph may be anything.

## Runs

| Run | Instance | Shows |
|---|---|---|
| `jit_open` | 1 session, 3 ids (one fenced, one with `::` in it), 2 instances, 2 runs, 2 stops, `apply()` and disposers may fail, no discipline | `InFlightExact`, `DisposeOnlyIdle`, `StopSettles` |
| `jit_serial` | 1 session, 2 plugins for memory, 1 capability, 1 fenced, 2 runs, 2 stops, `apply()` may fail, disciplined | `LiveAreMounted`, `MountedHoldsSlot`, `OneOccupant`, `StopTargetsMounted`, `ImplementsRegistry` |
| `jit_sessions` | 2 sessions, otherwise as above, no faults | **violation** of `OnePluginPerSlot` |
| `host` | 1 singleton slot and the list, 2 tasks, 2 synthesize calls, an agent's plugin, 1 hint, 1 run, 1 stop | `SlotTableExact`, `ContextMatches`, `UnloadLeavesNothing`, `RollbackUndoes`, `RollbackSparesOthers` |
| `hot_reload` | as `host` | **violation** of `ReloadDrained` |
| `durable` | 4 versions (with a library, without, one that does not validate, one without `apply.js`), one-shot processes, kills | `OnlyValidated`, `ApplyInstalls`, `NeverLost` |
| `durable_crash` | as `durable` | **violation** of `AtomicReplace` |
| `durable_resident` | as `durable`, one long-lived process | **violation** of `OnlyValidated` |
| `candidates` | 3 ids (one shipped), 3 paths (one refused), 2 contents, candidates of one and of two files that share a path, kills | `ManifestsRestore`, `UnwindsInReverse`, `ImplementsAtomic` |
| `search` | 3 families (one unlocks a fixture of each split, one of either), 2 searches of at most 2 steps, any overlay and staged playbook, kills | `Reviewed`, `FitnessOfBook`, `ParentsArchived`, `NoRegression`, `SearchEnds` |
| `search_rollback` | one search of one step, then rollback commands | **violation** of `QueuedRollsBack` |
| `playbook` | 2 processes, 3 calls, 4 lessons (a plain one, one of another section, a secret, one that names `SYSTEM.md`), 3 procedures, a playbook with a bullet taken out, a graph with two edges between the same ends and a dangling one, kills | `BulletsDistinct`, `RefusedKeptOut`, `LocalizeExact`, `StableIds`, `NothingLost`, `GraphsSound` |

Every run of a pass also checks the type invariant of its module.

Why the bounds are enough: two runs and two stops give every overlap of a stop
with a run that began before it, one that began during it and another stop; two
instances give a plugin defined again while something still holds the old one; the
three singleton slots behave alike, so one of them with two claimants shows every
collision. In `host` teardowns are serialised, so nothing but the map refers to
an unmounted entry and one instance is enough; two calls and two tasks give a
rollback next to a success for the same and for another task. No counter is cut
off: the state spaces are finite because runs, stops, calls and versions are.
The number of applies, rollbacks and kills in `durable` is unbounded. Nothing in
`jit_*` and `host` deadlocks and `durable` always accepts another apply, so the
runs check deadlock.

In `candidates` two candidates that share a path give both orders of rolling back,
a third id the shipped manifest; the number of calls and kills is unbounded. In
`search` two searches of two steps write over each other's snapshots, whole or
killed; more steps add nodes, not ways to interfere, and `SearchInv` is proved for
all. `MaxSearches` and `MaxCalls` bound counters the code does not have. In
`playbook` three calls give an overlap of two and one that follows it; three
procedures give every path of up to two hops, the code's default, and a cycle.
`search`, `search_rollback` and `playbook` stop when their calls are used up, so
they do not check deadlock; `candidates` does.

Fairness is assumed twice. For `SearchEnds`, weak fairness of the steps of a search
that has begun (`Continue`): `runSearch` is one synchronous call without waiting, so
it goes on until it returns, throws or is killed. Nothing is assumed of the
proposer, and new searches need not begin. For `StopSettles`, weak fairness of the wake-ups of a
sleeping stop (`WakeUps`). Its timer fires every 5 ms and the deadline passes by
itself. Nothing is assumed of the runs: they may never settle. What is shown is
that a stop ends nevertheless.

## Findings

- `jit_sessions`: slots belong to ids rather than to sessions. Session 2 mounts
  `noteA` too (the claim is already its id's), session 1 stops its own, the slot
  is free, and session 2 mounts `noteB` beside its `noteA`, though README.md:66
  says two plugins claiming `memory` fail before mount. The OMP port and the
  tests put several sessions on one runtime.
- `hot_reload`: `hotReload` asks for the runs of a session called `hmr`
  (host-port-dsh.js:66) and so never fails closed.
- `durable_crash`: the "atomic replace" of README.md:114 is two renames; a kill
  between them leaves the plugin uninstalled with its copy aside.
- `durable_resident`: validation loads every candidate of an id from one path
  with `require()`, which returns the first one for ever, so that a second apply
  in one process is installed unchecked (README.md:67 promises checks).

- `search_rollback`: a row of the review queue names
  `rollback-candidate.ts --id step-N` (search.ts:177), but the search files its
  manifest under `staging/manifests` and keeps no parent copies, while the command
  reads `overlay/.omp/manifests` and throws. docs/plans/p2-omp-overlay.md:443 says
  that rollback of a bad search candidate remains that command.

Read in the code and not checked by a run: `appendRecipe` (propose.ts:39) takes the
number of s-bullets for the next id, so that the first recipe proposed for the
shipped playbook, which has `s-001`, is `s-001` again. The curator's `nextId` takes
the maximum; the mutant of `BulletsDistinct` is that count.

## Proofs

`JitRuntime_proofs` proves, for every set of sessions, ids, packages, runs and
stop calls that satisfies `JitAssumption` and `SlotAssumption`:

- `CountsAreExact`: `Spec => [](TypeOK /\ InFlightExact)`. The invariant
  `CountInv` is inductive as it stands; the work is in the cardinalities
  (`StartRunCounts`, `EndRunCounts`), and it needs that the runs are finitely
  many.
- `DrainOrFailClosed`: `Spec => DisposeOnlyIdle`, from `CountInv`: an action
  disposes an entry only if its count is zero (`DisposedAreIdle`), and a count
  of zero means that no run captured the entry (`IdleMeansNoRun`).
- `SerialSessionSafe`: under `Disciplined` (one session, serialised callers,
  disposers that do not throw, one slot to an id, ids without `::`),
  `LiveAreMounted`, `MountedHoldsSlot`, `OneOccupant` and `StopTargetsMounted`.
  None of them is inductive alone: a mount is refused only because every mounted
  plugin holds its slot, a plugin keeps its slot only because no stale stop
  releases it, and a stop is never stale because its entry stays mounted while
  it sleeps. `SerialInv` is their conjunction with `CountInv`, unique keys, runs
  that hold mounted entries, distinct targets of stops and singleton slots.
- `SerialSessionImplementsRegistry`: under `Disciplined`, `JitRuntime`
  implements `PluginRegistry`, step by step from `SerialInv`.

`PluginHost_proofs` proves, for any packages, tasks, `slots` lists, tools, runs and
calls that satisfy `HostAssumption`, in one session with serialised teardowns and
package code that does not fail (`HostDiscipline`): `HostTypes`,
`TableAlwaysExact`, `ContextAlwaysMatches`, `UnloadIsClean`, `MountsTransactional`,
`RollbackSparesAll` and `HostDrains` (the runtime's `DisposeOnlyIdle`, of all the
plugin does). One invariant, `HostInv`, carries them all:

- `SerialInv` of the runtime, `SlotTableExact` and `ContextMatches` depend on each
  other: a refused `define` leaves its claim in the table, and that is harmless
  only since the key it met is that of a plugin which holds this slot already; a
  disposer clears a whole cell, and that is right only since a singleton slot has
  one occupant.
- A rollback stops by id, in several callbacks. That it takes back what the call
  mounted and nothing else needs three more parts: nobody runs or stops what is
  being rolled back (`RollbackQuiet`), so that no stop of the rollback has to wait
  and none can give up; what is mounted under an id of the list is the entry the
  call mounted (`RollbackOwn`); what the loop has passed is gone (`RollbackDone`).
- `UnloadedEmpty`: no tools, nothing mounted. A rollback that outlives the unload
  then finds nothing under its ids.

`HostAssumption` says of the ids what the code relies on and does not check: the
template of a task and slot has an id no other one has (templates.js:8, 28, 54 and
74), and the agent's own packages use neither those ids nor those of the hints. A
package of the agent under the id of a template would be stopped by a rollback of
its task.

`DurableApply_proofs` proves, for every set of versions and files that satisfies
`DurableAssumption` and wherever the process is killed:

- `ApplyInstallsManifest`: `Spec => [](DurableTypeOK) /\ ApplyInstalls`, in a
  resident process or not;
- `OneShotInstallsValidated`: under `~Resident`, `Spec => []OnlyValidated`.

Both need more than what is installed: what is in the candidate directory at each
step of the call (`CandidateInv`: nothing but what has been written, nothing
missing but what is still to write, from the moment it is cleared). The second
also needs (`SoundInv`) that the copy comes from an installation, and that the
cache is empty whenever the candidate is loaded: what fails in a resident process.
- `WholeVersionKept`: `Spec => NeverLost`, in a resident process or not. `WholeInv`
  says which of the two places may be torn at which step: the installed directory
  only while a rollback removes it, the copy only while an apply does, each with
  the other one whole.

`CandidateStore_proofs` proves, for any candidates, paths and contents that satisfy
`CandidateAssumption`, and wherever a call is killed:

- `CandidateTypes` and `ManifestsAlwaysRestore`: `Spec => []CandidateTypeOK` and
  `Spec => []ManifestsRestore`. The second is not inductive: `CandidateInv` adds
  what an apply in progress has copied and written (`Applying`: the copies are what
  the call found, and it has no manifest yet), what a rollback has restored
  (`Restoring`), and that what is not yet touched is as the call found it.
- `CandidatesAtomic`: `Spec => ImplementsAtomic`, from the same invariant: a step
  that ends a call is `Apply`, `Rollback`, `Partly` or `Refuse` of the abstract
  store, and every other step a stutter.
- `ReverseUnwinds`: `Spec => UnwindsInReverse`. `Linked` says of every candidate of
  the trail, not of the last one only, that its copies are what it found where it
  wrote, and that elsewhere the next one found the same: only then is what lies
  under the last one still right after it has been rolled back.

`ArchiveSearch_proofs` proves, for any fixtures, families, caps and numbers of
searches that satisfy `SearchAssumption`: `SearchTypes`, `AlwaysReviewed`,
`ParentsAlwaysArchived`, `ScoresAlwaysFit`, `NeverRegresses`. `SearchInv` follows an
accepted step from its sample to the archive: it stays in its budget (`Counting`),
the overlay is archived first and a parent is never taken out (`Rooted`,
`Loadable`), and the playbook it was accepted for is what is staged and then
snapshotted, with its row in the queue before (`Improving`). That the scores are
numbers needs that the held-out fixtures are finitely many.

`ImproveShort_proofs` proves, for any processes, lessons, playbooks and graphs that
satisfy `ImproveAssumption` and `GraphAssumption`: `EditsKeepSound` (each edit keeps
a graph sound, `DeleteNode` and `DeleteEdge` included), `ImproveTypes`,
`BulletsAlwaysDistinct`, `RefusedAlwaysOut`, `IdsStable`, `GraphsAlwaysSound`. Under
overlapping calls the playbook on disk is not enough: `ImproveInv` says that what
each process has *read* is fit to be written back too. That a new id is new
(`NextIdFresh`) needs that a playbook is finite and that a finite set of numbers has
a maximum (`MaxOf`, from the well-foundedness of finite subsets).
`OutcomesAllCounted` is about the sum of all counts, a fold over the bullets. An
induction theorem that takes a predicate cannot be cited here; `SubsetsInduct`
states the same for a *set* of subsets, and the function the fold computes is shown
to exist (`SumExists`), to be the same on larger sets (`SumsAgree`), and so to lose
and gain what a bullet that is replaced counts for (`OutcomesReplace`).

`Localize_proofs` proves, for any finite graph that `parseGraph` leaves, any
procedure and any number of hops: `LocalizeFinds`, the search shows the
neighbourhood; and with it `LocalizeAlwaysExact`, for every graph that calls leave
behind. `LoopInv` is what a turn keeps: the depths in the queue rise by one at most
(`InOrder`), a depth is the length of a path (`DepthIsPath`), and what a node that
is done leads to was found, at most a hop further (`DoneReaches`). The number of
turns left falls by one with each turn (`TurnKeeps`), so that the queue is empty
when they are used up (`SearchEndsWith`); then every node on a short path was found,
by induction along the path (`PathsAreFound`). It needs that a graph has finitely
many nodes, as a file does, which edits keep (`FiniteGraphs`).

Only model-checked: `StopSettles` and `SearchEnds` (liveness is beyond the prover),
and the findings.

## Not modelled

Most of the repository's lines are not this system's: `oh-my-pi` is the agent the
harness is an overlay of, and `vendor` and the fixtures are other programs. The
modules cover the harness's own core, a few thousand lines of some 800,000; a share
of the whole tree says little about them.

Of the harness itself: QA, smoke and benchmark drivers, report generation, path
allowlists and the frozen checker's scoring are pure I/O or pure functions on text.
ModelTaste repairs the arguments of one tool call and keeps nothing. The core RPC
is one process and one line to a call. Sections and catalog are read once.

In the modelled parts: procedure guidance of the bus and `clearInjections` (not
reachable through the tools), the RPC tools of the plugin (what they call is in
`ImproveShort` and `ArchiveSearch`), listing and uninstalling generated plugins,
two processes on one generated root (they share `.candidates/<id>`, so that one may
install what the other has half written), the plugin files of a search's proposal,
reject logs, two searches at once, `renderGuidance` and `scoreTrajectory`.

## Plan

1. `Slots`, `JitRuntime`, `PluginRegistry` with their proofs: done.
2. `PluginHost` on top of `JitRuntime`, with its proofs: done.
3. `DurableApply` with its proofs: done for one process; to extend: several
   processes on one generated root.
4. `CandidateStore`, `AtomicCandidates` with their proofs: done.
5. `ArchiveSearch` with its proofs, `ReviewQueue`: done; to extend: plugin files of a
   proposal, by composition with `DurableApply`.
6. `ProcedureGraph`, `Localize`, `ImproveShort` with their proofs: done; to extend:
   `proposeNextRecipe` and the ids it gives.
7. `ModelTaste`: repairs as functions, idempotence and order.
8. `CoreRpc` and `Sections`: the answer a call takes for its own; tools registered
   and tools listed.
