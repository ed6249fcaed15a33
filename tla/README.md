# MGE XE distant land: TLA+ models and proofs

MGE XE draws distant land for Morrowind. Three programs share the work:

* `d3d8.dll` (`d3d8/cpp`), a 32-bit proxy loaded by the game: configuration,
  render passes, Direct3D resources, and the client of the host;
* `mgeHost64.exe` (`mgeHost64`), a 64-bit process the game starts: it keeps the
  meshes and their quadtrees, answers visibility queries over shared memory,
  and may regenerate the distant-land files before it serves them;
* `MGEXEgui.exe` (`MGEXEgui`), which edits the configuration and generates the
  files on request, with the same library (`distantland`).

This directory models the parts of it that are concurrent, can be interrupted,
or follow a protocol over several steps. Paths below are those of the
repository.

## 1. Inventory

| Component | State it keeps | Operations | Modelled |
|---|---|---|---|
| Output store: `distantland/crates/foundation/src/storage`, `commit.rs`, `output_index.rs` | artifacts, `generation_state.bin`, the writer lock, handles awaiting a sync | acquire, invalidate, write, barrier, publish, prune, open a snapshot | `OutputStore`, `CompleteOrAbsent` |
| Generation: `distantland/src/generation.rs`, `generation/*_stage.rs` | the commit plan, the inventory being assembled, two writer threads | carry, write inline or in a thread, join, finish, fail | publication tail in `OutputStore`, statics stage in `IncrementalStatics` |
| Unit fingerprints and database diff: `generation/units.rs`, `unit_fingerprint.rs`, `cache.rs` | the previous run's unit records | what a change of input dirties | `IncrementalStatics` |
| Job resolution and status: `generation/startup.rs`, `crates/job` | none | inspect, classify | `StartupGeneration` |
| Startup worker: `mgeHost64/src/startup_generation.rs`, `main.rs` | generation mutex, status, session snapshot | check, lock, re-check, generate, publish, fail | `StartupGeneration` |
| Host RPC: `ipc/client.cpp`, `mgeHost64/src/ipc/server.rs` | two events, one parameter block, `m_isRpcPending` | begin, wait, poll, dispatch, complete | by the commands that use it: `VisibleSets`, `UploadPump`, `DynamicVis`, `VecTable` |
| Shared vectors: `ipc/shared_vec.rs`, `ipc/view.cpp`, `vecbase.cpp`, `vecwrap.cpp` | size, windows, update and complete events, id table | push, set, sort, parallel read, clear; allocate, free | `VecTable`, `VecWindow` (implements `StreamedVec`), `VecLayout`, parallel reads in `VisibleSets` |
| Distant-land lifecycle: `distantinit.cpp`, `distantland.cpp`, `startupgen.cpp` | upload phases, cached world space, buffers, visibility groups | arm, pump, finish, abort, fail, release, frame boundaries | `UploadPump`, `DynamicVis`, frame boundaries in `VisibleSets` |
| Static residency: `distantstatics.cpp`, `mgeHost64/src/state/distant_land.rs` | state per resource, queues, byte ledger, I/O thread, planner | plan, queue, read, admit, commit, remove, release | `ResidencyPlanner`, `Residency`; commit protocol in `VisibleSets` |
| Quadtree, horizon gate and worker: `state/quadtree.rs`, `state/horizon` | trees, horizon table, builder thread, gate statistics | insert, collapse, query, rebuild, tick | `QuadTree`, `HorizonTable`, `HorizonBounds`, `HorizonGate`, `HorizonRuntime` |
| Texture atlas: `crates/statics/src/atlas` | pages, slots and aliases of the previous run | match, reuse, place, draw what is dirty | `AtlasPages` |
| Configuration document: `mge-config` | document, baseline, file revision | open, edit, save, reload | `ConfigDocument` |
| Geometry, formats, diagnostics, GUI widgets, shaders, MWSE adapters, input proxy, build tools | | | not modelled, see section 7 |

How they interact:

* A generator (the host's startup worker, or the GUI) is a *writer* of the
  output directory; a host that serves a session is a *reader* that holds the
  shared side of the writer lock while it maps files lazily.
* The game sends one RPC at a time: it fills a parameter block, sets an event,
  and sometimes waits later. Queries append to vectors in shared memory that
  the game reads, for unsorted queries while the host still appends.
* Merged static meshes are streamed: the game creates buffers, tells the host
  their pointers, and the host puts the pointers into the meshes it returns.
  Before the game may release a buffer the host must have acknowledged its
  removal and no visible set may name it.

What is hard about them: in-place writes under a marker that may survive a
crash, deferred syncs registered by several threads, threads outliving their
session on an error; parallel reads with coalescing events, vectors cleared
while a command may be under way, pointers that dangle after a late or
timed-out command; phases spread over many frames; results of workers that
arrive for an older epoch; loss of the host. The list with lines is in
`PROJECT.json` under "hazards", each with the properties that cover it.

What makes each component correct:

* *Output store*: readers see one complete tree or none; a readable state lists
  only bytes that are there and synced; a published tree is the product of one
  input; files of a newer version are left alone; sessions end.
* *RPC and visible sets*: one command at a time; a finished render drew what
  the host put in the set, all of it and nothing else; no pointer to a released
  buffer is drawn or kept by the host; every pass ends.
* *Startup worker*: one host generates at a time and none withdraws a tree that
  is current for its job; a tree that is pinned does not change; every game is
  told whether there is output.
* *Lifecycle*: the render path opens only over what this host was given; a
  failure leaves nothing behind; a drain gives the load path back.
* *Residency*: the ledgers equal the states, the host agrees with the client, a
  lowered cap is met, no result of an older epoch is used.
* *Shared vectors*: an id, a handle or a header has one owner; a vector behaves
  as a sequence, whatever windows, commits and slides it takes.
* *Horizon*: nothing is culled with a table of another field, parameter set or
  far-off eye, nor an object that rises above the horizon; a query finds in the
  tree what a look at every mesh would find; a resting eye is served in the end.
* *Atlas*: what a page on disk shows at a slot is the picture of every texture
  bound to it, however the slot was come by.
* *Incremental generation*: the way taken makes no difference to the output.
* *Configuration*: a save writes the settings, over no edit made unseen.

## 2. Modules

| Module | Contents |
|---|---|
| `CompleteOrAbsent` | what the store promises: one complete tree or none, published and withdrawn whole, pinned by readers |
| `OutputStore` | the store as the code implements it, its properties, the refinement mapping and the inductive invariant |
| `MCOutputStore` | five artifacts and two inputs for TLC |
| `VisibleSets` | the per-frame commands, the shared vectors, parallel reads, and the residency commits |
| `StartupGeneration` | hosts and configuration programs that inspect, lock, generate and serve one tree |
| `UploadPump` | the game's side: device resources, the pump's phases, the host's boot and death, the cached world space |
| `DynamicVis` | visibility groups that game data switches, sent to the host through one shared vector |
| `ResidencyPlanner`, `Residency` | the host's planner as operators on a record; catalog, ledger, I/O thread, eviction and the falling cap |
| `StreamedVec` | what a shared vector promises: a sequence appended to, and taken from in order |
| `VecWindow` | the storage behind it: windows, commits by both sides, sliding views; implements `StreamedVec` |
| `VecTable` | the host's table of vectors, the ids it recycles, handles and headers of the client |
| `VecLayout` | the arithmetic of a reservation, with wrapping products |
| `HorizonGate`, `HorizonRuntime` | the adaptive gate as operators on a record; horizon tables, their builder thread and the queries |
| `QuadTree` | the trees of the host, on an integer plane: what a query finds against a look at every mesh |
| `HorizonTable`, `HorizonBounds` | the march that makes a table of a height field, its pyramid and the tests that cull; the footprint of a box and its circle |
| `ConfigDocument` | the configuration file and the processes that hold it open |
| `IncrementalStatics` | owner-by-owner rebuilds of the static meshes against a rebuild from nothing |
| `AtlasPages` | the texture atlas over a sequence of generations |
| `OutputStore_proofs`, `VisibleSets_proofs`, `StartupGeneration_proofs`, `ConfigDocument_proofs`, `IncrementalStatics_proofs` | theorems about the module of that name, section 5 |
| `SharedVectors_proofs` | theorems about `VecTable`, `VecWindow` and `VecLayout` |
| `HostVisibility_proofs` | theorems about `DynamicVis` and `HorizonRuntime` |
| `GameLoading_proofs` | theorems about `UploadPump` and `Residency` |

Each `MC` module gives the sets and functions a `.cfg` cannot write. Every model follows the same conventions: a handler
is one action unless another process can act in the middle of it; where it can,
the action is split at exactly those points (a lock released, an event set, an
RPC sent); records group the fields of one C++ or Rust object; a constant
`Max...` bounds how often the environment may act and nothing else.

### OutputStore

State: `cache` is what a read of each artifact returns and `dirty` the files
with unsynced bytes; `state` and `stateDisk` are `generation_state.bin` as read
and as durable. The `WriterSession` with its generation is `owner`, `phase`
(the position in `generate_inner`'s tail), `base`, `input`, `inv`, `prog`,
`pending` (`PublicationWrites`) and `thr` (the two `JoinHandle`s). `orphans` are
writer threads whose session has gone, `reader` the snapshots.

| Action | Code |
|---|---|
| `Acquire`, `FinishNoop` | `WriterSession::acquire`; the no-op path of `generate_inner` |
| `BeginDirty`, `SyncInvalidation` | `begin_dirty`, `invalidate_in_place` (truncate, then sync) |
| `MainOpen`, `MainClose`, `EndInline` | `write_durable`: truncating create, body, sync or deferral; groups in program order |
| `Spawn`, `ThreadOpen`, `ThreadClose`, `ThreadFail`, `Join` | `publish_statics_bundle`, `publish_terrain_stage` and the two joins |
| `SyncPending`, `WriteState`, `SyncState`, `Prune`, `FinishPublish` | `finish_publish`, `validate_published` |
| `Abort`, `Kill`, `PowerLoss` | an error return, the end of the process, loss of unsynced bytes |
| `OrphanOpen`, `OrphanClose` (module `OutputStoreDetached`) | the body of a writer thread after its handle was dropped |
| `ReaderGate`, `ReaderPin`, `ReaderServe`, `ReaderLeave` | `open_output_snapshot`, dropping the snapshot |

Assumptions: a file's bytes are one value and digests are exact (BLAKE3);
carrying an entry over is allowed exactly when the new input yields the same
body, which is what the unit fingerprints are for; Routine validation is given
its worst case, all bodies of one length; syncing a file makes its directory
entry durable (NTFS metadata journal); release builds abort on a panic. Left
out: the free-space check, the byte format of the state, and `Full` validation,
which rejects more than Routine does.

### VisibleSets

State, by owner: the vectors (`slots`, `size`, the events `upd` and `cmp`, and
`pop`, which records how often each mesh was appended since the last clear);
the RPC block (`call`, `start`, `done`, and the shared list `commits`); the host
(`host` is the place in its loop, `job`, `old`, `plan`, `put` the locals of a
command, `shown` the buffers its resident meshes name, `space` the world space);
the render thread (`todo` is what is left of the current pass, `pending` is
`m_isRpcPending`, `res` the state of each streamed buffer, `at`, `reading`,
`next`, `seen` are the locals of `VisibleSet::Render`, `at_end` and `wait_read`).

A pass is a list of operations in program order, from `Scripts`. An operation
carries the number of following operations that its failure skips, which is how
the early returns of the C++ are written. Passes follow each other in any
order: which passes a frame has depends on the cell, the weather, the menu and
the settings, and every frame's order is one of those. `session` is what a run of
the game may meet: its passes, its time-outs, and whether the host may be lost.

| Definition | Code |
|---|---|
| `Begin`, `Refused`, `Wait`, `WaitFails`, `Found`, `Poll` | `WAIT_FOR_PREVIOUS_COMMAND`, `beginRpc`, `waitForCompletion`, `setWorldSpaceBlocking`, `pollRpcCompletion` |
| `TakeQuery`, `TakeSorted`, `TakeSort`, `TakeSpace`, `TakeOther`, `Complete` | `listen` and the command handlers |
| `TakeCommit`, `ApplyCommit`, `CommitsApplied` | `update_residency`, one `apply_residency_commit` a step |
| `Store`, `Publish`, `EndWrite` | `SharedVec::push` (element, size, event) and `end_write` |
| `WriteBack`, `WrittenBack` | writing a sorted result back |
| `Clear` | `VisibleSet::RemoveAll` |
| `DrawBegin`, `TakeUpdate`, `TakeComplete`, `ReadOn`, `DrawMesh`, `WaitRead`, `DrawEnd` | `VisibleSet::Render`, `at_end`, `wait_read`, `await_update` |
| `Unlist`, `List`, `PushCommit`, `Release`, `Confirm` | `tickResidencyEviction`, `tickResidencyAdmission`, `admitPreparedResource`, `commitResidency` |
| `HostDies` | the host process is lost (environment) |

Releasing a buffer turns every pointer to it, in a vector, in the host's sort
buffer or in its meshes, into `Dangling`; memory that was never written is
`Dangling` from the start. Which meshes a traversal finds, and how often, is
any choice: culling decides that, and no property depends on it. One admission
is made per tick; several in one tick are the same steps repeated. The commit
list is shared memory: the host reads its size, then entry after entry, while a
render thread that gave up waiting may be rewriting it, and what the list held
beyond its new end is still there. An entry is read and written whole. Land may
be drawn inside the shadow and reflection passes (`OptionalLand`). Left out:
windows being mapped and committed (`VecWindow` does), resources that
become unavailable, and the freeze after three failed removals, which only
stops passes.

### StartupGeneration

State: `store` is the tree as a value (the inputs it was generated from, or why
it is none) with the writer and readers that lock it, `hosts` the worker thread
of each host with what its game was told, and the GUI's runs. `config` is what a
load of the job gives now (the saved settings and the load order), `files` what
the plugins hold, and `job` what each run goes by: a host loads it once, when it
starts, and compares the tree with what that job reads (`Wanted`) in every check
and run of the start; the GUI saves the job it edited and generates with it.

| Definition | Code |
|---|---|
| `StartHost`, `CheckPins`, `CheckSeesNone`, `CheckEnds`, `CheckErrs` | `main.rs::run`, `ensure_distant_land_ready`, the status check under a shared lock |
| `Judge`, `HandleFailure`, `Concludes` | `handle_generation_failure`, dropping the mutex guard |
| `HostStep`, `Ask` | taking the mutex, checking again, generating, opening the snapshot; `query_output_status` |
| `GuiStep`, `User` | the generation dialog's worker thread, which takes no mutex; its window |

A wait for the lock may give up while somebody else holds it; the wait for the
mutex goes on, chunk by chunk, until the owner lets it go or an error ends it
(`MutexWaitErrs`). The bytes are `OutputStore`'s; here a generation replaces the tree in one step between taking
and giving back the lock.

### UploadPump and DynamicVis

State of `UploadPump`: `state`, `useDL`, `pump`, `gate`, `staging` and `cache`
are fields of `DistantLand`; `game` is what the engine knows (device, player,
who drains), `client` and `host` the two ends of the RPC.

| Definition | Code |
|---|---|
| `FirstPresent`, `InitOnLoad`, `Tick`, `RestartDrained`, `HookDrained` | who drives the pump: Present, the load hook, an in-world restart, the resolve hook |
| `HostWait`, `OutputWait`, `IpcSetup`, `Landscape`, statics and residency phases | the phases of `tickUploadPump`, resumable ones slice by slice |
| `AbortUploadPump`, `FailUpload`, `StopEverything`, `Release` | `abortUploadPump`, `failUpload`, `release` |
| `SetUseDistantLand`, `SelectDistantCell`, `OnResolveDuringInit`, `DeviceReleased` | the setter, the cached world space, the resolve hook, the end of the device |

The landscape phase sends nothing for a `terrain.bin` without meshes, nor for a
missing one if distant land was switched off meanwhile
(`distantterrain.cpp:719-740`, `965-969`). Then there is no vector and no answer
to collect (`CollectLandscape`, `distantinit.cpp:550-553`), and the render path
may open over a host without land.

`DynamicVis` splits the scan (`Scan` clears the vector; then, group by group, a flag
is stored, `Compare`, and counted, `Count`), `UpdateDynVis` and the queries that
follow it, because the host walks the shared vector between them: `TestSize` and
`UpdateDynVisOne` are the two halves of an iteration of `for_each`. Beyond its size
the vector's memory keeps what was there. A flag of four bytes is read and written whole.

### ResidencyPlanner and Residency

`ResidencyPlanner` is the host's side as functions of a planner record:
`PlanResidency`, `Sweep`, `SweepStep`, `Consider` and `Commit`. `Residency` adds
the client: `st`, `readmit`, the two byte counters, the queues, the I/O thread's
three places (`pending`, `working`, `ready`), the cap and its samples. `Frame`
queues the operations of a boundary in `todo`; `Doing` takes the next one. A
wait that gives up leaves `late`, which the host executes with what the shared
list holds then. The map is a line, so that distances and cells are integers.
What is recursive (a sweep, the requests of a plan, filtering a queue) is a
recursive function, and the bytes of a set of resources are the number of its
bytes counted one by one, so that the proofs can speak of both. One module proves
about `UploadPump` and `Residency`, so the names both would use carry a prefix in
`Residency` (`StreamInit`, `StreamSpec`).

### StreamedVec, VecWindow, VecTable, VecLayout

`VecWindow` has the writer's push split into check, commit, count and store
(`SharedVec::push`, `extend`), and the view's slide split into commit, load,
count and map (`VecView::slide_window`), for the other side runs in between.
Either side is the `writer` of a vector, and the other one reads what it finished
or, if `parallel`, while it still appends. The host reads the terrain's vector
that way: `reader` is its `start_read`, `wait_read` and single retry
(`shared_vec.rs:126-146`, `loading.rs:516-547`), with the two events, the size it
remembered, and the time-out; it expects the number of elements `terrain.bin` gives,
and reports an error if the writer ended early (`Abandons`: a buffer could not be
made). Such a vector is made for one batch. The client's waits on a vector
the host is filling are in `VisibleSets`; here the client walks what there is.
A slide that fails leaves the view without a buffer (`SlideFails`); the next
`push_back` into the window it names does not look (`view.cpp:156`), which ends in
a fault. `initial` windows are committed when the vector is made. A
window is a commit unit, and reservations hold a whole number of them; real
reservations are larger than asked for, which hides that a slide asks for one
window too many. `VecTable` has the requests of the client (`AllocVec`,
`FreeVec`), the host's table and free list, and the client's views and header
mappings; each step of an allocation may fail, and so may, by giving up its wait, the
request to free with which a failed one is undone (`unwind`). `VecLayout` is arithmetic on
requests over the state of `VecWindow`, without one of its own. One module
proves about `VecTable`,
`VecWindow` and `VecLayout`, so the names both would use carry a prefix in `VecTable`
(`TableInit`, `TableSpec`); those of `DynamicVis`, which shares a module of
proofs with `HorizonRuntime`, begin with `Vis`.

### HorizonGate and HorizonRuntime

`HorizonGate` translates the gate's methods to operators on a record, time being
counted since the last suspension. `HorizonRuntime` composes it with the
runtime: `Query` prepares (adopting, building, posting), `FinishFrame` and
`SetHorizonConfig` feed the gate, `Take` and `Publish` are the builder thread.
Generations and request ids only ever grow and are only compared with the
newest; they are flags "still newest" here.

### QuadTree, HorizonTable, HorizonBounds

Operators on values, checked against reference definitions over samples that
`MCHorizonRuntime` names. `QuadTree` inserts as `add_mesh` does (a leaf takes
`TargetLeafSize` meshes, then pushes them down, to `MaxDepth`), replaces a child
with one child by it, bounds each node, and queries precisely and coarsely; what
a query returns is compared with a look at every mesh. Distances
are in the maximum norm, so that smallest enclosing volumes are exact.
`HorizonTable` marches over an integer height field along four directions, with
the pyramid of maxima that lets it skip, and compares slopes as fractions;
`HorizonBounds` computes hulls and circles of projected boxes.

### ConfigDocument

`file` is what is on disk, `held` each process's document, baseline and
revision, `job` the save under way. A save is `Begin` (check, merge) and
`Replace` or `ReplaceFails`; others may act in between. A user edits
the file by hand (`Edit`). The values are numbers, and two keys stand for the eight
pairs that `normalize_distant_land` relates: `Normal` is what replacing all settings
makes of them, `Repaired` what the loop of `parse_bytes` makes of a document (drop
bad values, then the one that contradicts, or put the normalised one in its place).
The game stages values by their paths, each checked within its own bounds only.
The copies written by export are left out.

### IncrementalStatics

A run is one action, for nothing else touches the output while its writer
session lasts. It computes what a rebuild from nothing would give
(`Units`, `Groups`, `Referenced`, `Surface`), and what the code does: match the
unit records, decide between carrying, rebuilding the dirty owners from the
shards and rebuilding everything, and write. A merge group is known by its spot;
its number in the record key is the rank of the spot among those that hold a
group (`Ordinal`). Between runs meshes, atlas
bindings, references and land change, a shard's bytes rot or the database goes.
Fingerprints are exact, so each is the tuple of what it digests. A mesh has a size
before and one after simplification, either of which may be the larger; `last.stale`
records, as history, the cells whose groups a run may have left out of date.

### AtlasPages

A family of textures over a sequence of generations, as functions: aliases of
equal bytes and of equal pixels, the matching with the recorded slots, the free
rectangles a page has left, placement, and the pages found dirty; the record a
generation leaves is the input of the next. `Drawn` is what the pages on disk
then show. The packer that fills a new page is external: any arrangement that
does not overlap.

## 3. Runs

One run per system; its `.cfg` names the properties. What used to be several
questions of one model (with and without faults, safety and liveness) is one run
whose initial states or history choose between them, so that every question is
asked of one state space.

| Run | Module, config | Question | Result |
|---|---|---|---|
| `store` | `MCOutputStore`, `OutputStore.cfg` | Is the tree complete or absent, for readers and on the medium, through kills, failures and power losses, and does every session give the lock back? | holds |
| `store_detached` | `MCOutputStoreDetached`, `OutputStoreDetached.cfg` | Does durable invalidation precede every canonical write? | no: section 4 |
| `visible_sets` | `MCVisibleSets`, `VisibleSets.cfg` | In every order of passes, with waits that give up and a host that may be lost: are whole sets drawn, is nothing released named, do passes end? | holds |
| `startup` | `MCStartupGeneration`, `StartupGeneration.cfg` | Two hosts and a GUI on one installation whose job or files change once: does anybody lose a pinned tree, do two hosts generate at a time, or one withdraw what is current for its job, does everybody learn the outcome? | holds |
| `upload` | `MCUploadPump`, `UploadPump.cfg` | Restarts, toggles, deaths and time-outs at any moment: is what is rendered loaded and what failed gone, and does every pump and every drain end? | holds |
| `residency` | `MCResidency`, `Residency.cfg` | Do ledgers, queues, I/O and the host's view stay in step, and does streaming settle? | holds |
| `dynamic_vis` | `MCDynamicVis`, `DynamicVis.cfg` | Does every visibility update reach the meshes, in order? | holds |
| `vec_table` | `MCVecTable`, `VecTable.cfg` | Has every id, handle and header one owner, whatever step of an allocation fails? | holds |
| `vec_window` | `MCVecWindow`, `VecWindow.cfg` | Is a vector a plain sequence, read afterwards or while it grows, through windows, commits, slides, time-outs and the end of its reservation; do both sides compute the same layout? | holds |
| `horizon_runtime` | `MCHorizonRuntime`, `HorizonRuntime.cfg` | Is a table that does not fit ever used, is a build lost, does the culling come back? Over samples: do tree, table and footprints give what their definitions say? | holds |
| `config_document` | `MCConfigDocument`, `ConfigDocument.cfg` | Do saves of two processes write their settings, over nothing they have not seen? | holds |
| `incremental_statics` | `MCIncrementalStatics`, `IncrementalStatics.cfg` | Over three runs with changes between them: is the output that of a rebuild? Over sequences of texture sets: do the atlas pages show what is bound to them? | holds |

### Properties

`OutputStore`: `StateIsBacked` (a readable or durable state lists only synced,
correct bytes), `ServedTreeIntact`, `CarriedIntact`, `OneInput` (a state is the
product of one input), `FutureTreeUntouched`, `NoWriteUnderPin`,
`ImplementsPromise` (refinement of `CompleteOrAbsent`), `SessionEnds`.

The other modules name each fact and check conjunctions of them:

| Checked | Its parts |
|---|---|
| `VisibleSets`: `NothingReleasedIsNamed` | `NothingDangling` (no finished set names a released buffer), `AcknowledgedPointers` (nor does the host keep one) |
| `ClearsAreQuiet` | `QuietClear` (no vector the host may be writing is cleared), `EvictionIsQuiet` (buffers go only when both persistent vectors are empty and no command is under way) |
| `DrawsWholeSet`, `PassEnds` | |
| `StartupGeneration`: `RunsKeepApart` | `GameHasTree` (a game told Ready has a complete pinned tree), `MutexSerializes`, `WindowFollowsRun` |
| `TreeChangesWhenFree` | `PinnedTreeStays`, `NothingRegenerated` |
| `EveryoneIsTold` | `GameIsTold`, `RunReports` |
| `UploadPump`: `UploadSound` | `RenderedIsLoaded`, `StagingHeld` (the vectors the host reads are not freed under it), `ReadsItsOwnAnswer` (the shared parameter block is read for the command that wrote it), `RestartStaysDark`, `FailureLeavesNothing`, `CachedHitIsLive` |
| `UploadEnds` | `PumpEnds`, `DrainEnds` |
| `DynamicVis`: `SidesFollow` | `VisTypeOK`, `HostFollows`, `ReadsWhatWasWritten` (whatever is cleared under its walk) |
| `UpdatesInOrder` | `WalkUndisturbed`, `NeverStale` |
| `EventuallyShown` | |
| `Residency`: `InStep` | `LedgersAddUp`, `HostAgrees`, `QueuesMatch` |
| `GrowsWithinCap` | |
| `Settles` | `TransitEnds`, `DebtIsRepaid`, `ComesToRest` |
| `VecTable`: `IdsSound` | `FreeListSound`, `NoIdLost`, `RecycledWhenReleased` |
| `SharesSound` | `HandlesFollowTable`, `HeaderHeld` |
| `FreedUnviewed` | |
| `VecWindow`: `WindowsSound` | `NoFault` (no missing memory is touched), `CommittedIsReal`, both under `OneCommits` |
| `VecLayout`: `LayoutAgrees` | `LayoutSound` (`NoElementSpans`, `ReservationHolds`, `SidesAgree`), `HeldApart` |
| `ImplementsStream`, `BatchPasses` | the refinement of `StreamedVec`; a batch comes to an end, and unless a wait timed out its reader has all that was appended and fails exactly if that is less than it expected |
| `MCHorizonRuntime`: `CullingSound` | `TablesFit` (`UsedTableFits`, `PendingIsUnderWay`), `TreesSound`, `TablesSound`, `FootprintsSound` |
| `NeverFarther` | an adoption never moves the table away from the eye |
| `CullingComesBack` | `WarmingEnds`, `ProbesAgain`, `RestingEyeIsServed` (these with any builder), `PromptCullingReturns` (with one that answers within the frame) |
| `ConfigDocument`: `HeldIsInStep` | `TypeOK`, `BaselineIsOnDisk` |
| `SavedIsSettings` | |
| `NothingOverwritten` | `EditsSurvive`, `TablesSurvive`, `InvalidIsKept`, `CreationKeepsFile` |
| `IncrementalStatics`: `WayMakesNoDifference` | `IncrementalIsRebuild`, `PlacementsAreRebuilt`, `RecordedBoundsAreFresh` |
| `ShardsWrittenAsNeeded` | `MetDamageIsHealed`, `WritesOnlyWhatChanged` |
| `MCIncrementalStatics`: `AtlasKeepsPictures` | every bound texture shows its picture, and no two slots of a page overlap |

Every part, and each type invariant, has a mutant of the code's model that
breaks it; they are the operators marked "Mutant" and listed in `PROJECT.json`.

Several parts hold only under a condition on what happened before. It is part
of the formula, so that the run explores what happens without it too:
`Orderly` and `Unraced` (`ConfigDocument`: no write failed; nobody acted between
another's check and its replacement), `Undisturbed` (`DynamicVis`), `Failed`
(`VecTable`: an initial capacity that could not be reserved, a first window that
could not be mapped), `Ample` and `OneCommits` (`VecWindow`: a window beyond those of
the elements; commits by one side at a time), the time-outs and the life of the
host in `PassEnds`. Section 4 says what goes wrong outside these conditions.

### Bounds, and why they are enough

* `store`: the version marker, one small file and one file of each deferred
  class; two inputs that change one of them, keep one and drop one; one writer
  and one reader process at a time. The lock admits one writer, so a second
  writer is a later session, of which a run has any number; a second reader
  only adds a holder of the shared lock. The whole state space is explored.
  `MaxDetached = 0`: an error ends the process, or comes when no writer thread
  runs. `store_detached` has 1: one thread left running, the next session,
  another.
* `visible_sets`: one streamed buffer, `Cap = 2` elements, so that a vector can
  be empty, hold one or be full, and can be shorter than its previous
  population, the case a cursor that runs too far meets. `Window = 2`: the
  second element comes without an update event. The number of passes is not
  bounded. Three sessions (`MCSessions`): the passes over the statics, those over
  land and grass, and the streaming passes with two waits that give up (a removal
  and the plan that follows it in the same tick) and a host that may die. There
  the render thread may really wait for ever, so deadlock is not checked.
* `startup`: two hosts, for whom the mutex is, and one GUI, which ignores it;
  each host starts once, and the job or the files change once, which is what makes
  a check stale and the job of a host another than its neighbour's; two jobs and two
  states of the files, each pair with inputs of its own; the tree is stale, or of a newer version; it comes to be absent,
  partial and fresh in the run.
* `upload`: two restarts, so that a restart can meet the remains of another;
  two world spaces, one time-out, two deaths of the host. Resumable phases take
  up to `Slices` ticks. Restarts, time-outs and deaths are all that is bounded.
* `dynamic_vis`: two groups, so that one flag's place in the vector differs
  from its group, and four changes of game data, cells or saves.
* `residency`: three resources of different sizes under a cap that holds two of
  them, or all (`FirstCaps`: the session streams, or is drained whole and the cap
  falls later), near and far from two places; one move or load, two waits that give up (a late
  answer may meet a late answer) and one fault, any number of frames. A second
  move is a second epoch: the first is already different from the initial one.
  The session may end in `failed`.
* `vec_table`: up to four vectors, two views of each, two failures: an id is
  recycled, recycled again, and displaced; in the end all may have been freed.
* `vec_window`: two elements a window and up to five a batch: an interior, an
  exact and a partial last window; two batches, because what the first one
  committed and where its walk ended matter to the second; four windows, which are
  the three of the elements and the one a sliding view asks for in excess, or two,
  which are too few; one window committed at creation or all; both writers, and
  readers of either kind. Elements are looked at as they are appended (`HeldApart`). For the layout the requests the program makes, and
  a grid around the rounding's boundaries; the arithmetic is the code's, on 32
  bits of granules.
* `horizon_runtime`: eyes on a line, one outside the field; the gate's thresholds
  are scaled down, each window small enough to fill and large enough not to fill
  at once. One load or configuration change; the thread may fail to start. Tables
  are fresh, stale, or of an eye too far off. Trees of up to eight placed statics
  of three size classes under views that miss, touch and hold them; height fields
  of 5 by 2 samples (a ridge, a valley, an edge) and three eyes; boxes flat,
  upright and turned.
* `config_document`: two related keys of three values, the default in the middle;
  `Choices` are settings that contradict each other so that the default settles it,
  so that it does not, and not at all. One edit by hand (to a file with a
  value that does not decode, one that the default contradicts and a table of the
  user's, to an invalid one, or to none) and one write that fails.
* `incremental_statics`: four meshes, five looks (one grows when simplified), two
  textures, two cells with two spots,
  three runs and two changes between them. Three shards: a group's shard and its
  members' differ. Runs and changes end, so deadlock is not checked. Atlases: up to
  three textures of four sources, two of which share their pixels, on pages of
  side 8 with an extrusion and a border of 1, which hold up to four small pictures
  or one large; two generations over all 104 sets of textures and three over six of
  them, where a slot is freed, reused and freed again.

### Fairness

`OutputStore!FairSpec`: weak fairness of `Advance`, a step of the session's own
threads: they are runnable threads of a live process and the file operations
they wait for return. Nothing forces a session to start, an error, a kill, a
power loss or a reader to come or go.

`VisibleSets!FairSpec`: weak fairness of the host's steps and of the steps of a
pass that has begun, for the same reason. Starting a pass, giving up on a wait
and losing the host are not fair.

`StartupGeneration!FairSpec`: weak fairness of each worker thread and of each
game's polling. An error that ends the wait for the mutex is under none: that the
wait ends follows from the owner's going on, its run or its process. `UploadPump!FairSpec`: of the ticks Present or a drain causes, of
the host's boot, of generation and of its answers (a host that dies ends them).
`DynamicVis`: the host serves, frames are rendered. `Residency!StreamFairSpec`: frames,
the I/O thread, and the host; strong fairness of `BootTimeout` only says that
time passes while the pump waits for the first resources. `VecWindow`: both
sides go on with a batch they have begun; that a wait times out, or the writer gives a
batch up, is under none, so `BatchPasses` owes its end to the events alone. `HorizonRuntime!LiveSpec`: frames are
rendered and time passes; the builder thread is under no fairness. Game data, players, users and
faults are never fair.

## 4. Where the code and its documents part

**Finding: a writer thread can outlive its session.** An error returned between
spawning a writer thread and joining it drops the `JoinHandle`, which
detaches the thread, and drops the `WriterSession` with the exclusive lock.
In a process that survives the error (the GUI) the thread keeps writing
artifacts in place. `docs/architecture/storage-foundation.md:167` of
`distantland` says that durable invalidation must precede canonical
mutation; `store_detached` shows a later generation publishing a state that
lists the artifact, and the thread then truncating it.

The runs above hold under conditions that the models name. Outside them TLC
finds these behaviours; each can be reproduced by the change in brackets.

* *Losing the host can hang the game.* `docs/architecture/ipc.md:38` says that
  distant land then fails gracefully. A land or shadow query whose result is
  ignored is followed by a parallel read, whose wait has no handle of the host
  process and repeats on a time-out (check `FailsGracefully`).
* *A fallback does not disable distant land.* `distantland-data.md:194`: a
  failed generation disables distant land for the session. The worker clears
  its own flag and then serves the old tree, if that is complete
  (`StartupGeneration!OpenSnapshot` does not ask how the run before it ended).
* *Hosts of different jobs undo each other's work.* A host goes by the job it
  loaded when it started: if the GUI changes the job and generates while the host
  waits, the host then finds that tree stale for its own job and withdraws it
  (check `NothingRegenerated` with `config` for the job of `h`).
* *A parked sweep can leave something out.* The sweep parks after a pass that
  offered nothing, also when only a read of the previous epoch held the bytes;
  that read is thrown away, and nothing is offered until the player crosses a
  cell (check `NothingLeftOut`).
* *A restart without a player position drains for ever*: the fallback of
  `tickUploadPump` tests a flag that only the end of the drain sets
  (`PlacedInWorld = FALSE`).
* *A time-out is cached as 'no world space'* until the player changes world
  space or the host restarts (check `CachedMissIsReal`).
* *A visibility update can be lost*, or one applied that is out of date, across a frame
  that asks the host nothing, or after a wait that gave up: the flag vector is cleared
  and refilled without waiting for an update still in flight (`Undisturbed` dropped).
* *A failed reservation queues an id twice*, and a later allocation displaces a
  vector in use (`Failed("reserve")` dropped). *A header can be unmapped under
  its view*, when the first window cannot be mapped (`Failed("init")` dropped).
* *Both sides may count one commit* of a set that is walked while the host fills it.
  The land and shadow sets are, and their creation commits one window
  (`distantinit.cpp:491-513`, `visibleset.cpp:10-12`): `committedBytes` may come to
  name a window nobody committed (check `CommittedIsReal` without `OneCommits`). With
  more elements than in the run the host would then store in that window.
* *An element can be stored through a null buffer* where a reservation is too
  small: after a slide that failed, `slide_window` finds its window current and
  succeeds (`view.cpp:156`; check `~fault` without `Ample`).
* *Terrain may fail to load though its writer goes on*, when one wait of the host
  times out (`loading.rs:521-534`; check `BatchPasses` without `reader.late`).
* *A slow builder can keep the culling away*: one that never answers within a
  warm-up leaves the gate between warming and suspended, without a table
  (`PromptBuilder` dropped from `PromptCullingReturns`).
* *Without a builder thread the gated runtime builds no table*, although `spawn`
  promises synchronous builds (check `FallsBackToSync`).
* *A group can be carried out of date, or planned and never built*, in a cell with
  a reference that merges only by its size after simplification:
  `unit_fingerprint.rs:258-264` enumerates merge units by the size before it,
  `merge.rs:338-340` plans by the one after it, so nothing dirties the cell
  (`WayMakesNoDifference` without `Current`).
* *Values of the game that contradict each other do not load as saved*: `set_number`
  checks one value at a time, a load repairs the pair (`SavedIsSettings` excepts
  the later value of such a pair).
* *A failed save leaves its changes in the document*: saving the reverted
  settings writes them (`Orderly` without faults). *Check and replacement of the
  configuration are two steps*: a change in between is overwritten (`Unraced`
  dropped).

## 5. What is proved

Each module of proofs extends the modules it is about, assumes nothing but the named assumptions on the
constants of those, and proves its theorems for every value of them: any number of
processes, buffers, keys, groups, vectors, and any bound on edits, time-outs and
faults. An inductive invariant (`IInv`, `SInv`, `TableInv`, `VisInv`, `StreamInv`) is shown to hold initially and to
be kept by every action, one lemma an action (`...Keeps`), one step for each
conjunct the action can disturb; the checked properties follow from it. TLC checked
every inductive invariant on the bounds of section 3 before it was proved.

| Module | Theorems | Property of a run |
|---|---|---|
| `OutputStore_proofs` | `InductiveInvariant`, `TypeCorrect`, `StatesAreBacked`, `ServedTreesStayIntact`, `CarriedEntriesHold`, `TreesAreOfOneInput`, `NewerTreesAreUntouched`, `PinnedTreesAreNotWritten`, `StoreImplementsPromise` | all of `store` but `SessionEnds` |
| `VisibleSets_proofs` | `Invariance`, `ReleasedIsNeverNamed`, `EvictionsAreQuiet`, `PatientInvariance`, `DrawsAreWhole`, `ClearsStayQuiet` | all of `visible_sets` but `PassEnds` |
| `StartupGeneration_proofs` | `Invariance`, `RunsAreKeptApart`, `TreeOnlyChangesWhenFree` | `RunsKeepApart`, `TreeChangesWhenFree` |
| `GameLoading_proofs`, of `UploadPump` | `Invariance`, `UploadStaysSound` | `UploadSound` |
| of `Residency` | `StreamInvariance`, `GameStaysInStep`, `CapIsNotOutgrown` | `InStep`, `GrowsWithinCap` |
| `HostVisibility_proofs`, of `DynamicVis` | `VisInvariance`, `HostFollowsClient`, `UpdatesComeInOrder` | `SidesFollow`, `UpdatesInOrder` |
| of `HorizonRuntime` | `Invariance`, `TablesStayFit`, `TablesComeNearer` | the runtime's part of `CullingSound`, `NeverFarther` |
| `SharedVectors_proofs`, of `VecTable` | `TableInvariance`, `IdsStaySound`, `SharesStaySound`, `FreedVectorsAreUnviewed` | `IdsSound`, `SharesSound`, `FreedUnviewed` |
| of `VecWindow` | `Invariance`, `SequenceImplemented`, `WindowsStaySound` | `ImplementsStream`, `WindowsSound` |
| of `VecLayout` | `ElementsStayApart`, `ElementsStayInWindows`, `ElementsLieInside`, `RoomyLayouts`, `ProgramLayouts` | `LayoutAgrees` |
| `ConfigDocument_proofs` | `Invariance`, `HoldsInStep`, `SavesLoadAsSaved`, `NothingIsOverwritten` | `HeldIsInStep`, `SavedIsSettings`, `NothingOverwritten` |
| `IncrementalStatics_proofs` | `Invariance`, `WaysAgree`, `WritesAsNeeded` | `WayMakesNoDifference`, `ShardsWrittenAsNeeded` |

Some theorems have a hypothesis besides the assumptions. Those of
`OutputStore_proofs` have `MaxDetached = 0` (no
session ends in an error while a writer thread of it runs; the finding is the
counterexample). Three are about numbers: `RoomyLayouts` and `ElementsLieInside` about reservations
that the 32 bits of their size can hold, `ProgramLayouts` about the requests the
program makes. `WindowsStaySound` has none, but what it states speaks of memory
only where one side commits at a time (`OneCommits`).

### OutputStore

None of the invariants is inductive: that a state is backed when
it is published depends on what every step since the invalidation has done.
`IInv` adds

* `Withdrawn`: from the truncation on there is no readable state, and from its
  sync on no durable one, until the barrier is over. Hence a write of an
  artifact cannot contradict a state, whatever power loss does to it;
* `Tracked(f)`: what the progress of each file says about its bytes, its
  inventory entry, and whether its handle awaits the barrier. At the barrier
  `pending` empties, so every written file is synced;
* `Published`: at the write of the state, the inventory is `Body[input]` whole;
* `LockExcludes`: a session and a pinned reader exclude each other, which with
  `ServedTreeIntact` gives the reader's side;
* `Foreign`: a tree of a newer version is never under a session, and has
  neither dirty bytes nor a state;
* control facts (`BaseIsState`, `ThreadsInPhase`, `Undecided`, `Agreed`).

The refinement follows from
`Abstraction`: under `IInv` the bytes of the published tree *are* the listed
bodies, so `BeginDirty` withdraws (or stutters), `WriteState` publishes, and
everything else stutters.

### VisibleSets

That a released buffer is named nowhere is a fact about three places at once:
vectors (`Contents`: up to its size a vector holds only what exists, and what
the host keeps between two steps of a command is as live), the commit list
(`Admits`: the entries the host may still apply, those it counted before the
client began to rewrite the list included, admit only what exists), and the
host's meshes (`shown`). A release keeps it because of the way that leads there.
`Removing` says, for every place an eviction can have reached, what holds there:
after the poll no command is under way; after the clears both persistent vectors
are empty; with the list pushed, every entry of it is a removal of a buffer that
is leaving; acknowledged, no mesh names one. `Scripted` is what makes this
inductive: in what is left of a pass an `unlist`, `remove` or `release` always
has its predecessors in front of it (`Linked`), and no early return jumps into
the middle of an eviction (`Jumps`); each is shown once for every script of
`Scripts` and kept by taking tails. Nothing here needs the waits to succeed or
the host to live.

That a render draws the whole set, and that no vector is cleared under its writer,
does need it: after a wait that gave up, a late command fills a vector for a pass
that is over. `SInv` is therefore a second invariant, on top of the first.

* `Ordered` says of what is left of a pass, in any state, what its commands are
  followed by: a sort or a sorted query by its wait, a query of the statics by
  another or by the sort, any other query by the parallel read of its vector with
  nothing in between that touches that vector and nothing but clears, queries and
  parallel reads of others. `ScriptsInTurn` shows it once for every script of every
  pass; tails (`TailRest`) and what an early return leaves (`CutOrdered`) keep it.
* `JobIsCall`: what the host fills is the vector of the last command sent.
* While `Calm` (the host lives, no wait gave up): `Attends`, the command under way,
  taken up or not, has its wait or its read in front of the render thread, and that
  read has not seen a completion; `Completions`, a completion event that is set has
  its reader ahead, so none is left over from a query of an earlier pass to end a
  later read; `Cursor`, what is drawn is what the vector holds up to the cursor,
  and a wait that ended while reading found more; `Tallied`, the tally of a
  vector is the count of its elements, or of the sorted result while that is
  written back.

When a read ends, `Cursor` says that the completion was taken, so by `Attends` the
host has finished, and the cursor is at the end of what `Tallied` counts. A clear
at the head of a pass leaves no vector of a command under way but one whose read
is still ahead, with no clear before it: not the cleared one (`NotWritten`).

### StartupGeneration

`Ties` fixes each lock to the places of the code that hold it: `WriterAtWork` (the
writer lock is held by exactly the actor between taking and dropping it),
`MutexOwned`, `ReadersPin` (the shared side is held by exactly the hosts that
inspect or serve), and the outcome to what it says of the tree
(`OutcomeSettled`). Then a step that replaces the tree is a step of the writer,
and no reader is there; and `JudgesTree` (the state a run found still is the tree
when it begins to write, for it holds the lock) gives that no host withdraws what
is current for the job it loaded.

### UploadPump

Together with whether terrain was sent, the pump's phase determines everything else:
one conjunct for each stretch of phases says which vectors the host holds, what is
staged, and which command was the last (`Preparing`, `LandscapeSent`, `StaticsSent`, `AllCollected`). That the
answer read is the answer to the command meant, and that no staged vector is
freed under the host, follow from the last command being known. Every way out
(abort, failure, restart, death of the host) leaves `Nothing`, the state in which
the next pump starts.

### Residency

`InStep` is nearly inductive, but for three things it does not say, which
`StreamInv` adds:

* `Harmless`: the host may come to a late command at any time, with whatever the
  shared list holds by then. Whatever it names resident still has buffers, what
  it names unloaded the game does not take for resident, and what it names
  unavailable is. An operation that would make the list false fills it anew
  (`SubmitKeeps`); the requests of a plan make no list false.
* `Plans` and the requests: a sweep leaves the host's two sets alone, and asks to
  drop only what the host takes for resident (`Asks`, by induction over the
  steps of a sweep); by `HostAgrees` the game holds the buffers of that. Hence
  the branch of the code that takes an `IoQueued` resource back, and would leave
  its request with the I/O thread, is never entered.
* `Draining`: while the whole set is drained, no resource is in transit, and all
  of it fits; that is why the drain may reserve without a look at the cap.

`Matched` states the rest for any catalog, not only the one of a state: `Sums`
for the ledgers, `Reads` for the three stages of a read, `Queued` for a queue,
each with no key twice (`Once`). One lemma each says what a change of one
resource's state does to them (`SumsShift`, `ReadsShift`, `QueuedShift`), and
operations on many resources at once, a new epoch (`CancelKeeps`) and a batch of
removals (`RemovingMatches`, `RemovingSums`), have their own. That a sum changes
by one summand is the cardinality of a disjoint union (`BytesAdd`, `BytesDrop`);
the subtractions of the code saturate, and `MinusIs` is used only where they do
not. What a recursive function gives is shown by the least index at which it
would fail (`StepByStep`), as the library's rule takes an operator.
`CapIsNotOutgrown` is shown with the invariant, action by action (`Grows`): only
a grant and the drain reserve, and a lowered cap reserves nothing.

### DynamicVis

`FlagsAsEnabled` and `OneUpdate`: the flags in the shared vector, published or about
to be, are the states the client remembers, for the scan has passed their groups;
and nobody scans while a command is over them. `Awaited`: as long as nothing was
disturbed, what the two sides differ on has a flag the host has not reached. `Reads`
is the part that needs no such condition: memory once written stays written.

### VecTable, VecWindow and VecLayout

`VecTable`: the client has one command in flight, and all it does not know of the
host's table is the answer to that. `AnswerSound` and `KnownSound` say what an
answer, and a request to free, may name; `Counted` that the count in a header is
that of the views; the rest are the checked properties.

`VecWindow`: the reader's cursor is one ahead of its view while it walks, and
`Aimed` names the window a view stands in or is sliding to, so that "the element at
the cursor" means the same before, in the middle of, and after a slide
(`Walking`, `Appending`). From it every store appends to the abstract sequence
and every take removes its head; all other steps stutter, those of the host's
waits (`ReaderMoves`) and of a writer that ends (`WriterEnds`) among them. The
refinement holds whoever writes, commits and waits: a touch of memory that is not
there ends the process, and what was taken before is still a prefix. That there is
no such touch is `Sound`, an invariant under `OneCommits`: either one side at a time
counts the committed windows, or none does, for all that may be asked for were
committed at the vector's creation (`Plenty`).

`VecLayout`: a window is whole granules (`WindowIs`), a maximum whole windows
(`LengthIs`), and an offset divided by the bytes of a window gives what its index
gives divided by the elements of one (`ElementIs`); that elements stay apart and in
one window follows for every request whose window fits in 32 bits, and `SInv`
carries that to whatever a vector comes to hold (`LayoutIsKept`). What the
numbers of a request decide is only whether the wrapped product of elements and
window bytes holds the windows (`ReservationHolds`). It does where nothing wraps
and two elements or more share a granule (`RoomyLayouts`): there are then more elements
than windows, so the one that a sliding view asks for in excess is there too. It
also does for the requests of the program, five of which wrap (`ProgramLayouts`):
they multiply by elements where windows are meant, and what the wrap leaves is
still enough. The run adds counts around the boundaries of the rounding; a
request that lies outside all of these is not known to be served.

### ConfigDocument

A document is compared with the content its owner last read or wrote
(`known`), never with the file: `BaselineKept` says that the document departs from
its baseline nowhere, which is what `MergedLoads` needs for a merge to write the
settings. `RepairedIs` says what a load makes of them: themselves if they do not
contradict each other, as those of the GUI never do (`GuiConsistent`), and
otherwise all but the later of the two. `CheckHolds` ties the two together for the time of a save: unless
somebody acted in between, the file is what it was at the check. `TablesKept` is
the same argument for tables that are not the process's own.

### HorizonRuntime

That the cached table fits is not inductive: a build posted long ago may be adopted
at any later query. `InOrder` follows the builds through the three places one can
be in, the mailbox, the thread and the result slot: each is for the field and the
parameters in force unless its generation is an old one (`Fits`), and a build is
the newest only if none was posted after it. An adoption takes nothing of an old
generation, so the table it installs is made from what is in force; the distance
test of the adoption, against the wider cap while the gate is warming, gives the
rest. A pending build stays under way (`PendingIsUnderWay`) because only the newest
one counts as pending and every place hands its build on. The gate is typed field by
field (`Gates`), and each of its methods is a lemma: it keeps the ranges of its
counters, and says which mode it leaves. `NeverFarther` follows action by action,
for only a query replaces one table by another.

### IncrementalStatics

`IInv` says that the database, the shards and the placements on the disk are those
of a rebuild of the input the last run had, but for the groups of `last.stale`,
whatever has been lost since (`Agree`, `PlacedRight`). That is
inductive only if each of the four ways leaves a rebuild of *its* input:

* *Carried*: equal domain digests mean the same meshes, bindings and references,
  and nothing else of an input enters a rebuild where merge units cover the groups
  (`BundleIsRebuilt`, `BundleAgrees`).
* *Owner-partial*: the bounds restored for a mesh that was not measured again are
  those simplification would give it, for neither its mesh nor its budget changed
  (`RestoredSizes`). A covered cell none of whose owners is dirty has the candidates
  it had (`CandidatesShrink`, `SameCell`), so its groups have the numbers and members they had
  (`SameGroups`), and a clean owner has the record a rebuild gives it
  (`CleanRecord`). What is assembled from such records and those built anew is a
  rebuild (`AssemblyIsRebuilt`, `SplicedAgrees`).
* *Fallback and full*: a rebuild from the bounds just measured, which leaves no
  cell out of date (`RebuildKeeps`).

`Groups` is a set of spots so that the number of a group is a cardinality and no
recursion stands in the way. `ShardsWrittenAsNeeded` follows from what `Commit`
compares with: the recorded digests, which by `IInv` are those of the shards on the
disk.

## 6. Only model-checked

* *Liveness*: `SessionEnds`, `PassEnds`, `EveryoneIsTold`, `UploadEnds`,
  `EventuallyShown`, `BatchPasses`, `Settles`, `CullingComesBack`. Fairness and
  `ENABLED` are beyond the proof system.
* *Results of recursive functions*: `CullingSound` but for `TablesFit` (trees,
  pyramids, hulls), `AtlasKeepsPictures` (packing, matching) are
  checked over the samples of section 3.

## 7. Not modelled

Floating-point geometry, mesh optimisation and image
encoding are data, not control, and are covered by the repository's unit tests
and golden files. Parsers and serialisers and diagnostics keep no concurrent
state. Direct3D state, shaders, GUI widgets, script adapters, the input proxy
and packaging are adapters to systems outside the repository.

Within modelled components: the store's free-space check and `Full` validation;
the exported copies of the configuration, and the macros and triggers in it; the bootstrap of
the host's named handles; `VecView`'s unused operations (`pop_back`, `--`,
`end()`); progress reporting; rounding, biases and tolerances of the horizon and
the quadtree; of the atlas, the arrangement the packer finds for a new page
(external), pages of several sizes and trimming; the usage files that say which
references become distant, and their overrides.

## 8. Plan

1. More modules: the override and usage rules of the statics, the job file, the
   sizing of textures, the sculpting of terrain, the plugin list of the GUI, and
   the records of the generation database, as functions checked over bounded
   inputs.
