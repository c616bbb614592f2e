# Verification of turas

turas is a C++17 game engine (`src/turas`) with an editor (`src/turas-editor`) and
a test program (`src/turas-tests`). This directory holds TLA+ modules that model
its core logic, the TLC configurations that check them, and TLAPS proofs. Paths
below are relative to the repository; `src/turas/src/Assets/AssetManager.cpp` is
written `AssetManager.cpp`, and so on, where the name is unique.

## 1. Inventory

| Component | State | Operations | Talks to |
|---|---|---|---|
| **Asset manager** `Assets/AssetManager.{h,cpp}`, `Assets/Asset.h` | queue of loads, futures of loader threads, assets with GPU callbacks left, pending unloads, loaded assets | `LoadAsset`, `UnloadAsset`, `GetAsset`, `GetAssetLoadProgress`, `OnUpdate`, the waits, `Shutdown` | loader threads (futures); GPU (callbacks); called by engine, scenes, mesh system, editor |
| **Model import** `ProcessNode`, `ProcessMesh`, `LoadModel` in `AssetManager.cpp` | the model under construction, the list of new textures | walk of the node tree, one entry per mesh | runs on a loader thread; result goes to the asset manager |
| **Engine and scenes** `Core/Engine.{h,cpp}` | active and pending scenes, systems, current project | `Init`, `Run`, `Shutdown`, `CreateScene`, `CloseScene`, `LoadScene*`, `PendingScenes`, `SaveScene` | asset manager (a pending scene waits for it), systems, project |
| **Projects** `Core/Project.{h,cpp}` | scene table, default scene, required assets | `AddScene`, `RemoveScene`, `UpdateScene`, `SetDefaultScene` | engine (load, save) |
| **Scenes, ECS and serialisation** `Core/ECS.{h,cpp}`, `Systems/*.h` | entity registry, entity count, components | `CreateEntity`, `DestroyEntity`, `SaveBinary`, `LoadBinary` | systems (component load and save), asset manager (required assets) |
| **Mesh system** `Systems/Mesh.{h,cpp}` | raw mesh pointers in components | `OnSceneLoaded`, `FindMeshAsset`, construct/update hooks | asset manager (`GetAsset`), ECS |
| **State machine** `Core/FSM.{h,cpp}` | states, triggers, transitions, current state, run-entry flag | `Process`, `Trigger`, `TransitionState`, set-up calls | callbacks of its owner |
| **Editor mode** `turas-editor/EditorEngine.{h,cpp}` | edit, debug or open-project mode | the actions of the modes, the open-project dialog | state machine, engine (projects) |
| **Renderer bookkeeping** `Rendering/Renderer.{h,cpp}` | views, view data, viewports, shader programs, pipeline templates | create, destroy, `PreFrame`, `PostFrame`, `SetViewportView` | scenes, lvk (GPU) |
| **Memory tracker** `STL/Memory.{h,cpp}` | per-type allocation counts | class-level `new` and `delete` | every allocating thread |
| **Vertex layouts** `Rendering/VertexLayouts.{h,cpp}` | attributes under construction | `AddAttribute`, `Build` | model import |
| **Paths and hashes** `Core/Utils.{h,cpp}` | none | `Hash`, path helpers | asset handles, shader and view names |
| Editor windows, ImGui and Im3d integration, file watcher | immediate-mode UI | drawing | engine |
| Pipelines and GPU recording `Rendering/Pipelines`, `Common.cpp`, shaders | GPU objects | command recording | lvk |
| STL wrappers, JSON, maths, profiling | none | thin wrappers | |
| Third party (lvk, entt, assimp, cereal, efsw, tracy, ImGui) | | | used through the calls above |

What is hard to get right, per component:

* **Asset manager.** Loader threads finish in any order and at any point of a
  tick; uploads and unloads share a budget and are spread over ticks; the same
  handle can be queued, in flight, uploading, loaded and unloading at once.
  Correct means: unloads find their asset, nothing is loaded half uploaded, the
  number of threads is bounded, the last request wins, the waits return,
  `Shutdown` leaves nothing.
* **Model import.** Recursion over a tree: every node visited once, ends.
* **Engine and scenes.** A scene becomes active only when its assets are there;
  scenes are closed, loaded and saved while others are pending.
* **ECS.** The entity count is the number of live entities across creation,
  destruction, id recycling and loading; a saved scene loads as the same scene.
* **Mesh system.** A raw mesh pointer never outlives its asset.
* **State machine, editor.** Actions run in the state they belong to, entry and
  exit run once per transition, `Process` ends.
* **Renderer.** A view that is used exists; every GPU object is freed once.
* **Memory tracker.** Counts agree with what is allocated, on every thread.

## 2. Modules

| Module | What it is | Checked by | Proved in |
|---|---|---|---|
| `AssetManager` | the asset manager, its ticks and its loader threads | `MCAssetManager`, 5 configurations | `AssetManagerProofs`, `AssetRequestProofs` |
| `AssetLifecycle` | what the asset manager promises, handle by handle | as a property of `AssetManager` | implemented in `AssetRefinementProofs`, used in `ScenesProofs` |
| `AssetRefinement` | the mapping from the first to the second | `AssetManager_duplicates.cfg` | `AssetRefinementProofs` |
| `Scenes` | scenes and mesh pointers on top of `AssetLifecycle` | `Scenes_careful.cfg` | `ScenesProofs` |
| `SceneFiles` | entities, scene files, the project and its file, restarts | `MCSceneFiles`, 2 configurations | `SceneFilesProofs` |
| `RendererViews` | templates, views, viewports, shader programs and the frame | `RendererViews_rules.cfg` | `RendererViewsProofs` |
| `ModelImport` | what a loader thread does, vertex layouts, the memory tracker | `ModelImport_loaders.cfg` | `ModelImportProofs` |
| `FSM` | the state machine, for any states and transitions | `FSM_free.cfg` | `EditorProofs` |
| `Editor` | the editor's main loop, on top of `FSM` | `Editor_modes.cfg` | `EditorProofs` |

The chain of asset modules: `ModelImport` is what a thread does from its start to the
moment its future is ready, one step of `AssetManager` (`LoaderFinishes`) whose result is
the constants `Entries` and `Textures`; `AssetManager` implements `AssetLifecycle`; `Scenes`
extends `AssetLifecycle` and not `AssetManager`: the refinement proof is what allows the
thread-level model to be replaced by three sets of handles when scenes are the
subject, and `ScenesUseLifecycle` proves the other end, that engine and clients do to
these sets only what `AssetLifecycle` allows. `SceneFiles` looks at the same scenes from the side of their files and takes
the waiting of a pending scene from `Scenes`; `RendererViews` sees of scenes only which
are active.

Several modules have clients that keep *rules*: what the code relies on and does
not enforce. A rule is a guard that a constant (`Careful`, `AwaitUnloads`, `AwaitScenes`, `Rules`)
switches on. Each is needed: without it TLC finds a property of the run violated.

Definitions preceded by `\* Mutant:` are plausible bugs of the definition that
follows them. They are not used by any specification; each property of a passing
run is violated when such a definition takes the place of the one it mutates.

## 3. Asset manager

### How the model follows the code

| Variable | Code |
|---|---|
| `queue` | `p_QueuedLoads` |
| `futures` | `p_PendingLoadTasks`; the entry is the file being parsed and whether the future is ready |
| `uploads` | `p_PendingLoadCallbacks`; the entry is the asset and how many of its GPU callbacks have run |
| `unloads` | `p_PendingUnloadCallbacks`; the entry is the type whose `Unload` function waits |
| `loaded` | `p_LoadedAssets` |
| `duplicate` | the `std::future` that `emplace` did not take, whose destructor joins the thread |
| `pc`, `visit`, `processed`, `clears` | the place in `OnUpdate` and its locals |
| `calls` | the blocking calls (`WaitAllAssets`, `WaitAllUnloads`, `UnloadAllAssets`, `Shutdown`) not finished yet |
| `wanted`, `orphans` | history: the last request for a handle; objects that lost their last reference |

A hash map is a function from handles to an entry or `None`. `emplace` keeps an
entry that is there (`Emplace`), iteration order is arbitrary (`\E h \in visit`).
One tick of `OnUpdate` is the actions `OnUpdate`, `RunLoadCallbacks`*,
`MoveToLoaded`, `RunUnloadCallback`*, `EraseUnloaded`, `DispatchAssetLoadTask`* with
`JoinDuplicate`, `DispatchReturns`, `CollectFinished`, `FinishLoad`*,
`OnUpdateReturns`. They are separate because a loader thread may finish between
any two of them; clients run on the main thread and act only between ticks. The
loop that runs callbacks compares an index with two bounds that both shrink as it
runs; it ends half way, and `Batch` says how many callbacks it runs.

Two threads share only the readiness of a future, so the model has no data race;
the memory tracker, which does have one, is a component of its own.

### Runs and bounds

The code has `p_CallbackTasksPerTick = 6` and `p_MaxAsyncTaskInFlight = 3`; the runs
have 2 and 2, with models of up to 3 meshes, so that an upload is cut off by the
budget and by its own end, the limit on threads is reached, and a tick may have
room for no unload. `MaxQueued` (1 or 2) bounds what clients queue; the textures a
model brings are not bounded by it. Duplicates need two loads of one handle, in
flight at once: a queue of one is enough because a queued load is dispatched
before the next is queued.

| Run | Instance | Shows |
|---|---|---|
| `assets_duplicates` | a model of three meshes and its texture, careless clients | unloads find their asset, uploads complete, threads bounded, `Shutdown` clears up, no crash, stable pointers, `ImplementsLifecycle` |
| `assets_shared` | two models sharing a texture, a model without meshes, a text file, careful clients | the inductive invariant; textures of loaded models are loaded; the last request is what holds when nothing is loading; the blocking calls return |
| `assets_lost_load`, `assets_gpu_leak`, `assets_failed_load` | | the findings below |

`Careful` clients ask for a load only of what is not loaded and for an unload only
of what is loaded. `NoCrash` is checked without it, but with readable models and
distinct handles; without these the findings apply. The proofs need less, as they say.

Fairness: weak fairness of the main thread (`Engine::Run` calls `OnUpdate` every
frame; a wait is a loop around it) and of every loader thread (it parses one file
and ends). Clients are not assumed to do anything. `WaitsReturn` is the only
liveness property; unloads are *not* promised to run while loads keep coming,
since load callbacks use the budget of a tick first.

### Findings

1. A load requested while an unload of the same handle is pending can be lost
   (`AssetManager.cpp:357`).
2. A second copy of a loaded texture is uploaded and dropped without being freed
   (`AssetManager.cpp:357`).
3. A model that cannot be opened is reported as loaded, and unloading it
   dereferences null (`AssetManager.cpp:181`).

Seen in the source and not stated as properties: `Utils::Hash` xors a value per
character and ignores their order (`Utils.cpp:16`), so that the 69 textures of the Sponza
scene have 51 handles and the second file of a handle is taken for the first (what
is proved here holds for any hash, but says nothing about which file a handle
finds); an `Asset` is destroyed through
a base class without a virtual destructor, so what a derived destructor would do
is undefined; the object that a duplicate loader made is never freed (`orphans`,
kind `"asset"`); audio, text and binary loads are taken from the queue and dropped
without a word.

### Proofs

`SafetyInv` is inductive and holds for every set of files and handles, every hash,
every budget and limit, and any clients (`SafetyInvariant`). It is needed because none of
the five facts a reader cares about is inductive by itself. That an unload finds
its asset depends on `EraseUnloaded` removing both entries for the same handles,
which are those the loop collected (`LocalsMatch`). That a loaded asset is uploaded
depends on `clears` holding exactly entries without tasks left, which depends on
the arithmetic of `Batch`. That threads are bounded depends on the duplicate being
started only below the limit and joined before the next dispatch
(`DuplicateMatches`). `KeysMatch` ties each entry to its handle, which `TypeOK` needs to
know that the tasks left never get negative. The assumptions are the types of the
constants, a finite set of handles, and that `None` is none of the values.

`PointersAreStable` is the action property over the same invariant.
`ManagerImplementsLifecycle` shows that every step is a step of `AssetLifecycle` or
invisible to it under the mapping of `AssetRefinement`: a handle is loading while it
is queued, in flight or has callbacks left. The interesting steps are
`DispatchAssetLoadTask` and `FinishLoad`, which take one of several copies of a
handle away and must show that another is left or that the handle vanishes for
want of a loader.

`AssetRequestProofs` goes on from `SafetyInv` to what clients rely on:

* `UnloadsNeverCrash`, if every model can be opened (`Readable`) and no model shares its
  handle with a texture (`TypesOfHandles`). The invariant `UnloadInv` says that no object
  is null and that the `Unload` function that waits is that of the type of the loaded
  asset; nothing replaces a loaded asset while its unload waits.
* `ShutdownLeavesNothing`, with no assumption. `Stages` says what each of the calls that
  `Shutdown` makes leaves for the next: nothing loads after the first wait, so the
  loop of `UnloadAllAssets` schedules every asset there is and nothing comes after it.
* `LoadsHold`, `UnloadsHold` and `ModelsHaveTextures`, for careful clients that ask for
  models only and leave textures to them (`ModelRequests`). `RequestInv` says that what
  was asked for last is done or under way, that the textures of a model that is loaded
  or uploading were asked for, and that a texture unloads only when everything
  does. The assumption is needed: a client that unloads a texture itself, while a model
  that refers to it is loading, can lose it.

`WaitsReturn` is liveness and model-checked only; two theorems prove its core for all
values of the constants. `TicksEnd`: inside `OnUpdate` every step of the main thread goes
on to a later part or shortens the loop it is in, and no loader thread sets it back, so
that a tick can wait for nothing but the thread of a duplicate. `WorkShrinks`: `Work` is
six natural numbers compared from the left (models queued or being read, files queued,
futures, GPU callbacks left, uploads, unloads); a step that works something
off makes it smaller and no other step of the manager changes it, although a model that
is collected puts new textures into the queue. Models come before what they bring,
which is why one number is not enough. What TLC adds is that under the fairness of
`Spec` these steps are taken.

### What a loader thread does

`ModelImport` has a loader per thread, at work on one file: `pc[l]` is where it is,
`calls[l]` how many calls of `ProcessNode` are on its stack. `Begin`, `NextMesh`,
`ProcessMesh`, `Recurses`, `LoadModelReturns` are the code between two allocations, where
threads meet: `operator new` of `ModelAsset`, `Mesh` and `TextureAsset` increments the count of
the class in one hash map without a lock, in the steps `ReadCount` and `WriteCount`. A data
race is undefined; the model has the lost update, and its history `raced` says that two
threads were inside at once. The builder of vertex layouts is pure (`AddAttribute`,
`Stride`), with folds in place of its loops.

`model_import` has two loaders, each with any of five files: a model of three meshes (one
of lines, one without texture coordinates, two that share a texture), a model whose
root has a child, one that assimp cannot open, two textures. `StackLimit` (3) is the stack of
a thread. It shows:

* `EntriesAreTriangleMeshes`: the entries are the meshes of triangles of the *root node*, in
  order; entry indices count those;
* `TexturesAreRequested`, `RequestsAreDistinct`: every texture of a material kept in an entry
  is asked for, once;
* `VertexDataFitsLayout`: the layout is packed and the vertex data fills it, except for a mesh
  without texture coordinates, which has indices and no vertices (`AssetManager.cpp:51`);
* `CountsAreExact`: the counts are right as long as no two threads met in `operator new`;
* `FlatImportsReturn`, for a root node without children. With a child `ProcessNode` calls itself
  with the same node (`AssetManager.cpp:128`) until the stack overflows; the test models are
  flat. A loader is weakly fair: it is a thread of `std::async`.

`ModelImportProofs` proves all six safety properties for any number of loaders and any
files. `CountInv` says of the counts that, until two threads met, at most one is inside
`operator new` and the count it read is still the count in the map. `ImportInv` says of each
loader what it has done at the place where it is: the entries are those of the meshes
it passed, and the requests those of their textures.

What the folds of `AddAttribute`, `Stride`, `Ask` compute is proved for every input. They are
defined by recursion over a finite set, so `FoldExists` shows that the recursive function
there is does exist, from the principle that natural numbers are well founded
(`Smallest`, `Induct`), stated for sets rather than for predicates; `SumOf` and `Prefix` then
say what one more element does. From these come `LayoutsArePacked` (`VertexLayoutDataBuilder`
leaves no gap for any attributes, not only those of a mesh), and `AskPrefixes` and `AskedOnce` (every
texture is asked for, once).

Of liveness: `ReturnsExactlyFlatImports` proves that a load that returned is of a flat file and
that a flat file never overflows the stack; `FlatImportsProgress` that each step of the loader
of a flat file takes at least one off a natural number, 4 per mesh and 4 more, whatever the
other loaders do. That the steps are taken is fairness, and TLC's `FlatImportsReturn`.

## 4. Scenes and the mesh system

`Scenes` has the frame of `Engine::Run` as `phase`: `m_AssetManager.OnUpdate`
(`AssetManagerOnUpdate`, any number of steps of `AssetLifecycle`), `PendingScenes`, what
clients do (systems, editor windows), `SubmitFrame`. `active` and `pending` are
`m_ActiveScenes` and `m_PendingScenes`; `mesh[s][m]` is the `m_MeshAsset` of the
`MeshComponent` of scene `s` for model `m`: null, valid, or dangling once the model was
erased. One component per scene and model stands for all of them, since they get
and lose their pointer together. The abstractions: entry indices are in range (a
component whose index is not keeps a null pointer, listed as a hazard); every
component has the transform and material that makes it drawn; a scene in the
model is a scene object at an address, reused only when it was closed.

`NoCrash` says that `FindMeshAsset`, `SaveBinary` and `DispatchStaticMeshDrawCommands`
dereference only what is there. It holds for clients that keep four rules, none
of which the code enforces:

* they add components only for loaded models, and unload only models that no
  scene refers to (`Careful`);
* they do not load a scene while one of its models has an unload pending
  (`AwaitUnloads`);
* they save a scene when it is active, and not while it is still pending (`AwaitScenes`);
* the scene's model files can be opened (`Archives` and `Unreadable` disjoint).

The second and fourth guard against findings 1 and 3 of the asset manager: with
`AwaitUnloads` set to FALSE, or with `"crate"` in `Unreadable`, TLC finds `NoCrash` violated,
a null model in `FindMeshAsset`. The third is about `Engine::SaveScene`, which takes any `Scene*`,
the one that `LoadSceneFromPath` has just returned too: `SaveBinary` (`ECS.cpp:46`) reads the
path of every model through what `GetAsset` returns, and that is null until the model has
come. With `AwaitScenes` set to FALSE TLC finds that in five states. `AddMesh` and `RemoveMesh`
act on pending scenes as on active ones. `scenes_careful` checks two scenes, a model with its
texture and a file without loader, with up to three loads: two scenes that load the
same model and one load more, which an unload can overtake. `MaxRequests` is the only
bound.

It also checks that a pending scene becomes active. Frames are weakly fair.
The end of a load and the run of an unload are strongly fair: they happen only in
the update phase of a frame, which comes and goes, and `WaitsReturn` of
`AssetManager` says that they happen once requests stop. Requests do stop, at
`MaxRequests`; with clients that load something every few frames a pending scene
may wait for ever, as `PendingScenes` looks at one flag for the whole manager.

`SceneInvariant`, `ScenesDoNotCrash` and `ActiveScenesAreDrawable` prove the safety part
for any number of scenes and assets under those four rules. The invariant adds to
`NoCrash` where the models of every scene are: loaded and not about to be unloaded
for an active scene, loaded or on their way for a pending one. The second part is
what makes the step of `PendingScenes` safe: nothing is on its way any more, so what
is needed is there. It is also exactly what a lost reload breaks. `ScenesTypesHold` and
`ScenesUseLifecycle` need no rule: that scenes use the asset manager only as `AssetLifecycle`
allows holds for any clients.

Behaviour worth knowing: `CloseScene` of a pending scene does nothing, and the scene
becomes active later; `Shutdown` leaves pending scenes allocated; loading a scene
queues its assets again even when they are loaded.

## 5. State machine and editor

`FSM` models `Process` in the steps its callbacks divide it into: `Process` (look the
state up), `RunEntry`, `RunAction`, `Iterate` (one round of the loop). `index` is the
local that stays at the old state while `current` changes, so the action that runs
after a transition is that of the state that was left. `entered` and `open` are
history: whether the entry procedure of the current state has run, and which
states were entered and not left.

* `EntryPending`: between two calls, `p_RunEntry` is never left over from another
  state, so the next call runs the entry procedure of a state reached by a
  transition. Inside the loop this is false (`EntryInv` says when); every way out of
  the loop resets the flag.

`FSM.h:9` declares a limit of 8 transitions per call. `Process` counts its transitions,
in a `uint8_t` (`Incremented`), and never looks at the count: an action that keeps
returning a trigger that matches keeps `Process` in its loop.

The set-up calls are constants. `FSMAssumption` names what the code requires of them:
states are added in the order of their numbers, because `TransitionState` indexes
`p_States` with a state (`FSM.cpp:124`).

`Editor` is the machine that `InitEditorFSM` builds, with the frames of its modes as
actions. `ProjectIsOpen`: the windows of modes Edit and Debug read `m_Project` without
a check (`DebugWindows.cpp:48`) and never find it null, although the dialog's frame
runs once more after the mode changed to Edit. This rests on a fact about the user
interface: a button is not pressed in two frames in a row. Exceptions that
`LoadProject` and `CreateProject` throw end the program (`run = "terminated"`).
`ProcessReturns` assumes that a call of `Process`, once entered, keeps running.
`MaxScenes` bounds the scenes made from the menu.

`EditorProofs` proves `MachineTypeOK` and `EntryPending` for every machine, and `ProjectIsOpen` and
`EntryExitPaired` for the editor. `EditorIsMachine` shows that the editor, frames included, is
one of the machines of `FSM`: its frames return only the triggers that `EditorAssumption` lists
for their mode (`Returns`), so that what is proved of every machine holds of it
(`EditorTypesHold` uses this). `ProcessIsShort` is the core of `ProcessReturns`: a call takes at
most four steps (entry, frame, transition, frame of the mode that was left), each of
which leaves fewer. It holds because no mode returns a trigger it has no transition for,
which is what keeps the loop at `FSM.cpp:48` from spinning.

Observations: the entry procedure of Edit is wired to `OnEditExit`, and those of
OpenProject are swapped (`EditorEngine.cpp:31,39-40`; all are empty); nothing fires
`Play` or `Stop`, so mode Debug is not reached; the results of `LoadProject` and
`CreateProject` are ignored.

## 6. Scene files and projects

`SceneFiles` has one state per file (`None`, `Torn`, or what was written), the table of the
project in memory and in its file, and the scene objects with their entities.

| Variable | Code |
|---|---|
| `scene` | `Scene` objects: name, entities in use, those with plain components, the handles of mesh components with their `m_Type`, `p_EntityCount`, active or pending |
| `models`, `coming` | models that are in `p_LoadedAssets` as models; those that pending scenes have asked for |
| `project`, `projectFile` | `m_SerializedScenes` and `m_DefaultScene` of `m_Project`, and of the `.turasproj` file |
| `files` | scene files |
| `lastSaved`, `entry`, `exact` | history: what was last saved under a name; what became of a name that was put into the project; whether `p_EntityCount` should be right |

`ProcessEnds` is `Shutdown` and a new process, `DiesSavingScene` and `DiesSavingProject` a process
that dies in `SaveStringToPath`, which truncates a file before it writes it. A handle is
read back with any type, since `AssetHandle::serialize` does not write it. The rules, and
what each guards:

| Rule | What clients do | Without it |
|---|---|---|
| `waited` | save a scene when it is active | `NoCrash`: `SaveBinary` reads a model that has not come |
| `typed` | save a scene only when its handles were not read from a file | `NoCrash` (finding below) |
| `home` | load and register a scene file from where `SaveScene` puts it | `NamesFindLastSave`: the table keeps the other path, the save goes elsewhere |
| `default` | do not remove the default scene | `DefaultIsRegistered` |
| `there` | load a project file that exists | `NoCrash`: the XML archive throws |
| `written` | have scene files that can be opened for writing | `NamesFindLastSave`: a failed stream is not noticed |
| `intact` | do not load a file the process died writing | `NoCrash`: an exception |

`scene_files` checks one scene object, two names, three paths (one a copy), one entity and
one model, with `CountRange` 3 in the place of 2^32, enough to tell up from down and to wrap
around. Two names are what it takes for the table to have an entry that is not the one in
use; the names with their homes are symmetric (`Swaps`). Nothing else is bounded: the files
and the table are finite.

A scene that was loaded is pending. Clients can already work on its entities; the models it
asked for come in `AssetsCome`, all at once, and `PendingScene` makes it active when none is
still to come.

`ListedAreFound` is about the names of the project. A name is put there by `SaveScene`,
`LoadSceneFromPath` and `AddScene`, in memory only; `SaveProject` writes the table. The history
`entry` says of each name what happened to it last: `unsaved` (put there after the last
`SaveProject`), `saved`, `removed` (after the last `SaveProject`), or `lost`. The property compares
this with the program: the table in memory has the unsaved and the saved names and no
other, the project file the saved and the removed ones and no other, and the file of every
scene is there, of a lost name too. A name that is unsaved is lost when the process ends or
dies, in whatever it does: save a scene, close it, create another, die while that is
saved, and the project that is loaded next does not have the first one, although its file
is whole (`Engine.cpp:277`). No rule excludes this. A saved name is lost only by a death
in `SaveProject`, which leaves the project file torn, or by a `CreateProject` over the file.

Finding 4 (`scenes_lost_type`, `Asset.h:53`): a scene that was loaded and saved again no longer
names the type of its models. `_DataA` and `_DataB` have the same address, so the hash is
written twice and the type never; `SaveBinary` (`ECS.cpp:46`) writes what happens to be in a
handle's memory as the type to load.

`SceneFilesProofs` proves all of it, for any number of scenes, names, paths, entities and
models, and all but `CountIsExact` for clients that keep all rules. The invariant `SceneFilesInv` adds
to what a reader wants where things are: a scene file that is whole asks for every model
its components refer to, and as a model; the last save of a name is in the file `SaveScene` writes; the tables in
memory and in the project's file name only such files, and exactly the names that `entry` says;
the models of an active scene are loaded, and those of a pending one are or will come. `NamesFindLastSave` is not
inductive without the third part, since a `LoadScene` from elsewhere would enter its own
path, and `NoCrash` not without the first and the last. `DroppedEntries` and `UndoneEntries` say what the loss
of the project file and of the process do to the history.

`CountIsExact` says that `NumEntities` is right for a scene that was not loaded with
entities: `LoadBinary` creates entities in the registry directly and does not count them,
so that destroying them takes the unsigned count below zero. `registry.destroy` returns a
version, which `DestroyEntity` takes for success; it wraps around to zero. `CountStaysExact`
proves it for clients of any rules and any width of the counter (`SameRemainder`, `Counts`: one
up or down modulo the width is one up or down in the number of entities).

`LoadedIsSavedAgain` is about two operations that have to fit: a scene that was loaded would
be saved with the name, the components and the models of its archive, for clients of
any rules. The types of the handles need not come back, which is finding 4, and nothing
else is lost where they do. Entities without components are not in the archive: `UsedBy`
names those that are.

## 7. Renderer

`RendererViews` has the tables of `Renderer` as functions and sets; `views[n]` is an entry of
`p_ViewData`, `owned[n]` the GPU objects of its pipeline. An entry can be there without a view
(`Hollow`): `operator[]` in `PostFrame` files such an entry for a name it does not find
(`Renderer.cpp:53,75`). View objects are addresses, so
that a destroyed one may come back as another view, and a viewport that still points to
it shows that one. A frame is one action, `PostFrame`: it reads only what the renderer and
the scenes hold, in the three loops `Updates`, `Draws`, `Records`, and ends in `crashed` when one
of them dereferences what is not there.

| Rule | What clients do | Guards against |
|---|---|---|
| `named` | construct a view with the name it is filed under | a hollow entry for the other name |
| `staged` | create pipelines and presenting viewports when their shaders exist | null programs (`BuiltIn.cpp:39`, `Viewport.cpp:11`) |
| `pointed` | give a viewport its view before the frame ends | `Renderer.cpp:75` |
| `shown` | not destroy a view that a viewport shows | `Renderer.cpp:107` |
| `live` | not pass a destroyed view to `SetViewportView` | the same pointer, later |
| `filmed` | not close a scene that a camera view films | `View.cpp:22` |

Without any one of them TLC finds `NoCrash` violated. `renderer` checks two names, two
addresses, a scene, the built-in template and one of a game, with any of the shader
stages missing; nothing is bounded.

`RendererViewsProofs` proves all five properties of the run for any number of names,
addresses, scenes and templates, for clients that keep all rules. The invariant is that
no entry is hollow, every view is filed under its own name, every viewport shows a filed
view or none, and every filmed scene is active. The proof goes by what a step may do to
an entry (`views`), a pointer (`viewports`) and an address (`name`, `camera`): the only step that
changes an address, `NewView`, takes one that is in no entry, and therefore in no viewport.

Observations: `GetPresentShader` passes the name of the program where the vertex stage
belongs (`Viewport.cpp:81`), so a presenting viewport needs a client that made the program;
`Shutdown` removes no pipeline template.

GPU objects have three owners in the model. `ViewData::Free` calls `Pipeline::Free`
(`Pipeline.cpp:3`), which frees the lvk pipeline and the quad (`pipeline`). The two
`VkPipelineData` that the built-in template makes (`BuiltIn.cpp:50`) are held by its command
dispatchers (`dispatcher`; `Owning` is the set of the templates that have such), which have
neither a `Free` nor a destructor that frees them: every `DestroyView` of a built-in view and every
`Shutdown` loses them, which `Unfreed` says. A viewport, in contrast, frees its own
(`Viewport.cpp:72`, `viewport`). `FreedUnlessReused` is about the two kinds that a `Free` reaches: they
are with a filed view, and lost only when `CreateView` or `CreateViewport` of a name that is taken
drops what it has just made. It says nothing of `dispatcher`.

## 8. Bounds, fairness, assumptions in one place

Bounds that are not in the code: `MaxQueued`, `MaxRequests`, `MaxScenes`, `StackLimit`, `CountRange`,
all in the guards (or the modulus) that their module names. Fairness: the main thread and
the loader threads in `AssetManager`, frames and the end of loads in `Scenes`, a call of
`Process` once entered in `Editor`, a loader in `ModelImport`. `FSM`, `SceneFiles` and `RendererViews` state
none and have no liveness properties. The assumptions of the proofs are the `ASSUME`s
of the modules, which TLC evaluates for every run, and the rules named in the theorems.

Every safety invariant and action property of a passing run is stated by a theorem, and so
is the refinement. Liveness under fairness (`WaitsReturn`, `PendingScenesActivate`,
`ProcessReturns`, `FlatImportsReturn`) is only model-checked, since the prover has neither
`ENABLED` nor the rules of fairness; `TicksEnd`, `WorkShrinks`, `ProcessIsShort` and
`FlatImportsProgress` prove that the steps that fairness promises lead somewhere. For
`PendingScenesActivate` there is no such theorem: its argument is that of `WaitsReturn`, spread
over frames. Induction over data is done with sets (`Induct`, `InductSets`) in the place of
the library's theorems about predicates, which the provers cannot instantiate.

## 9. What is left

In this order: `operator delete` of the memory tracker on the main thread beside the
loaders; a composition of `Scenes` and `RendererViews` in which the draw commands use the mesh
pointers of the views' scenes; a measure for `PendingScenesActivate` like `WorkShrinks`; the
archives and asset lists of `SceneFiles` as the constants `Archives` of `Scenes`.

## 10. Not modelled

* Matrix arithmetic of transforms and cameras, recording of GPU commands, drawing of
  windows, the file watcher (its callback logs), wrappers of the standard library,
  logging: no state whose changes could go wrong in the ways a model checker finds.
* Third-party code (lvk, entt, assimp, cereal, efsw, tracy, ImGui) and what is vendored or
  generated in `include/` (fonts as arrays, JSON, ctti): taken as what the calls to it in
  `src/turas` show. These files are most of the lines of the repository.
* The working directory: `LoadProject` and `CreateProject` change it, and a scene that is
  saved before a project is opened goes elsewhere. `SceneFiles` has processes with a
  project only.
* Archives are binary and are written through a text-mode stream (`Utils.cpp:67`), which
  changes them on Windows. Files keep what was written in the model.
* The values of components and of vertices, and the entry index of a mesh component.
