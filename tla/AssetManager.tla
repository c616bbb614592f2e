---------------------------- MODULE AssetManager ----------------------------
(***************************************************************************)
(* The asset manager of turas: asynchronous loading of models and textures *)
(* by std::async threads, the upload callbacks the main thread runs in     *)
(* budgeted ticks, and the unloading of what was loaded.                   *)
(*                                                                         *)
(* Two kinds of process run.  The main thread calls the public operations  *)
(* and executes OnUpdate; pc says where inside OnUpdate it is, and calls   *)
(* which blocking operations it still has to finish.  A loader thread per  *)
(* future parses one file and does nothing but become ready.  Everything   *)
(* but the readiness of a future belongs to the main thread, so one step   *)
(* of OnUpdate is atomic as long as it looks at futures at most once.      *)
(***************************************************************************)
EXTENDS Integers, Sequences, FiniteSets

CONSTANTS
  Info,                  \* AssetLoadInfo values: a path with a type
  Handle,                \* AssetHandles up to operator==, i.e. hashes of paths
  HandleOf,              \* AssetLoadInfo::ToHandle; several paths may share a hash
  TypeOf,                \* m_Type of an AssetLoadInfo
  Entries,               \* the number of mesh entries in the file of a model
  Textures,              \* the textures the entries of a model refer to
  Unreadable,            \* model files assimp cannot open
  CallbackTasksPerTick,  \* p_CallbackTasksPerTick
  MaxAsyncTaskInFlight,  \* p_MaxAsyncTaskInFlight
  Requests,              \* what clients pass to LoadAsset and UnloadAsset
  Careful,               \* whether clients wait for what they asked for before
                         \* they ask for the opposite
  MaxQueued,             \* bound: clients queue no load beyond this length
  None

AssetType == {"Model", "Texture", "Audio", "Text", "Binary"}

\* An asset object: what it was loaded from, whether the loader returned a null
\* pointer for it, how many of its GPU callbacks have run, and which object it is
\* when another one of the same handle is alive.
Asset  == [info : Info, null : BOOLEAN, made : Nat, copy : {0, 1}]
\* A future of AssetLoadReturn: its result is a function of the file.
Future == [info : Info, ready : BOOLEAN]

ASSUME ConstantsAssumption ==
  /\ HandleOf \in [Info -> Handle]
  /\ TypeOf \in [Info -> AssetType]
  /\ Entries \in [Info -> Nat]
  /\ Textures \in [Info -> Seq(Info)]
  /\ \A i \in Info : \A k \in DOMAIN Textures[i] : TypeOf[Textures[i][k]] = "Texture"
  /\ \A i \in Info : Entries[i] = 0 => Textures[i] = <<>>
  /\ Unreadable \subseteq Info
  /\ Requests \subseteq Info
  /\ Careful \in BOOLEAN
  /\ CallbackTasksPerTick \in Nat \ {0}
  /\ MaxAsyncTaskInFlight \in Nat \ {0}
  /\ MaxQueued \in Nat

ASSUME HandlesFinite == IsFiniteSet(Handle)

ASSUME NoneAssumption ==
  /\ None \notin [info : Info, null : BOOLEAN, made : Nat, copy : {0, 1}]
  /\ None \notin [info : Info, ready : BOOLEAN]
  /\ None \notin AssetType

VARIABLES
  queue,      \* p_QueuedLoads
  futures,    \* p_PendingLoadTasks, None where the map has no entry
  uploads,    \* p_PendingLoadCallbacks: the asset whose callbacks are left
  unloads,    \* p_PendingUnloadCallbacks: the type whose Unload function waits
  loaded,     \* p_LoadedAssets
  duplicate,  \* the future emplace did not take, still running, or None
  pc,         \* where in OnUpdate the main thread is
  visit,      \* entries the current loop of OnUpdate has not visited yet
  processed,  \* processedCallbacks
  clears,     \* clears; finished
  calls,      \* the blocking calls the main thread still has to make
  closed,     \* whether Shutdown has been called
  wanted,     \* history: the last request made for each handle
  orphans     \* history: what was destroyed or dropped without being freed

maps  == <<queue, futures, uploads, unloads, loaded>>
frame == <<visit, processed, clears>>
ghost == <<wanted, orphans>>
vars  == <<maps, duplicate, pc, frame, calls, closed, ghost>>

Steps == {"caller", "load_callbacks", "unload_callbacks", "dispatch", "join",
          "collect", "finish", "crashed"}
Calls == {"WaitAllAssets", "WaitAllUnloads", "UnloadAllAssets"}

TypeOK ==
  /\ queue \in Seq(Info)
  /\ futures \in [Handle -> Future \cup {None}]
  /\ uploads \in [Handle -> Asset \cup {None}]
  /\ unloads \in [Handle -> AssetType \cup {None}]
  /\ loaded \in [Handle -> Asset \cup {None}]
  /\ duplicate \in Future \cup {None}
  /\ pc \in Steps
  /\ visit \subseteq Handle
  /\ processed \in 0..CallbackTasksPerTick
  /\ clears \subseteq Handle
  /\ calls \in Seq(Calls)
  /\ closed \in BOOLEAN
  /\ wanted \in [Handle -> {"none", "load", "unload"}]
  /\ orphans \subseteq Handle \X {"asset", "gpu"}

-----------------------------------------------------------------------------
(* What the loader functions return for a file, and the queries.           *)

Keys(map) == {h \in Handle : map[h] # None}

Least(a, b) == IF a <= b THEN a ELSE b

\* Only models and textures have a loader and an unload function.
\* LoadModel returns a null asset with no callbacks for a file it cannot open,
\* and else one callback per mesh entry; LoadTexture always returns one.
HasLoader(i) == TypeOf[i] \in {"Model", "Texture"}
FailsToOpen(i) == TypeOf[i] = "Model" /\ i \in Unreadable
LoadedAsset(i, c) == [info |-> i, null |-> FailsToOpen(i), made |-> 0, copy |-> c]
GpuTasks(i) ==
  IF TypeOf[i] = "Model" THEN IF FailsToOpen(i) THEN 0 ELSE Entries[i] ELSE 1
NewAssetsToLoad(i) ==
  IF TypeOf[i] = "Model" /\ ~FailsToOpen(i) THEN Textures[i] ELSE <<>>

TasksLeft(asset) == GpuTasks(asset.info) - asset.made

\* Mutants: a kind of pending work that AnyAssetsLoading overlooks.
AnyLoadingButUploads   == Keys(futures) # {} \/ Keys(unloads) # {} \/ queue # <<>>
AnyLoadingButUnloads   == Keys(futures) # {} \/ Keys(uploads) # {} \/ queue # <<>>

AnyAssetsLoading ==
  \/ Keys(futures) # {}
  \/ Keys(uploads) # {}
  \/ Keys(unloads) # {}
  \/ queue # <<>>

AnyAssetsUnloading == Keys(unloads) # {}

IsQueued(h) == \E k \in DOMAIN queue : HandleOf[queue[k]] = h

GetAssetLoadProgress(h) ==
  IF IsQueued(h) \/ futures[h] # None \/ uploads[h] # None THEN "Loading"
  ELSE IF unloads[h] # None THEN "Unloading"
  ELSE IF loaded[h] # None THEN "Loaded"
  ELSE "NotLoaded"

\* Mutant: operator[] where the code uses emplace.
Overwrite(map, h, value) == [map EXCEPT ![h] = value]

\* HashMap::emplace: an entry that is already there is kept.
Emplace(map, h, value) == IF map[h] = None THEN [map EXCEPT ![h] = value] ELSE map

\* p_LoadedAssets.emplace(handle, UPtr<Asset>(asset)): when the key is taken the
\* new asset dies with the temporary UPtr, and with it the only reference to the
\* GPU objects its callbacks created.
Discarded(h, asset) ==
  IF loaded[h] # None /\ asset.made > 0 THEN {<<h, "gpu">>} ELSE {}

-----------------------------------------------------------------------------
Init ==
  /\ queue = <<>>
  /\ futures = [h \in Handle |-> None]
  /\ uploads = [h \in Handle |-> None]
  /\ unloads = [h \in Handle |-> None]
  /\ loaded = [h \in Handle |-> None]
  /\ duplicate = None
  /\ pc = "caller"
  /\ visit = {}
  /\ processed = 0
  /\ clears = {}
  /\ calls = <<>>
  /\ closed = FALSE
  /\ wanted = [h \in Handle |-> "none"]
  /\ orphans = {}

(***************************************************************************)
(* The public operations, called by the main thread outside OnUpdate.      *)
(***************************************************************************)
Free == pc = "caller" /\ calls = <<>> /\ ~closed

\* Mutant: an asset whose callbacks are not done counts as loaded.
IsPresent(h) == loaded[h] # None \/ uploads[h] # None

\* UnloadAsset returns at once unless the handle is in p_LoadedAssets.
IsLoaded(h) == loaded[h] # None

LoadAsset(i) ==
  /\ Free
  /\ Len(queue) < MaxQueued
  /\ Careful => GetAssetLoadProgress(HandleOf[i]) = "NotLoaded"
  /\ queue' = Append(queue, i)
  /\ wanted' = [wanted EXCEPT ![HandleOf[i]] = "load"]
  /\ UNCHANGED <<futures, uploads, unloads, loaded, duplicate, pc, frame, calls,
                 closed, orphans>>

\* Mutant: every unload is done by UnloadModel.
ScheduleUnloadModel(map, h, type) == Emplace(map, h, "Model")

\* The function that is run later is chosen by the type in the caller's handle;
\* a handle of another type than Model and Texture schedules nothing.
ScheduleUnload(map, h, type) ==
  IF type \in {"Model", "Texture"} THEN Emplace(map, h, type) ELSE map

UnloadAsset(i) ==
  /\ Free
  /\ IsLoaded(HandleOf[i])
  /\ Careful => GetAssetLoadProgress(HandleOf[i]) = "Loaded"
  /\ unloads' = ScheduleUnload(unloads, HandleOf[i], TypeOf[i])
  /\ wanted' = [wanted EXCEPT ![HandleOf[i]] = "unload"]
  /\ UNCHANGED <<queue, futures, uploads, loaded, duplicate, pc, frame, calls,
                 closed, orphans>>

\* A client, or Engine::Shutdown, enters a blocking operation.
Call(ops, closing) ==
  /\ Free
  /\ calls' = ops
  /\ closed' = closing
  /\ UNCHANGED <<maps, duplicate, pc, frame, ghost>>

WaitAllAssets   == Call(<<"WaitAllAssets">>, FALSE)
WaitAllUnloads  == Call(<<"WaitAllUnloads">>, FALSE)
UnloadAllAssets ==
  /\ Careful => ~AnyAssetsLoading
  /\ Call(<<"UnloadAllAssets">>, FALSE)

\* Mutant: the loads that are still queued are waited for after the unloads.
ShutdownSwapped == Call(<<"UnloadAllAssets", "WaitAllAssets">>, TRUE)

Shutdown == Call(<<"WaitAllAssets", "WaitAllUnloads", "UnloadAllAssets">>, TRUE)

\* The while loop of a wait exits.
WaitReturns ==
  /\ pc = "caller" /\ calls # <<>>
  /\ \/ Head(calls) = "WaitAllAssets" /\ ~AnyAssetsLoading
     \/ Head(calls) = "WaitAllUnloads" /\ ~AnyAssetsUnloading
  /\ calls' = Tail(calls)
  /\ UNCHANGED <<maps, duplicate, pc, frame, closed, ghost>>

\* UnloadAllAssets calls UnloadAsset with the key of every loaded asset (the key
\* has the type the asset was loaded with), then waits.
UnloadEverything ==
  /\ pc = "caller" /\ calls # <<>> /\ Head(calls) = "UnloadAllAssets"
  /\ unloads' = [h \in Handle |->
                   IF loaded[h] # None
                   THEN ScheduleUnload(unloads, h, TypeOf[loaded[h].info])[h]
                   ELSE unloads[h]]
  /\ wanted' = [h \in Handle |-> IF loaded[h] # None THEN "unload" ELSE wanted[h]]
  /\ calls' = <<"WaitAllUnloads">> \o Tail(calls)
  /\ UNCHANGED <<queue, futures, uploads, loaded, duplicate, pc, frame, closed, orphans>>

(***************************************************************************)
(* OnUpdate, called once per frame by Engine::Run and in the loops of the  *)
(* waits.                                                                  *)
(***************************************************************************)
OnUpdate ==
  /\ pc = "caller"
  /\ \/ Free
     \/ calls # <<>> /\ Head(calls) = "WaitAllUnloads" /\ AnyAssetsUnloading
     \/ calls # <<>> /\ Head(calls) = "WaitAllAssets"
  /\ AnyAssetsLoading
  /\ pc' = "load_callbacks"
  /\ visit' = Keys(uploads)
  /\ processed' = 0
  /\ clears' = {}
  /\ UNCHANGED <<maps, duplicate, calls, closed, ghost>>

\* The inner loop counts i up and, with processedCallbacks and the vector it
\* pops from, moves both of its bounds towards i: it ends half way.
Half(n) == (n + 1) \div 2

\* Mutant: the loop only looks at the budget.
BatchBeyondTasks(left, room) == room

Batch(left, room) == Least(Half(left), Half(room))

\* Mutant: an entry is cleared without a look at the tasks it has left.
ClearedAnyway(h, n) == clears \cup {h}

\* An entry whose last callback ran is to be moved.
Cleared(h, n) == IF TasksLeft(uploads[h]) = n THEN clears \cup {h} ELSE clears

\* HandleLoadAndUnloadCallbacks, first loop: one entry, in the map's own order.
RunLoadCallbacks(h) ==
  /\ pc = "load_callbacks"
  /\ h \in visit
  /\ processed < CallbackTasksPerTick
  /\ LET n == Batch(TasksLeft(uploads[h]), CallbackTasksPerTick - processed) IN
       /\ uploads' = [uploads EXCEPT ![h].made = @ + n]
       /\ processed' = processed + n
       /\ clears' = Cleared(h, n)
  /\ visit' = visit \ {h}
  /\ UNCHANGED <<queue, futures, unloads, loaded, duplicate, pc, calls, closed, ghost>>

\* Second loop: the assets with no callbacks left move to p_LoadedAssets.
MoveToLoaded ==
  /\ pc = "load_callbacks"
  /\ visit = {} \/ processed = CallbackTasksPerTick
  /\ loaded' = [h \in Handle |->
                  IF h \in clears THEN Emplace(loaded, h, uploads[h])[h] ELSE loaded[h]]
  /\ orphans' = orphans \cup UNION {Discarded(h, uploads[h]) : h \in clears}
  /\ uploads' = [h \in Handle |-> IF h \in clears THEN None ELSE uploads[h]]
  /\ pc' = "unload_callbacks"
  /\ visit' = Keys(unloads)
  /\ clears' = {}
  /\ UNCHANGED <<queue, futures, unloads, duplicate, processed, calls, closed, wanted>>

\* UnloadModel and UnloadTexture dereference the asset, cast to their own type.
\* A null pointer, or an object of the other type, is undefined behaviour.
Undefined(h) ==
  \/ loaded[h] = None
  \/ loaded[h].null
  \/ TypeOf[loaded[h].info] # unloads[h]

RunUnloadCallback(h) ==
  /\ pc = "unload_callbacks"
  /\ h \in visit
  /\ processed < CallbackTasksPerTick
  /\ IF Undefined(h)
     THEN pc' = "crashed" /\ UNCHANGED <<processed, clears, visit>>
     ELSE /\ processed' = processed + 1
          /\ clears' = clears \cup {h}
          /\ visit' = visit \ {h}
          /\ UNCHANGED pc
  /\ UNCHANGED <<maps, duplicate, calls, closed, ghost>>

EraseUnloaded ==
  /\ pc = "unload_callbacks"
  /\ visit = {} \/ processed = CallbackTasksPerTick
  /\ unloads' = [h \in Handle |-> IF h \in clears THEN None ELSE unloads[h]]
  /\ loaded' = [h \in Handle |-> IF h \in clears THEN None ELSE loaded[h]]
  /\ pc' = "dispatch"
  /\ visit' = {}
  /\ processed' = 0
  /\ clears' = {}
  /\ UNCHANGED <<queue, futures, uploads, duplicate, calls, closed, ghost>>

(* HandlePendingLoads *)

\* Mutant: one future more than the limit.
HasRoomForOneMore == Cardinality(Keys(futures)) <= MaxAsyncTaskInFlight

HasRoom == Cardinality(Keys(futures)) < MaxAsyncTaskInFlight

\* Only models and textures have a loader; the rest is dropped from the queue.
\* std::async starts the thread before emplace finds the key taken; the future
\* that is not stored blocks the main thread in its destructor.
DispatchAssetLoadTask ==
  /\ pc = "dispatch" /\ HasRoom /\ queue # <<>>
  /\ LET i == Head(queue)
         h == HandleOf[i]
         future == [info |-> i, ready |-> FALSE]
     IN  IF HasLoader(i)
         THEN /\ futures' = Emplace(futures, h, future)
              /\ IF futures[h] = None
                 THEN UNCHANGED <<duplicate, pc>>
                 ELSE duplicate' = future /\ pc' = "join"
         ELSE UNCHANGED <<futures, duplicate, pc>>
  /\ queue' = Tail(queue)
  /\ UNCHANGED <<uploads, unloads, loaded, frame, calls, closed, ghost>>

\* The destructor of the temporary future returns: the result, with the raw
\* pointer to the asset, is lost.
JoinDuplicate ==
  /\ pc = "join" /\ duplicate # None /\ duplicate.ready
  /\ orphans' = IF FailsToOpen(duplicate.info) THEN orphans
                ELSE orphans \cup {<<HandleOf[duplicate.info], "asset">>}
  /\ duplicate' = None
  /\ pc' = "dispatch"
  /\ UNCHANGED <<maps, frame, calls, closed, wanted>>

DispatchReturns ==
  /\ pc = "dispatch"
  /\ ~HasRoom \/ queue = <<>>
  /\ pc' = "collect"
  /\ UNCHANGED <<maps, duplicate, frame, calls, closed, ghost>>

\* Polling the futures one by one sees the same as one look at all of them: what
\* is found ready is what had finished at some moment of the loop, had the
\* threads finished in another order.
CollectFinished ==
  /\ pc = "collect"
  /\ clears' = {h \in Keys(futures) : futures[h].ready}
  /\ pc' = "finish"
  /\ UNCHANGED <<maps, duplicate, visit, processed, calls, closed, ghost>>

\* An object at another address than the one that is loaded.
NewCopy(h) == IF loaded[h] = None THEN 0 ELSE 1 - loaded[h].copy

FinishLoad(h) ==
  /\ pc = "finish" /\ h \in clears
  /\ LET i == futures[h].info
         new == NewAssetsToLoad(i)
         asset == LoadedAsset(i, NewCopy(h))
     IN  /\ queue' = queue \o new
         /\ wanted' = [g \in Handle |-> IF \E k \in DOMAIN new : HandleOf[new[k]] = g
                                        THEN "load" ELSE wanted[g]]
         /\ IF GpuTasks(i) = 0
            THEN /\ loaded' = Emplace(loaded, h, asset)
                 /\ UNCHANGED <<uploads, orphans>>
            ELSE /\ uploads' = Emplace(uploads, h, asset)
                 /\ orphans' = IF uploads[h] # None THEN orphans \cup {<<h, "asset">>}
                               ELSE orphans
                 /\ UNCHANGED loaded
  /\ futures' = [futures EXCEPT ![h] = None]
  /\ clears' = clears \ {h}
  /\ UNCHANGED <<unloads, duplicate, pc, visit, processed, calls, closed>>

OnUpdateReturns ==
  /\ pc = "finish" /\ clears = {}
  /\ pc' = "caller"
  /\ UNCHANGED <<maps, duplicate, frame, calls, closed, ghost>>

(***************************************************************************)
(* The loader threads.                                                     *)
(***************************************************************************)
LoaderFinishes(h) ==
  /\ futures[h] # None
  /\ ~futures[h].ready
  /\ futures' = [futures EXCEPT ![h].ready = TRUE]
  /\ UNCHANGED <<queue, uploads, unloads, loaded, duplicate, pc, frame, calls, closed, ghost>>

DuplicateLoaderFinishes ==
  /\ duplicate # None
  /\ ~duplicate.ready
  /\ duplicate' = [duplicate EXCEPT !.ready = TRUE]
  /\ UNCHANGED <<maps, pc, frame, calls, closed, ghost>>

-----------------------------------------------------------------------------
Client ==
  \/ \E i \in Requests : LoadAsset(i) \/ UnloadAsset(i)
  \/ WaitAllAssets
  \/ WaitAllUnloads
  \/ UnloadAllAssets
  \/ Shutdown

Tick ==
  \/ OnUpdate
  \/ \E h \in Handle : RunLoadCallbacks(h)
  \/ MoveToLoaded
  \/ \E h \in Handle : RunUnloadCallback(h)
  \/ EraseUnloaded
  \/ DispatchAssetLoadTask
  \/ JoinDuplicate
  \/ DispatchReturns
  \/ CollectFinished
  \/ \E h \in Handle : FinishLoad(h)
  \/ OnUpdateReturns

Wait == WaitReturns \/ UnloadEverything

Loader == (\E h \in Handle : LoaderFinishes(h)) \/ DuplicateLoaderFinishes

\* OnUpdate returns at once when nothing is loading; after Shutdown, or a crash,
\* nothing more happens on the main thread.
Idle == (pc = "caller" /\ ~AnyAssetsLoading) \/ pc = "crashed"
Stutter == Idle /\ UNCHANGED vars

Next == Client \/ Tick \/ Wait \/ Loader \/ Stutter

\* The main thread keeps running (Engine::Run calls OnUpdate every frame, the
\* waits loop until they are done) and a loader thread, which parses one file,
\* ends.  Clients need not call anything.
Fairness ==
  /\ WF_vars(Tick \/ Wait)
  /\ \A h \in Handle : WF_vars(LoaderFinishes(h))
  /\ WF_vars(DuplicateLoaderFinishes)

Spec == Init /\ [][Next]_vars /\ Fairness

-----------------------------------------------------------------------------
(***************************************************************************)
(* Properties.                                                             *)
(***************************************************************************)

\* p_PendingUnloadCallbacks only has keys of loaded assets, so the operator[] in
\* HandleLoadAndUnloadCallbacks never inserts a null asset and calls back on it:
\* no load, duplicate load or unload that comes between takes the asset away.
UnloadsAreOfLoadedAssets == Keys(unloads) \subseteq Keys(loaded)

\* No loaded asset lacks a GPU object: the budget, the order of the map and the
\* ticks an upload is spread over never move it to p_LoadedAssets early, and an
\* asset waiting for callbacks always has one left (it would stay there forever).
LoadedAssetsAreUploaded ==
  /\ \A h \in Keys(loaded) : TasksLeft(loaded[h]) = 0
  /\ \A h \in Keys(uploads) :
       TasksLeft(uploads[h]) > 0 \/ (pc = "load_callbacks" /\ h \in clears)

\* p_MaxAsyncTaskInFlight bounds the loader threads that run, not only the
\* entries of the map: the thread of a duplicate counts as well.
RunningLoaders == {h \in Keys(futures) : ~futures[h].ready}
LoadersBounded ==
  Cardinality(RunningLoaders) + (IF duplicate # None /\ ~duplicate.ready THEN 1 ELSE 0)
    <= MaxAsyncTaskInFlight

\* A moment at which a client sees no work left.
Quiet == pc = "caller" /\ ~AnyAssetsLoading

\* When AnyAssetsLoading turns false every texture of a loaded model is loaded,
\* unless a client unloaded it: the loads a model adds to the queue survive
\* duplicates that were dropped.
TexturesOfLoadedModels ==
  Quiet => \A h \in Keys(loaded) : \A k \in DOMAIN NewAssetsToLoad(loaded[h].info) :
             LET t == HandleOf[NewAssetsToLoad(loaded[h].info)[k]]
             IN  loaded[t] # None \/ wanted[t] = "unload"

\* When AnyAssetsLoading turns false, what was asked for last has happened: an
\* asset whose load was the last request is loaded, by a client's LoadAsset or by
\* the one a model makes for its textures, and one last unloaded is gone.
LoadRequestsHold ==
  Quiet => \A i \in Info :
             HasLoader(i) /\ wanted[HandleOf[i]] = "load" => loaded[HandleOf[i]] # None
UnloadRequestsHold ==
  Quiet => \A i \in Info :
             HasLoader(i) /\ wanted[HandleOf[i]] = "unload" => loaded[HandleOf[i]] = None

\* Shutdown leaves no load, no thread and no asset behind.
ShutdownClearsUp ==
  (closed /\ calls = <<>> /\ pc = "caller") =>
     ~AnyAssetsLoading /\ Keys(loaded) = {} /\ duplicate = None

\* No Unload function is run on a null pointer or on an asset of another type.
NoCrash == pc # "crashed"

\* The GPU objects of every asset the manager lets go of were freed.
NoGpuLeak == \A h \in Handle : <<h, "gpu">> \notin orphans

\* The pointer GetAsset returns stays valid until UnloadAsset: a loaded asset is
\* never replaced, and only leaves the map after an unload was scheduled.
AssetPointersStable ==
  [][\A h \in Keys(loaded) : loaded'[h] = loaded[h] \/ (loaded'[h] = None /\ unloads[h] # None)]_vars

\* A blocking call returns, and Shutdown ends, whatever loads and duplicates are
\* still in the queue.
WaitsReturn == calls # <<>> ~> calls = <<>>

-----------------------------------------------------------------------------
(***************************************************************************)
(* The inductive invariant behind the safety properties.                   *)
(***************************************************************************)

\* Every map is keyed by the handle of what it stores.
KeysMatch ==
  /\ \A h \in Keys(futures) : HandleOf[futures[h].info] = h
  /\ \A h \in Keys(uploads) : HandleOf[uploads[h].info] = h
  /\ \A h \in Keys(loaded)  : HandleOf[loaded[h].info] = h

\* The locals of OnUpdate only hold keys the loop they belong to may use.
LocalsMatch ==
  /\ pc = "load_callbacks" =>
       /\ visit \subseteq Keys(uploads) \ clears
       /\ clears \subseteq Keys(uploads)
       /\ \A h \in clears : TasksLeft(uploads[h]) = 0
  /\ pc = "unload_callbacks" => visit \cup clears \subseteq Keys(unloads)
  /\ pc = "finish" => clears \subseteq Keys(futures)

\* A duplicate is only started below the limit, and the main thread waits for it.
DuplicateMatches ==
  /\ Cardinality(Keys(futures)) <= MaxAsyncTaskInFlight
  /\ duplicate # None => pc = "join" /\ HasRoom

\* Everything above, kept by every step.
SafetyInv ==
  /\ TypeOK
  /\ KeysMatch
  /\ LocalsMatch
  /\ DuplicateMatches
  /\ UnloadsAreOfLoadedAssets
  /\ LoadedAssetsAreUploaded
=============================================================================
