------------------------- MODULE AssetRequestProofs -------------------------
(***************************************************************************)
(* What requests come to, for every instance of AssetManager: no Unload    *)
(* function is run on what it is not made for, as long as models can be    *)
(* read; Shutdown leaves nothing behind; and the last request for every    *)
(* asset holds when nothing is loading, for clients that wait for one      *)
(* request before the opposite one and leave the textures to the models.   *)
(***************************************************************************)
EXTENDS AssetManagerProofs

\* Every model can be opened.
Readable == \A i \in Info : ~FailsToOpen(i)

\* Handles may collide, but not those of a model and a texture.
TypesOfHandles == \A i, j \in Info : HandleOf[i] = HandleOf[j] => TypeOf[i] = TypeOf[j]

\* No asset is null, and the function that waits for an asset is that of its type.
UnloadInv ==
  /\ \A h \in Keys(uploads) : ~uploads[h].null
  /\ \A h \in Keys(loaded) : ~loaded[h].null
  /\ \A h \in Keys(unloads) : unloads[h] = TypeOf[loaded[h].info]
  /\ NoCrash

\* UnloadInv does not depend on more than these.
LEMMA UnloadInvUnchanged ==
  ASSUME UnloadInv, UNCHANGED <<uploads, loaded, unloads>>, pc' # "crashed"
  PROVE  UnloadInv'
BY DEF UnloadInv, Keys, NoCrash

\* An unload that is scheduled has the type of the loaded asset.
LEMMA ScheduleMatches ==
  ASSUME UnloadInv, UNCHANGED <<uploads, loaded, pc>>,
         \A h \in Handle : unloads'[h] = unloads[h] \/ unloads'[h] = TypeOf[loaded[h].info]
  PROVE  UnloadInv'
BY DEF UnloadInv, Keys, NoCrash

\* Clients: UnloadAsset chooses the function by the type in the handle it is given.
LEMMA ClientUnloads ==
  ASSUME TypesOfHandles, SafetyInv, UnloadInv, Client \/ Wait
  PROVE  UnloadInv'
<1>. USE DEF maps, frame, ghost
<1>1. TypeOK /\ KeysMatch
  BY DEF SafetyInv
<1>2. ASSUME NEW i \in Requests, UnloadAsset(i) PROVE UnloadInv'
  <2>1. i \in Info /\ HandleOf[i] \in Handle /\ loaded[HandleOf[i]] # None
    BY <1>2, ConstantTypes DEF UnloadAsset, IsLoaded
  <2>2. loaded[HandleOf[i]].info \in Info /\ HandleOf[loaded[HandleOf[i]].info] = HandleOf[i]
    BY <1>1, <2>1 DEF KeysMatch, Keys, TypeOK, Asset
  <2>3. TypeOf[i] = TypeOf[loaded[HandleOf[i]].info]
    BY <2>1, <2>2 DEF TypesOfHandles
  <2>4. unloads' = unloads \/ unloads' = [unloads EXCEPT ![HandleOf[i]] = TypeOf[i]]
    BY <1>2 DEF UnloadAsset, ScheduleUnload, Emplace
  <2>5. \A h \in Handle : unloads'[h] = unloads[h] \/ unloads'[h] = TypeOf[loaded[h].info]
    BY <1>1, <2>1, <2>3, <2>4 DEF TypeOK
  <2>. QED BY <1>2, <2>5, ScheduleMatches DEF UnloadAsset
<1>3. CASE UnloadEverything
  <2>1. \A h \in Handle : unloads'[h] = unloads[h] \/ unloads'[h] = TypeOf[loaded[h].info]
    BY <1>1, <1>3 DEF UnloadEverything, ScheduleUnload, Emplace, TypeOK
  <2>. QED BY <1>3, <2>1, ScheduleMatches DEF UnloadEverything
<1>4. ASSUME (\E i \in Requests : LoadAsset(i)) \/ (\E ops, closing : Call(ops, closing)) \/ WaitReturns
      PROVE  UnloadInv'
  <2>1. UNCHANGED <<uploads, loaded, unloads, pc>>
    BY <1>4 DEF LoadAsset, Call, WaitReturns
  <2>. QED BY <2>1, UnloadInvUnchanged DEF UnloadInv, NoCrash
<1>5. ASSUME WaitAllAssets \/ WaitAllUnloads \/ UnloadAllAssets \/ Shutdown
      PROVE  \E ops, closing : Call(ops, closing)
  BY <1>5 DEF WaitAllAssets, WaitAllUnloads, UnloadAllAssets, Shutdown
<1>. QED BY <1>2, <1>3, <1>4, <1>5 DEF Client, Wait

\* OnUpdate: what it runs is there, is not null and has the right type; what it
\* moves to p_LoadedAssets is neither null nor waiting to be unloaded.
LEMMA TickUnloads ==
  ASSUME Readable, SafetyInv, UnloadInv, Tick
  PROVE  UnloadInv'
<1>. USE DEF maps, frame, ghost
<1>1. TypeOK /\ LocalsMatch /\ UnloadsAreOfLoadedAssets
  BY DEF SafetyInv
<1>2. ASSUME NEW h \in Handle, RunLoadCallbacks(h) PROVE UnloadInv'
  <2>. DEFINE n == Batch(TasksLeft(uploads[h]), CallbackTasksPerTick - processed)
  <2>1. h \in Keys(uploads) /\ uploads[h] \in Asset
    BY <1>1, <1>2 DEF RunLoadCallbacks, LocalsMatch, Keys, TypeOK
  <2>2. uploads' = [uploads EXCEPT ![h] = [uploads[h] EXCEPT !.made = @ + n]]
        /\ UNCHANGED <<loaded, unloads, pc>>
    BY <1>2 DEF RunLoadCallbacks
  <2>3. \A m : [uploads[h] EXCEPT !.made = m].null = uploads[h].null
    BY <2>1 DEF Asset
  <2>4. \A g \in Keys(uploads') : ~uploads'[g].null
    BY <1>1, <2>1, <2>2, <2>3 DEF UnloadInv, Keys, TypeOK
  <2>. QED BY <2>2, <2>4 DEF UnloadInv, Keys, NoCrash
<1>3. CASE MoveToLoaded
  <2>1. \A h \in Handle :
          /\ loaded'[h] = IF h \in clears /\ loaded[h] = None THEN uploads[h] ELSE loaded[h]
          /\ uploads'[h] = IF h \in clears THEN None ELSE uploads[h]
    BY <1>1, <1>3 DEF MoveToLoaded, Emplace, TypeOK
  <2>2. clears \subseteq Keys(uploads) /\ unloads' = unloads /\ pc' # "crashed"
    BY <1>1, <1>3 DEF MoveToLoaded, LocalsMatch
  <2>3. \A h \in Keys(unloads) : loaded'[h] = loaded[h]
    BY <1>1, <2>1 DEF UnloadsAreOfLoadedAssets, Keys
  <2>. QED BY <2>1, <2>2, <2>3 DEF UnloadInv, Keys, NoCrash
<1>4. ASSUME NEW h \in Handle, RunUnloadCallback(h) PROVE UnloadInv'
  <2>1. h \in Keys(unloads) /\ h \in Keys(loaded)
    BY <1>1, <1>4 DEF RunUnloadCallback, LocalsMatch, UnloadsAreOfLoadedAssets
  <2>2. ~Undefined(h)
    BY <2>1 DEF UnloadInv, Undefined, Keys
  <2>. QED BY <1>4, <2>2, UnloadInvUnchanged DEF RunUnloadCallback, UnloadInv, NoCrash
<1>5. CASE EraseUnloaded
  <2>1. \A h \in Handle :
          /\ loaded'[h] = IF h \in clears THEN None ELSE loaded[h]
          /\ unloads'[h] = IF h \in clears THEN None ELSE unloads[h]
    BY <1>5 DEF EraseUnloaded
  <2>2. uploads' = uploads /\ pc' # "crashed"
    BY <1>5 DEF EraseUnloaded
  <2>. QED BY <2>1, <2>2 DEF UnloadInv, Keys, NoCrash
<1>6. ASSUME NEW h \in Handle, FinishLoad(h) PROVE UnloadInv'
  <2>. DEFINE i == futures[h].info
              asset == LoadedAsset(i, NewCopy(h))
  <2>1. i \in Info
    BY <1>1, <1>6 DEF FinishLoad, LocalsMatch, Keys, TypeOK, Future
  <2>2. ~asset.null
    BY <2>1 DEF LoadedAsset, Readable
  <2>3. /\ loaded' = loaded \/ loaded' = Emplace(loaded, h, asset)
        /\ uploads' = uploads \/ uploads' = Emplace(uploads, h, asset)
        /\ UNCHANGED <<unloads, pc>>
    BY <1>6 DEF FinishLoad
  <2>4. \A g \in Handle :
          /\ loaded'[g] = loaded[g] \/ (loaded[g] = None /\ loaded'[g] = asset)
          /\ uploads'[g] = uploads[g] \/ (uploads[g] = None /\ uploads'[g] = asset)
    BY <1>1, <2>3 DEF Emplace, TypeOK
  <2>5. \A g \in Keys(unloads) : loaded'[g] = loaded[g]
    BY <1>1, <2>4 DEF UnloadsAreOfLoadedAssets, Keys
  <2>. QED BY <2>2, <2>3, <2>4, <2>5 DEF UnloadInv, Keys, NoCrash
<1>7. ASSUME OnUpdate \/ DispatchAssetLoadTask \/ JoinDuplicate \/ DispatchReturns
             \/ CollectFinished \/ OnUpdateReturns
      PROVE  UnloadInv'
  <2>1. UNCHANGED <<uploads, loaded, unloads>> /\ pc' # "crashed"
    BY <1>7 DEF OnUpdate, DispatchAssetLoadTask, JoinDuplicate, DispatchReturns, CollectFinished,
                OnUpdateReturns
  <2>. QED BY <2>1, UnloadInvUnchanged
<1>. QED BY <1>2, <1>3, <1>4, <1>5, <1>6, <1>7 DEF Tick

\* No Unload function is run on a null pointer or on an asset of another type, when
\* every model can be opened and no model shares a hash with a texture.
THEOREM UnloadsNeverCrash ==
  ASSUME Readable, TypesOfHandles
  PROVE  Spec => []NoCrash
<1>1. Init => UnloadInv
  BY DEF Init, UnloadInv, Keys, NoCrash
<1>2. SafetyInv /\ UnloadInv /\ [Next]_vars => UnloadInv'
  <2>1. ASSUME SafetyInv, UnloadInv, Loader \/ UNCHANGED vars PROVE UnloadInv'
    <3>1. UNCHANGED <<uploads, loaded, unloads, pc>>
      BY <2>1 DEF Loader, LoaderFinishes, DuplicateLoaderFinishes, vars, maps
    <3>. QED BY <2>1, <3>1, UnloadInvUnchanged DEF UnloadInv, NoCrash
  <2>. QED BY <2>1, ClientUnloads, TickUnloads DEF Next, Stutter
<1>3. UnloadInv => NoCrash
  BY DEF UnloadInv
<1>. QED BY <1>1, <1>2, <1>3, SafetyInvariant, PTL DEF Spec

-----------------------------------------------------------------------------
(***************************************************************************)
(* Shutdown: it waits for all loads, then for all unloads, and unloads what *)
(* is loaded, while no client calls anything any more.                     *)
(***************************************************************************)

\* Nothing is loading or waiting to be uploaded.
NothingLoads == queue = <<>> /\ Keys(futures) = {} /\ Keys(uploads) = {} /\ duplicate = None

\* How far Shutdown has come: first everything may still be going on, then nothing is,
\* then what is loaded waits to be unloaded, then nothing is left.
Stages ==
  closed =>
    \/ calls = <<"WaitAllAssets", "WaitAllUnloads", "UnloadAllAssets">>
    \/ /\ calls \in {<<"WaitAllUnloads", "UnloadAllAssets">>, <<"UnloadAllAssets">>}
       /\ pc = "caller" /\ NothingLoads /\ Keys(unloads) = {}
    \/ /\ calls = <<"WaitAllUnloads">>
       /\ pc # "join" /\ NothingLoads /\ Keys(loaded) \subseteq Keys(unloads)
    \/ /\ calls = <<>>
       /\ pc = "caller" /\ NothingLoads /\ Keys(unloads) = {} /\ Keys(loaded) = {}

\* Only models and textures are loaded.
LoadersOnly ==
  /\ \A h \in Keys(futures) : HasLoader(futures[h].info)
  /\ \A h \in Keys(uploads) : HasLoader(uploads[h].info)
  /\ \A h \in Keys(loaded) : HasLoader(loaded[h].info)

\* A future is only started for what has a loader, and its asset is of the same file.
LEMMA LoadersKeep ==
  ASSUME SafetyInv, LoadersOnly, [Next]_vars
  PROVE  LoadersOnly'
<1>. USE DEF maps, frame, ghost
<1>1. TypeOK /\ LocalsMatch
  BY DEF SafetyInv
<1>2. ASSUME UNCHANGED <<futures, uploads, loaded>> PROVE LoadersOnly'
  BY <1>2 DEF LoadersOnly, Keys, HasLoader
<1>3. ASSUME Client \/ Wait \/ UNCHANGED vars \/ DuplicateLoaderFinishes PROVE LoadersOnly'
  <2>1. UNCHANGED <<futures, uploads, loaded>>
    BY <1>3 DEF Client, Wait, LoadAsset, UnloadAsset, Call, WaitAllAssets, WaitAllUnloads,
                UnloadAllAssets, Shutdown, WaitReturns, UnloadEverything, vars, DuplicateLoaderFinishes
  <2>. QED BY <1>2, <2>1
<1>4. ASSUME NEW h \in Handle, LoaderFinishes(h) PROVE LoadersOnly'
  <2>1. futures[h] \in Future /\ futures' = [futures EXCEPT ![h] = [futures[h] EXCEPT !.ready = TRUE]]
        /\ UNCHANGED <<uploads, loaded>>
    BY <1>1, <1>4 DEF LoaderFinishes, TypeOK
  <2>2. [futures[h] EXCEPT !.ready = TRUE].info = futures[h].info
    BY <2>1 DEF Future
  <2>3. \A g \in Keys(futures') : g \in Keys(futures) /\ futures'[g].info = futures[g].info
    BY <1>1, <1>4, <2>1, <2>2 DEF Keys, TypeOK, LoaderFinishes
  <2>. QED BY <2>1, <2>3 DEF LoadersOnly, Keys, HasLoader
<1>5. ASSUME NEW h \in Handle, RunLoadCallbacks(h) PROVE LoadersOnly'
  <2>. DEFINE n == Batch(TasksLeft(uploads[h]), CallbackTasksPerTick - processed)
  <2>1. uploads[h] \in Asset /\ h \in Keys(uploads)
    BY <1>1, <1>5 DEF RunLoadCallbacks, LocalsMatch, Keys, TypeOK
  <2>2. uploads' = [uploads EXCEPT ![h] = [uploads[h] EXCEPT !.made = @ + n]]
        /\ UNCHANGED <<loaded, futures>>
    BY <1>5 DEF RunLoadCallbacks
  <2>3. \A m : [uploads[h] EXCEPT !.made = m].info = uploads[h].info
    BY <2>1 DEF Asset
  <2>4. \A g \in Keys(uploads') : g \in Keys(uploads) /\ uploads'[g].info = uploads[g].info
    BY <1>1, <2>1, <2>2, <2>3 DEF Keys, TypeOK
  <2>. QED BY <2>2, <2>4 DEF LoadersOnly, Keys, HasLoader
<1>6. CASE MoveToLoaded
  <2>1. \A h \in Handle :
          /\ loaded'[h] = IF h \in clears /\ loaded[h] = None THEN uploads[h] ELSE loaded[h]
          /\ uploads'[h] = IF h \in clears THEN None ELSE uploads[h]
    BY <1>1, <1>6 DEF MoveToLoaded, Emplace, TypeOK
  <2>2. clears \subseteq Keys(uploads) /\ futures' = futures
    BY <1>1, <1>6 DEF MoveToLoaded, LocalsMatch
  <2>. QED BY <2>1, <2>2 DEF LoadersOnly, Keys, HasLoader
<1>7. CASE EraseUnloaded
  <2>1. \A h \in Handle : loaded'[h] = IF h \in clears THEN None ELSE loaded[h]
    BY <1>7 DEF EraseUnloaded
  <2>2. UNCHANGED <<futures, uploads>>
    BY <1>7 DEF EraseUnloaded
  <2>. QED BY <2>1, <2>2 DEF LoadersOnly, Keys, HasLoader
<1>8. CASE DispatchAssetLoadTask
  <2>. DEFINE i == Head(queue)
              future == [info |-> i, ready |-> FALSE]
  <2>1. futures' = futures \/ (HasLoader(i) /\ futures' = Emplace(futures, HandleOf[i], future))
    BY <1>8 DEF DispatchAssetLoadTask
  <2>2. \A g \in Handle : futures'[g] = futures[g] \/ (HasLoader(i) /\ futures'[g] = future)
    BY <1>1, <2>1 DEF Emplace, TypeOK
  <2>3. UNCHANGED <<uploads, loaded>> /\ future.info = i
    BY <1>8 DEF DispatchAssetLoadTask
  <2>. HIDE DEF i, future
  <2>. QED BY <2>2, <2>3 DEF LoadersOnly, Keys, HasLoader
<1>9. ASSUME NEW h \in Handle, FinishLoad(h) PROVE LoadersOnly'
  <2>. DEFINE i == futures[h].info
              asset == LoadedAsset(i, NewCopy(h))
  <2>1. HasLoader(i)
    BY <1>1, <1>9 DEF FinishLoad, LocalsMatch, LoadersOnly
  <2>2. asset.info = i
    BY DEF LoadedAsset
  <2>3. /\ loaded' = loaded \/ loaded' = Emplace(loaded, h, asset)
        /\ uploads' = uploads \/ uploads' = Emplace(uploads, h, asset)
        /\ futures' = [futures EXCEPT ![h] = None]
    BY <1>9 DEF FinishLoad
  <2>. HIDE DEF i, asset
  <2>4. \A g \in Handle :
          /\ loaded'[g] = loaded[g] \/ loaded'[g] = asset
          /\ uploads'[g] = uploads[g] \/ uploads'[g] = asset
          /\ futures'[g] = futures[g] \/ futures'[g] = None
    BY <1>1, <2>3 DEF Emplace, TypeOK
  <2>. QED BY <2>1, <2>2, <2>4 DEF LoadersOnly, Keys, HasLoader
<1>10. ASSUME OnUpdate \/ JoinDuplicate \/ DispatchReturns \/ CollectFinished \/ OnUpdateReturns
              \/ \E h \in Handle : RunUnloadCallback(h)
       PROVE  LoadersOnly'
  <2>1. UNCHANGED <<futures, uploads, loaded>>
    BY <1>10 DEF OnUpdate, JoinDuplicate, DispatchReturns, CollectFinished, OnUpdateReturns,
                 RunUnloadCallback
  <2>. QED BY <1>2, <2>1
<1>. QED BY <1>3, <1>4, <1>5, <1>6, <1>7, <1>8, <1>9, <1>10 DEF Next, Stutter, Tick, Loader

\* The waits and UnloadEverything take Shutdown from one stage to the next.
LEMMA WaitStages ==
  ASSUME SafetyInv, LoadersOnly, Stages, Wait
  PROVE  Stages'
<1>. USE DEF maps, frame, ghost
<1>1. TypeOK /\ (pc = "caller" => duplicate = None)
  BY DEF SafetyInv, DuplicateMatches
<1>2. CASE ~closed
  BY <1>2 DEF Wait, WaitReturns, UnloadEverything, Stages
<1>3. CASE closed /\ WaitReturns
  <2>1. /\ pc = "caller" /\ pc' = pc /\ calls # <<>> /\ calls' = Tail(calls)
        /\ UNCHANGED <<queue, futures, uploads, unloads, loaded, duplicate, closed>>
        /\ \/ Head(calls) = "WaitAllAssets" /\ ~AnyAssetsLoading
           \/ Head(calls) = "WaitAllUnloads" /\ ~AnyAssetsUnloading
    BY <1>3 DEF WaitReturns
  <2>2. CASE calls = <<"WaitAllAssets", "WaitAllUnloads", "UnloadAllAssets">>
    <3>1. Head(calls) = "WaitAllAssets" /\ calls' = <<"WaitAllUnloads", "UnloadAllAssets">>
      BY <2>1, <2>2
    <3>2. NothingLoads /\ Keys(unloads) = {}
      BY <1>1, <2>1, <3>1 DEF AnyAssetsLoading, NothingLoads
    <3>. QED BY <2>1, <3>1, <3>2 DEF Stages, NothingLoads, Keys
  <2>3. CASE calls = <<"WaitAllUnloads", "UnloadAllAssets">>
    <3>1. calls' = <<"UnloadAllAssets">>
      BY <2>1, <2>3
    <3>2. NothingLoads /\ Keys(unloads) = {}
      BY <1>3, <2>3 DEF Stages
    <3>. QED BY <2>1, <3>1, <3>2 DEF Stages, NothingLoads, Keys
  <2>4. CASE calls = <<"UnloadAllAssets">>
    BY <2>1, <2>4
  <2>5. CASE calls = <<"WaitAllUnloads">>
    <3>1. calls' = <<>> /\ ~AnyAssetsUnloading
      BY <2>1, <2>5
    <3>2. NothingLoads /\ Keys(loaded) \subseteq Keys(unloads) /\ Keys(unloads) = {}
      BY <1>3, <2>5, <3>1 DEF Stages, AnyAssetsUnloading
    <3>. QED BY <2>1, <3>1, <3>2 DEF Stages, NothingLoads, Keys
  <2>. QED BY <1>3, <2>1, <2>2, <2>3, <2>4, <2>5 DEF Stages
<1>4. CASE closed /\ UnloadEverything
  <2>1. /\ pc = "caller" /\ pc' = pc /\ calls # <<>> /\ Head(calls) = "UnloadAllAssets"
        /\ calls' = <<"WaitAllUnloads">> \o Tail(calls)
        /\ UNCHANGED <<queue, futures, uploads, loaded, duplicate, closed>>
    BY <1>4 DEF UnloadEverything
  <2>2. calls = <<"UnloadAllAssets">> /\ NothingLoads
    BY <1>4, <2>1 DEF Stages
  <2>3. calls' = <<"WaitAllUnloads">>
    BY <2>1, <2>2
  <2>4. \A h \in Keys(loaded) : unloads'[h] # None
    <3>1. SUFFICES ASSUME NEW h \in Keys(loaded) PROVE unloads'[h] # None
      OBVIOUS
    <3>2. h \in Handle /\ TypeOf[loaded[h].info] \in {"Model", "Texture"}
      BY <3>1 DEF LoadersOnly, HasLoader, Keys
    <3>3. unloads'[h] = Emplace(unloads, h, TypeOf[loaded[h].info])[h]
      BY <1>4, <3>1, <3>2 DEF UnloadEverything, ScheduleUnload, Keys
    <3>4. TypeOf[loaded[h].info] # None
      BY <3>2, NoneAssumption DEF AssetType
    <3>. QED BY <1>1, <3>2, <3>3, <3>4 DEF Emplace, TypeOK
  <2>5. NothingLoads'
    BY <2>1, <2>2 DEF NothingLoads, Keys
  <2>. QED BY <2>1, <2>3, <2>4, <2>5 DEF Stages, Keys
<1>. QED BY <1>2, <1>3, <1>4 DEF Wait

\* When nothing loads, OnUpdate does nothing but unload: what is loaded and its unload
\* go together.
LEMMA TickStages ==
  ASSUME SafetyInv, Stages, Tick \/ Loader
  PROVE  Stages'
<1>. USE DEF maps, frame, ghost
<1>1. TypeOK /\ LocalsMatch
  BY DEF SafetyInv
<1>2. UNCHANGED <<calls, closed>>
  BY DEF Tick, Loader, OnUpdate, RunLoadCallbacks, MoveToLoaded, RunUnloadCallback, EraseUnloaded,
         DispatchAssetLoadTask, JoinDuplicate, DispatchReturns, CollectFinished, FinishLoad,
         OnUpdateReturns, LoaderFinishes, DuplicateLoaderFinishes
<1>3. CASE ~closed \/ calls = <<"WaitAllAssets", "WaitAllUnloads", "UnloadAllAssets">>
  BY <1>2, <1>3 DEF Stages
<1>4. ASSUME pc = "caller", NothingLoads, Keys(unloads) = {} PROVE FALSE
  <2>1. ~AnyAssetsLoading
    BY <1>4 DEF AnyAssetsLoading, NothingLoads
  <2>2. ~Tick
    BY <1>4, <2>1 DEF Tick, OnUpdate, RunLoadCallbacks, MoveToLoaded, RunUnloadCallback, EraseUnloaded,
         DispatchAssetLoadTask, JoinDuplicate, DispatchReturns, CollectFinished, FinishLoad, OnUpdateReturns
  <2>3. ~Loader
    BY <1>4 DEF Loader, LoaderFinishes, DuplicateLoaderFinishes, NothingLoads, Keys
  <2>. QED BY <2>2, <2>3
<1>5. CASE closed /\ calls = <<"WaitAllUnloads">>
  <2>1. pc # "join" /\ NothingLoads /\ Keys(loaded) \subseteq Keys(unloads)
    BY <1>5 DEF Stages
  <2>2. ~Loader
    BY <2>1 DEF Loader, LoaderFinishes, DuplicateLoaderFinishes, NothingLoads, Keys
  <2>3. ~(\E h \in Handle : RunLoadCallbacks(h)) /\ ~(\E h \in Handle : FinishLoad(h))
    BY <1>1, <2>1 DEF RunLoadCallbacks, FinishLoad, LocalsMatch, NothingLoads
  <2>4. ~DispatchAssetLoadTask /\ ~JoinDuplicate
    BY <2>1 DEF DispatchAssetLoadTask, JoinDuplicate, NothingLoads
  <2>5. CASE MoveToLoaded
    <3>1. clears = {}
      BY <1>1, <2>1, <2>5 DEF MoveToLoaded, LocalsMatch, NothingLoads
    <3>2. \A h \in Handle : loaded'[h] = loaded[h] /\ uploads'[h] = uploads[h]
      BY <2>5, <3>1 DEF MoveToLoaded
    <3>3. UNCHANGED <<queue, futures, unloads, duplicate>> /\ pc' # "join"
      BY <2>5 DEF MoveToLoaded
    <3>. QED BY <1>2, <1>5, <2>1, <3>2, <3>3 DEF Stages, NothingLoads, Keys
  <2>6. CASE EraseUnloaded
    <3>1. \A h \in Handle :
            /\ loaded'[h] = IF h \in clears THEN None ELSE loaded[h]
            /\ unloads'[h] = IF h \in clears THEN None ELSE unloads[h]
      BY <2>6 DEF EraseUnloaded
    <3>2. UNCHANGED <<queue, futures, uploads, duplicate>> /\ pc' # "join"
      BY <2>6 DEF EraseUnloaded
    <3>. QED BY <1>2, <1>5, <2>1, <3>1, <3>2 DEF Stages, NothingLoads, Keys
  <2>7. CASE OnUpdate \/ DispatchReturns \/ CollectFinished \/ OnUpdateReturns
             \/ \E h \in Handle : RunUnloadCallback(h)
    <3>1. UNCHANGED <<queue, futures, uploads, unloads, loaded, duplicate>> /\ pc' # "join"
      BY <2>1, <2>7 DEF OnUpdate, DispatchReturns, CollectFinished, OnUpdateReturns, RunUnloadCallback
    <3>. QED BY <1>2, <1>5, <2>1, <3>1 DEF Stages, NothingLoads, Keys
  <2>. QED BY <2>2, <2>3, <2>4, <2>5, <2>6, <2>7 DEF Tick
<1>. QED BY <1>3, <1>4, <1>5 DEF Stages

\* Clients take Shutdown to its first stage and no further.
LEMMA StagesKeep ==
  ASSUME SafetyInv, LoadersOnly, Stages, [Next]_vars
  PROVE  Stages'
<1>1. ASSUME Client PROVE Stages'
  <2>1. ~closed
    BY <1>1 DEF Client, LoadAsset, UnloadAsset, Call, WaitAllAssets, WaitAllUnloads,
                UnloadAllAssets, Shutdown, Free
  <2>2. CASE Shutdown
    BY <2>2 DEF Shutdown, Call, Stages
  <2>3. CASE ~Shutdown
    BY <1>1, <2>1, <2>3 DEF Client, LoadAsset, UnloadAsset, Call, WaitAllAssets, WaitAllUnloads,
                UnloadAllAssets, Stages
  <2>. QED BY <2>2, <2>3
<1>2. ASSUME UNCHANGED vars PROVE Stages'
  BY <1>2 DEF Stages, vars, maps, frame, ghost, NothingLoads, Keys
<1>. QED BY <1>1, <1>2, WaitStages, TickStages DEF Next, Stutter

\* Shutdown leaves no load, no thread and no asset behind, whatever was loading or
\* unloading when it was called.
THEOREM ShutdownLeavesNothing == Spec => []ShutdownClearsUp
<1>1. Init => LoadersOnly /\ Stages
  BY DEF Init, LoadersOnly, Stages, Keys
<1>2. Stages => ShutdownClearsUp
  BY DEF Stages, ShutdownClearsUp, NothingLoads, AnyAssetsLoading
<1>3. SafetyInv /\ LoadersOnly /\ [Next]_vars => LoadersOnly'
  BY LoadersKeep
<1>4. SafetyInv /\ LoadersOnly /\ Stages /\ [Next]_vars => Stages'
  BY StagesKeep
<1>. QED BY <1>1, <1>2, <1>3, <1>4, SafetyInvariant, PTL DEF Spec

-----------------------------------------------------------------------------
(***************************************************************************)
(* The last request for every asset.                                       *)
(***************************************************************************)

\* Clients wait, and do not ask for textures themselves.
ModelRequests ==
  /\ Careful
  /\ TypesOfHandles
  /\ \A i \in Requests : TypeOf[i] # "Texture"

\* A load of the asset is queued, running, or uploading.
InFlight(h) == IsQueued(h) \/ futures[h] # None \/ uploads[h] # None

TextureHandles(i) == {HandleOf[NewAssetsToLoad(i)[k]] : k \in DOMAIN NewAssetsToLoad(i)}

\* What was asked for last is under way or done.
UnloadsUnderWay ==
  /\ \A h \in Keys(unloads) : wanted[h] = "unload"
  /\ \A h \in Handle : wanted[h] = "unload" =>
       ~InFlight(h) /\ (loaded[h] = None \/ unloads[h] # None)

LoadsUnderWay ==
  \A i \in Info : HasLoader(i) /\ wanted[HandleOf[i]] = "load" =>
    \/ InFlight(HandleOf[i])
    \/ loaded[HandleOf[i]] # None /\ unloads[HandleOf[i]] = None

TexturesWanted ==
  /\ \A h \in Keys(uploads) : \A t \in TextureHandles(uploads[h].info) : wanted[t] # "none"
  /\ \A h \in Keys(loaded) : \A t \in TextureHandles(loaded[h].info) : wanted[t] # "none"

\* Textures are only unloaded by a call that begins when nothing is loading, and the
\* main thread makes no other one until it returns.
TexturesUnloadAlone ==
  /\ \A i \in Info : TypeOf[i] = "Texture" /\ unloads[HandleOf[i]] # None =>
       NothingLoads /\ calls = <<"WaitAllUnloads">>
  /\ calls = <<"UnloadAllAssets">> => pc = "caller" /\ NothingLoads
  /\ closed \/ calls \in {<<>>, <<"WaitAllAssets">>, <<"WaitAllUnloads">>, <<"UnloadAllAssets">>}

RequestInv ==
  /\ UnloadsUnderWay
  /\ LoadsUnderWay
  /\ TexturesWanted
  /\ TexturesUnloadAlone

\* What a step without requests has to do for RequestInv: nothing comes into flight,
\* what was in flight stays so or gets loaded, and unloading goes with the unload.
LEMMA QuietStep ==
  ASSUME RequestInv, UNCHANGED <<wanted, calls, closed>>,
         \A h \in Handle : InFlight(h)' => InFlight(h),
         \A i \in Info : HasLoader(i) /\ InFlight(HandleOf[i]) =>
           InFlight(HandleOf[i])' \/ loaded'[HandleOf[i]] # None,
         \A h \in Handle :
           /\ loaded'[h] # None => loaded[h] # None \/ InFlight(h)
           /\ unloads'[h] # None => unloads[h] # None
           /\ unloads[h] # None /\ unloads'[h] = None => loaded'[h] = None
           /\ loaded[h] # None /\ loaded'[h] = None => unloads[h] # None,
         \A h \in Keys(uploads') : h \in Keys(uploads) /\ uploads'[h].info = uploads[h].info,
         \A h \in Keys(loaded') : \/ h \in Keys(uploads) /\ loaded'[h].info = uploads[h].info
                                  \/ h \in Keys(loaded) /\ loaded'[h].info = loaded[h].info,
         NothingLoads => NothingLoads',
         calls = <<"UnloadAllAssets">> => pc' = pc
  PROVE  RequestInv'
<1>1. \A i \in Info : HandleOf[i] \in Handle
  BY ConstantTypes
<1>2. UnloadsUnderWay'
  BY DEF RequestInv, UnloadsUnderWay, Keys
<1>3. LoadsUnderWay'
  <2>1. SUFFICES ASSUME NEW i \in Info, HasLoader(i), wanted'[HandleOf[i]] = "load"
                 PROVE  \/ InFlight(HandleOf[i])'
                        \/ loaded'[HandleOf[i]] # None /\ unloads'[HandleOf[i]] = None
    BY DEF LoadsUnderWay, HasLoader
  <2>2. HandleOf[i] \in Handle /\ wanted[HandleOf[i]] = "load"
    BY <1>1, <2>1
  <2>3. unloads[HandleOf[i]] = None
    BY <2>2 DEF RequestInv, UnloadsUnderWay, Keys
  <2>4. unloads'[HandleOf[i]] = None
    BY <2>2, <2>3
  <2>5. InFlight(HandleOf[i]) \/ loaded[HandleOf[i]] # None
    BY <2>1, <2>2 DEF RequestInv, LoadsUnderWay
  <2>. QED BY <2>1, <2>2, <2>3, <2>4, <2>5
<1>4. TexturesWanted'
  <2>1. ASSUME NEW h \in Keys(uploads'), NEW t \in TextureHandles(uploads'[h].info)
        PROVE  wanted'[t] # "none"
    <3>1. h \in Keys(uploads) /\ t \in TextureHandles(uploads[h].info)
      BY <2>1
    <3>. QED BY <3>1 DEF RequestInv, TexturesWanted
  <2>2. ASSUME NEW h \in Keys(loaded'), NEW t \in TextureHandles(loaded'[h].info)
        PROVE  wanted'[t] # "none"
    <3>1. \/ h \in Keys(uploads) /\ t \in TextureHandles(uploads[h].info)
          \/ h \in Keys(loaded) /\ t \in TextureHandles(loaded[h].info)
      BY <2>2
    <3>. QED BY <3>1 DEF RequestInv, TexturesWanted
  <2>. QED BY <2>1, <2>2 DEF TexturesWanted
<1>5. TexturesUnloadAlone'
  BY <1>1 DEF RequestInv, TexturesUnloadAlone
<1>. QED BY <1>2, <1>3, <1>4, <1>5 DEF RequestInv

\* The loop over the loads, the loaders and everything in OnUpdate that takes nothing in.
LEMMA RestOfTickRequests ==
  ASSUME SafetyInv, RequestInv,
         \/ OnUpdate \/ JoinDuplicate \/ DispatchReturns \/ CollectFinished \/ OnUpdateReturns
         \/ EraseUnloaded \/ MoveToLoaded \/ Loader
         \/ \E h \in Handle : RunUnloadCallback(h) \/ RunLoadCallbacks(h)
  PROVE  RequestInv'
<1>. USE DEF maps, frame, ghost
<1>1. TypeOK /\ LocalsMatch /\ UnloadsAreOfLoadedAssets
  BY DEF SafetyInv
<1>2. \A h \in Handle : unloads[h] # None => loaded[h] # None /\ ~InFlight(h)
  BY <1>1 DEF UnloadsAreOfLoadedAssets, RequestInv, UnloadsUnderWay, Keys
<1>3. calls = <<"UnloadAllAssets">> => pc = "caller" /\ NothingLoads /\ calls # <<>>
                                     /\ Head(calls) = "UnloadAllAssets"
  BY DEF RequestInv, TexturesUnloadAlone
<1>4. CASE OnUpdate \/ JoinDuplicate \/ DispatchReturns \/ CollectFinished \/ OnUpdateReturns
           \/ \E h \in Handle : RunUnloadCallback(h)
  <2>1. UNCHANGED <<queue, futures, uploads, unloads, loaded, wanted, calls, closed>>
    BY <1>4 DEF OnUpdate, JoinDuplicate, DispatchReturns, CollectFinished, OnUpdateReturns, RunUnloadCallback
  <2>2. duplicate' = duplicate \/ duplicate' = None
    BY <1>4 DEF OnUpdate, JoinDuplicate, DispatchReturns, CollectFinished, OnUpdateReturns, RunUnloadCallback
  <2>3. NothingLoads => NothingLoads'
    BY <2>1, <2>2 DEF NothingLoads, Keys
  <2>4. calls = <<"UnloadAllAssets">> => pc' = pc
    BY <1>3, <1>4 DEF OnUpdate, Free, JoinDuplicate, DispatchReturns, CollectFinished, OnUpdateReturns,
                      RunUnloadCallback
  <2>5. \A h \in Handle : InFlight(h)' = InFlight(h)
    BY <2>1 DEF InFlight, IsQueued
  <2>6. \A i \in Info : HandleOf[i] \in Handle
    BY ConstantTypes
  <2>. QED BY <2>1, <2>3, <2>4, <2>5, <2>6, QuietStep
<1>5. CASE EraseUnloaded
  <2>1. \A h \in Handle :
          /\ loaded'[h] = IF h \in clears THEN None ELSE loaded[h]
          /\ unloads'[h] = IF h \in clears THEN None ELSE unloads[h]
    BY <1>5 DEF EraseUnloaded
  <2>2. /\ pc = "unload_callbacks" /\ clears \subseteq Keys(unloads)
        /\ UNCHANGED <<queue, futures, uploads, duplicate, wanted, calls, closed>>
    BY <1>1, <1>5 DEF EraseUnloaded, LocalsMatch
  <2>3. NothingLoads => NothingLoads'
    BY <2>2 DEF NothingLoads, Keys
  <2>4. \A h \in Handle : InFlight(h)' = InFlight(h)
    BY <2>2 DEF InFlight, IsQueued
  <2>5. \A i \in Info : HandleOf[i] \in Handle
    BY ConstantTypes
  <2>6. \A h \in Keys(loaded') : h \in Keys(loaded) /\ loaded'[h] = loaded[h]
    BY <2>1 DEF Keys
  <2>7. \A h \in Handle :
          /\ loaded'[h] # None => loaded[h] # None
          /\ unloads'[h] # None => unloads[h] # None
          /\ unloads[h] # None /\ unloads'[h] = None => loaded'[h] = None
          /\ loaded[h] # None /\ loaded'[h] = None => unloads[h] # None
    BY <2>1, <2>2 DEF Keys
  <2>8. \A i \in Info : InFlight(HandleOf[i]) => InFlight(HandleOf[i])'
    BY <2>4, <2>5
  <2>. QED BY <1>3, <2>2, <2>3, <2>4, <2>6, <2>7, <2>8, QuietStep
<1>6. CASE MoveToLoaded
  <2>1. \A h \in Handle :
          /\ loaded'[h] = IF h \in clears /\ loaded[h] = None THEN uploads[h] ELSE loaded[h]
          /\ uploads'[h] = IF h \in clears THEN None ELSE uploads[h]
    BY <1>1, <1>6 DEF MoveToLoaded, Emplace, TypeOK
  <2>2. /\ pc = "load_callbacks" /\ clears \subseteq Keys(uploads)
        /\ UNCHANGED <<queue, futures, unloads, duplicate, wanted, calls, closed>>
    BY <1>1, <1>6 DEF MoveToLoaded, LocalsMatch
  <2>3. NothingLoads => NothingLoads'
    BY <2>1, <2>2 DEF NothingLoads, Keys
  <2>4. \A h \in Handle : /\ InFlight(h)' => InFlight(h)
                          /\ InFlight(h) => InFlight(h)' \/ loaded'[h] # None
    BY <2>1, <2>2 DEF InFlight, IsQueued, Keys
  <2>5. \A h \in Handle : /\ loaded'[h] # None => loaded[h] # None \/ InFlight(h)
                          /\ loaded[h] # None => loaded'[h] # None
    BY <2>1, <2>2 DEF InFlight, Keys
  <2>6. \A i \in Info : HandleOf[i] \in Handle
    BY ConstantTypes
  <2>7. \A h \in Keys(uploads') : h \in Keys(uploads) /\ uploads'[h].info = uploads[h].info
    BY <2>1 DEF Keys
  <2>8. \A h \in Keys(loaded') : \/ h \in Keys(uploads) /\ loaded'[h].info = uploads[h].info
                                 \/ h \in Keys(loaded) /\ loaded'[h].info = loaded[h].info
    BY <2>1, <2>2 DEF Keys
  <2>9. \A i \in Info : InFlight(HandleOf[i]) => InFlight(HandleOf[i])' \/ loaded'[HandleOf[i]] # None
    BY <2>4, <2>6
  <2>10. calls # <<"UnloadAllAssets">>
    BY <1>3, <2>2
  <2>11. \A h \in Handle :
           /\ loaded'[h] # None => loaded[h] # None \/ InFlight(h)
           /\ unloads'[h] # None => unloads[h] # None
           /\ unloads[h] # None /\ unloads'[h] = None => loaded'[h] = None
           /\ loaded[h] # None /\ loaded'[h] = None => unloads[h] # None
    BY <2>2, <2>5
  <2>12. \A h \in Handle : InFlight(h)' => InFlight(h)
    BY <2>4
  <2>. QED BY <2>2, <2>3, <2>7, <2>8, <2>9, <2>10, <2>11, <2>12, QuietStep
<1>7. ASSUME NEW h \in Handle, RunLoadCallbacks(h) PROVE RequestInv'
  <2>. DEFINE n == Batch(TasksLeft(uploads[h]), CallbackTasksPerTick - processed)
              asset == [uploads[h] EXCEPT !.made = @ + n]
  <2>1. uploads[h] \in Asset /\ h \in Keys(uploads)
    BY <1>1, <1>7 DEF RunLoadCallbacks, LocalsMatch, Keys, TypeOK
  <2>2. /\ pc = "load_callbacks" /\ uploads' = [uploads EXCEPT ![h] = asset]
        /\ UNCHANGED <<queue, futures, loaded, unloads, duplicate, wanted, calls, closed>>
    BY <1>7 DEF RunLoadCallbacks
  <2>3. asset.info = uploads[h].info
    BY <2>1 DEF Asset
  <2>. HIDE DEF asset
  <2>4. \A g \in Keys(uploads') : g \in Keys(uploads) /\ uploads'[g].info = uploads[g].info
    BY <1>1, <2>1, <2>2, <2>3 DEF Keys, TypeOK
  <2>5. asset # None
    <3>1. asset \in [info : Info, null : BOOLEAN, made : {asset.made}, copy : {0, 1}]
      BY <2>1 DEF Asset, asset
    <3>2. n \in Nat
      <4>1. TasksLeft(uploads[h]) \in Nat \ {0}
        <5>1. GpuTasks(uploads[h].info) \in Nat
          BY <2>1, TasksTyped DEF Asset
        <5>2. TasksLeft(uploads[h]) \in Int
          BY <2>1, <5>1 DEF TasksLeft, Asset
        <5>3. TasksLeft(uploads[h]) > 0
          BY <1>7, <2>1 DEF SafetyInv, LoadedAssetsAreUploaded, LocalsMatch, RunLoadCallbacks
        <5>. QED BY <5>2, <5>3
      <4>2. CallbackTasksPerTick - processed \in Nat \ {0}
        BY <1>1, <1>7, ConstantTypes DEF RunLoadCallbacks, TypeOK
      <4>. QED BY <4>1, <4>2, BatchBounds
    <3>3. asset.made = uploads[h].made + n /\ uploads[h].made \in Nat
      BY <2>1 DEF Asset, asset
    <3>4. asset \in [info : Info, null : BOOLEAN, made : Nat, copy : {0, 1}]
      BY <3>1, <3>2, <3>3
    <3>. QED BY <3>4, NoneAssumption
  <2>6. \A g \in Handle : uploads'[g] # None <=> uploads[g] # None
    BY <1>1, <2>1, <2>2, <2>5 DEF TypeOK, Keys
  <2>7. \A g \in Handle : InFlight(g)' <=> InFlight(g)
    BY <2>2, <2>6 DEF InFlight, IsQueued
  <2>8. NothingLoads => NothingLoads'
    BY <2>1 DEF NothingLoads
  <2>9. \A i \in Info : HandleOf[i] \in Handle
    BY ConstantTypes
  <2>. QED BY <1>3, <2>2, <2>4, <2>7, <2>8, <2>9, QuietStep DEF Keys
<1>8. CASE Loader
  <2>1. UNCHANGED <<queue, uploads, unloads, loaded, wanted, calls, closed, pc>>
    BY <1>8 DEF Loader, LoaderFinishes, DuplicateLoaderFinishes
  <2>2. \A g \in Handle : futures'[g] # None <=> futures[g] # None
    <3>1. ASSUME NEW h \in Handle, LoaderFinishes(h) PROVE \A g \in Handle : futures'[g] # None <=> futures[g] # None
      <4>1. futures[h] \in Future /\ futures' = [futures EXCEPT ![h] = [futures[h] EXCEPT !.ready = TRUE]]
        BY <1>1, <3>1 DEF LoaderFinishes, TypeOK
      <4>2. [futures[h] EXCEPT !.ready = TRUE] \in [info : Info, ready : BOOLEAN]
        BY <4>1 DEF Future
      <4>. QED BY <1>1, <3>1, <4>1, <4>2, NoneAssumption DEF TypeOK, LoaderFinishes
    <3>. QED BY <1>8, <3>1 DEF Loader, DuplicateLoaderFinishes
  <2>3. \A g \in Handle : InFlight(g)' <=> InFlight(g)
    BY <2>1, <2>2 DEF InFlight, IsQueued
  <2>4. ~NothingLoads
    BY <1>8 DEF Loader, LoaderFinishes, DuplicateLoaderFinishes, NothingLoads, Keys
  <2>5. \A i \in Info : HandleOf[i] \in Handle
    BY ConstantTypes
  <2>. QED BY <2>1, <2>3, <2>4, <2>5, QuietStep DEF Keys
<1>. QED BY <1>4, <1>5, <1>6, <1>7, <1>8

\* A queued load gets a future, or finds one that is there; only what has no loader
\* is dropped.
LEMMA DispatchRequests ==
  ASSUME TypesOfHandles, SafetyInv, RequestInv, DispatchAssetLoadTask
  PROVE  RequestInv'
<1>. DEFINE i == Head(queue)
            future == [info |-> i, ready |-> FALSE]
<1>1. TypeOK /\ queue # <<>> /\ queue \in Seq(Info) /\ i \in Info
  BY DEF SafetyInv, TypeOK, DispatchAssetLoadTask
<1>2. /\ pc = "dispatch" /\ queue' = Tail(queue)
      /\ UNCHANGED <<uploads, unloads, loaded, wanted, calls, closed>>
      /\ IF HasLoader(i) THEN futures' = Emplace(futures, HandleOf[i], future) ELSE futures' = futures
  BY DEF DispatchAssetLoadTask, ghost
<1>3. \A j \in Info : HandleOf[j] \in Handle
  BY ConstantTypes
<1>4. future # None
  <2>1. future \in [info : Info, ready : BOOLEAN]
    BY <1>1
  <2>. QED BY <2>1, NoneAssumption
<1>. HIDE DEF future
<1>5. \A g \in Handle : /\ futures[g] # None => futures'[g] # None
                        /\ futures'[g] # None => futures[g] # None \/ g = HandleOf[i]
  BY <1>1, <1>2 DEF Emplace, TypeOK
<1>6. HasLoader(i) => futures'[HandleOf[i]] # None
  BY <1>1, <1>2, <1>3, <1>4 DEF Emplace, TypeOK
<1>7. IsQueued(HandleOf[i])
  BY <1>1 DEF IsQueued
<1>8. \A g \in Handle : IsQueued(g)' => IsQueued(g)
  BY <1>1, <1>2 DEF IsQueued
<1>9. \A g \in Handle : IsQueued(g) => IsQueued(g)' \/ g = HandleOf[i]
  <2>1. SUFFICES ASSUME NEW g \in Handle, NEW k \in DOMAIN queue, HandleOf[queue[k]] = g, g # HandleOf[i]
                 PROVE  IsQueued(g)'
    BY DEF IsQueued
  <2>2. k \in 1..Len(queue) /\ k # 1
    BY <1>1, <2>1
  <2>3. k - 1 \in DOMAIN Tail(queue) /\ Tail(queue)[k - 1] = queue[k]
    BY <1>1, <2>2
  <2>. QED BY <1>2, <2>1, <2>3 DEF IsQueued
<1>10. \A g \in Handle : InFlight(g)' => InFlight(g)
  BY <1>2, <1>5, <1>7, <1>8 DEF InFlight
<1>11. \A j \in Info : HasLoader(j) /\ InFlight(HandleOf[j]) => InFlight(HandleOf[j])'
  <2>1. SUFFICES ASSUME NEW j \in Info, HasLoader(j), InFlight(HandleOf[j]) PROVE InFlight(HandleOf[j])'
    OBVIOUS
  <2>2. HandleOf[j] = HandleOf[i] => HasLoader(i)
    BY <1>1, <2>1 DEF TypesOfHandles, HasLoader
  <2>. QED BY <1>2, <1>3, <1>5, <1>6, <1>9, <2>1, <2>2 DEF InFlight
<1>12. ~NothingLoads /\ calls # <<"UnloadAllAssets">>
  BY <1>1, <1>2 DEF NothingLoads, RequestInv, TexturesUnloadAlone
<1>. QED BY <1>2, <1>10, <1>11, <1>12, QuietStep DEF Keys

\* The texture loads that a model asks for.
LEMMA NewAssetsAreTextures ==
  ASSUME NEW i \in Info
  PROVE  /\ NewAssetsToLoad(i) \in Seq(Info)
         /\ \A k \in DOMAIN NewAssetsToLoad(i) : TypeOf[NewAssetsToLoad(i)[k]] = "Texture"
BY ConstantsAssumption DEF NewAssetsToLoad

\* Their handles.
LEMMA TextureHandlesTyped ==
  ASSUME NEW i \in Info
  PROVE  TextureHandles(i) \subseteq Handle
BY NewAssetsAreTextures, ConstantTypes DEF TextureHandles

\* A future that is collected: its asset is uploading or loaded, and its textures are
\* queued; none of these waits to be unloaded.
LEMMA FinishRequests ==
  ASSUME SafetyInv, RequestInv, NEW h \in Handle, FinishLoad(h)
  PROVE  RequestInv'
<1>. DEFINE i == futures[h].info
            new == NewAssetsToLoad(i)
            asset == LoadedAsset(i, NewCopy(h))
<1>1. TypeOK /\ LocalsMatch
  BY DEF SafetyInv
<1>2. h \in Keys(futures) /\ i \in Info /\ futures[h] # None
  BY <1>1 DEF FinishLoad, LocalsMatch, Keys, TypeOK, Future
<1>3. asset.info = i /\ asset # None
  BY <1>1, <1>2, TasksTyped, NewCopyTyped, NoneAssumption DEF Asset
<1>4. /\ queue' = queue \o new
      /\ wanted' = [g \in Handle |-> IF g \in TextureHandles(i) THEN "load" ELSE wanted[g]]
      /\ futures' = [futures EXCEPT ![h] = None]
      /\ \/ loaded' = Emplace(loaded, h, asset) /\ uploads' = uploads
         \/ uploads' = Emplace(uploads, h, asset) /\ loaded' = loaded
      /\ UNCHANGED <<unloads, calls, closed>>
  <2>1. wanted' = [g \in Handle |-> IF \E k \in DOMAIN new : HandleOf[new[k]] = g
                                    THEN "load" ELSE wanted[g]]
    BY DEF FinishLoad
  <2>2. \A g \in Handle : (\E k \in DOMAIN new : HandleOf[new[k]] = g) <=> g \in TextureHandles(i)
    BY DEF TextureHandles
  <2>3. wanted' = [g \in Handle |-> IF g \in TextureHandles(i) THEN "load" ELSE wanted[g]]
    BY <2>1, <2>2
  <2>. QED BY <2>3 DEF FinishLoad
<1>5. new \in Seq(Info) /\ queue \in Seq(Info)
  BY <1>1, <1>2, NewAssetsAreTextures DEF TypeOK
<1>6. \A g \in Handle : IsQueued(g)' <=> IsQueued(g) \/ g \in TextureHandles(i)
  <2>1. SUFFICES ASSUME NEW g \in Handle
                 PROVE  IsQueued(g)' <=> IsQueued(g) \/ \E k \in DOMAIN new : HandleOf[new[k]] = g
    BY DEF TextureHandles
  <2>2. ASSUME NEW k \in DOMAIN queue PROVE k \in DOMAIN queue' /\ queue'[k] = queue[k]
    BY <1>4, <1>5, <2>2
  <2>3. ASSUME NEW k \in DOMAIN new PROVE Len(queue) + k \in DOMAIN queue' /\ queue'[Len(queue) + k] = new[k]
    BY <1>4, <1>5, <2>3
  <2>4. ASSUME NEW k \in DOMAIN queue'
        PROVE  \/ k \in DOMAIN queue /\ queue'[k] = queue[k]
               \/ k - Len(queue) \in DOMAIN new /\ queue'[k] = new[k - Len(queue)]
    BY <1>4, <1>5, <2>4
  <2>. QED BY <2>2, <2>3, <2>4 DEF IsQueued
<1>7. \A t \in TextureHandles(i) : unloads[t] = None
  <2>1. SUFFICES ASSUME NEW k \in DOMAIN new, unloads[HandleOf[new[k]]] # None PROVE FALSE
    BY DEF TextureHandles
  <2>2. new[k] \in Info /\ TypeOf[new[k]] = "Texture"
    BY <1>2, <2>1, NewAssetsAreTextures
  <2>3. NothingLoads
    BY <2>1, <2>2 DEF RequestInv, TexturesUnloadAlone
  <2>. QED BY <1>2, <2>3 DEF NothingLoads
<1>8. \A g \in Handle : InFlight(g) => unloads[g] = None
  BY DEF RequestInv, UnloadsUnderWay, Keys
<1>9. ~NothingLoads /\ calls # <<"UnloadAllAssets">>
  BY <1>2 DEF NothingLoads, RequestInv, TexturesUnloadAlone
<1>. HIDE DEF new, i, asset
<1>10. \A g \in Handle :
         /\ loaded'[g] = loaded[g] \/ (g = h /\ loaded[g] = None /\ loaded'[g] = asset)
         /\ uploads'[g] = uploads[g] \/ (g = h /\ uploads[g] = None /\ uploads'[g] = asset)
         /\ g # h => futures'[g] = futures[g]
  BY <1>1, <1>4 DEF Emplace, TypeOK
<1>11. futures'[h] = None /\ (loaded'[h] # None \/ uploads'[h] # None)
  BY <1>1, <1>3, <1>4 DEF Emplace, TypeOK
<1>12. \A g \in Handle : wanted'[g] = IF g \in TextureHandles(i) THEN "load" ELSE wanted[g]
  BY <1>4
<1>13. UnloadsUnderWay'
  <2>1. ASSUME NEW g \in Keys(unloads') PROVE wanted'[g] = "unload"
    BY <1>4, <1>7, <1>12, <2>1 DEF RequestInv, UnloadsUnderWay, Keys
  <2>2. ASSUME NEW g \in Handle, wanted'[g] = "unload"
        PROVE  ~InFlight(g)' /\ (loaded'[g] = None \/ unloads'[g] # None)
    <3>1. g \notin TextureHandles(i) /\ wanted[g] = "unload"
      BY <1>12, <2>2
    <3>2. ~InFlight(g) /\ (loaded[g] = None \/ unloads[g] # None)
      BY <2>2, <3>1 DEF RequestInv, UnloadsUnderWay
    <3>3. g # h
      BY <1>2, <3>2 DEF InFlight
    <3>. QED BY <1>4, <1>6, <1>10, <2>2, <3>1, <3>2, <3>3 DEF InFlight
  <2>. QED BY <2>1, <2>2 DEF UnloadsUnderWay
<1>14. LoadsUnderWay'
  <2>1. SUFFICES ASSUME NEW j \in Info, HasLoader(j), wanted'[HandleOf[j]] = "load"
                 PROVE  \/ InFlight(HandleOf[j])'
                        \/ loaded'[HandleOf[j]] # None /\ unloads'[HandleOf[j]] = None
    BY DEF LoadsUnderWay, HasLoader
  <2>. DEFINE g == HandleOf[j]
  <2>2. g \in Handle
    BY ConstantTypes
  <2>3. CASE g \in TextureHandles(i)
    BY <1>6, <2>2, <2>3 DEF InFlight
  <2>4. CASE g \notin TextureHandles(i)
    <3>1. wanted[g] = "load"
      BY <1>12, <2>1, <2>2, <2>4
    <3>2. InFlight(g) \/ (loaded[g] # None /\ unloads[g] = None)
      BY <2>1, <3>1 DEF RequestInv, LoadsUnderWay
    <3>3. unloads'[g] = None
      BY <1>4, <1>8, <2>2, <3>2
    <3>. QED BY <1>3, <1>6, <1>10, <1>11, <2>2, <3>2, <3>3 DEF InFlight
  <2>. QED BY <2>3, <2>4
<1>15. TexturesWanted'
  <2>1. ASSUME NEW g \in Keys(uploads'), NEW t \in TextureHandles(uploads'[g].info) PROVE wanted'[t] # "none"
    <3>1. t \in Handle
      <4>1. uploads[g] # None => uploads[g].info \in Info
        BY <1>1, <2>1 DEF TypeOK, Asset, Keys
      <4>2. uploads'[g].info \in Info
        BY <1>2, <1>3, <1>10, <2>1, <4>1 DEF Keys, i
      <4>. QED BY <2>1, <4>2, TextureHandlesTyped
    <3>. QED BY <1>3, <1>10, <1>12, <2>1, <3>1 DEF RequestInv, TexturesWanted, Keys
  <2>2. ASSUME NEW g \in Keys(loaded'), NEW t \in TextureHandles(loaded'[g].info) PROVE wanted'[t] # "none"
    <3>1. t \in Handle
      <4>1. loaded[g] # None => loaded[g].info \in Info
        BY <1>1, <2>2 DEF TypeOK, Asset, Keys
      <4>2. loaded'[g].info \in Info
        BY <1>2, <1>3, <1>10, <2>2, <4>1 DEF Keys, i
      <4>. QED BY <2>2, <4>2, TextureHandlesTyped
    <3>. QED BY <1>3, <1>10, <1>12, <2>2, <3>1 DEF RequestInv, TexturesWanted, Keys
  <2>. QED BY <2>1, <2>2 DEF TexturesWanted
<1>16. TexturesUnloadAlone'
  BY <1>4, <1>9 DEF RequestInv, TexturesUnloadAlone
<1>. QED BY <1>13, <1>14, <1>15, <1>16 DEF RequestInv

\* A load that is asked for is queued, and nothing of the asset was left.
LEMMA LoadRequests ==
  ASSUME ModelRequests, SafetyInv, RequestInv, NEW i \in Requests, LoadAsset(i)
  PROVE  RequestInv'
<1>. DEFINE h == HandleOf[i]
<1>1. TypeOK /\ queue \in Seq(Info) /\ i \in Info /\ h \in Handle
  BY ConstantTypes DEF SafetyInv, TypeOK
<1>2. ~InFlight(h) /\ unloads[h] = None /\ loaded[h] = None
  BY DEF LoadAsset, ModelRequests, GetAssetLoadProgress, InFlight
<1>3. /\ queue' = Append(queue, i)
      /\ wanted' = [wanted EXCEPT ![h] = "load"]
      /\ calls = <<>>
      /\ UNCHANGED <<futures, uploads, unloads, loaded, duplicate, pc, calls, closed>>
  BY DEF LoadAsset, Free
<1>4. \A g \in Handle : IsQueued(g)' <=> IsQueued(g) \/ g = h
  <2>1. ASSUME NEW k \in DOMAIN queue PROVE k \in DOMAIN queue' /\ queue'[k] = queue[k]
    BY <1>1, <1>3, <2>1
  <2>2. Len(queue) + 1 \in DOMAIN queue' /\ queue'[Len(queue) + 1] = i
    BY <1>1, <1>3
  <2>3. ASSUME NEW k \in DOMAIN queue' PROVE (k \in DOMAIN queue /\ queue'[k] = queue[k]) \/ queue'[k] = i
    BY <1>1, <1>3, <2>3
  <2>. QED BY <2>1, <2>2, <2>3 DEF IsQueued
<1>5. \A g \in Handle : wanted'[g] = IF g = h THEN "load" ELSE wanted[g]
  BY <1>1, <1>3 DEF TypeOK
<1>. HIDE DEF h
<1>6. \A g \in Handle : InFlight(g)' <=> InFlight(g) \/ g = h
  BY <1>3, <1>4 DEF InFlight
<1>7. UnloadsUnderWay'
  BY <1>2, <1>3, <1>5, <1>6 DEF RequestInv, UnloadsUnderWay, Keys
<1>8. LoadsUnderWay'
  <2>1. \A j \in Info : HandleOf[j] \in Handle
    BY ConstantTypes
  <2>. QED BY <1>3, <1>5, <1>6, <2>1 DEF RequestInv, LoadsUnderWay, HasLoader
<1>9. TexturesWanted'
  <2>1. \A g \in Handle : /\ uploads[g] # None => uploads[g].info \in Info
                          /\ loaded[g] # None => loaded[g].info \in Info
    BY <1>1 DEF TypeOK, Asset
  <2>2. \A t \in Handle : wanted[t] # "none" => wanted'[t] # "none"
    BY <1>5
  <2>. QED BY <1>3, <2>1, <2>2, TextureHandlesTyped DEF RequestInv, TexturesWanted, Keys
<1>10. TexturesUnloadAlone'
  BY <1>3 DEF RequestInv, TexturesUnloadAlone
<1>. QED BY <1>7, <1>8, <1>9, <1>10 DEF RequestInv

\* An unload that is asked for is scheduled, and no load of the asset was left.
LEMMA UnloadRequests ==
  ASSUME ModelRequests, SafetyInv, LoadersOnly, RequestInv, NEW i \in Requests, UnloadAsset(i)
  PROVE  RequestInv'
<1>. DEFINE h == HandleOf[i]
<1>1. TypeOK /\ i \in Info /\ h \in Handle
  BY ConstantTypes DEF SafetyInv, TypeOK
<1>2. ~InFlight(h) /\ unloads[h] = None /\ loaded[h] # None
  BY DEF UnloadAsset, IsLoaded, ModelRequests, GetAssetLoadProgress, InFlight
<1>3. TypeOf[i] = "Model"
  <2>1. loaded[h].info \in Info /\ HandleOf[loaded[h].info] = h /\ HasLoader(loaded[h].info)
    BY <1>1, <1>2 DEF SafetyInv, KeysMatch, LoadersOnly, Keys, TypeOK, Asset
  <2>. QED BY <1>1, <2>1 DEF ModelRequests, TypesOfHandles, HasLoader
<1>4. /\ unloads' = [unloads EXCEPT ![h] = "Model"]
      /\ wanted' = [wanted EXCEPT ![h] = "unload"]
      /\ calls = <<>>
      /\ UNCHANGED <<queue, futures, uploads, loaded, duplicate, pc, calls, closed>>
  BY <1>2, <1>3 DEF UnloadAsset, Free, ScheduleUnload, Emplace
<1>5. \A g \in Handle : /\ wanted'[g] = IF g = h THEN "unload" ELSE wanted[g]
                        /\ unloads'[g] = IF g = h THEN "Model" ELSE unloads[g]
  BY <1>1, <1>4 DEF TypeOK
<1>6. "Model" # None
  BY NoneAssumption DEF AssetType
<1>7. \A j \in Info : HandleOf[j] \in Handle /\ (HandleOf[j] = h => TypeOf[j] = "Model")
  BY <1>1, <1>3, ConstantTypes DEF ModelRequests, TypesOfHandles
<1>. HIDE DEF h
<1>8. \A g \in Handle : InFlight(g)' <=> InFlight(g)
  BY <1>4 DEF InFlight, IsQueued
<1>9. UnloadsUnderWay'
  BY <1>2, <1>4, <1>5, <1>6, <1>8 DEF RequestInv, UnloadsUnderWay, Keys
<1>10. LoadsUnderWay'
  BY <1>4, <1>5, <1>7, <1>8 DEF RequestInv, LoadsUnderWay, HasLoader
<1>11. TexturesWanted'
  <2>1. \A g \in Handle : /\ uploads[g] # None => uploads[g].info \in Info
                          /\ loaded[g] # None => loaded[g].info \in Info
    BY <1>1 DEF TypeOK, Asset
  <2>2. \A t \in Handle : wanted[t] # "none" => wanted'[t] # "none"
    BY <1>5
  <2>. QED BY <1>4, <2>1, <2>2, TextureHandlesTyped DEF RequestInv, TexturesWanted, Keys
<1>12. TexturesUnloadAlone'
  <2>1. \A j \in Info : TypeOf[j] = "Texture" => unloads'[HandleOf[j]] = unloads[HandleOf[j]]
    BY <1>5, <1>7
  <2>. QED BY <1>4, <2>1 DEF RequestInv, TexturesUnloadAlone
<1>. QED BY <1>9, <1>10, <1>11, <1>12 DEF RequestInv

\* A blocking call begins, with nothing to unload but models; UnloadAllAssets begins
\* when nothing is loading.
LEMMA CallRequests ==
  ASSUME ModelRequests, SafetyInv, RequestInv,
         WaitAllAssets \/ WaitAllUnloads \/ UnloadAllAssets \/ Shutdown
  PROVE  RequestInv'
<1>1. /\ calls = <<>> /\ pc = "caller"
      /\ UNCHANGED <<queue, futures, uploads, unloads, loaded, duplicate, pc, wanted>>
  BY DEF WaitAllAssets, WaitAllUnloads, UnloadAllAssets, Shutdown, Call, Free, maps, ghost
<1>2. UnloadsUnderWay' /\ LoadsUnderWay' /\ TexturesWanted'
  BY <1>1 DEF RequestInv, UnloadsUnderWay, LoadsUnderWay, TexturesWanted, InFlight, IsQueued, Keys, HasLoader
<1>3. \A i \in Info : TypeOf[i] = "Texture" => unloads[HandleOf[i]] = None
  BY <1>1 DEF RequestInv, TexturesUnloadAlone
<1>4. calls' = <<"UnloadAllAssets">> => NothingLoads
  BY <1>1 DEF WaitAllAssets, WaitAllUnloads, UnloadAllAssets, Shutdown, Call, ModelRequests,
              AnyAssetsLoading, NothingLoads, SafetyInv, DuplicateMatches
<1>5. closed' \/ calls' \in {<<>>, <<"WaitAllAssets">>, <<"WaitAllUnloads">>, <<"UnloadAllAssets">>}
  BY DEF WaitAllAssets, WaitAllUnloads, UnloadAllAssets, Shutdown, Call
<1>6. TexturesUnloadAlone'
  BY <1>1, <1>3, <1>4, <1>5 DEF TexturesUnloadAlone, NothingLoads, Keys
<1>. QED BY <1>2, <1>6 DEF RequestInv

\* A wait returns, or UnloadAllAssets schedules everything that is loaded and waits.
LEMMA WaitRequests ==
  ASSUME SafetyInv, LoadersOnly, Stages, RequestInv, Wait
  PROVE  RequestInv'
<1>1. TypeOK /\ UnloadsAreOfLoadedAssets /\ \A i \in Info : HandleOf[i] \in Handle
  BY ConstantTypes DEF SafetyInv
<1>2. \A i \in {"WaitAllAssets", "WaitAllUnloads", "UnloadAllAssets"} : Head(<<i>>) = i /\ Tail(<<i>>) = <<>>
  OBVIOUS
<1>3. CASE WaitReturns
  <2>1. /\ pc = "caller" /\ calls # <<>> /\ calls' = Tail(calls)
        /\ UNCHANGED <<queue, futures, uploads, unloads, loaded, duplicate, pc, wanted, closed>>
        /\ \/ Head(calls) = "WaitAllAssets" /\ ~AnyAssetsLoading
           \/ Head(calls) = "WaitAllUnloads" /\ ~AnyAssetsUnloading
    BY <1>3 DEF WaitReturns, maps, ghost
  <2>2. UnloadsUnderWay' /\ LoadsUnderWay' /\ TexturesWanted'
    BY <2>1 DEF RequestInv, UnloadsUnderWay, LoadsUnderWay, TexturesWanted, InFlight, IsQueued, Keys, HasLoader
  <2>3. \A h \in Handle : unloads[h] = None
    BY <2>1 DEF AnyAssetsLoading, AnyAssetsUnloading, Keys
  <2>4. calls' = <<"UnloadAllAssets">> => pc' = "caller" /\ NothingLoads'
    <3>1. CASE closed
      BY <2>1, <3>1, WaitStages DEF Stages
    <3>2. CASE ~closed
      BY <1>2, <2>1, <3>2 DEF RequestInv, TexturesUnloadAlone
    <3>. QED BY <3>1, <3>2
  <2>5. closed' \/ calls' \in {<<>>, <<"WaitAllAssets">>, <<"WaitAllUnloads">>, <<"UnloadAllAssets">>}
    BY <1>2, <2>1 DEF RequestInv, TexturesUnloadAlone
  <2>6. TexturesUnloadAlone'
    BY <1>1, <2>1, <2>3, <2>4, <2>5 DEF TexturesUnloadAlone
  <2>. QED BY <2>2, <2>6 DEF RequestInv
<1>4. CASE UnloadEverything
  <2>1. /\ pc = "caller" /\ calls # <<>> /\ Head(calls) = "UnloadAllAssets"
        /\ calls' = <<"WaitAllUnloads">> \o Tail(calls)
        /\ UNCHANGED <<queue, futures, uploads, loaded, duplicate, pc, closed>>
    BY <1>4 DEF UnloadEverything
  <2>2. calls = <<"UnloadAllAssets">>
    BY <2>1 DEF RequestInv, TexturesUnloadAlone, Stages
  <2>3. calls' = <<"WaitAllUnloads">> /\ NothingLoads
    BY <2>1, <2>2 DEF RequestInv, TexturesUnloadAlone
  <2>4. \A h \in Handle : ~InFlight(h) /\ ~InFlight(h)'
    BY <2>1, <2>3 DEF NothingLoads, InFlight, IsQueued, Keys
  <2>5. \A h \in Handle :
          /\ wanted'[h] = IF loaded[h] # None THEN "unload" ELSE wanted[h]
          /\ unloads'[h] # None <=> loaded[h] # None
    <3>1. SUFFICES ASSUME NEW h \in Handle
                   PROVE  /\ wanted'[h] = IF loaded[h] # None THEN "unload" ELSE wanted[h]
                          /\ unloads'[h] # None <=> loaded[h] # None
      OBVIOUS
    <3>2. wanted'[h] = IF loaded[h] # None THEN "unload" ELSE wanted[h]
      BY <1>4 DEF UnloadEverything
    <3>3. CASE loaded[h] = None
      BY <1>1, <1>4, <3>3 DEF UnloadEverything, UnloadsAreOfLoadedAssets, Keys
    <3>4. CASE loaded[h] # None
      <4>1. TypeOf[loaded[h].info] \in {"Model", "Texture"} /\ TypeOf[loaded[h].info] # None
        BY <3>4, NoneAssumption DEF LoadersOnly, HasLoader, Keys, AssetType
      <4>2. unloads'[h] = Emplace(unloads, h, TypeOf[loaded[h].info])[h]
        BY <1>4, <3>4, <4>1 DEF UnloadEverything, ScheduleUnload
      <4>. QED BY <1>1, <3>2, <3>4, <4>1, <4>2 DEF Emplace, TypeOK
    <3>. QED BY <3>2, <3>3, <3>4
  <2>6. UnloadsUnderWay'
    BY <2>1, <2>4, <2>5 DEF UnloadsUnderWay, Keys
  <2>7. LoadsUnderWay'
    BY <1>1, <2>4, <2>5 DEF RequestInv, LoadsUnderWay, HasLoader
  <2>8. TexturesWanted'
    <3>1. \A g \in Handle : /\ uploads[g] # None => uploads[g].info \in Info
                            /\ loaded[g] # None => loaded[g].info \in Info
      BY <1>1 DEF TypeOK, Asset
    <3>2. \A t \in Handle : wanted[t] # "none" => wanted'[t] # "none"
      BY <2>5
    <3>. QED BY <2>1, <3>1, <3>2, TextureHandlesTyped DEF RequestInv, TexturesWanted, Keys
  <2>9. TexturesUnloadAlone'
    BY <2>1, <2>3 DEF TexturesUnloadAlone, NothingLoads, Keys
  <2>. QED BY <2>6, <2>7, <2>8, <2>9 DEF RequestInv
<1>. QED BY <1>3, <1>4 DEF Wait

\* With clients that wait and ask for models only, what was asked for last is under way
\* or done, for every asset and in every step of every tick.
THEOREM RequestsUnderWay ==
  ASSUME ModelRequests
  PROVE  Spec => []RequestInv
<1>1. Init => LoadersOnly /\ Stages /\ RequestInv
  <2>1. Init => LoadersOnly /\ Stages
    BY DEF Init, LoadersOnly, Stages, Keys
  <2>2. Init => UnloadsUnderWay /\ LoadsUnderWay /\ TexturesWanted
    BY ConstantTypes DEF Init, UnloadsUnderWay, LoadsUnderWay, TexturesWanted, Keys
  <2>3. Init => TexturesUnloadAlone
    BY ConstantTypes DEF Init, TexturesUnloadAlone
  <2>. QED BY <2>1, <2>2, <2>3 DEF RequestInv
<1>2. SafetyInv /\ LoadersOnly /\ Stages /\ [Next]_vars => Stages'
  BY StagesKeep
<1>3. SafetyInv /\ LoadersOnly /\ Stages /\ RequestInv /\ [Next]_vars => RequestInv'
  <2>1. ASSUME RequestInv, UNCHANGED vars PROVE RequestInv'
    BY <2>1 DEF vars, maps, ghost, RequestInv, UnloadsUnderWay, LoadsUnderWay, TexturesWanted,
                TexturesUnloadAlone, InFlight, IsQueued, Keys, HasLoader, NothingLoads
  <2>. QED BY <2>1, LoadRequests, UnloadRequests, CallRequests, WaitRequests, RestOfTickRequests,
              DispatchRequests, FinishRequests DEF Next, Client, Tick, Stutter, ModelRequests
<1>. QED BY <1>1, <1>2, <1>3, LoadersKeep, SafetyInvariant, PTL DEF Spec

\* When AnyAssetsLoading turns false, what such clients, or the models, asked to load
\* last is loaded.
THEOREM LoadsHold ==
  ASSUME ModelRequests
  PROVE  Spec => []LoadRequestsHold
<1>1. TypeOK /\ RequestInv => LoadRequestsHold
  BY ConstantTypes DEF LoadRequestsHold, RequestInv, LoadsUnderWay, InFlight, IsQueued, Quiet,
                       AnyAssetsLoading, Keys
<1>. QED BY <1>1, RequestsUnderWay, TypeCorrect, PTL

\* And what they asked to unload last is gone.
THEOREM UnloadsHold ==
  ASSUME ModelRequests
  PROVE  Spec => []UnloadRequestsHold
<1>1. TypeOK /\ RequestInv => UnloadRequestsHold
  BY ConstantTypes DEF UnloadRequestsHold, RequestInv, UnloadsUnderWay, Quiet, AnyAssetsLoading, Keys
<1>. QED BY <1>1, RequestsUnderWay, TypeCorrect, PTL

\* Every texture of a loaded model is loaded then, or was unloaded by UnloadAllAssets.
THEOREM ModelsHaveTextures ==
  ASSUME ModelRequests
  PROVE  Spec => []TexturesOfLoadedModels
<1>1. ASSUME TypeOK, RequestInv, LoadRequestsHold PROVE TexturesOfLoadedModels
  <2>1. SUFFICES ASSUME Quiet, NEW h \in Keys(loaded), NEW k \in DOMAIN NewAssetsToLoad(loaded[h].info)
                 PROVE  \/ loaded[HandleOf[NewAssetsToLoad(loaded[h].info)[k]]] # None
                        \/ wanted[HandleOf[NewAssetsToLoad(loaded[h].info)[k]]] = "unload"
    BY DEF TexturesOfLoadedModels
  <2>. DEFINE i == NewAssetsToLoad(loaded[h].info)[k]
  <2>2. loaded[h].info \in Info
    BY <1>1 DEF TypeOK, Asset, Keys
  <2>3. i \in Info /\ HasLoader(i) /\ HandleOf[i] \in Handle
    BY <2>2, NewAssetsAreTextures, ConstantTypes DEF HasLoader
  <2>4. HandleOf[i] \in TextureHandles(loaded[h].info)
    BY DEF TextureHandles
  <2>5. wanted[HandleOf[i]] # "none"
    BY <1>1, <2>4 DEF RequestInv, TexturesWanted
  <2>6. wanted[HandleOf[i]] \in {"load", "unload"}
    BY <1>1, <2>3, <2>5 DEF TypeOK
  <2>. HIDE DEF i
  <2>7. wanted[HandleOf[i]] = "load" => loaded[HandleOf[i]] # None
    BY <1>1, <2>1, <2>3 DEF LoadRequestsHold
  <2>. QED BY <2>6, <2>7 DEF i
<1>. QED BY <1>1, RequestsUnderWay, LoadsHold, TypeCorrect, PTL
=============================================================================
