----------------------- MODULE AssetRefinementProofs -----------------------
(* Proof that AssetManager implements AssetLifecycle, for every value of    *)
(* the constants.                                                           *)
EXTENDS AssetRefinement, AssetManagerProofs

-----------------------------------------------------------------------------
\* A step that leaves the maps alone is invisible to clients.
LEMMA UntouchedMaps ==
  ASSUME UNCHANGED maps
  PROVE  UNCHANGED Lifecycle!assets
BY DEF maps, Lifecycle!assets, LoadingHandles, IsQueued, Keys

\* What is loading depends on the queue, the futures and the uploads only.
LEMMA LoadingKept ==
  ASSUME UNCHANGED <<queue, futures, uploads>>
  PROVE  LoadingHandles' = LoadingHandles
BY DEF LoadingHandles, IsQueued

\* What is queued after a sequence of files was put at the end of the queue,
LEMMA QueuedConcat ==
  ASSUME TypeOK, NEW s \in Seq(Info), queue' = queue \o s, NEW h \in Handle
  PROVE  IsQueued(h)' <=> IsQueued(h) \/ \E k \in DOMAIN s : HandleOf[s[k]] = h
<1>0. queue \in Seq(Info)
  BY DEF TypeOK
<1>1. /\ DOMAIN queue' = 1..(Len(queue) + Len(s))
      /\ DOMAIN queue = 1..Len(queue) /\ DOMAIN s = 1..Len(s)
      /\ Len(queue) \in Nat /\ Len(s) \in Nat
  BY <1>0
<1>2. \A k \in DOMAIN queue : k \in DOMAIN queue' /\ queue'[k] = queue[k]
  BY <1>0, <1>1
<1>3. \A k \in DOMAIN s : k + Len(queue) \in DOMAIN queue' /\ queue'[k + Len(queue)] = s[k]
  BY <1>0, <1>1
<1>4. \A k \in DOMAIN queue' : (k \in DOMAIN queue /\ queue'[k] = queue[k]) \/
         (k - Len(queue) \in DOMAIN s /\ queue'[k] = s[k - Len(queue)])
  BY <1>0, <1>1
<1>5. ASSUME NEW k \in DOMAIN queue', HandleOf[queue'[k]] = h
      PROVE  \/ \E j \in DOMAIN queue : HandleOf[queue[j]] = h
             \/ \E j \in DOMAIN s : HandleOf[s[j]] = h
  BY <1>4, <1>5
<1>6. ASSUME NEW j \in DOMAIN queue, HandleOf[queue[j]] = h
      PROVE  \E k \in DOMAIN queue' : HandleOf[queue'[k]] = h
  BY <1>2, <1>6
<1>7. ASSUME NEW j \in DOMAIN s, HandleOf[s[j]] = h
      PROVE  \E k \in DOMAIN queue' : HandleOf[queue'[k]] = h
  BY <1>3, <1>7
<1> QED BY <1>5, <1>6, <1>7 DEF IsQueued

\* after one file was,
LEMMA QueuedAppend ==
  ASSUME TypeOK, NEW i \in Info, queue' = Append(queue, i), NEW h \in Handle
  PROVE  IsQueued(h)' <=> IsQueued(h) \/ HandleOf[i] = h
<1>1. <<i>> \in Seq(Info) /\ queue' = queue \o <<i>>
  BY DEF TypeOK
<1>2. DOMAIN <<i>> = {1} /\ <<i>>[1] = i
  OBVIOUS
<1>3. \A k \in DOMAIN <<i>> : HandleOf[<<i>>[k]] = HandleOf[i]
  BY <1>2
<1>4. (\E k \in DOMAIN <<i>> : HandleOf[<<i>>[k]] = h) <=> HandleOf[i] = h
  BY <1>2, <1>3
<1>5. IsQueued(h)' <=> IsQueued(h) \/ \E k \in DOMAIN <<i>> : HandleOf[<<i>>[k]] = h
  BY <1>1, QueuedConcat
<1> QED BY <1>4, <1>5

\* and after the first was taken off: a handle may be in the queue twice.
LEMMA QueuedTail ==
  ASSUME TypeOK, queue # <<>>, queue' = Tail(queue), NEW h \in Handle
  PROVE  /\ IsQueued(h)' => IsQueued(h)
         /\ IsQueued(h) => IsQueued(h)' \/ HandleOf[Head(queue)] = h
<1>0. queue \in Seq(Info)
  BY DEF TypeOK
<1>1. DOMAIN queue' = 1..(Len(queue) - 1) /\ DOMAIN queue = 1..Len(queue) /\ Len(queue) \in Nat
  BY <1>0
<1>2. \A k \in DOMAIN queue' : queue'[k] = queue[k + 1] /\ k + 1 \in DOMAIN queue
  BY <1>0, <1>1
<1>3. \A k \in DOMAIN queue : k = 1 \/ (k - 1 \in DOMAIN queue' /\ queue'[k - 1] = queue[k])
  BY <1>0, <1>1
<1>4. Head(queue) = queue[1]
  BY <1>0
<1>5. IsQueued(h)' <=> \E k \in DOMAIN queue' : HandleOf[queue'[k]] = h
  BY DEF IsQueued
<1>6. IsQueued(h) <=> \E k \in DOMAIN queue : HandleOf[queue[k]] = h
  BY DEF IsQueued
<1> QED BY <1>2, <1>3, <1>4, <1>5, <1>6

-----------------------------------------------------------------------------
\* Unloads are only scheduled for what is loaded.
LEMMA ScheduleStep ==
  ASSUME UNCHANGED <<queue, futures, uploads, loaded>>,
         Keys(unloads) \subseteq Keys(unloads'),
         Keys(unloads') \subseteq Keys(unloads) \cup Keys(loaded)
  PROVE  Lifecycle!AssetsNext
<1> DEFINE H == Keys(unloads') \ Keys(unloads)
<1>1. H \in SUBSET Handle /\ H \subseteq Keys(loaded) /\ Keys(unloads') = Keys(unloads) \cup H
  BY DEF Keys
<1>2. LoadingHandles' = LoadingHandles
  BY LoadingKept
<1>3. Lifecycle!Schedule(H)
  BY <1>1, <1>2 DEF Lifecycle!Schedule, Keys
<1> QED BY <1>1, <1>3 DEF Lifecycle!AssetsNext

\* The keys of futures and uploads are all that LoadingHandles looks at.
LEMMA SameLoading ==
  ASSUME UNCHANGED queue, Keys(futures') = Keys(futures), Keys(uploads') = Keys(uploads)
  PROVE  LoadingHandles' = LoadingHandles
BY DEF LoadingHandles, IsQueued, Keys

\* LoadAsset is a request.
LEMMA LoadAssetStep ==
  ASSUME TypeOK, NEW i \in Requests, LoadAsset(i)
  PROVE  Lifecycle!AssetsNext
<1>1. i \in Info /\ HandleOf[i] \in Handle
  BY ConstantsAssumption
<1>2. \A h \in Handle : IsQueued(h)' <=> IsQueued(h) \/ HandleOf[i] = h
  BY <1>1, QueuedAppend DEF LoadAsset
<1>3. LoadingHandles' = LoadingHandles \cup {HandleOf[i]}
  BY <1>1, <1>2 DEF LoadAsset, LoadingHandles
<1>4. Lifecycle!Request({HandleOf[i]})
  BY <1>3 DEF LoadAsset, Lifecycle!Request, Keys
<1> QED BY <1>1, <1>4 DEF Lifecycle!AssetsNext

\* UnloadAsset and UnloadAllAssets schedule unloads.
LEMMA UnloadSteps ==
  ASSUME TypeOK, (\E i \in Requests : UnloadAsset(i)) \/ UnloadEverything
  PROVE  Lifecycle!AssetsNext
<1>1. ASSUME NEW i \in Requests, UnloadAsset(i) PROVE Lifecycle!AssetsNext
  <2>1. /\ Keys(unloads) \subseteq Keys(unloads')
        /\ Keys(unloads') \subseteq Keys(unloads) \cup {HandleOf[i]}
    BY <1>1, NoneAssumption, ConstantsAssumption
       DEF UnloadAsset, ScheduleUnload, Emplace, Keys, TypeOK
  <2>2. HandleOf[i] \in Keys(loaded)
    BY <1>1, ConstantsAssumption DEF UnloadAsset, IsLoaded, Keys
  <2> QED BY <1>1, <2>1, <2>2, ScheduleStep DEF UnloadAsset
<1>2. ASSUME UnloadEverything PROVE Lifecycle!AssetsNext
  <2>1. \A h \in Handle : unloads[h] # None => unloads'[h] # None
    BY <1>2 DEF UnloadEverything, ScheduleUnload, Emplace, TypeOK
  <2>2. \A h \in Handle : unloads'[h] # None => unloads[h] # None \/ loaded[h] # None
    BY <1>2 DEF UnloadEverything
  <2> QED BY <1>2, <2>1, <2>2, ScheduleStep DEF UnloadEverything, Keys
<1> QED BY <1>1, <1>2

\* What was cleared is loaded from now on; a copy of it may still be loading.
LEMMA MoveToLoadedStep ==
  ASSUME TypeOK, LocalsMatch, MoveToLoaded
  PROVE  Lifecycle!AssetsNext
<1> DEFINE D == clears \ LoadingHandles'
<1>1. clears \subseteq Keys(uploads) /\ clears \in SUBSET Handle
  BY DEF MoveToLoaded, LocalsMatch, Keys
<1>2. clears \subseteq LoadingHandles
  BY <1>1 DEF LoadingHandles, Keys
<1>3. Keys(loaded') = Keys(loaded) \cup clears
  BY <1>1 DEF MoveToLoaded, Emplace, Keys, TypeOK
<1>4. \A h \in Handle : uploads'[h] = IF h \in clears THEN None ELSE uploads[h]
  BY DEF MoveToLoaded
<1>5. UNCHANGED <<queue, futures, unloads>>
  BY DEF MoveToLoaded
<1>6. LoadingHandles' = LoadingHandles \ D
  BY <1>1, <1>4, <1>5 DEF LoadingHandles, IsQueued, Keys
<1>7. Lifecycle!Finish(clears)
  <2>1. \E S \in SUBSET clears : LoadingHandles' = LoadingHandles \ S
    BY <1>6
  <2>2. Keys(unloads)' = Keys(unloads) /\ Keys(loaded)' = Keys(loaded) \cup clears
    BY <1>3, <1>5 DEF Keys
  <2> QED BY <1>2, <2>1, <2>2 DEF Lifecycle!Finish
<1> QED BY <1>1, <1>7 DEF Lifecycle!AssetsNext, Lifecycle!Manage

\* An unload and its asset go together.
LEMMA EraseUnloadedStep ==
  ASSUME TypeOK, LocalsMatch, EraseUnloaded
  PROVE  Lifecycle!AssetsNext
<1>1. clears \subseteq Keys(unloads) /\ clears \in SUBSET Handle
  BY DEF EraseUnloaded, LocalsMatch, Keys
<1>2. /\ Keys(loaded)' = Keys(loaded) \ clears
      /\ Keys(unloads)' = Keys(unloads) \ clears
  BY <1>1 DEF EraseUnloaded, Keys
<1>3. LoadingHandles' = LoadingHandles
  BY LoadingKept DEF EraseUnloaded
<1>4. Lifecycle!Erase(clears)
  BY <1>1, <1>2, <1>3 DEF Lifecycle!Erase
<1> QED BY <1>1, <1>4 DEF Lifecycle!AssetsNext, Lifecycle!Manage

\* A dispatched file is loading as before, unless it has no loader.
LEMMA DispatchStep ==
  ASSUME TypeOK, DispatchAssetLoadTask
  PROVE  Lifecycle!AssetsNext \/ UNCHANGED Lifecycle!assets
<1> DEFINE i == Head(queue)
           h == HandleOf[i]
<1>1. i \in Info /\ h \in Handle /\ IsQueued(h)
  <2>1. 1 \in DOMAIN queue /\ queue[1] = i
    BY DEF DispatchAssetLoadTask, TypeOK
  <2> QED BY <2>1, ConstantsAssumption DEF IsQueued, TypeOK
<1>2. /\ queue # <<>> /\ queue' = Tail(queue)
      /\ UNCHANGED <<uploads, unloads, loaded>>
  BY DEF DispatchAssetLoadTask
<1>3. \A g \in Handle : /\ IsQueued(g)' => IsQueued(g)
                        /\ IsQueued(g) => IsQueued(g)' \/ g = h
  BY <1>2, QueuedTail
<1>4. Keys(unloads)' = Keys(unloads) /\ Keys(loaded)' = Keys(loaded)
  BY <1>2 DEF Keys
<1>5. CASE HasLoader(i)
  <2>1. futures' = Emplace(futures, h, [info |-> i, ready |-> FALSE])
    BY <1>5 DEF DispatchAssetLoadTask
  <2>2. [info |-> i, ready |-> FALSE] # None
    <3>1. [info |-> i, ready |-> FALSE] \in [info : Info, ready : BOOLEAN]
      BY <1>1
    <3> QED BY <3>1, NoneAssumption
  <2>3. \A g \in Handle : futures'[g] # None <=> futures[g] # None \/ g = h
    BY <1>1, <2>1, <2>2 DEF Emplace, TypeOK
  <2>4. LoadingHandles' = LoadingHandles
    BY <1>1, <1>2, <1>3, <2>3 DEF LoadingHandles
  <2> QED BY <1>4, <2>4 DEF Lifecycle!assets
<1>6. CASE ~HasLoader(i)
  <2>1. UNCHANGED futures
    BY <1>6 DEF DispatchAssetLoadTask
  <2>2. CASE h \in LoadingHandles'
    <3>1. LoadingHandles' = LoadingHandles
      BY <1>1, <1>2, <1>3, <2>1, <2>2 DEF LoadingHandles
    <3> QED BY <1>4, <3>1 DEF Lifecycle!assets
  <2>3. CASE h \notin LoadingHandles'
    <3>1. LoadingHandles' = LoadingHandles \ {h}
      BY <1>1, <1>2, <1>3, <2>1, <2>3 DEF LoadingHandles
    <3>2. h \in LoadingHandles \cap UnsupportedHandles
      BY <1>1, <1>6 DEF LoadingHandles, UnsupportedHandles
    <3>3. Lifecycle!Vanish(h)
      BY <1>4, <3>1, <3>2 DEF Lifecycle!Vanish
    <3> QED BY <1>1, <3>3 DEF Lifecycle!AssetsNext, Lifecycle!Manage
  <2> QED BY <2>2, <2>3
<1> QED BY <1>5, <1>6

\* A collected future hands its handle over and brings textures.
LEMMA FinishLoadStep ==
  ASSUME TypeOK, KeysMatch, LocalsMatch, NEW h \in Handle, FinishLoad(h)
  PROVE  Lifecycle!AssetsNext
<1> DEFINE i == futures[h].info
           new == NewAssetsToLoad(i)
           T == {HandleOf[new[k]] : k \in DOMAIN new}
<1>1. h \in Keys(futures) /\ i \in Info /\ HandleOf[i] = h
  BY DEF FinishLoad, LocalsMatch, KeysMatch, Keys, TypeOK, Future
<1>2. new \in Seq(Info) /\ (GpuTasks(i) = 0 => new = <<>>)
  BY <1>1, TasksTyped, ConstantsAssumption DEF GpuTasks, NewAssetsToLoad
<1>3. /\ queue' = queue \o new
      /\ futures' = [futures EXCEPT ![h] = None]
      /\ UNCHANGED unloads
  BY DEF FinishLoad
<1>4. \A g \in Handle : IsQueued(g)' <=> IsQueued(g) \/ g \in T
  BY <1>2, <1>3, QueuedConcat
<1>5. h \in LoadingHandles
  BY <1>1 DEF LoadingHandles, Keys
<1>6. \A g \in Handle : futures'[g] = IF g = h THEN None ELSE futures[g]
  BY <1>3 DEF TypeOK
<1>7. LoadedAsset(i, NewCopy(h)) # None
  BY <1>1, TasksTyped, NewCopyTyped, NoneAssumption DEF Asset
<1>8. CASE GpuTasks(i) = 0
  <2>1. loaded' = Emplace(loaded, h, LoadedAsset(i, NewCopy(h))) /\ UNCHANGED uploads
    BY <1>8 DEF FinishLoad
  <2>2. Keys(loaded)' = Keys(loaded) \cup {h}
    BY <1>7, <2>1 DEF Emplace, Keys, TypeOK
  <2>3. T = {}
    BY <1>2, <1>8
  <2>4. \A g \in Handle \ {h} : g \in LoadingHandles' <=> g \in LoadingHandles
    BY <1>4, <1>6, <2>1, <2>3 DEF LoadingHandles
  <2>5. LoadingHandles' = LoadingHandles \ ({h} \ LoadingHandles')
    BY <1>5, <2>4 DEF LoadingHandles
  <2>6. \E D \in SUBSET {h} : LoadingHandles' = LoadingHandles \ D
    BY <2>5
  <2>7. Lifecycle!Finish({h})
    BY <1>3, <1>5, <2>2, <2>6 DEF Lifecycle!Finish, Keys
  <2> QED BY <2>7 DEF Lifecycle!AssetsNext, Lifecycle!Manage
<1>9. CASE GpuTasks(i) # 0
  <2>1. uploads' = Emplace(uploads, h, LoadedAsset(i, NewCopy(h))) /\ UNCHANGED loaded
    BY <1>9 DEF FinishLoad
  <2>2. \A g \in Handle : uploads'[g] # None <=> uploads[g] # None \/ g = h
    BY <1>7, <2>1 DEF Emplace, TypeOK
  <2>3. T \subseteq Handle
    BY <1>2, ConstantsAssumption
  <2>4. LoadingHandles' = LoadingHandles \cup T
    BY <1>4, <1>5, <1>6, <2>2, <2>3 DEF LoadingHandles
  <2>5. T \in SUBSET BroughtBy[h]
    <3>1. ASSUME NEW k \in DOMAIN new PROVE HandleOf[new[k]] \in BroughtBy[h]
      <4>1. k \in DOMAIN Textures[i] /\ new[k] = Textures[i][k]
        BY DEF NewAssetsToLoad
      <4>2. new[k] \in UNION {{Textures[j][m] : m \in DOMAIN Textures[j]} :
                                j \in {l \in Info : HandleOf[l] = h}}
        BY <1>1, <4>1
      <4> QED BY <4>2 DEF BroughtBy
    <3> QED BY <3>1
  <2>6. Lifecycle!Parse(h)
    BY <1>3, <1>5, <2>1, <2>4, <2>5 DEF Lifecycle!Parse, Keys
  <2> QED BY <2>6 DEF Lifecycle!AssetsNext, Lifecycle!Manage
<1> QED BY <1>8, <1>9

-----------------------------------------------------------------------------
\* Running callbacks of an asset leaves an asset.
LEMMA CallbacksKeepAsset ==
  ASSUME SafetyInv, NEW h \in Handle, RunLoadCallbacks(h)
  PROVE  uploads'[h] \in Asset
<1> DEFINE n == Batch(TasksLeft(uploads[h]), CallbackTasksPerTick - processed)
<1>0. TypeOK /\ LocalsMatch /\ LoadedAssetsAreUploaded
  BY DEF SafetyInv
<1>1. h \in Keys(uploads) /\ h \notin clears
  BY <1>0 DEF RunLoadCallbacks, LocalsMatch
<1>2. uploads[h] \in Asset
  BY <1>0, <1>1 DEF Keys, TypeOK
<1>3. TasksLeft(uploads[h]) \in Nat \ {0}
  <2>1. TasksLeft(uploads[h]) > 0
    BY <1>0, <1>1 DEF LoadedAssetsAreUploaded
  <2>2. TasksLeft(uploads[h]) \in Int
    BY <1>2, TasksTyped DEF TasksLeft, Asset
  <2> QED BY <2>1, <2>2
<1>4. n \in Nat
  <2>1. /\ CallbackTasksPerTick - processed \in Nat
        /\ CallbackTasksPerTick - processed > 0
    BY <1>0, ConstantsAssumption DEF RunLoadCallbacks, TypeOK
  <2> QED BY <1>3, <2>1, BatchBounds
<1>5. uploads' = [uploads EXCEPT ![h].made = @ + n]
  BY DEF RunLoadCallbacks
<1>6. uploads'[h] = [uploads[h] EXCEPT !.made = uploads[h].made + n]
  BY <1>0, <1>5 DEF TypeOK
<1>7. uploads[h].made + n \in Nat
  BY <1>2, <1>4 DEF Asset
<1> QED BY <1>2, <1>6, <1>7 DEF Asset

\* Every step of the asset manager is a step of the lifecycle, or changes nothing
\* that the lifecycle shows.
LEMMA StepRefines ==
  ASSUME SafetyInv, SafetyInv', [Next]_vars
  PROVE  [Lifecycle!AssetsNext]_(Lifecycle!assets)
<1>0. TypeOK /\ KeysMatch /\ LocalsMatch /\ TypeOK'
  BY DEF SafetyInv
<1>1. ASSUME UNCHANGED maps PROVE UNCHANGED Lifecycle!assets
  BY <1>1, UntouchedMaps
<1>2. CASE Client
  <2>1. ASSUME NEW ops, NEW closing, Call(ops, closing) PROVE UNCHANGED maps
    BY <2>1 DEF Call
  <2>2. ASSUME WaitAllAssets \/ WaitAllUnloads \/ UnloadAllAssets \/ Shutdown
        PROVE  UNCHANGED maps
    BY <2>1, <2>2 DEF WaitAllAssets, WaitAllUnloads, UnloadAllAssets, Shutdown
  <2> QED BY <1>0, <1>1, <1>2, <2>2, LoadAssetStep, UnloadSteps DEF Client
<1>3. CASE Tick
  <2>1. ASSUME NEW h \in Handle, RunLoadCallbacks(h) PROVE UNCHANGED Lifecycle!assets
    <3>1. h \in Keys(uploads)
      BY <1>0, <2>1 DEF RunLoadCallbacks, LocalsMatch
    <3>2. \A g \in Handle : uploads'[g] = None <=> uploads[g] = None
      <4>1. uploads'[h] # None
        BY <2>1, CallbacksKeepAsset, NoneAssumption DEF Asset
      <4>2. \A g \in Handle \ {h} : uploads'[g] = uploads[g]
        BY <1>0, <2>1 DEF RunLoadCallbacks, TypeOK
      <4> QED BY <3>1, <4>1, <4>2 DEF Keys
    <3>3. LoadingHandles' = LoadingHandles
      BY <2>1, <3>2, SameLoading DEF RunLoadCallbacks, Keys
    <3> QED BY <2>1, <3>3 DEF RunLoadCallbacks, Lifecycle!assets, Keys
  <2>2. ASSUME NEW h \in Handle, RunUnloadCallback(h) PROVE UNCHANGED maps
    BY <2>2 DEF RunUnloadCallback
  <2>3. ASSUME OnUpdate \/ JoinDuplicate \/ DispatchReturns \/ CollectFinished
               \/ OnUpdateReturns
        PROVE  UNCHANGED maps
    BY <2>3 DEF OnUpdate, JoinDuplicate, DispatchReturns, CollectFinished, OnUpdateReturns
  <2> QED BY <1>0, <1>1, <1>3, <2>1, <2>2, <2>3, MoveToLoadedStep, EraseUnloadedStep,
             DispatchStep, FinishLoadStep DEF Tick
<1>4. CASE Wait
  <2>1. ASSUME WaitReturns PROVE UNCHANGED maps
    BY <2>1 DEF WaitReturns
  <2> QED BY <1>0, <1>1, <1>4, <2>1, UnloadSteps DEF Wait
<1>5. CASE Loader
  <2>1. ASSUME NEW h \in Handle, LoaderFinishes(h) PROVE UNCHANGED Lifecycle!assets
    <3>1. Keys(futures') = Keys(futures)
      BY <1>0, <2>1, NoneAssumption DEF LoaderFinishes, Keys, TypeOK, Future
    <3>2. LoadingHandles' = LoadingHandles
      BY <2>1, <3>1, SameLoading DEF LoaderFinishes
    <3> QED BY <2>1, <3>2 DEF LoaderFinishes, Lifecycle!assets, Keys
  <2>2. ASSUME DuplicateLoaderFinishes PROVE UNCHANGED maps
    BY <2>2 DEF DuplicateLoaderFinishes
  <2> QED BY <1>1, <1>5, <2>1, <2>2 DEF Loader
<1>6. CASE Stutter \/ UNCHANGED vars
  BY <1>1, <1>6 DEF Stutter, vars
<1> QED BY <1>2, <1>3, <1>4, <1>5, <1>6 DEF Next

\* Nothing is loading, unloading or loaded at first.
LEMMA InitRefines == Init => Lifecycle!AssetsInit
BY DEF Init, Lifecycle!AssetsInit, LoadingHandles, IsQueued, Keys

\* The asset manager implements the lifecycle its clients rely on: duplicates,
\* hash collisions, failed loads and the spreading of work over ticks never make
\* an asset appear that was not loading or disappear that was not unloading.
THEOREM ManagerImplementsLifecycle == Spec => ImplementsLifecycle
<1>1. SafetyInv /\ SafetyInv' /\ [Next]_vars => [Lifecycle!AssetsNext]_(Lifecycle!assets)
  BY StepRefines
<1> QED BY <1>1, InitRefines, SafetyInvariant, PTL
        DEF Spec, ImplementsLifecycle, Lifecycle!AssetsSpec
=============================================================================
