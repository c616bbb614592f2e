------------------------- MODULE AssetManagerProofs -------------------------
(* Proofs of the safety properties of AssetManager for every instance.     *)
EXTENDS AssetManager, FiniteSetTheorems, TLAPS

\* The types of the constants that most proofs need.
LEMMA ConstantTypes ==
  /\ HandleOf \in [Info -> Handle]
  /\ TypeOf \in [Info -> AssetType]
  /\ Requests \subseteq Info
  /\ CallbackTasksPerTick \in Nat \ {0}
  /\ MaxAsyncTaskInFlight \in Nat \ {0}
BY ConstantsAssumption

\* Half the tasks left, or half the room left, and at least one of each: an
\* iteration of the first loop always makes progress and stays in its budget.
LEMMA BatchBounds ==
  ASSUME NEW left \in Nat, NEW room \in Nat, left > 0, room > 0
  PROVE  /\ Batch(left, room) \in Nat
         /\ Batch(left, room) >= 1
         /\ Batch(left, room) <= left
         /\ Batch(left, room) <= room
  BY DEF Batch, Half, Least

\* What an asset still has to upload is an integer.
LEMMA TasksTyped ==
  ASSUME NEW i \in Info, NEW c \in {0, 1}
  PROVE  /\ GpuTasks(i) \in Nat
         /\ NewAssetsToLoad(i) \in Seq(Info)
         /\ LoadedAsset(i, c) \in Asset
         /\ LoadedAsset(i, c).info = i
         /\ TasksLeft(LoadedAsset(i, c)) = GpuTasks(i)
  BY ConstantsAssumption DEF GpuTasks, NewAssetsToLoad, LoadedAsset, FailsToOpen, TasksLeft, Asset

\* The new object of a load is one of two.
LEMMA NewCopyTyped ==
  ASSUME TypeOK, NEW h \in Handle
  PROVE  NewCopy(h) \in {0, 1}
  BY DEF NewCopy, TypeOK, Asset

\* The keys of a map are finitely many.
LEMMA KeysFinite ==
  ASSUME NEW map
  PROVE  IsFiniteSet(Keys(map)) /\ Cardinality(Keys(map)) \in Nat
  BY HandlesFinite, FS_Subset, FS_CardinalityType DEF Keys

-----------------------------------------------------------------------------
\* The types hold at first.
LEMMA InitTypeOK == Init => TypeOK
<1> SUFFICES ASSUME Init PROVE TypeOK
  OBVIOUS
<1>1. queue \in Seq(Info) /\ calls \in Seq(Calls)
  BY DEF Init
<1>2. /\ futures \in [Handle -> Future \cup {None}]
      /\ uploads \in [Handle -> Asset \cup {None}]
      /\ loaded \in [Handle -> Asset \cup {None}]
      /\ unloads \in [Handle -> AssetType \cup {None}]
      /\ wanted \in [Handle -> {"none", "load", "unload"}]
  BY DEF Init
<1>3. processed \in 0..CallbackTasksPerTick
  BY ConstantTypes DEF Init
<1> QED BY <1>1, <1>2, <1>3 DEF Init, TypeOK, Steps

\* Every step keeps the types; a batch needs to know that its asset has a task left.
LEMMA NextTypeOK == TypeOK /\ LocalsMatch /\ LoadedAssetsAreUploaded /\ [Next]_vars => TypeOK'
<1> SUFFICES ASSUME TypeOK, LocalsMatch, LoadedAssetsAreUploaded, [Next]_vars
             PROVE  TypeOK'
  OBVIOUS
<1> USE ConstantTypes DEF maps, frame, ghost
<1>1. ASSUME NEW i \in Requests, LoadAsset(i) PROVE TypeOK'
  BY <1>1 DEF LoadAsset, Free, TypeOK
<1>2. ASSUME NEW i \in Requests, UnloadAsset(i) PROVE TypeOK'
  <2>1. ScheduleUnload(unloads, HandleOf[i], TypeOf[i]) \in [Handle -> AssetType \cup {None}]
    BY DEF ScheduleUnload, Emplace, TypeOK
  <2> QED BY <1>2, <2>1 DEF UnloadAsset, TypeOK
<1>3. ASSUME NEW ops, NEW closing \in BOOLEAN, ops \in Seq(Calls), Call(ops, closing) PROVE TypeOK'
  BY <1>3 DEF Call, TypeOK
<1>4. CASE WaitReturns
  BY <1>4 DEF WaitReturns, TypeOK
<1>5. CASE UnloadEverything
  <2>1. \A h \in Handle : loaded[h] # None =>
          ScheduleUnload(unloads, h, TypeOf[loaded[h].info])[h] \in AssetType \cup {None}
    BY DEF ScheduleUnload, Emplace, TypeOK, Asset
  <2>2. unloads' \in [Handle -> AssetType \cup {None}]
    BY <1>5, <2>1 DEF UnloadEverything, TypeOK
  <2>3. calls' \in Seq(Calls)
    BY <1>5 DEF UnloadEverything, TypeOK, Calls
  <2>4. wanted' \in [Handle -> {"none", "load", "unload"}]
    BY <1>5 DEF UnloadEverything, TypeOK
  <2> QED BY <1>5, <2>2, <2>3, <2>4 DEF UnloadEverything, TypeOK
<1>6. CASE OnUpdate
  BY <1>6 DEF OnUpdate, TypeOK, Steps, Keys
<1>7. ASSUME NEW h \in Handle, RunLoadCallbacks(h) PROVE TypeOK'
  <2> DEFINE n == Batch(TasksLeft(uploads[h]), CallbackTasksPerTick - processed)
  <2>1. uploads[h] \in Asset /\ TasksLeft(uploads[h]) \in Nat \ {0}
    <3>1. h \in Keys(uploads) /\ h \notin clears
      BY <1>7 DEF RunLoadCallbacks, LocalsMatch
    <3>2. uploads[h] \in Asset
      BY <3>1 DEF Keys, TypeOK
    <3>3. TasksLeft(uploads[h]) > 0
      BY <3>1 DEF LoadedAssetsAreUploaded
    <3>4. TasksLeft(uploads[h]) \in Int
      BY <3>2, TasksTyped DEF TasksLeft, Asset
    <3> QED BY <3>2, <3>3, <3>4
  <2>2. n \in Nat /\ n <= CallbackTasksPerTick - processed
    BY <1>7, <2>1, BatchBounds DEF RunLoadCallbacks, TypeOK
  <2>3. uploads' = [uploads EXCEPT ![h].made = @ + n] /\ processed' = processed + n
    BY <1>7 DEF RunLoadCallbacks
  <2>4. uploads' \in [Handle -> Asset \cup {None}]
    <3>1. uploads[h].made + n \in Nat
      BY <2>1, <2>2 DEF Asset
    <3>2. \A a \in Asset, m \in Nat : [a EXCEPT !.made = m] \in Asset
      BY DEF Asset
    <3>3. [uploads[h] EXCEPT !.made = @ + n] \in Asset
      BY <2>1, <3>1, <3>2
    <3> QED BY <2>3, <3>3 DEF TypeOK
  <2>5. processed' \in 0..CallbackTasksPerTick
    BY <2>2, <2>3 DEF TypeOK
  <2>6. clears' \subseteq Handle
    BY <1>7 DEF RunLoadCallbacks, Cleared, TypeOK
  <2> QED BY <1>7, <2>4, <2>5, <2>6 DEF RunLoadCallbacks, TypeOK
<1>8. CASE MoveToLoaded
  <2>1. \A h \in Handle : Emplace(loaded, h, uploads[h])[h] \in Asset \cup {None}
    BY DEF Emplace, TypeOK
  <2>2. loaded' \in [Handle -> Asset \cup {None}] /\ uploads' \in [Handle -> Asset \cup {None}]
    BY <1>8, <2>1 DEF MoveToLoaded, TypeOK
  <2>3. orphans' \subseteq Handle \X {"asset", "gpu"}
    BY <1>8 DEF MoveToLoaded, TypeOK, Discarded
  <2>4. visit' \subseteq Handle
    BY <1>8 DEF MoveToLoaded, Keys
  <2> QED BY <1>8, <2>2, <2>3, <2>4 DEF MoveToLoaded, TypeOK, Steps
<1>9. ASSUME NEW h \in Handle, RunUnloadCallback(h) PROVE TypeOK'
  BY <1>9 DEF RunUnloadCallback, TypeOK, Steps
<1>10. CASE EraseUnloaded
  BY <1>10 DEF EraseUnloaded, TypeOK, Steps
<1>11. CASE DispatchAssetLoadTask
  <2> DEFINE i == Head(queue)
             future == [info |-> i, ready |-> FALSE]
  <2>1. i \in Info /\ queue' \in Seq(Info)
    BY <1>11 DEF DispatchAssetLoadTask, TypeOK
  <2>2. future \in Future
    BY <2>1 DEF Future
  <2>3. Emplace(futures, HandleOf[i], future) \in [Handle -> Future \cup {None}]
    BY <2>1, <2>2 DEF Emplace, TypeOK
  <2>4. futures' \in [Handle -> Future \cup {None}]
    BY <1>11, <2>3 DEF DispatchAssetLoadTask, TypeOK
  <2>5. duplicate' \in Future \cup {None} /\ pc' \in Steps
    BY <1>11, <2>2 DEF DispatchAssetLoadTask, TypeOK, Steps
  <2> QED BY <1>11, <2>1, <2>4, <2>5 DEF DispatchAssetLoadTask, TypeOK
<1>12. CASE JoinDuplicate
  <2>1. HandleOf[duplicate.info] \in Handle
    BY <1>12 DEF JoinDuplicate, TypeOK, Future
  <2> QED BY <1>12, <2>1 DEF JoinDuplicate, TypeOK, Steps
<1>13. CASE DispatchReturns
  BY <1>13 DEF DispatchReturns, TypeOK, Steps
<1>14. CASE CollectFinished
  BY <1>14 DEF CollectFinished, TypeOK, Steps, Keys
<1>15. ASSUME NEW h \in Handle, FinishLoad(h) PROVE TypeOK'
  <2> DEFINE i == futures[h].info
  <2>1. i \in Info
    BY <1>15 DEF FinishLoad, LocalsMatch, Keys, TypeOK, Future
  <2>2. queue' \in Seq(Info)
    BY <1>15, <2>1, TasksTyped DEF FinishLoad, TypeOK
  <2>3. loaded' \in [Handle -> Asset \cup {None}] /\ uploads' \in [Handle -> Asset \cup {None}]
    <3>1. LoadedAsset(i, NewCopy(h)) \in Asset
      BY <2>1, TasksTyped, NewCopyTyped
    <3> QED BY <1>15, <2>1, <3>1 DEF FinishLoad, Emplace, TypeOK
  <2>4. wanted' \in [Handle -> {"none", "load", "unload"}]
    BY <1>15 DEF FinishLoad, TypeOK
  <2>5. orphans' \subseteq Handle \X {"asset", "gpu"}
    BY <1>15 DEF FinishLoad, TypeOK
  <2> QED BY <1>15, <2>2, <2>3, <2>4, <2>5 DEF FinishLoad, TypeOK
<1>16. CASE OnUpdateReturns
  BY <1>16 DEF OnUpdateReturns, TypeOK, Steps
<1>17. ASSUME NEW h \in Handle, LoaderFinishes(h) PROVE TypeOK'
  BY <1>17 DEF LoaderFinishes, TypeOK, Future
<1>18. CASE DuplicateLoaderFinishes
  BY <1>18 DEF DuplicateLoaderFinishes, TypeOK, Future
<1>19. CASE UNCHANGED vars
  BY <1>19 DEF vars, TypeOK
<1>20. ASSUME Client PROVE TypeOK'
  <2>1. /\ <<"WaitAllAssets">> \in Seq(Calls)
        /\ <<"WaitAllUnloads">> \in Seq(Calls)
        /\ <<"UnloadAllAssets">> \in Seq(Calls)
        /\ <<"WaitAllAssets", "WaitAllUnloads", "UnloadAllAssets">> \in Seq(Calls)
    BY DEF Calls
  <2> QED
    BY <1>1, <1>2, <1>3, <1>20, <2>1 DEF Client, WaitAllAssets, WaitAllUnloads, UnloadAllAssets, Shutdown
<1> QED
  BY <1>4, <1>5, <1>6, <1>7, <1>8, <1>9, <1>10, <1>11, <1>12, <1>13, <1>14, <1>15, <1>16,
     <1>17, <1>18, <1>19, <1>20 DEF Next, Tick, Wait, Loader, Stutter

-----------------------------------------------------------------------------
\* The conjuncts of SafetyInv other than the types, as one name.
Matching ==
  /\ KeysMatch
  /\ LocalsMatch
  /\ DuplicateMatches
  /\ UnloadsAreOfLoadedAssets
  /\ LoadedAssetsAreUploaded

\* Nothing is in the maps at first.
LEMMA InitMatching == Init => Matching
<1> SUFFICES ASSUME Init PROVE Matching
  OBVIOUS
<1>1. Keys(futures) = {} /\ Keys(uploads) = {} /\ Keys(unloads) = {} /\ Keys(loaded) = {}
  BY DEF Init, Keys
<1>2. Cardinality(Keys(futures)) = 0
  BY <1>1, FS_EmptySet
<1> QED
  BY <1>1, <1>2, ConstantTypes
  DEF Init, Matching, KeysMatch, LocalsMatch, DuplicateMatches, UnloadsAreOfLoadedAssets,
      LoadedAssetsAreUploaded

\* An action that leaves the maps alone keeps Matching if the locals still fit.
LEMMA MapsUnchanged ==
  ASSUME Matching, UNCHANGED maps, LocalsMatch', duplicate' = None \/ (pc' = "join" /\ HasRoom),
         pc # "load_callbacks" \/ (pc' = pc /\ clears' = clears)
  PROVE  Matching'
  BY DEF Matching, maps, KeysMatch, DuplicateMatches, UnloadsAreOfLoadedAssets,
         LoadedAssetsAreUploaded, Keys, TasksLeft, HasRoom

\* Every step keeps what the maps and the locals of the tick say of one another.
LEMMA NextMatching == TypeOK /\ Matching /\ [Next]_vars => Matching'
<1> SUFFICES ASSUME TypeOK, Matching, [Next]_vars PROVE Matching'
  OBVIOUS
<1> USE DEF frame, ghost
<1>a. LocalsMatch /\ DuplicateMatches
  BY DEF Matching
<1>1. ASSUME NEW i \in Requests, LoadAsset(i) PROVE Matching'
  BY <1>1 DEF LoadAsset, Matching, KeysMatch, LocalsMatch, DuplicateMatches, HasRoom, Free,
              UnloadsAreOfLoadedAssets, LoadedAssetsAreUploaded, Keys, TasksLeft
<1>2. ASSUME NEW i \in Requests, UnloadAsset(i) PROVE Matching'
  <2>1. \A h \in Handle : unloads'[h] # None => unloads[h] # None \/ loaded[h] # None
    BY <1>2, ConstantTypes DEF UnloadAsset, IsLoaded, ScheduleUnload, Emplace, TypeOK
  <2>2. UnloadsAreOfLoadedAssets'
    BY <1>2, <2>1 DEF UnloadAsset, Matching, UnloadsAreOfLoadedAssets, Keys
  <2> QED
    BY <1>2, <2>2 DEF UnloadAsset, Free, Matching, KeysMatch, LocalsMatch, DuplicateMatches,
                      HasRoom, LoadedAssetsAreUploaded, Keys, TasksLeft
<1>3. ASSUME NEW ops, NEW closing, Call(ops, closing) PROVE Matching'
  BY <1>3, <1>a, MapsUnchanged DEF Call, Free, LocalsMatch, DuplicateMatches
<1>4. CASE WaitReturns
  BY <1>4, <1>a, MapsUnchanged DEF WaitReturns, LocalsMatch, DuplicateMatches
<1>5. CASE UnloadEverything
  <2>1. \A h \in Handle : unloads'[h] # None => unloads[h] # None \/ loaded[h] # None
    BY <1>5 DEF UnloadEverything, TypeOK
  <2>2. UnloadsAreOfLoadedAssets'
    BY <1>5, <2>1 DEF UnloadEverything, Matching, UnloadsAreOfLoadedAssets, Keys
  <2> QED
    BY <1>5, <2>2 DEF UnloadEverything, Matching, KeysMatch, LocalsMatch, DuplicateMatches,
                      HasRoom, LoadedAssetsAreUploaded, Keys, TasksLeft
<1>6. CASE OnUpdate
  BY <1>6, <1>a, MapsUnchanged DEF OnUpdate, maps, LocalsMatch, DuplicateMatches, Keys
<1>7. ASSUME NEW h \in Handle, RunLoadCallbacks(h) PROVE Matching'
  <2> DEFINE left == TasksLeft(uploads[h])
             n == Batch(left, CallbackTasksPerTick - processed)
  <2>1. h \in Keys(uploads) /\ h \notin clears /\ uploads[h] \in Asset
    BY <1>7, <1>a DEF RunLoadCallbacks, LocalsMatch, Keys, TypeOK
  <2>2. left \in Nat \ {0}
    <3>1. GpuTasks(uploads[h].info) \in Nat
      BY <2>1, TasksTyped DEF Asset
    <3>2. left \in Int
      BY <2>1, <3>1 DEF TasksLeft, Asset
    <3>3. left > 0
      BY <2>1 DEF Matching, LoadedAssetsAreUploaded
    <3> QED BY <3>2, <3>3
  <2>3. n \in Nat /\ n <= left
    <3> DEFINE room == CallbackTasksPerTick - processed
    <3>1. room \in Nat /\ room > 0
      BY <1>7, ConstantTypes DEF RunLoadCallbacks, TypeOK
    <3>2. left \in Nat /\ left > 0
      BY <2>2
    <3>3. \A a, b \in Nat : a > 0 /\ b > 0 => Batch(a, b) \in Nat /\ Batch(a, b) <= a
      BY BatchBounds
    <3> QED BY <3>1, <3>2, <3>3
  <2>4. /\ uploads' = [uploads EXCEPT ![h].made = @ + n]
        /\ clears' = IF left = n THEN clears \cup {h} ELSE clears
        /\ visit' = visit \ {h}
        /\ pc = "load_callbacks"
        /\ UNCHANGED <<queue, futures, unloads, loaded, duplicate, pc>>
    BY <1>7 DEF RunLoadCallbacks, Cleared
  <2>5. \A g \in Handle \ {h} : uploads'[g] = uploads[g]
    BY <2>4 DEF TypeOK
  <2>6. uploads'[h] = [uploads[h] EXCEPT !.made = @ + n]
    BY <2>4 DEF TypeOK
  <2>7. uploads'[h] \in Asset /\ uploads'[h].info = uploads[h].info
        /\ TasksLeft(uploads'[h]) = left - n
    <3>1. uploads[h].made + n \in Nat
      BY <2>1, <2>3 DEF Asset
    <3>2. \A a \in Asset, m \in Nat : LET b == [a EXCEPT !.made = m]
                                      IN  b \in Asset /\ b.info = a.info /\ b.made = m
      BY DEF Asset
    <3>3. uploads'[h].made = uploads[h].made + n /\ uploads'[h] \in Asset
          /\ uploads'[h].info = uploads[h].info
      BY <2>1, <2>6, <3>1, <3>2
    <3>4. GpuTasks(uploads[h].info) \in Nat
      BY <2>1, TasksTyped DEF Asset
    <3> QED BY <2>1, <2>3, <3>3, <3>4 DEF TasksLeft, Asset
  <2>8. Keys(uploads') = Keys(uploads)
    BY <2>1, <2>5, <2>7, NoneAssumption DEF Keys, Asset
  <2>9. KeysMatch'
    BY <2>4, <2>5, <2>7, <2>8 DEF Matching, KeysMatch, Keys
  <2>10. LocalsMatch'
    <3>1. \A g \in clears' : TasksLeft(uploads'[g]) = 0
      <4>1. ASSUME NEW g \in clears', g # h PROVE TasksLeft(uploads'[g]) = 0
        BY <1>a, <4>1, <2>4, <2>5 DEF LocalsMatch, TypeOK
      <4>2. h \in clears' => TasksLeft(uploads'[h]) = 0
        BY <2>1, <2>2, <2>3, <2>4, <2>7
      <4> QED BY <4>1, <4>2
    <3>2. visit' \subseteq Keys(uploads') \ clears' /\ clears' \subseteq Keys(uploads')
      BY <1>a, <2>1, <2>4, <2>8 DEF LocalsMatch
    <3> QED BY <2>4, <3>1, <3>2 DEF LocalsMatch, Keys
  <2>11. LoadedAssetsAreUploaded'
    <3>1. \A g \in Keys(uploads') : TasksLeft(uploads'[g]) > 0 \/ g \in clears'
      <4>1. ASSUME NEW g \in Keys(uploads'), g # h PROVE TasksLeft(uploads'[g]) > 0 \/ g \in clears'
        BY <2>4, <2>5, <2>8, <4>1 DEF Matching, LoadedAssetsAreUploaded, Keys
      <4>2. TasksLeft(uploads'[h]) > 0 \/ h \in clears'
        BY <2>2, <2>3, <2>4, <2>7
      <4> QED BY <4>1, <4>2
    <3>2. \A g \in Keys(loaded') : TasksLeft(loaded'[g]) = 0
      BY <2>4 DEF Matching, LoadedAssetsAreUploaded
    <3> QED BY <2>4, <3>1, <3>2 DEF LoadedAssetsAreUploaded, TasksLeft, Keys
  <2> QED
    BY <2>4, <2>9, <2>10, <2>11 DEF Matching, DuplicateMatches, HasRoom, UnloadsAreOfLoadedAssets, Keys
<1>8. CASE MoveToLoaded
  <2>1. \A h \in Handle :
          /\ loaded'[h] = IF h \in clears /\ loaded[h] = None THEN uploads[h] ELSE loaded[h]
          /\ uploads'[h] = IF h \in clears THEN None ELSE uploads[h]
    BY <1>8 DEF MoveToLoaded, Emplace, TypeOK
  <2>2. pc = "load_callbacks" /\ pc' = "unload_callbacks"
        /\ visit' = Keys(unloads) /\ clears' = {} /\ UNCHANGED <<futures, unloads, duplicate>>
    BY <1>8 DEF MoveToLoaded
  <2>3. KeysMatch'
    BY <1>a, <2>1, <2>2 DEF Matching, KeysMatch, LocalsMatch, Keys
  <2>4. LocalsMatch'
    BY <2>2 DEF LocalsMatch, Keys
  <2>5. LoadedAssetsAreUploaded'
    BY <1>a, <2>1, <2>2 DEF Matching, LocalsMatch, LoadedAssetsAreUploaded, Keys, TasksLeft
  <2>6. UnloadsAreOfLoadedAssets'
    BY <2>1, <2>2 DEF Matching, UnloadsAreOfLoadedAssets, Keys
  <2> QED BY <1>a, <2>2, <2>3, <2>4, <2>5, <2>6 DEF Matching, DuplicateMatches, HasRoom, Keys
<1>9. ASSUME NEW h \in Handle, RunUnloadCallback(h) PROVE Matching'
  BY <1>9, <1>a, MapsUnchanged DEF RunUnloadCallback, maps, LocalsMatch, DuplicateMatches, Keys
<1>10. CASE EraseUnloaded
  <2>1. \A h \in Handle :
          /\ loaded'[h] = IF h \in clears THEN None ELSE loaded[h]
          /\ unloads'[h] = IF h \in clears THEN None ELSE unloads[h]
    BY <1>10 DEF EraseUnloaded
  <2>2. pc = "unload_callbacks" /\ pc' = "dispatch" /\ UNCHANGED <<futures, uploads, duplicate>>
    BY <1>10 DEF EraseUnloaded
  <2>3. KeysMatch' /\ UnloadsAreOfLoadedAssets' /\ LoadedAssetsAreUploaded'
    BY <2>1, <2>2 DEF Matching, KeysMatch, UnloadsAreOfLoadedAssets, LoadedAssetsAreUploaded, Keys,
                      TasksLeft
  <2> QED BY <1>a, <2>2, <2>3 DEF Matching, LocalsMatch, DuplicateMatches, HasRoom, Keys
<1>11. CASE DispatchAssetLoadTask
  <2> DEFINE i == Head(queue)
             future == [info |-> i, ready |-> FALSE]
  <2>1. i \in Info /\ HandleOf[i] \in Handle
    BY <1>11, ConstantTypes DEF DispatchAssetLoadTask, TypeOK
  <2>2. pc = "dispatch" /\ UNCHANGED <<uploads, unloads, loaded, visit, processed, clears>>
    BY <1>11 DEF DispatchAssetLoadTask
  <2>3. HasRoom /\ pc' \in {"dispatch", "join"}
        /\ (duplicate' # duplicate => pc' = "join" /\ futures' = futures)
        /\ (futures' # futures => futures' = [futures EXCEPT ![HandleOf[i]] = future]
                                 /\ futures[HandleOf[i]] = None /\ duplicate' = duplicate)
    BY <1>11 DEF DispatchAssetLoadTask, Emplace
  <2>4. duplicate = None
    BY <1>a, <2>2 DEF DuplicateMatches
  <2>5. CASE futures' = futures
    BY <1>a, <2>2, <2>3, <2>4, <2>5
    DEF Matching, KeysMatch, LocalsMatch, DuplicateMatches, HasRoom, UnloadsAreOfLoadedAssets,
        LoadedAssetsAreUploaded, Keys, TasksLeft
  <2>6. CASE futures' # futures
    <3>1. futures' = [futures EXCEPT ![HandleOf[i]] = future] /\ duplicate' = None
      BY <2>3, <2>4, <2>6
    <3>2. future # None
      <4>1. future \in [info : Info, ready : BOOLEAN]
        BY <2>1
      <4> QED BY <4>1, NoneAssumption
    <3>3. Keys(futures') = Keys(futures) \cup {HandleOf[i]} /\ HandleOf[i] \notin Keys(futures)
      BY <2>1, <2>3, <2>6, <3>1, <3>2 DEF Keys, TypeOK
    <3>4. Cardinality(Keys(futures')) = Cardinality(Keys(futures)) + 1
      BY <3>3, KeysFinite, FS_AddElement
    <3>5. DuplicateMatches'
      <4>1. Cardinality(Keys(futures)) \in Nat
        BY KeysFinite
      <4> QED BY <2>3, <3>1, <3>4, <4>1, ConstantTypes DEF DuplicateMatches, HasRoom
    <3>6. KeysMatch'
      BY <2>1, <2>2, <3>1, <3>3 DEF Matching, KeysMatch, Keys, TypeOK
    <3> QED
      BY <1>a, <2>2, <2>3, <3>5, <3>6
      DEF Matching, LocalsMatch, UnloadsAreOfLoadedAssets, LoadedAssetsAreUploaded, Keys, TasksLeft
  <2> QED BY <2>5, <2>6
<1>12. CASE JoinDuplicate
  BY <1>12, <1>a, MapsUnchanged DEF JoinDuplicate, maps, LocalsMatch
<1>13. CASE DispatchReturns
  BY <1>13, <1>a, MapsUnchanged DEF DispatchReturns, LocalsMatch, DuplicateMatches
<1>14. CASE CollectFinished
  BY <1>14, <1>a, MapsUnchanged DEF CollectFinished, maps, LocalsMatch, DuplicateMatches, Keys
<1>15. ASSUME NEW h \in Handle, FinishLoad(h) PROVE Matching'
  <2> DEFINE i == futures[h].info
             asset == LoadedAsset(i, NewCopy(h))
  <2>1. h \in Keys(futures) /\ i \in Info /\ HandleOf[i] = h
    BY <1>15, <1>a DEF FinishLoad, LocalsMatch, Matching, KeysMatch, Keys, TypeOK, Future
  <2>2. asset.info = i /\ TasksLeft(asset) = GpuTasks(i) /\ GpuTasks(i) \in Nat
    BY <2>1, TasksTyped, NewCopyTyped
  <2>3. /\ pc = "finish" /\ pc' = "finish"
        /\ clears' = clears \ {h}
        /\ futures' = [futures EXCEPT ![h] = None]
        /\ UNCHANGED <<unloads, duplicate, visit, processed>>
        /\ loaded' = IF GpuTasks(i) = 0 THEN Emplace(loaded, h, asset) ELSE loaded
        /\ uploads' = IF GpuTasks(i) = 0 THEN uploads ELSE Emplace(uploads, h, asset)
    BY <1>15 DEF FinishLoad
  <2>4. \A g \in Handle :
          /\ loaded'[g] # None => loaded'[g] = loaded[g] \/ (g = h /\ loaded'[g] = asset /\ GpuTasks(i) = 0)
          /\ loaded[g] # None => loaded'[g] = loaded[g]
          /\ uploads'[g] # None => uploads'[g] = uploads[g] \/ (g = h /\ uploads'[g] = asset /\ GpuTasks(i) # 0)
    BY <2>3 DEF Emplace, TypeOK
  <2>5. Keys(futures') = Keys(futures) \ {h} /\ \A g \in Keys(futures') : futures'[g] = futures[g]
    BY <2>3 DEF Keys, TypeOK
  <2>6. Cardinality(Keys(futures')) <= Cardinality(Keys(futures))
    BY <2>5, KeysFinite, FS_Subset
  <2>7. KeysMatch'
    BY <2>1, <2>2, <2>4, <2>5 DEF Matching, KeysMatch, Keys
  <2>8. LocalsMatch'
    BY <1>a, <2>3, <2>5 DEF LocalsMatch, Keys
  <2>9. UnloadsAreOfLoadedAssets'
    BY <2>3, <2>4 DEF Matching, UnloadsAreOfLoadedAssets, Keys
  <2>10. LoadedAssetsAreUploaded'
    BY <2>2, <2>3, <2>4 DEF Matching, LoadedAssetsAreUploaded, Keys, TasksLeft
  <2>11. DuplicateMatches'
    <3>1. Cardinality(Keys(futures)) \in Nat /\ Cardinality(Keys(futures')) \in Nat
      BY KeysFinite
    <3>2. duplicate' = None
      BY <1>a, <2>3 DEF DuplicateMatches
    <3> QED BY <1>a, <2>6, <3>1, <3>2, ConstantTypes DEF DuplicateMatches
  <2> QED BY <2>7, <2>8, <2>9, <2>10, <2>11 DEF Matching
<1>16. CASE OnUpdateReturns
  BY <1>16, <1>a, MapsUnchanged DEF OnUpdateReturns, LocalsMatch, DuplicateMatches
<1>17. ASSUME NEW h \in Handle, LoaderFinishes(h) PROVE Matching'
  <2>1. futures[h] \in Future /\ futures' = [futures EXCEPT ![h].ready = TRUE]
    BY <1>17 DEF LoaderFinishes, TypeOK
  <2>2. [futures[h] EXCEPT !.ready = TRUE] \in Future
        /\ [futures[h] EXCEPT !.ready = TRUE].info = futures[h].info
    BY <2>1 DEF Future
  <2>3. \A g \in Handle : (futures'[g] # None <=> futures[g] # None)
                         /\ (futures[g] # None => futures'[g].info = futures[g].info)
    BY <1>17, <2>1, <2>2, NoneAssumption DEF LoaderFinishes, TypeOK, Future
  <2>4. Keys(futures') = Keys(futures)
    BY <2>3 DEF Keys
  <2>5. KeysMatch'
    BY <1>17, <2>3, <2>4 DEF LoaderFinishes, Matching, KeysMatch, Keys
  <2> QED
    BY <1>17, <1>a, <2>4, <2>5
    DEF LoaderFinishes, Matching, LocalsMatch, DuplicateMatches, HasRoom,
        UnloadsAreOfLoadedAssets, LoadedAssetsAreUploaded, Keys, TasksLeft
<1>18. CASE DuplicateLoaderFinishes
  BY <1>18, <1>a, MapsUnchanged DEF DuplicateLoaderFinishes, maps, LocalsMatch, DuplicateMatches, Keys
<1>19. CASE UNCHANGED vars
  BY <1>19, <1>a, MapsUnchanged DEF vars, maps, LocalsMatch, DuplicateMatches, Keys
<1>20. ASSUME Client PROVE Matching'
  BY <1>1, <1>2, <1>3, <1>20 DEF Client, WaitAllAssets, WaitAllUnloads, UnloadAllAssets, Shutdown
<1> QED
  BY <1>4, <1>5, <1>6, <1>7, <1>8, <1>9, <1>10, <1>11, <1>12, <1>13, <1>14, <1>15, <1>16,
     <1>17, <1>18, <1>19, <1>20 DEF Next, Tick, Wait, Loader, Stutter

-----------------------------------------------------------------------------
\* SafetyInv holds initially and every step keeps it: the types need the loops'
\* keys (a batch is not larger than the tasks that are left), and the other
\* conjuncts need the types.
THEOREM SafetyInvariant == Spec => []SafetyInv
<1>1. Init => SafetyInv
  BY InitTypeOK, InitMatching DEF SafetyInv, Matching
<1>2. SafetyInv /\ [Next]_vars => SafetyInv'
  BY NextTypeOK, NextMatching DEF SafetyInv, Matching
<1> QED BY <1>1, <1>2, PTL DEF Spec

\* Every variable of the asset manager keeps its type: the budget counter never
\* leaves 0..p_CallbackTasksPerTick, no map gets a value of another kind.
THEOREM TypeCorrect == Spec => []TypeOK
<1>1. SafetyInv => TypeOK
  BY DEF SafetyInv
<1> QED BY <1>1, SafetyInvariant, PTL

\* HandleLoadAndUnloadCallbacks never looks up an unload whose asset is gone, so
\* operator[] of p_LoadedAssets never inserts a null asset.
THEOREM UnloadsFindTheirAsset == Spec => []UnloadsAreOfLoadedAssets
<1>1. SafetyInv => UnloadsAreOfLoadedAssets
  BY DEF SafetyInv
<1> QED BY <1>1, SafetyInvariant, PTL

\* An asset is in p_LoadedAssets only once all of its GPU callbacks have run,
\* whatever the budget, the number of callbacks and the order of the map.
THEOREM LoadedMeansUploaded == Spec => []LoadedAssetsAreUploaded
<1>1. SafetyInv => LoadedAssetsAreUploaded
  BY DEF SafetyInv
<1> QED BY <1>1, SafetyInvariant, PTL

\* p_MaxAsyncTaskInFlight bounds the threads that run, those of duplicates too.
THEOREM LoadersStayBounded == Spec => []LoadersBounded
<1>1. ASSUME SafetyInv PROVE LoadersBounded
  <2>1. /\ IsFiniteSet(Keys(futures))
        /\ Cardinality(Keys(futures)) \in Nat
        /\ RunningLoaders \subseteq Keys(futures)
    BY KeysFinite DEF RunningLoaders
  <2>2. Cardinality(RunningLoaders) \in Nat
        /\ Cardinality(RunningLoaders) <= Cardinality(Keys(futures))
    BY <2>1, FS_Subset, FS_CardinalityType
  <2> QED
    BY <1>1, <2>1, <2>2, ConstantTypes DEF SafetyInv, DuplicateMatches, HasRoom, LoadersBounded
<1> QED BY <1>1, SafetyInvariant, PTL

\* A loaded asset is neither replaced nor destroyed before an unload was
\* scheduled for it, so the pointer a client got from GetAsset stays valid.
THEOREM PointersAreStable == Spec => AssetPointersStable
<1> DEFINE Stable == \A h \in Keys(loaded) :
                       loaded'[h] = loaded[h] \/ (loaded'[h] = None /\ unloads[h] # None)
<1>1. SafetyInv /\ [Next]_vars => [Stable]_vars
  <2> SUFFICES ASSUME SafetyInv, [Next]_vars PROVE Stable \/ UNCHANGED vars
    OBVIOUS
  <2>a. TypeOK /\ LocalsMatch
    BY DEF SafetyInv
  <2>1. ASSUME MoveToLoaded PROVE Stable
    BY <2>1, <2>a DEF MoveToLoaded, Emplace, Keys, TypeOK
  <2>2. ASSUME EraseUnloaded PROVE Stable
    BY <2>2, <2>a DEF EraseUnloaded, LocalsMatch, Keys, TypeOK
  <2>3. ASSUME NEW h \in Handle, FinishLoad(h) PROVE Stable
    BY <2>3, <2>a DEF FinishLoad, Emplace, Keys, TypeOK
  <2>4. ASSUME loaded' = loaded PROVE Stable
    BY <2>4
  <2>5. ASSUME Client \/ Wait \/ Loader PROVE loaded' = loaded
    BY <2>5 DEF Client, Wait, Loader, LoadAsset, UnloadAsset, Call, WaitAllAssets, WaitAllUnloads,
                UnloadAllAssets, Shutdown, WaitReturns, UnloadEverything, LoaderFinishes,
                DuplicateLoaderFinishes, maps
  <2>6. ASSUME Tick PROVE Stable
    <3>1. ASSUME NEW h \in Handle, RunLoadCallbacks(h) \/ RunUnloadCallback(h)
          PROVE loaded' = loaded
      BY <3>1 DEF RunLoadCallbacks, RunUnloadCallback, maps
    <3>2. ASSUME OnUpdate \/ DispatchAssetLoadTask \/ JoinDuplicate \/ DispatchReturns
                 \/ CollectFinished \/ OnUpdateReturns
          PROVE loaded' = loaded
      BY <3>2 DEF OnUpdate, DispatchAssetLoadTask, JoinDuplicate, DispatchReturns,
                  CollectFinished, OnUpdateReturns, maps
    <3>3. \/ loaded' = loaded
          \/ MoveToLoaded
          \/ EraseUnloaded
          \/ \E h \in Handle : FinishLoad(h)
      BY <2>6, <3>1, <3>2 DEF Tick
    <3> QED BY <2>1, <2>2, <2>3, <2>4, <3>3
  <2> QED BY <2>4, <2>5, <2>6 DEF Next, Stutter
<1> QED BY <1>1, SafetyInvariant, PTL DEF Spec, AssetPointersStable

-----------------------------------------------------------------------------
(***************************************************************************)
(* A tick ends: every step of OnUpdate goes on to a later part of it or    *)
(* shortens the loop it is in.                                             *)
(***************************************************************************)

\* The parts of OnUpdate that are still to come, ...
PartsLeft ==
  CASE pc = "load_callbacks"       -> 5
    [] pc = "unload_callbacks"     -> 4
    [] pc \in {"dispatch", "join"} -> 3
    [] pc = "collect"              -> 2
    [] pc = "finish"               -> 1
    [] OTHER                       -> 0

\* ... and what is left of the loop of this one.
LoopLeft ==
  CASE pc \in {"load_callbacks", "unload_callbacks"} -> Cardinality(visit)
    [] pc = "dispatch" -> 2 * Len(queue)
    [] pc = "join"     -> 2 * Len(queue) + 1
    [] pc = "finish"   -> Cardinality(clears)
    [] OTHER           -> 0

GoesOn ==
  \/ PartsLeft' < PartsLeft
  \/ PartsLeft' = PartsLeft /\ LoopLeft' < LoopLeft

\* Taking an element away from a set of handles.
LEMMA OneHandleLess ==
  ASSUME NEW S \in SUBSET Handle, NEW h \in S
  PROVE  /\ Cardinality(S) \in Nat /\ Cardinality(S \ {h}) \in Nat
         /\ Cardinality(S \ {h}) < Cardinality(S)
<1>1. IsFiniteSet(S)
  BY HandlesFinite, FS_Subset
<1>2. Cardinality(S \ {h}) = Cardinality(S) - 1 /\ IsFiniteSet(S \ {h})
  BY <1>1, FS_RemoveElement
<1>3. Cardinality(S) \in Nat /\ Cardinality(S \ {h}) \in Nat
  BY <1>1, <1>2, FS_CardinalityType
<1> QED BY <1>2, <1>3

\* The length of a loop is a natural number.
LEMMA LoopsTyped == ASSUME TypeOK PROVE LoopLeft \in Nat
<1>1. Cardinality(visit) \in Nat /\ Cardinality(clears) \in Nat
  BY HandlesFinite, FS_Subset, FS_CardinalityType DEF TypeOK
<1>2. Len(queue) \in Nat
  BY DEF TypeOK
<1> QED BY <1>1, <1>2 DEF LoopLeft

\* Inside OnUpdate every step of the main thread goes on, and no step of a loader thread
\* sets it back, so a tick ends unless it waits for the thread of a duplicate.
THEOREM TicksEnd ==
  Spec => [][pc # "caller" => /\ LoopLeft \in Nat
                              /\ Tick => GoesOn
                              /\ Loader => PartsLeft' = PartsLeft /\ LoopLeft' = LoopLeft]_vars
<1>1. ASSUME TypeOK, pc # "caller", Tick PROVE GoesOn
  <2>0. visit \in SUBSET Handle /\ clears \in SUBSET Handle /\ Len(queue) \in Nat
    BY <1>1 DEF TypeOK
  <2>1. ASSUME NEW h \in Handle, RunLoadCallbacks(h) PROVE GoesOn
    <3>1. pc = "load_callbacks" /\ pc' = pc /\ h \in visit /\ visit' = visit \ {h}
      BY <2>1 DEF RunLoadCallbacks
    <3>2. PartsLeft' = PartsLeft
      BY <3>1 DEF PartsLeft
    <3>3. LoopLeft' = Cardinality(visit \ {h}) /\ LoopLeft = Cardinality(visit)
      BY <3>1 DEF LoopLeft
    <3> QED BY <2>0, <3>1, <3>2, <3>3, OneHandleLess DEF GoesOn
  <2>2. CASE MoveToLoaded
    <3>1. pc = "load_callbacks" /\ pc' = "unload_callbacks"
      BY <2>2 DEF MoveToLoaded
    <3> QED BY <3>1 DEF GoesOn, PartsLeft
  <2>3. ASSUME NEW h \in Handle, RunUnloadCallback(h) PROVE GoesOn
    <3>1. pc = "unload_callbacks" /\ h \in visit
          /\ (pc' = "crashed" \/ (pc' = pc /\ visit' = visit \ {h}))
      BY <2>3 DEF RunUnloadCallback
    <3>2. CASE pc' = "crashed"
      BY <3>1, <3>2 DEF GoesOn, PartsLeft
    <3>3. CASE pc' = pc /\ visit' = visit \ {h}
      <4>1. PartsLeft' = PartsLeft
        BY <3>1, <3>3 DEF PartsLeft
      <4>2. LoopLeft' = Cardinality(visit \ {h}) /\ LoopLeft = Cardinality(visit)
        BY <3>1, <3>3 DEF LoopLeft
      <4> QED BY <2>0, <3>1, <4>1, <4>2, OneHandleLess DEF GoesOn
    <3> QED BY <3>1, <3>2, <3>3
  <2>4. CASE EraseUnloaded
    <3>1. pc = "unload_callbacks" /\ pc' = "dispatch"
      BY <2>4 DEF EraseUnloaded
    <3> QED BY <3>1 DEF GoesOn, PartsLeft
  <2>5. CASE DispatchAssetLoadTask
    <3>1. pc = "dispatch" /\ pc' \in {"dispatch", "join"} /\ queue # <<>> /\ queue' = Tail(queue)
      BY <2>5 DEF DispatchAssetLoadTask
    <3>2. Len(queue') = Len(queue) - 1
      BY <1>1, <3>1 DEF TypeOK
    <3>3. PartsLeft' = PartsLeft
      BY <3>1 DEF PartsLeft
    <3>4. LoopLeft = 2 * Len(queue) /\ LoopLeft' \in {2 * Len(queue'), 2 * Len(queue') + 1}
      BY <3>1 DEF LoopLeft
    <3> QED BY <2>0, <3>2, <3>3, <3>4 DEF GoesOn
  <2>6. CASE JoinDuplicate
    <3>1. pc = "join" /\ pc' = "dispatch" /\ queue' = queue
      BY <2>6 DEF JoinDuplicate, maps
    <3>2. PartsLeft' = PartsLeft
      BY <3>1 DEF PartsLeft
    <3>3. LoopLeft = 2 * Len(queue) + 1 /\ LoopLeft' = 2 * Len(queue)
      BY <3>1 DEF LoopLeft
    <3> QED BY <2>0, <3>2, <3>3 DEF GoesOn
  <2>7. CASE DispatchReturns \/ CollectFinished \/ OnUpdateReturns
    <3>1. \/ pc = "dispatch" /\ pc' = "collect"
          \/ pc = "collect" /\ pc' = "finish"
          \/ pc = "finish" /\ pc' = "caller"
      BY <2>7 DEF DispatchReturns, CollectFinished, OnUpdateReturns
    <3> QED BY <3>1 DEF GoesOn, PartsLeft
  <2>8. ASSUME NEW h \in Handle, FinishLoad(h) PROVE GoesOn
    <3>1. pc = "finish" /\ pc' = pc /\ h \in clears /\ clears' = clears \ {h}
      BY <2>8 DEF FinishLoad
    <3>2. PartsLeft' = PartsLeft
      BY <3>1 DEF PartsLeft
    <3>3. LoopLeft' = Cardinality(clears \ {h}) /\ LoopLeft = Cardinality(clears)
      BY <3>1 DEF LoopLeft
    <3> QED BY <2>0, <3>1, <3>2, <3>3, OneHandleLess DEF GoesOn
  <2>9. ~OnUpdate
    BY <1>1 DEF OnUpdate
  <2> QED BY <1>1, <2>1, <2>2, <2>3, <2>4, <2>5, <2>6, <2>7, <2>8, <2>9 DEF Tick
<1>2. ASSUME Loader PROVE PartsLeft' = PartsLeft /\ LoopLeft' = LoopLeft
  <2>1. pc' = pc /\ visit' = visit /\ clears' = clears /\ queue' = queue
    BY <1>2 DEF Loader, LoaderFinishes, DuplicateLoaderFinishes, frame, maps
  <2> QED BY <2>1 DEF PartsLeft, LoopLeft
<1> QED BY <1>1, <1>2, LoopsTyped, TypeCorrect, PTL DEF Spec

-----------------------------------------------------------------------------
(***************************************************************************)
(* The manager works off what it was asked for.  The work that is left is  *)
(* measured by six numbers, the first that differs decides: a parsed model *)
(* adds its textures to the queue, and is one model less.                  *)
(***************************************************************************)
IsModel(i) == TypeOf[i] = "Model"

ModelsQueued == {k \in DOMAIN queue : IsModel(queue[k])}
ModelsRead   == {h \in Keys(futures) : IsModel(futures[h].info)}

\* One element for each GPU callback that is left.
CallbacksOf(h) == {h} \X (1..TasksLeft(uploads[h]))
Callbacks == UNION {CallbacksOf(h) : h \in Keys(uploads)}

Work == <<Cardinality(ModelsQueued) + Cardinality(ModelsRead), Len(queue),
          Cardinality(Keys(futures)), Cardinality(Callbacks),
          Cardinality(Keys(uploads)), Cardinality(Keys(unloads))>>

Less(a, b) == \E k \in 1..6 : a[k] < b[k] /\ \A j \in 1..k - 1 : a[j] = b[j]

\* The steps that get work done.
WorkStep ==
  \/ \E h \in Handle : RunLoadCallbacks(h) \/ FinishLoad(h)
  \/ DispatchAssetLoadTask
  \/ clears # {} /\ (MoveToLoaded \/ EraseUnloaded)

\* Numbers that do not grow before one that shrinks.
LEMMA SmallerAt ==
  ASSUME NEW a, NEW b, \A j \in 1..6 : a[j] \in Nat /\ b[j] \in Nat,
         NEW k \in 1..6, a[k] < b[k], \A j \in 1..k - 1 : a[j] <= b[j]
  PROVE  Less(a, b)
<1>1. ASSUME NEW c \in 1..6, a[c] < b[c], \A j \in 1..c - 1 : ~(a[j] < b[j])
      PROVE  Less(a, b)
  <2>1. c <= k
    BY <1>1
  <2>2. \A j \in 1..c - 1 : a[j] = b[j]
    <3>1. SUFFICES ASSUME NEW j \in 1..c - 1 PROVE a[j] = b[j]
      OBVIOUS
    <3>2. j \in 1..k - 1 /\ j \in 1..6
      BY <2>1
    <3> QED BY <1>1, <3>2
  <2> QED BY <1>1, <2>2 DEF Less
<1> DEFINE Lt(j) == a[j] < b[j]
           First(c) == Lt(c) /\ \A j \in 1..c - 1 : ~Lt(j)
<1>2. \E c \in 1..6 : First(c)
  <2>1. Lt(k)
    OBVIOUS
  <2> HIDE DEF Lt
  <2>2. \/ Lt(1) \/ Lt(2) \/ Lt(3) \/ Lt(4) \/ Lt(5) \/ Lt(6)
    BY <2>1
  <2>3. CASE Lt(1)
    BY <2>3
  <2>4. CASE ~Lt(1) /\ Lt(2)
    BY <2>4
  <2>5. CASE ~Lt(1) /\ ~Lt(2) /\ Lt(3)
    BY <2>5
  <2>6. CASE ~Lt(1) /\ ~Lt(2) /\ ~Lt(3) /\ Lt(4)
    BY <2>6
  <2>7. CASE ~Lt(1) /\ ~Lt(2) /\ ~Lt(3) /\ ~Lt(4) /\ Lt(5)
    BY <2>7
  <2>8. CASE ~Lt(1) /\ ~Lt(2) /\ ~Lt(3) /\ ~Lt(4) /\ ~Lt(5) /\ Lt(6)
    BY <2>8
  <2> QED BY <2>2, <2>3, <2>4, <2>5, <2>6, <2>7, <2>8
<1> QED BY <1>1, <1>2

\* The callbacks that are left are finitely many.
LEMMA CallbacksFinite == ASSUME TypeOK PROVE IsFiniteSet(Callbacks)
<1> DEFINE f == [h \in Keys(uploads) |-> CallbacksOf(h)]
           T == {CallbacksOf(h) : h \in Keys(uploads)}
<1>1. f \in Surjection(Keys(uploads), T)
  BY DEF Surjection
<1>2. IsFiniteSet(T)
  BY <1>1, KeysFinite, FS_Surjection
<1>3. ASSUME NEW h \in Keys(uploads) PROVE IsFiniteSet(CallbacksOf(h))
  <2>1. uploads[h] \in Asset
    BY <1>3 DEF TypeOK, Keys
  <2>2. uploads[h].info \in Info /\ uploads[h].made \in Nat
    BY <2>1 DEF Asset
  <2>3. TasksLeft(uploads[h]) \in Int
    BY <2>2, TasksTyped DEF TasksLeft
  <2> DEFINE A == {h}
             B == 1..TasksLeft(uploads[h])
  <2>4. CallbacksOf(h) = A \X B
    BY DEF CallbacksOf
  <2>5. IsFiniteSet(A)
    BY FS_Singleton
  <2>6. IsFiniteSet(B)
    <3> DEFINE n == TasksLeft(uploads[h])
    <3>1. n \in Int
      BY <2>3
    <3> HIDE DEF n
    <3>2. IsFiniteSet(1..n)
      BY <3>1, FS_Interval
    <3> QED BY <3>2 DEF n
  <2> HIDE DEF A, B
  <2>7. IsFiniteSet(A \X B)
    BY <2>5, <2>6, FS_Product
  <2> QED BY <2>4, <2>7
<1>4. \A x \in T : IsFiniteSet(x)
  BY <1>3
<1> HIDE DEF T
<1>5. IsFiniteSet(UNION T)
  BY <1>2, <1>4, FS_UNION
<1> QED BY <1>5 DEF Callbacks, T

\* The work is measured by natural numbers, of finite sets.
Measured ==
  /\ IsFiniteSet(ModelsQueued) /\ IsFiniteSet(ModelsRead) /\ IsFiniteSet(Callbacks)
  /\ \A j \in 1..6 : Work[j] \in Nat

\* The six numbers are counts of finite sets and sums over them.
LEMMA WorkMeasured == ASSUME TypeOK PROVE Measured
<1>1. Len(queue) \in Nat /\ DOMAIN queue = 1..Len(queue)
  BY DEF TypeOK
<1>2. IsFiniteSet(1..Len(queue))
  BY <1>1, FS_Interval
<1>3. IsFiniteSet(ModelsQueued)
  BY <1>1, <1>2, FS_Subset DEF ModelsQueued
<1>4. IsFiniteSet(ModelsRead)
  BY KeysFinite, FS_Subset DEF ModelsRead
<1>5. Cardinality(ModelsQueued) \in Nat /\ Cardinality(ModelsRead) \in Nat /\ Cardinality(Callbacks) \in Nat
  BY <1>3, <1>4, CallbacksFinite, FS_CardinalityType
<1>6. Cardinality(ModelsQueued) + Cardinality(ModelsRead) \in Nat
  BY <1>5
<1>7. /\ Work[1] \in Nat /\ Work[2] \in Nat /\ Work[3] \in Nat
      /\ Work[4] \in Nat /\ Work[5] \in Nat /\ Work[6] \in Nat
  BY <1>1, <1>5, <1>6, KeysFinite DEF Work
<1> HIDE DEF Work
<1> QED BY <1>3, <1>4, <1>7, CallbacksFinite DEF Measured

\* A set of handles that loses one.
LEMMA FewerHandles ==
  ASSUME NEW S \in SUBSET Handle, NEW h \in S, NEW T \in SUBSET (S \ {h})
  PROVE  Cardinality(T) \in Nat /\ Cardinality(S) \in Nat /\ Cardinality(T) < Cardinality(S)
<1>1. IsFiniteSet(S \ {h})
  BY HandlesFinite, FS_Subset
<1>2. Cardinality(T) <= Cardinality(S \ {h}) /\ Cardinality(T) \in Nat
  BY <1>1, FS_Subset, FS_CardinalityType
<1> QED BY <1>2, OneHandleLess

\* What is measured depends on the maps only.
LEMMA WorkOfMaps ==
  /\ UNCHANGED queue => ModelsQueued' = ModelsQueued
  /\ UNCHANGED futures => ModelsRead' = ModelsRead /\ Keys(futures)' = Keys(futures)
  /\ UNCHANGED uploads => Callbacks' = Callbacks /\ Keys(uploads)' = Keys(uploads)
  /\ UNCHANGED unloads => Keys(unloads)' = Keys(unloads)
  /\ UNCHANGED maps => Work' = Work
<1>1. UNCHANGED queue => ModelsQueued' = ModelsQueued
  BY DEF ModelsQueued, IsModel
<1>2. UNCHANGED futures => ModelsRead' = ModelsRead /\ Keys(futures)' = Keys(futures)
  BY DEF ModelsRead, IsModel, Keys
<1>3. UNCHANGED uploads => Callbacks' = Callbacks /\ Keys(uploads)' = Keys(uploads)
  BY DEF Callbacks, CallbacksOf, Keys
<1>4. UNCHANGED unloads => Keys(unloads)' = Keys(unloads)
  BY DEF Keys
<1>5. UNCHANGED maps => Work' = Work
  BY <1>1, <1>2, <1>3, <1>4 DEF Work, maps
<1> QED BY <1>1, <1>2, <1>3, <1>4, <1>5

\* A callback that is run is not left.
LEMMA CallbacksWorkOff ==
  ASSUME SafetyInv, Measured, Measured', NEW h \in Handle, RunLoadCallbacks(h)
  PROVE  Less(Work', Work)
<1> DEFINE left == TasksLeft(uploads[h])
           n == Batch(left, CallbackTasksPerTick - processed)
<1>1. TypeOK /\ h \in Keys(uploads) /\ h \notin clears /\ uploads[h] \in Asset
  BY DEF SafetyInv, LocalsMatch, RunLoadCallbacks, TypeOK, Keys
<1>2. left \in Nat /\ left > 0
  <2>1. uploads[h].info \in Info /\ uploads[h].made \in Nat
    BY <1>1 DEF Asset
  <2>2. left \in Int
    BY <2>1, TasksTyped DEF TasksLeft
  <2>3. left > 0
    BY <1>1 DEF SafetyInv, LoadedAssetsAreUploaded
  <2> QED BY <2>2, <2>3
<1>3. n \in Nat /\ n >= 1 /\ n <= left
  <2>1. CallbackTasksPerTick - processed \in Nat /\ CallbackTasksPerTick - processed > 0
    BY <1>1, ConstantTypes DEF TypeOK, RunLoadCallbacks
  <2> QED BY <1>2, <2>1, BatchBounds
<1>4. uploads' = [uploads EXCEPT ![h].made = @ + n] /\ UNCHANGED <<queue, futures, unloads>>
  BY DEF RunLoadCallbacks
<1>5. /\ uploads'[h].info = uploads[h].info /\ uploads'[h].made = uploads[h].made + n
      /\ uploads'[h] \in Asset /\ \A g \in Handle \ {h} : uploads'[g] = uploads[g]
  <2>1. uploads[h].made + n \in Nat
    BY <1>1, <1>3 DEF Asset
  <2> QED BY <1>1, <1>4, <2>1 DEF TypeOK, Asset
<1>6. Keys(uploads)' = Keys(uploads)
  BY <1>1, <1>5, NoneAssumption DEF Keys, Asset
<1>7. TasksLeft(uploads[h])' = left - n
  <2>1. uploads[h].info \in Info /\ uploads[h].made \in Nat
    BY <1>1 DEF Asset
  <2>2. GpuTasks(uploads[h].info) \in Nat
    BY <2>1, TasksTyped
  <2> QED BY <1>3, <1>5, <2>1, <2>2 DEF TasksLeft
<1> HIDE DEF left, n
<1>8. CallbacksOf(h) = {h} \X (1..left) /\ CallbacksOf(h)' = {h} \X (1..(left - n))
  BY <1>7 DEF CallbacksOf, left
<1>9. \A g \in Handle \ {h} : CallbacksOf(g)' = CallbacksOf(g)
  BY <1>5 DEF CallbacksOf, TasksLeft
<1>10. Callbacks' \subseteq Callbacks
  <2>1. CallbacksOf(h)' \subseteq CallbacksOf(h)
    BY <1>2, <1>3, <1>8
  <2>2. \A g \in Keys(uploads) : CallbacksOf(g)' \subseteq CallbacksOf(g)
    BY <1>9, <2>1 DEF Keys
  <2> QED BY <1>6, <2>2 DEF Callbacks
<1>11. <<h, left>> \in Callbacks /\ <<h, left>> \notin Callbacks'
  <2>1. <<h, left>> \in CallbacksOf(h)
    BY <1>2, <1>8
  <2>2. <<h, left>> \notin CallbacksOf(h)'
    BY <1>2, <1>3, <1>8
  <2>3. \A g \in Handle \ {h} : <<h, left>> \notin CallbacksOf(g)'
    BY DEF CallbacksOf
  <2>4. Keys(uploads)' \subseteq Handle
    BY DEF Keys
  <2> QED BY <1>1, <2>1, <2>2, <2>3, <2>4 DEF Callbacks
<1>12. Cardinality(Callbacks') < Cardinality(Callbacks)
  <2>1. IsFiniteSet(Callbacks) /\ IsFiniteSet(Callbacks')
    BY DEF Measured
  <2>2. Cardinality(Callbacks') <= Cardinality(Callbacks) /\ Cardinality(Callbacks') # Cardinality(Callbacks)
    BY <1>10, <1>11, <2>1, FS_Subset
  <2>3. Cardinality(Callbacks) \in Nat /\ Cardinality(Callbacks') \in Nat
    BY <2>1, FS_CardinalityType
  <2> QED BY <2>2, <2>3
<1>13. /\ Work'[1] = Work[1] /\ Work'[2] = Work[2] /\ Work'[3] = Work[3] /\ Work'[4] < Work[4]
  BY <1>4, <1>12, WorkOfMaps DEF Work
<1>14. \A j \in 1..6 : Work'[j] \in Nat /\ Work[j] \in Nat
  BY DEF Measured
<1> HIDE DEF Work
<1> QED BY <1>13, <1>14, SmallerAt

\* What is moved or erased is not left.
LEMMA ClearsWorkOff ==
  ASSUME SafetyInv, Measured, Measured', MoveToLoaded \/ EraseUnloaded, clears # {}
  PROVE  Less(Work', Work)
<1> DEFINE kept == [h \in Handle |-> IF h \in clears THEN None ELSE uploads[h]]
<1>1. PICK h \in clears : TRUE
  OBVIOUS
<1>2. \A j \in 1..6 : Work'[j] \in Nat /\ Work[j] \in Nat
  BY DEF Measured
<1>3. CASE MoveToLoaded
  <2>1. h \in Keys(uploads) /\ UNCHANGED <<queue, futures, unloads>>
    BY <1>1, <1>3 DEF MoveToLoaded, SafetyInv, LocalsMatch
  <2>2. \A g \in Handle : uploads'[g] = IF g \in clears THEN None ELSE uploads[g]
    BY <1>3 DEF MoveToLoaded
  <2>3. Keys(uploads)' \subseteq Keys(uploads) \ {h}
    BY <1>1, <2>2 DEF Keys
  <2>4. \A g \in Keys(uploads)' : g \in Keys(uploads) /\ uploads'[g] = uploads[g]
    BY <2>2 DEF Keys
  <2>5. Callbacks' \subseteq Callbacks
    BY <2>4 DEF Callbacks, CallbacksOf
  <2>6. Cardinality(Callbacks') <= Cardinality(Callbacks)
    BY <2>5, FS_Subset DEF Measured
  <2>7. Cardinality(Keys(uploads)') < Cardinality(Keys(uploads))
    <3>1. Keys(uploads) \in SUBSET Handle
      BY DEF Keys
    <3> QED BY <2>1, <2>3, <3>1, FewerHandles
  <2>8. /\ Work'[1] = Work[1] /\ Work'[2] = Work[2] /\ Work'[3] = Work[3]
        /\ Work'[4] <= Work[4] /\ Work'[5] < Work[5]
    BY <2>1, <2>6, <2>7, WorkOfMaps DEF Work
  <2> HIDE DEF Work
  <2> QED BY <1>2, <2>8, SmallerAt
<1>4. CASE EraseUnloaded
  <2>1. h \in Keys(unloads) /\ UNCHANGED <<queue, futures, uploads>>
    BY <1>1, <1>4 DEF EraseUnloaded, SafetyInv, LocalsMatch
  <2>2. Keys(unloads)' \subseteq Keys(unloads) \ {h}
    BY <1>1, <1>4 DEF EraseUnloaded, Keys
  <2>3. Cardinality(Keys(unloads)') < Cardinality(Keys(unloads))
    <3>1. Keys(unloads) \in SUBSET Handle
      BY DEF Keys
    <3> QED BY <2>1, <2>2, <3>1, FewerHandles
  <2>4. /\ Work'[1] = Work[1] /\ Work'[2] = Work[2] /\ Work'[3] = Work[3]
        /\ Work'[4] = Work[4] /\ Work'[5] = Work[5] /\ Work'[6] < Work[6]
    BY <2>1, <2>3, WorkOfMaps DEF Work
  <2> HIDE DEF Work
  <2> QED BY <1>2, <2>4, SmallerAt
<1> QED BY <1>3, <1>4

\* The models behind the head of the queue, ...
LEMMA TailOfQueue ==
  ASSUME TypeOK, queue # <<>>, queue' = Tail(queue), IsFiniteSet(ModelsQueued)
  PROVE  Cardinality(ModelsQueued') <= Cardinality(ModelsQueued \ {1})
<1> DEFINE f == [k \in ModelsQueued' |-> k + 1]
<1>1. Len(queue) \in Nat /\ DOMAIN queue = 1..Len(queue) /\ Len(queue) >= 1
  BY DEF TypeOK
<1>2. DOMAIN queue' = 1..(Len(queue) - 1) /\ \A k \in 1..(Len(queue) - 1) : queue'[k] = queue[k + 1]
  BY <1>1 DEF TypeOK
<1>3. \A k \in ModelsQueued' : k \in 1..(Len(queue) - 1) /\ IsModel(queue[k + 1])
  BY <1>2 DEF ModelsQueued, IsModel
<1>4. \A k \in ModelsQueued' : k + 1 \in ModelsQueued \ {1}
  BY <1>1, <1>3 DEF ModelsQueued
<1>5. f \in Injection(ModelsQueued', ModelsQueued \ {1})
  <2>1. f \in [ModelsQueued' -> ModelsQueued \ {1}]
    BY <1>4
  <2>2. \A a, b \in ModelsQueued' : f[a] = f[b] => a = b
    BY <1>3
  <2> QED BY <2>1, <2>2 DEF Injection, IsInjective
<1>6. IsFiniteSet(ModelsQueued \ {1})
  BY FS_RemoveElement
<1> HIDE DEF f
<1> QED BY <1>5, <1>6, FS_Injection

\* A load that is dispatched, or dropped, is not queued.
LEMMA DispatchWorksOff ==
  ASSUME SafetyInv, Measured, Measured', DispatchAssetLoadTask
  PROVE  Less(Work', Work)
<1> DEFINE i == Head(queue)
           h == HandleOf[i]
<1>1. /\ queue # <<>> /\ queue' = Tail(queue) /\ TypeOK
      /\ i = queue[1] /\ i \in Info /\ 1 \in DOMAIN queue
      /\ Len(queue) \in Nat /\ Len(queue') = Len(queue) - 1 /\ h \in Handle
  <2>1. queue \in Seq(Info) /\ queue # <<>> /\ queue' = Tail(queue)
    BY DEF SafetyInv, TypeOK, DispatchAssetLoadTask
  <2>2. i = queue[1] /\ i \in Info /\ 1 \in DOMAIN queue /\ Len(queue) \in Nat /\ Len(queue') = Len(queue) - 1
    BY <2>1
  <2> QED BY <2>1, <2>2, ConstantTypes DEF SafetyInv
<1>2. \A j \in 1..6 : Work'[j] \in Nat /\ Work[j] \in Nat
  BY DEF Measured
<1>3. \/ futures' = futures
      \/ futures[h] = None /\ futures' = [futures EXCEPT ![h] = [info |-> i, ready |-> FALSE]]
  BY DEF DispatchAssetLoadTask, Emplace
<1> HIDE DEF i, h
<1>4. \A g \in ModelsRead' : g \in ModelsRead \/ (g = h /\ IsModel(i))
  BY <1>1, <1>3 DEF ModelsRead, Keys, TypeOK
<1>5. 1 \in ModelsQueued <=> IsModel(i)
  BY <1>1 DEF ModelsQueued
<1>6. /\ Cardinality(ModelsQueued) \in Nat /\ Cardinality(ModelsQueued') \in Nat
      /\ Cardinality(ModelsRead) \in Nat /\ Cardinality(ModelsRead') \in Nat
  BY FS_CardinalityType DEF Measured
<1>7. Cardinality(ModelsQueued') <= Cardinality(ModelsQueued) - (IF IsModel(i) THEN 1 ELSE 0)
  <2>1. Cardinality(ModelsQueued') <= Cardinality(ModelsQueued \ {1})
    BY <1>1, TailOfQueue DEF Measured
  <2>2. Cardinality(ModelsQueued \ {1}) = IF IsModel(i) THEN Cardinality(ModelsQueued) - 1
                                                        ELSE Cardinality(ModelsQueued)
    BY <1>5, FS_RemoveElement DEF Measured
  <2> QED BY <1>6, <2>1, <2>2
<1>8. Cardinality(ModelsRead') <= Cardinality(ModelsRead) + (IF IsModel(i) THEN 1 ELSE 0)
  <2>1. CASE IsModel(i)
    <3>1. ModelsRead' \subseteq ModelsRead \cup {h}
      BY <1>4
    <3>2. IsFiniteSet(ModelsRead \cup {h}) /\ Cardinality(ModelsRead \cup {h}) <= Cardinality(ModelsRead) + 1
      <4>1. IsFiniteSet(ModelsRead)
        BY DEF Measured
      <4>2. IsFiniteSet(ModelsRead \cup {h})
        BY <4>1, FS_AddElement
      <4>3. Cardinality(ModelsRead \cup {h}) = IF h \in ModelsRead THEN Cardinality(ModelsRead)
                                                                   ELSE Cardinality(ModelsRead) + 1
        BY <4>1, FS_AddElement
      <4> QED BY <1>6, <4>2, <4>3
    <3>3. Cardinality(ModelsRead') <= Cardinality(ModelsRead \cup {h})
      BY <3>1, <3>2, FS_Subset
    <3>4. Cardinality(ModelsRead \cup {h}) \in Nat
      BY <3>2, FS_CardinalityType
    <3> QED BY <1>6, <2>1, <3>2, <3>3, <3>4
  <2>2. CASE ~IsModel(i)
    <3>1. ModelsRead' \subseteq ModelsRead
      BY <1>4, <2>2
    <3>2. Cardinality(ModelsRead') <= Cardinality(ModelsRead)
      BY <3>1, FS_Subset DEF Measured
    <3> QED BY <1>6, <2>2, <3>2
  <2> QED BY <2>1, <2>2
<1>9. Cardinality(ModelsQueued') + Cardinality(ModelsRead') <= Cardinality(ModelsQueued) + Cardinality(ModelsRead)
  BY <1>6, <1>7, <1>8
<1>10. Work'[1] <= Work[1] /\ Work'[2] < Work[2]
  BY <1>1, <1>9 DEF Work
<1> HIDE DEF Work
<1> QED BY <1>2, <1>10, SmallerAt

\* A load whose future is ready leaves the futures.  The loads that it adds are those of
\* textures, and it is a model then.
LEMMA FinishWorksOff ==
  ASSUME SafetyInv, Measured, Measured', NEW h \in Handle, FinishLoad(h)
  PROVE  Less(Work', Work)
<1> DEFINE i == futures[h].info
           new == NewAssetsToLoad(i)
<1>1. TypeOK /\ h \in Keys(futures) /\ futures[h] \in Future
  BY DEF SafetyInv, LocalsMatch, FinishLoad, TypeOK, Keys
<1>2. i \in Info
  BY <1>1 DEF Future
<1>3. queue' = queue \o new /\ futures' = [futures EXCEPT ![h] = None]
  BY DEF FinishLoad
<1>4. \A j \in 1..6 : Work'[j] \in Nat /\ Work[j] \in Nat
  BY DEF Measured
<1>5. Keys(futures)' \subseteq Keys(futures) \ {h}
  BY <1>1, <1>3 DEF Keys, TypeOK
<1>6. \A g \in ModelsRead' : g \in ModelsRead \ {h}
  BY <1>1, <1>3 DEF ModelsRead, Keys, TypeOK
<1>7. /\ Cardinality(ModelsQueued) \in Nat /\ Cardinality(ModelsQueued') \in Nat
      /\ Cardinality(ModelsRead) \in Nat /\ Cardinality(ModelsRead') \in Nat
  BY FS_CardinalityType DEF Measured
<1>8. new \in Seq(Info) /\ \A k \in DOMAIN new : ~IsModel(new[k])
  <2>1. new \in Seq(Info)
    BY <1>2, TasksTyped
  <2>2. \A k \in DOMAIN new : TypeOf[new[k]] = "Texture"
    BY <1>2, ConstantsAssumption DEF NewAssetsToLoad
  <2> QED BY <2>1, <2>2 DEF IsModel
<1>9. ~IsModel(i) => new = <<>>
  BY DEF NewAssetsToLoad, IsModel
<1> HIDE DEF i, new
<1>10. ModelsQueued' \subseteq ModelsQueued
  <2>1. queue \in Seq(Info)
    BY <1>1 DEF TypeOK
  <2>2. \A k \in DOMAIN queue' : \/ k \in DOMAIN queue /\ queue'[k] = queue[k]
                                 \/ \E j \in DOMAIN new : queue'[k] = new[j]
    <3>1. SUFFICES ASSUME NEW k \in DOMAIN (queue \o new), k \notin DOMAIN queue
                   PROVE  \E j \in DOMAIN new : (queue \o new)[k] = new[j]
      BY <1>3, <1>8, <2>1
    <3>2. k - Len(queue) \in DOMAIN new /\ (queue \o new)[k] = new[k - Len(queue)]
      BY <1>8, <2>1, <3>1
    <3> QED BY <3>2
  <2> QED BY <1>8, <2>2 DEF ModelsQueued, IsModel
<1>11. Cardinality(ModelsQueued') <= Cardinality(ModelsQueued)
  BY <1>10, FS_Subset DEF Measured
<1>12. CASE IsModel(i)
  <2>1. h \in ModelsRead /\ ModelsRead \in SUBSET Handle /\ ModelsRead' \in SUBSET (ModelsRead \ {h})
    BY <1>1, <1>6, <1>12 DEF ModelsRead, Keys, i
  <2>2. Cardinality(ModelsRead') < Cardinality(ModelsRead)
    BY <2>1, FewerHandles
  <2>3. Cardinality(ModelsQueued') + Cardinality(ModelsRead') < Cardinality(ModelsQueued) + Cardinality(ModelsRead)
    BY <1>7, <1>11, <2>2
  <2>4. Work'[1] < Work[1]
    BY <2>3 DEF Work
  <2> HIDE DEF Work
  <2> QED BY <1>4, <2>4, SmallerAt
<1>13. CASE ~IsModel(i)
  <2>1. queue' = queue
    BY <1>1, <1>3, <1>9, <1>13 DEF TypeOK
  <2>2. Cardinality(ModelsRead') <= Cardinality(ModelsRead)
    <3>1. ModelsRead' \subseteq ModelsRead
      BY <1>6
    <3> QED BY <3>1, FS_Subset DEF Measured
  <2>3. Cardinality(ModelsQueued') + Cardinality(ModelsRead') <= Cardinality(ModelsQueued) + Cardinality(ModelsRead)
    BY <1>7, <1>11, <2>2
  <2>4. Cardinality(Keys(futures)') < Cardinality(Keys(futures))
    <3>1. Keys(futures) \in SUBSET Handle
      BY DEF Keys
    <3> QED BY <1>1, <1>5, <3>1, FewerHandles
  <2>5. Work'[1] <= Work[1] /\ Work'[2] = Work[2] /\ Work'[3] < Work[3]
    BY <2>1, <2>3, <2>4 DEF Work
  <2>6. Work'[2] <= Work[2]
    BY <1>4, <2>5
  <2> HIDE DEF Work
  <2> QED BY <1>4, <2>5, <2>6, SmallerAt
<1> QED BY <1>12, <1>13

\* The other steps of a tick, of the end of a wait and of the threads leave the work as
\* it is.
LEMMA OthersKeepWork ==
  ASSUME SafetyInv, ~WorkStep, Tick \/ WaitReturns \/ Loader
  PROVE  Work' = Work
<1>1. CASE MoveToLoaded /\ clears = {}
  <2>1. uploads' = uploads /\ UNCHANGED <<queue, futures, unloads>>
    BY <1>1 DEF MoveToLoaded, SafetyInv, TypeOK
  <2> QED BY <2>1, WorkOfMaps DEF Work
<1>2. CASE EraseUnloaded /\ clears = {}
  <2>1. unloads' = unloads /\ UNCHANGED <<queue, futures, uploads>>
    BY <1>2 DEF EraseUnloaded, SafetyInv, TypeOK
  <2> QED BY <2>1, WorkOfMaps DEF Work
<1>3. ASSUME NEW h \in Handle, LoaderFinishes(h) PROVE Work' = Work
  <2>1. /\ futures' = [futures EXCEPT ![h].ready = TRUE] /\ futures[h] # None
        /\ UNCHANGED <<queue, uploads, unloads>>
    BY <1>3 DEF LoaderFinishes
  <2>2. futures[h] \in Future
    BY <2>1 DEF SafetyInv, TypeOK
  <2>3. /\ futures'[h] \in Future /\ futures'[h].info = futures[h].info
        /\ \A g \in Handle \ {h} : futures'[g] = futures[g]
    BY <2>1, <2>2 DEF SafetyInv, TypeOK, Future
  <2>4. futures'[h] # None
    BY <2>3, NoneAssumption DEF Future
  <2>5. Keys(futures)' = Keys(futures)
    BY <2>1, <2>3, <2>4 DEF Keys
  <2>6. \A g \in Handle : futures'[g].info = futures[g].info
    BY <2>3
  <2>7. ModelsRead' = ModelsRead
    BY <2>5, <2>6 DEF ModelsRead, IsModel, Keys
  <2> QED BY <2>1, <2>5, <2>7, WorkOfMaps DEF Work
<1>4. CASE OnUpdate \/ JoinDuplicate \/ DispatchReturns \/ CollectFinished \/ OnUpdateReturns
           \/ WaitReturns \/ DuplicateLoaderFinishes
  BY <1>4, WorkOfMaps DEF OnUpdate, JoinDuplicate, DispatchReturns, CollectFinished,
     OnUpdateReturns, WaitReturns, DuplicateLoaderFinishes
<1>5. ASSUME NEW h \in Handle, RunUnloadCallback(h) PROVE Work' = Work
  BY <1>5, WorkOfMaps DEF RunUnloadCallback
<1> QED BY <1>1, <1>2, <1>3, <1>4, <1>5 DEF WorkStep, Tick, Loader

\* Loads and unloads come to an end: what the manager does by itself never makes new
\* work, and each step that works something off makes the measure smaller.  Together
\* with TicksEnd and the fairness of Spec this is why WaitsReturn holds.
THEOREM WorkShrinks ==
  Spec => [][/\ WorkStep => Less(Work', Work)
             /\ ~WorkStep /\ (Tick \/ WaitReturns \/ Loader) => Work' = Work
             /\ Measured]_vars
<1>1. Spec => []Measured
  <2>1. TypeOK => Measured
    BY WorkMeasured
  <2> QED BY <2>1, TypeCorrect, PTL
<1>2. ASSUME SafetyInv, Measured, Measured', WorkStep PROVE Less(Work', Work)
  BY <1>2, CallbacksWorkOff, ClearsWorkOff, DispatchWorksOff, FinishWorksOff DEF WorkStep
<1> QED BY <1>1, <1>2, OthersKeepWork, SafetyInvariant, PTL DEF Spec
=============================================================================
