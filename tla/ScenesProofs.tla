---------------------------- MODULE ScenesProofs ----------------------------
(* Proofs about Scenes, for every value of the constants: any number of     *)
(* scenes and assets, any archives of readable models.                      *)
EXTENDS Scenes, TLAPS

-----------------------------------------------------------------------------
\* Steps of the asset manager move an asset only along its life.
LEMMA ManageMoves ==
  ASSUME AssetsTypeOK, Manage
  PROVE  /\ loaded \subseteq loaded' \cup unloading
         /\ loading \subseteq loading' \cup loaded' \cup Unsupported
         /\ unloading' \subseteq unloading
         /\ AssetsTypeOK'
<1>1. ASSUME NEW h \in Handle, Vanish(h) \/ Parse(h)
      PROVE  /\ loaded' = loaded /\ unloading' = unloading
             /\ loading \subseteq loading' \cup Unsupported
             /\ loading' \subseteq Handle
  BY <1>1, LifecycleAssumption DEF Vanish, Parse, AssetsTypeOK
<1>2. ASSUME NEW H \in SUBSET Handle, Finish(H)
      PROVE  /\ loaded \subseteq loaded' /\ unloading' = unloading
             /\ loading \subseteq loading' \cup loaded'
             /\ loading' \subseteq Handle /\ loaded' \subseteq Handle
  BY <1>2 DEF Finish, AssetsTypeOK
<1>3. ASSUME NEW H \in SUBSET Handle, Erase(H)
      PROVE  /\ loaded \subseteq loaded' \cup unloading /\ unloading' \subseteq unloading
             /\ loading' = loading /\ loaded' \subseteq Handle
  BY <1>3 DEF Erase, AssetsTypeOK
<1> QED BY <1>1, <1>2, <1>3 DEF Manage, AssetsTypeOK

\* A step that leaves the scenes alone and takes no asset in use away keeps what
\* holds of the scenes.
LEMMA AssetsMove ==
  ASSUME SceneInv, TypeOK', UNCHANGED <<active, pending>>, phase' # "crashed",
         \A s \in Alive : mesh'[s] = mesh[s],
         InUse \cap loaded \subseteq loaded',
         InUse \cap loading \subseteq loading' \cup loaded',
         InUse \cap unloading' = {}
  PROVE  SceneInv'
<1>2. \A s \in Alive : \A m \in Required(s) : m \in InUse
  BY DEF InUse
<1>3. \A s \in Alive : Required(s)' = Required(s)
  BY DEF Required, Alive
<1>4. ActiveMeshesValid'
  <2>1. ASSUME NEW s \in active, NEW m \in Required(s)
        PROVE  mesh[s][m] = "set" /\ m \in loaded' \ Unreadable /\ m \notin unloading'
    BY <1>2, <2>1 DEF SceneInv, ActiveMeshesValid, Found, Alive
  <2> QED BY <1>3, <2>1 DEF ActiveMeshesValid, Found, Alive
<1>5. PendingAssetsComing'
  <2>1. ASSUME NEW s \in pending, NEW m \in Required(s)
        PROVE  /\ mesh[s][m] = "null"
               /\ m \in loading' \cup loaded'
               /\ m \notin unloading' \cup Unreadable
    BY <1>2, <2>1 DEF SceneInv, PendingAssetsComing, Alive
  <2> QED BY <1>3, <2>1 DEF PendingAssetsComing, Alive
<1> QED BY <1>4, <1>5 DEF SceneInv, NoCrash

-----------------------------------------------------------------------------
\* There are no scenes at first.
LEMMA ScenesInit == Init => SceneInv
<1> SUFFICES ASSUME Init PROVE SceneInv
  OBVIOUS
<1>1. TypeOK
  BY ScenesAssumption DEF Init, TypeOK, AssetsInit, AssetsTypeOK, Empty, MeshState, Phases
<1> QED BY <1>1 DEF Init, SceneInv, ActiveMeshesValid, PendingAssetsComing, NoCrash

\* The update phase of a frame takes nothing that a scene refers to.
LEMMA ManageKeeps ==
  ASSUME SceneInv, AssetManagerOnUpdate
  PROVE  SceneInv'
<1>1. /\ loaded \subseteq loaded' \cup unloading
      /\ loading \subseteq loading' \cup loaded' \cup Unsupported
      /\ unloading' \subseteq unloading
      /\ AssetsTypeOK'
  BY ManageMoves DEF SceneInv, TypeOK, AssetManagerOnUpdate
<1>2. InUse \subseteq Models /\ InUse \cap unloading = {}
  BY DEF SceneInv, ActiveMeshesValid, PendingAssetsComing, InUse, Alive, Required
<1>3. \A s \in Scene : mesh'[s] = [m \in Models |->
                IF mesh[s][m] = "set" /\ m \in loaded \ loaded' THEN "dangling"
                ELSE mesh[s][m]]
  BY DEF AssetManagerOnUpdate
<1>4. TypeOK'
  <2>1. mesh' \in [Scene -> [Models -> MeshState]]
    BY <1>3 DEF AssetManagerOnUpdate, SceneInv, TypeOK, MeshState
  <2> QED BY <1>1, <2>1 DEF AssetManagerOnUpdate, SceneInv, TypeOK
<1>5. \A s \in Alive : mesh'[s] = mesh[s]
  <2> SUFFICES ASSUME NEW s \in Alive PROVE mesh'[s] = mesh[s]
    OBVIOUS
  <2>1. s \in Scene /\ mesh[s] \in [Models -> MeshState]
    BY DEF Alive, SceneInv, TypeOK
  <2>2. ASSUME NEW m \in Models, mesh[s][m] = "set" PROVE m \notin loaded \ loaded'
    <3>1. m \in InUse
      BY <2>2 DEF InUse, Required
    <3> QED BY <1>1, <1>2, <3>1
  <2>3. \A m \in Models : mesh'[s][m] = mesh[s][m]
    BY <1>3, <2>1, <2>2
  <2> QED BY <1>3, <2>1, <2>3
<1>6. /\ InUse \cap loaded \subseteq loaded'
      /\ InUse \cap loading \subseteq loading' \cup loaded'
      /\ InUse \cap unloading' = {}
  BY <1>1, <1>2, ScenesAssumption
<1> QED BY <1>4, <1>5, <1>6, AssetsMove DEF AssetManagerOnUpdate, SceneInv, NoCrash

\* The other phases of a frame: pending scenes become active, scenes are drawn.
LEMMA FrameKeeps ==
  ASSUME SceneInv, Frame
  PROVE  SceneInv'
<1>1. InUse \cap unloading = {}
  BY DEF SceneInv, ActiveMeshesValid, PendingAssetsComing, InUse, Alive, Required
<1>2. ASSUME UNCHANGED <<assets, active, pending, mesh, requests>>, phase' \in Phases \ {"crashed"}
      PROVE  SceneInv'
  <2>1. TypeOK'
    BY <1>2 DEF SceneInv, TypeOK, assets, AssetsTypeOK
  <2> QED BY <1>1, <1>2, <2>1, AssetsMove DEF assets
<1>3. CASE OnUpdateReturns \/ ClientReturns
  BY <1>2, <1>3 DEF OnUpdateReturns, ClientReturns, Phases
<1>4. CASE SubmitFrame
  <2>1. \A s \in active : \A m \in Required(s) : mesh[s][m] = "set"
    BY DEF SceneInv, ActiveMeshesValid
  <2> QED BY <1>2, <1>4, <2>1 DEF SubmitFrame, Phases
<1>5. CASE PendingScenes
  <2>1. CASE AnyAssetsLoading
    BY <1>2, <1>5, <2>1 DEF PendingScenes, Phases
  <2>2. CASE ~AnyAssetsLoading
    <3>1. loading = {} /\ unloading = {}
      BY <2>2 DEF AnyAssetsLoading, Busy
    <3>2. \A s \in pending : \A m \in Required(s) : mesh[s][m] = "null" /\ Found(m)
      BY <3>1 DEF SceneInv, PendingAssetsComing, Found
    <3>3. /\ active' = active \cup pending
          /\ pending' = {}
          /\ mesh' = [s \in Scene |-> IF s \in pending
                        THEN [m \in Models |-> Resolved(m, mesh[s][m])]
                        ELSE mesh[s]]
          /\ phase' = "client"
          /\ UNCHANGED <<assets, requests>>
      BY <1>5, <2>2, <3>2 DEF PendingScenes
    <3>4. TypeOK'
      BY <3>3 DEF SceneInv, TypeOK, assets, AssetsTypeOK, Resolved, MeshState, Phases
    <3>5. ActiveMeshesValid'
      <4>1. ASSUME NEW s \in active', NEW m \in Models, mesh'[s][m] # "none"
            PROVE  mesh'[s][m] = "set" /\ Found(m)' /\ m \notin unloading'
        <5>0. s \in Scene /\ assets' = assets
          BY <3>3 DEF SceneInv, TypeOK
        <5>1. CASE s \in pending
          <6>1. mesh'[s][m] = Resolved(m, mesh[s][m])
            BY <3>3, <5>0, <5>1
          <6>2. m \in Required(s)
            BY <4>1, <6>1 DEF Required, Resolved
          <6> QED BY <3>1, <3>2, <5>0, <5>1, <6>1, <6>2 DEF Resolved, Found, assets
        <5>2. CASE s \notin pending
          <6>1. s \in active /\ mesh'[s] = mesh[s] /\ m \in Required(s)
            BY <3>3, <4>1, <5>0, <5>2 DEF Required
          <6> QED BY <3>1, <5>0, <6>1 DEF SceneInv, ActiveMeshesValid, Found, assets
        <5> QED BY <5>1, <5>2
      <4> QED BY <4>1 DEF ActiveMeshesValid, Required
    <3> QED BY <3>3, <3>4, <3>5 DEF SceneInv, PendingAssetsComing, NoCrash
  <2> QED BY <2>1, <2>2
<1> QED BY <1>3, <1>4, <1>5 DEF Frame

\* Requests to load take nothing away.
LEMMA LoadsKeep ==
  ASSUME SceneInv, NEW H \in SUBSET Handle, LoadAssets(H)
  PROVE  /\ AssetsTypeOK' /\ requests' \in 0..MaxRequests
         /\ loading' = loading \cup H
         /\ UNCHANGED <<unloading, loaded>>
BY ScenesAssumption DEF SceneInv, TypeOK, AssetsTypeOK, LoadAssets, Request

\* A step of one scene: the others keep what holds of them, and so does the new
\* state of this one.
LEMMA OneSceneChanges ==
  ASSUME SceneInv, TypeOK', phase' # "crashed", NEW s \in Scene,
         UNCHANGED <<unloading, loaded>>, loading \subseteq loading',
         active' \subseteq active \cup {s}, pending' \subseteq pending \cup {s},
         s \notin active' \cap pending',
         \A r \in Scene \ {s} : mesh'[r] = mesh[r],
         \A m \in Models : mesh'[s][m] # "none" =>
           /\ s \in active' => mesh'[s][m] = "set" /\ Found(m) /\ m \notin unloading
           /\ s \in pending' => /\ mesh'[s][m] = "null"
                                /\ m \in loading' \cup loaded
                                /\ m \notin unloading \cup Unreadable
  PROVE  SceneInv'
<1>1. (active \cap pending = {})'
  BY DEF SceneInv
<1>2. ActiveMeshesValid'
  <2>1. ASSUME NEW r \in active', NEW m \in Models, mesh'[r][m] # "none"
        PROVE  mesh'[r][m] = "set" /\ Found(m) /\ m \notin unloading
    <3>1. CASE r = s
      BY <2>1, <3>1
    <3>2. CASE r # s
      BY <2>1, <3>2 DEF SceneInv, TypeOK, ActiveMeshesValid, Required
    <3> QED BY <3>1, <3>2
  <2> QED BY <2>1 DEF ActiveMeshesValid, Required, Found
<1>3. PendingAssetsComing'
  <2>1. ASSUME NEW r \in pending', NEW m \in Models, mesh'[r][m] # "none"
        PROVE  /\ mesh'[r][m] = "null"
               /\ m \in loading' \cup loaded
               /\ m \notin unloading \cup Unreadable
    <3>1. CASE r = s
      BY <2>1, <3>1
    <3>2. CASE r # s
      BY <2>1, <3>2 DEF SceneInv, TypeOK, PendingAssetsComing, Required
    <3> QED BY <3>1, <3>2
  <2> QED BY <2>1 DEF PendingAssetsComing, Required
<1> QED BY <1>1, <1>2, <1>3 DEF SceneInv, NoCrash

\* What clients do between two frames, one case per operation.
LEMMA ClientKeeps ==
  ASSUME Careful, AwaitUnloads, AwaitScenes, \A a \in Archives : a \cap Unreadable = {},
         SceneInv, Client
  PROVE  SceneInv'
<1>0. TypeOK /\ InUse \cap unloading = {}
  BY DEF SceneInv, ActiveMeshesValid, PendingAssetsComing, InUse, Alive, Required
<1>1. ASSUME NEW h \in Handle, LoadAsset(h) PROVE SceneInv'
  <2>1. /\ AssetsTypeOK' /\ requests' \in 0..MaxRequests
        /\ loading' = loading \cup {h}
        /\ UNCHANGED <<unloading, loaded>>
    BY <1>1, LoadsKeep DEF LoadAsset
  <2>2. TypeOK'
    BY <1>0, <1>1, <2>1 DEF LoadAsset, TypeOK
  <2> QED BY <1>0, <1>1, <2>1, <2>2, AssetsMove DEF LoadAsset
<1>2. ASSUME NEW H \in SUBSET Handle, UnloadAssets(H) PROVE SceneInv'
  <2>1. TypeOK'
    BY <1>0, <1>2 DEF UnloadAssets, Schedule, TypeOK, AssetsTypeOK
  <2>2. unloading' = unloading \cup H /\ H \cap InUse = {}
    BY <1>2 DEF UnloadAssets, Schedule
  <2> QED BY <1>0, <1>2, <2>1, <2>2, AssetsMove DEF UnloadAssets, Schedule
<1>3. ASSUME NEW s \in Scene, CreateScene(s) PROVE SceneInv'
  <2>1. \A m \in Models : mesh'[s][m] = "none"
    BY <1>0, <1>3 DEF CreateScene, TypeOK, Empty
  <2>2. TypeOK'
    BY <1>0, <1>3 DEF CreateScene, TypeOK, assets, AssetsTypeOK, Empty, MeshState
  <2>3. \A r \in Scene \ {s} : mesh'[r] = mesh[r]
    BY <1>0, <1>3 DEF CreateScene, TypeOK
  <2> QED BY <1>3, <2>1, <2>2, <2>3, OneSceneChanges
          DEF CreateScene, Alive, assets
<1>4. ASSUME NEW s \in Scene, NEW archive \in Archives, LoadScene(s, archive) PROVE SceneInv'
  <2>1. archive \in SUBSET Handle /\ archive \subseteq Models
    BY ScenesAssumption
  <2>2. /\ AssetsTypeOK' /\ requests' \in 0..MaxRequests
        /\ loading' = loading \cup archive
        /\ UNCHANGED <<unloading, loaded>>
    BY <1>4, <2>1, LoadsKeep DEF LoadScene, Enqueues
  <2>3. /\ \A m \in Models : mesh'[s][m] = IF m \in archive THEN "null" ELSE "none"
        /\ \A r \in Scene \ {s} : mesh'[r] = mesh[r]
    BY <1>0, <1>4 DEF LoadScene, TypeOK
  <2>4. TypeOK'
    BY <1>0, <1>4, <2>2 DEF LoadScene, TypeOK, MeshState
  <2>5. archive \cap unloading = {} /\ archive \cap Unreadable = {}
    BY <1>4 DEF LoadScene
  <2>6. s \notin active /\ active' = active /\ pending' = pending \cup {s} /\ phase' = phase
    BY <1>4 DEF LoadScene, Alive
  <2> QED BY <2>2, <2>3, <2>4, <2>5, <2>6, OneSceneChanges DEF SceneInv, NoCrash
<1>5. ASSUME NEW s \in Scene, CloseScene(s) PROVE SceneInv'
  <2>1. /\ \A m \in Models : mesh'[s][m] = "none"
        /\ \A r \in Scene \ {s} : mesh'[r] = mesh[r]
    BY <1>0, <1>5 DEF CloseScene, TypeOK, Empty
  <2>2. TypeOK'
    BY <1>0, <1>5 DEF CloseScene, TypeOK, assets, AssetsTypeOK, Empty, MeshState
  <2> QED BY <1>5, <2>1, <2>2, OneSceneChanges DEF CloseScene, assets
<1>6. ASSUME NEW s \in Scene, NEW m \in Models, AddMesh(s, m) PROVE SceneInv'
  <2>1. Found(m) /\ m \notin unloading /\ s \in Alive
    BY <1>6 DEF AddMesh
  <2>2. mesh' = [mesh EXCEPT ![s][m] = IF s \in active THEN "set" ELSE "null"]
    BY <1>6, <2>1 DEF AddMesh
  <2>3. /\ \A r \in Scene \ {s} : mesh'[r] = mesh[r]
        /\ \A n \in Models \ {m} : mesh'[s][n] = mesh[s][n]
        /\ mesh'[s][m] = IF s \in active THEN "set" ELSE "null"
    BY <1>0, <2>2 DEF TypeOK
  <2>4. UNCHANGED <<assets, active, pending, phase, requests>>
    BY <1>6, <2>1 DEF AddMesh
  <2>5. TypeOK'
    BY <1>0, <2>2, <2>4 DEF TypeOK, assets, AssetsTypeOK, MeshState
  <2>6. ASSUME NEW n \in Models, mesh'[s][n] # "none"
        PROVE  /\ s \in active => mesh'[s][n] = "set" /\ Found(n) /\ n \notin unloading
               /\ s \in pending => /\ mesh'[s][n] = "null"
                                   /\ n \in loading \cup loaded
                                   /\ n \notin unloading \cup Unreadable
    <3>1. CASE n = m
      BY <2>1, <2>3, <3>1 DEF SceneInv, Found
    <3>2. CASE n # m
      BY <2>3, <2>6, <3>2 DEF SceneInv, ActiveMeshesValid, PendingAssetsComing, Required
    <3> QED BY <3>1, <3>2
  <2> QED BY <2>3, <2>4, <2>5, <2>6, OneSceneChanges DEF SceneInv, NoCrash, assets
<1>7. ASSUME NEW s \in Scene, NEW m \in Models, RemoveMesh(s, m) PROVE SceneInv'
  <2>1. /\ \A r \in Scene \ {s} : mesh'[r] = mesh[r]
        /\ \A n \in Models \ {m} : mesh'[s][n] = mesh[s][n]
        /\ mesh'[s][m] = "none"
    BY <1>0, <1>7 DEF RemoveMesh, TypeOK
  <2>2. UNCHANGED <<assets, active, pending, phase, requests>>
    BY <1>7 DEF RemoveMesh
  <2>3. TypeOK'
    BY <1>0, <1>7 DEF RemoveMesh, TypeOK, assets, AssetsTypeOK, MeshState
  <2>4. ASSUME NEW n \in Models, mesh'[s][n] # "none"
        PROVE  /\ s \in active => mesh'[s][n] = "set" /\ Found(n) /\ n \notin unloading
               /\ s \in pending => /\ mesh'[s][n] = "null"
                                   /\ n \in loading \cup loaded
                                   /\ n \notin unloading \cup Unreadable
    BY <2>1, <2>4 DEF SceneInv, ActiveMeshesValid, PendingAssetsComing, Required
  <2> QED BY <2>1, <2>2, <2>3, <2>4, OneSceneChanges DEF SceneInv, NoCrash, assets
<1>8. ASSUME NEW s \in Scene, SaveScene(s) PROVE SceneInv'
  <2>1. \A m \in Required(s) : Found(m)
    BY <1>8 DEF SaveScene, SceneInv, ActiveMeshesValid
  <2>2. UNCHANGED vars
    BY <1>8, <2>1 DEF SaveScene, vars
  <2>3. TypeOK'
    BY <1>0, <2>2 DEF vars, assets, TypeOK, AssetsTypeOK
  <2> QED BY <1>0, <2>2, <2>3, AssetsMove DEF vars, assets, SceneInv, NoCrash
<1>9. CASE Shutdown
  <2>1. TypeOK'
    BY <1>0, <1>9 DEF Shutdown, TypeOK, assets, AssetsTypeOK, Empty, MeshState, Phases
  <2>2. \A s \in pending : mesh'[s] = mesh[s]
    BY <1>0, <1>9 DEF Shutdown, SceneInv, TypeOK
  <2>3. active' = {} /\ UNCHANGED <<loading, unloading, loaded, pending>> /\ phase' = "down"
    BY <1>9 DEF Shutdown, assets
  <2>4. PendingAssetsComing'
    BY <2>2, <2>3 DEF SceneInv, PendingAssetsComing, Required
  <2> QED BY <2>1, <2>3, <2>4 DEF SceneInv, ActiveMeshesValid, NoCrash
<1> QED BY <1>1, <1>2, <1>3, <1>4, <1>5, <1>6, <1>7, <1>8, <1>9 DEF Client

-----------------------------------------------------------------------------
\* With clients that only use assets that are loaded, only unload what no scene
\* uses, wait for unloads before they load a scene and wait until a scene is active
\* before they save it, the invariant holds.
THEOREM SceneInvariant ==
  ASSUME Careful, AwaitUnloads, AwaitScenes, \A a \in Archives : a \cap Unreadable = {}
  PROVE  Spec => []SceneInv
<1>1. ASSUME SceneInv, UNCHANGED vars PROVE SceneInv'
  BY <1>1 DEF vars, assets, SceneInv, TypeOK, AssetsTypeOK, ActiveMeshesValid,
              PendingAssetsComing, Required, Found, NoCrash
<1>2. SceneInv /\ [Next]_vars => SceneInv'
  BY <1>1, ManageKeeps, FrameKeeps, ClientKeeps DEF Next, Ended
<1> QED BY <1>2, ScenesInit, PTL DEF Spec

\* For clients that keep these rules, FindMeshAsset, SaveBinary and the draw commands
\* never meet a null or dangling pointer, however loads, unloads and the activation
\* of scenes interleave.
THEOREM ScenesDoNotCrash ==
  ASSUME Careful, AwaitUnloads, AwaitScenes, \A a \in Archives : a \cap Unreadable = {}
  PROVE  Spec => []NoCrash
<1>1. SceneInv => NoCrash
  BY DEF SceneInv
<1> QED BY <1>1, SceneInvariant, PTL

\* The mesh pointers of an active scene stay valid.
THEOREM ActiveScenesAreDrawable ==
  ASSUME Careful, AwaitUnloads, AwaitScenes, \A a \in Archives : a \cap Unreadable = {}
  PROVE  Spec => []ActiveMeshesValid
<1>1. SceneInv => ActiveMeshesValid
  BY DEF SceneInv
<1> QED BY <1>1, SceneInvariant, PTL

-----------------------------------------------------------------------------
\* What clients do moves the assets by a request, by a schedule or not at all.
LEMMA ClientsAsk ==
  ASSUME Client
  PROVE  [\E H \in SUBSET Handle : Request(H) \/ Schedule(H)]_assets
<1>1. \A a \in Archives : a \in SUBSET Handle
  BY ScenesAssumption
<1>2. ASSUME NEW h \in Handle, LoadAsset(h) PROVE \E H \in SUBSET Handle : Request(H)
  BY <1>2 DEF LoadAsset, LoadAssets
<1>3. ASSUME NEW s \in Scene, NEW a \in Archives, LoadScene(s, a)
      PROVE  \E H \in SUBSET Handle : Request(H)
  BY <1>1, <1>3 DEF LoadScene, LoadAssets, Enqueues
<1>4. ASSUME NEW H \in SUBSET Handle, UnloadAssets(H) PROVE Schedule(H)
  BY <1>4 DEF UnloadAssets
<1>5. ASSUME NEW s \in Scene, CreateScene(s) \/ CloseScene(s) \/ SaveScene(s)
      PROVE  UNCHANGED assets
  BY <1>5 DEF CreateScene, CloseScene, SaveScene
<1>6. ASSUME NEW s \in Scene, NEW m \in Models, AddMesh(s, m) \/ RemoveMesh(s, m)
      PROVE  UNCHANGED assets
  BY <1>6 DEF AddMesh, RemoveMesh
<1>7. Shutdown => UNCHANGED assets
  BY DEF Shutdown
<1> QED BY <1>2, <1>3, <1>4, <1>5, <1>6, <1>7 DEF Client

\* Whatever clients do, careful or not, the scenes and the mesh system use the asset
\* manager only as AssetLifecycle has it: with AssetRefinement, which shows that the
\* manager implements AssetLifecycle, the two halves of the engine fit together.
THEOREM ScenesUseLifecycle == Spec => AssetsSpec
<1>1. Init => AssetsInit
  BY DEF Init
<1>2. ASSUME [Next]_vars PROVE [AssetsNext]_assets
  <2>1. CASE AssetManagerOnUpdate
    BY <2>1 DEF AssetManagerOnUpdate, AssetsNext
  <2>2. CASE Frame
    BY <2>2 DEF Frame, OnUpdateReturns, PendingScenes, ClientReturns, SubmitFrame
  <2>3. CASE Client
    BY <2>3, ClientsAsk DEF AssetsNext
  <2>4. CASE Ended \/ UNCHANGED vars
    BY <2>4 DEF Ended, vars
  <2> QED BY <1>2, <2>1, <2>2, <2>3, <2>4 DEF Next
<1> QED BY <1>1, <1>2, PTL DEF Spec, AssetsSpec

\* Scenes, components and the main thread stay within their types, whatever clients do.
THEOREM ScenesTypesHold == Spec => []TypeOK
<1>1. Init => TypeOK
  BY ScenesInit DEF SceneInv
<1>2. ASSUME TypeOK, [Next]_vars PROVE TypeOK'
  <2>1. \A a \in Archives : a \in SUBSET Handle
    BY ScenesAssumption
  <2>2. AssetsTypeOK'
    <3>1. CASE AssetManagerOnUpdate
      BY <1>2, <3>1, ManageMoves DEF TypeOK, AssetManagerOnUpdate
    <3>2. CASE Client
      <4>1. ASSUME NEW H \in SUBSET Handle, Request(H) \/ Schedule(H) PROVE AssetsTypeOK'
        BY <1>2, <4>1 DEF Request, Schedule, TypeOK, AssetsTypeOK
      <4> QED BY <1>2, <3>2, <4>1, ClientsAsk DEF TypeOK, AssetsTypeOK, assets
    <3>3. CASE Frame \/ Ended \/ UNCHANGED vars
      BY <1>2, <3>3 DEF Frame, OnUpdateReturns, PendingScenes, ClientReturns, SubmitFrame,
                        Ended, vars, assets, TypeOK, AssetsTypeOK
    <3> QED BY <1>2, <3>1, <3>2, <3>3 DEF Next
  <2>3. active' \subseteq Scene /\ pending' \subseteq Scene /\ phase' \in Phases
    BY <1>2 DEF TypeOK, Next, Frame, Client, Ended, vars, AssetManagerOnUpdate, OnUpdateReturns,
                PendingScenes, ClientReturns, SubmitFrame, LoadAsset, UnloadAssets, CreateScene,
                LoadScene, CloseScene, AddMesh, RemoveMesh, SaveScene, Shutdown, Phases
  <2>4. mesh' \in [Scene -> [Models -> MeshState]]
    <3>1. Empty \in [Models -> MeshState]
      BY DEF Empty, MeshState
    <3>2. CASE AssetManagerOnUpdate \/ PendingScenes
      BY <1>2, <3>2 DEF TypeOK, AssetManagerOnUpdate, PendingScenes, Resolved, MeshState
    <3>3. ASSUME NEW s \in Scene, NEW a \in Archives, LoadScene(s, a)
          PROVE  mesh' \in [Scene -> [Models -> MeshState]]
      BY <1>2, <3>3 DEF TypeOK, LoadScene, MeshState
    <3>4. ASSUME NEW s \in Scene, CreateScene(s) \/ CloseScene(s)
          PROVE  mesh' \in [Scene -> [Models -> MeshState]]
      BY <1>2, <3>1, <3>4 DEF TypeOK, CreateScene, CloseScene
    <3>5. ASSUME NEW s \in Scene, NEW m \in Models, AddMesh(s, m) \/ RemoveMesh(s, m)
          PROVE  mesh' \in [Scene -> [Models -> MeshState]]
      <4>1. \/ mesh' = mesh
            \/ \E x \in {"none", "null", "set"} : mesh' = [mesh EXCEPT ![s][m] = x]
        BY <3>5 DEF AddMesh, RemoveMesh
      <4> QED BY <1>2, <4>1 DEF TypeOK, MeshState
    <3>6. CASE Shutdown
      BY <1>2, <3>1, <3>6 DEF TypeOK, Shutdown
    <3>7. CASE UNCHANGED mesh
      BY <1>2, <3>7 DEF TypeOK
    <3> QED BY <1>2, <3>2, <3>3, <3>4, <3>5, <3>6, <3>7
            DEF Next, Frame, Client, Ended, vars, OnUpdateReturns, ClientReturns, SubmitFrame,
                LoadAsset, UnloadAssets, SaveScene
  <2>5. requests' \in 0..MaxRequests
    <3>1. MaxRequests \in Nat
      BY ScenesAssumption
    <3>2. requests' = requests \/ (requests < MaxRequests /\ requests' = requests + 1)
      BY <1>2 DEF Next, Frame, Client, Ended, vars, AssetManagerOnUpdate, OnUpdateReturns,
                  PendingScenes, ClientReturns, SubmitFrame, LoadAsset, UnloadAssets, CreateScene,
                  LoadAssets, LoadScene, CloseScene, AddMesh, RemoveMesh, SaveScene, Shutdown
    <3> QED BY <1>2, <3>1, <3>2 DEF TypeOK
  <2> QED BY <2>2, <2>3, <2>4, <2>5 DEF TypeOK
<1> QED BY <1>1, <1>2, PTL DEF Spec
=============================================================================
