------------------------------- MODULE Scenes -------------------------------
(***************************************************************************)
(* The scenes of an Engine and the mesh system.  A scene that is loaded    *)
(* waits in m_PendingScenes until nothing is loading, then becomes active  *)
(* and its mesh components get raw pointers into the loaded models.  The   *)
(* asset manager is the one of AssetLifecycle.  Everything happens on the  *)
(* main thread: phase is the place in the body of Engine::Run.  Clients    *)
(* (the editor's menus, a game's code) act between two frames.             *)
(***************************************************************************)
EXTENDS AssetLifecycle, Naturals

CONSTANTS
  Scene,         \* Scene objects
  Models,        \* handles that mesh components refer to
  Unreadable,    \* models whose file assimp cannot open
  Archives,      \* what can be loaded: the models of the components of a saved scene
  Careful,       \* whether clients only use assets that are loaded and only
                 \* unload what no scene uses
  AwaitUnloads,  \* whether they wait for pending unloads before they load a scene
  AwaitScenes,   \* whether they wait until a scene is active before they save it
  MaxRequests    \* bound: how often clients ask for a load

ASSUME ScenesAssumption ==
  /\ Models \subseteq Handle \ Unsupported
  /\ Unreadable \subseteq Models
  /\ Archives \subseteq SUBSET Models
  /\ Careful \in BOOLEAN
  /\ AwaitUnloads \in BOOLEAN
  /\ AwaitScenes \in BOOLEAN
  /\ MaxRequests \in Nat

VARIABLES
  active,    \* m_ActiveScenes
  pending,   \* m_PendingScenes
  mesh,      \* the MeshComponent of a scene for a model and its m_MeshAsset
  phase,     \* where in a frame the main thread is
  requests   \* how many loads clients have asked for

vars == <<assets, active, pending, mesh, phase, requests>>

\* A component, if there is one, has a null pointer, one to a Mesh, or one to a
\* Mesh whose buffers UnloadModel freed.
MeshState == {"none", "null", "set", "dangling"}

Phases == {"update", "pending", "client", "submit", "crashed", "down"}

TypeOK ==
  /\ AssetsTypeOK
  /\ active \subseteq Scene
  /\ pending \subseteq Scene
  /\ mesh \in [Scene -> [Models -> MeshState]]
  /\ phase \in Phases
  /\ requests \in 0..MaxRequests

Empty == [m \in Models |-> "none"]

Init ==
  /\ AssetsInit
  /\ active = {}
  /\ pending = {}
  /\ mesh = [s \in Scene |-> Empty]
  /\ phase = "update"
  /\ requests = 0

Alive == active \cup pending

\* Scene::GetRequiredAssets, by the mesh system.
Required(s) == {m \in Models : mesh[s][m] # "none"}

InUse == UNION {Required(s) : s \in Alive}

\* GetAsset returns an object; else it returns a null pointer, which
\* FindMeshAsset and SaveBinary dereference.
Found(m) == m \in loaded \ Unreadable

(***************************************************************************)
(* A frame.                                                                *)
(***************************************************************************)

\* m_AssetManager.OnUpdate, also called by clients that wait for it.  The
\* unload of a model frees the buffers its meshes refer to.
AssetManagerOnUpdate ==
  /\ phase \in {"update", "client"}
  /\ Manage
  /\ mesh' = [s \in Scene |-> [m \in Models |->
                IF mesh[s][m] = "set" /\ m \in loaded \ loaded' THEN "dangling"
                ELSE mesh[s][m]]]
  /\ UNCHANGED <<active, pending, phase, requests>>

OnUpdateReturns ==
  /\ phase = "update"
  /\ phase' = "pending"
  /\ UNCHANGED <<assets, active, pending, mesh, requests>>

\* Mutant: the components of a loaded scene are not looked up.
Unresolved(m, state) == state

\* MeshSystem::FindMeshAsset for a component whose model is found.
Resolved(m, state) == IF state = "null" THEN "set" ELSE state

\* Mutant: the pending scenes do not wait for assets that are loading.
OverlooksLoads == unloading # {}

\* Mutant: they wait for what is loaded already, too.
CountsLoaded == Busy \/ loaded # {}

AnyAssetsLoading == Busy

\* All pending scenes become active in one frame; OnSceneLoaded looks up the
\* models of their components.
PendingScenes ==
  /\ phase = "pending"
  /\ IF AnyAssetsLoading
     THEN phase' = "client" /\ UNCHANGED <<active, pending, mesh>>
     ELSE IF \A s \in pending : \A m \in Required(s) : mesh[s][m] = "null" => Found(m)
          THEN /\ active' = active \cup pending
               /\ pending' = {}
               /\ mesh' = [s \in Scene |-> IF s \in pending
                             THEN [m \in Models |-> Resolved(m, mesh[s][m])]
                             ELSE mesh[s]]
               /\ phase' = "client"
          ELSE phase' = "crashed" /\ UNCHANGED <<active, pending, mesh>>
  /\ UNCHANGED <<assets, requests>>

ClientReturns ==
  /\ phase = "client"
  /\ phase' = "submit"
  /\ UNCHANGED <<assets, active, pending, mesh, requests>>

\* SubmitFrame: DispatchStaticMeshDrawCommands draws the components of the active
\* scenes (all of them here: each has a transform, a material and a view).
SubmitFrame ==
  /\ phase = "submit"
  /\ phase' = IF \A s \in active : \A m \in Required(s) : mesh[s][m] = "set"
              THEN "update" ELSE "crashed"
  /\ UNCHANGED <<assets, active, pending, mesh, requests>>

(***************************************************************************)
(* What clients call.                                                      *)
(***************************************************************************)
LoadAssets(H) ==
  /\ requests < MaxRequests
  /\ requests' = requests + 1
  /\ Request(H)

LoadAsset(h) ==
  /\ phase = "client"
  /\ LoadAssets({h})
  /\ UNCHANGED <<active, pending, mesh, phase>>

\* UnloadAsset, or UnloadAllAssets before it waits.
UnloadAssets(H) ==
  /\ phase = "client"
  /\ Careful => H \cap InUse = {}
  /\ Schedule(H)
  /\ UNCHANGED <<active, pending, mesh, phase, requests>>

CreateScene(s) ==
  /\ phase = "client"
  /\ s \notin Alive
  /\ active' = active \cup {s}
  /\ mesh' = [mesh EXCEPT ![s] = Empty]
  /\ UNCHANGED <<assets, pending, phase, requests>>

\* Mutant: the assets of the archive are not enqueued.
EnqueuesNothing(archive) == {}

\* Scene::LoadBinary calls LoadAsset for every asset in the archive.
Enqueues(archive) == archive

\* LoadSceneFromArchive: the components are there at once, with null pointers.
LoadScene(s, archive) ==
  /\ phase = "client"
  /\ s \notin Alive
  /\ AwaitUnloads => archive \cap unloading = {}
  /\ LoadAssets(Enqueues(archive))
  /\ pending' = pending \cup {s}
  /\ mesh' = [mesh EXCEPT ![s] = [m \in Models |-> IF m \in archive THEN "null" ELSE "none"]]
  /\ UNCHANGED <<active, phase>>

\* CloseScene does nothing with a scene that is still pending.
CloseScene(s) ==
  /\ phase = "client"
  /\ s \in active
  /\ active' = active \ {s}
  /\ mesh' = [mesh EXCEPT ![s] = Empty]
  /\ UNCHANGED <<assets, pending, phase, requests>>

\* AddComponent<MeshComponent>: in a scene that went through OnSceneLoaded the
\* construct hook looks the model up.
AddMesh(s, m) ==
  /\ phase = "client"
  /\ s \in Alive /\ mesh[s][m] = "none"
  /\ Careful => Found(m) /\ m \notin unloading
  /\ IF s \in active
     THEN IF Found(m)
          THEN mesh' = [mesh EXCEPT ![s][m] = "set"] /\ UNCHANGED phase
          ELSE phase' = "crashed" /\ UNCHANGED mesh
     ELSE mesh' = [mesh EXCEPT ![s][m] = "null"] /\ UNCHANGED phase
  /\ UNCHANGED <<assets, active, pending, requests>>

\* RemoveComponent, or DestroyEntity.
RemoveMesh(s, m) ==
  /\ phase = "client"
  /\ s \in Alive /\ mesh[s][m] # "none"
  /\ mesh' = [mesh EXCEPT ![s][m] = "none"]
  /\ UNCHANGED <<assets, active, pending, phase, requests>>

\* SaveScene changes no state of the engine: SaveBinary reads the path of every
\* required asset.  It takes any scene, also one that is pending, whose models
\* are not there yet.
SaveScene(s) ==
  /\ phase = "client"
  /\ s \in Alive
  /\ AwaitScenes => s \in active
  /\ phase' = IF \A m \in Required(s) : Found(m) THEN phase ELSE "crashed"
  /\ UNCHANGED <<assets, active, pending, mesh, requests>>

\* Shutdown closes the active scenes and leaves the pending ones.
Shutdown ==
  /\ phase = "client"
  /\ active' = {}
  /\ mesh' = [s \in Scene |-> IF s \in active THEN Empty ELSE mesh[s]]
  /\ phase' = "down"
  /\ UNCHANGED <<assets, pending, requests>>

Client ==
  \/ \E h \in Handle : LoadAsset(h)
  \/ \E H \in SUBSET Handle : UnloadAssets(H)
  \/ \E s \in Scene :
       \/ CreateScene(s)
       \/ \E archive \in Archives : LoadScene(s, archive)
       \/ CloseScene(s)
       \/ \E m \in Models : AddMesh(s, m) \/ RemoveMesh(s, m)
       \/ SaveScene(s)
  \/ Shutdown

Frame == OnUpdateReturns \/ PendingScenes \/ ClientReturns \/ SubmitFrame

Ended == phase \in {"crashed", "down"} /\ UNCHANGED vars

Next == AssetManagerOnUpdate \/ Frame \/ Client \/ Ended

\* The loads and unloads of the asset manager come to an end (its WaitsReturn),
\* over as many frames as they need.
LoadEnds(h) == Finish({h}) /\ h \notin loading'
Fairness ==
  /\ WF_vars(Frame)
  /\ \A h \in Handle :
       /\ SF_vars(AssetManagerOnUpdate /\ LoadEnds(h))
       /\ SF_vars(AssetManagerOnUpdate /\ Erase({h}))

Spec == Init /\ [][Next]_vars /\ Fairness

-----------------------------------------------------------------------------
(***************************************************************************)
(* Properties.                                                             *)
(***************************************************************************)

\* FindMeshAsset and SaveBinary find the models they dereference, and no draw
\* command goes through a null or dangling m_MeshAsset.
NoCrash == phase # "crashed"

\* The components of an active scene point into models that are loaded and that
\* no pending unload is about to destroy.
ActiveMeshesValid ==
  \A s \in active : \A m \in Required(s) :
    mesh[s][m] = "set" /\ Found(m) /\ m \notin unloading

\* Every model a pending scene waits for is loaded or on its way, and its first
\* look at AnyAssetsLoading = FALSE finds it.
PendingAssetsComing ==
  \A s \in pending : \A m \in Required(s) :
    /\ mesh[s][m] = "null"
    /\ m \in loading \cup loaded
    /\ m \notin unloading \cup Unreadable

\* A pending scene becomes active once clients stop asking for more assets.
PendingScenesActivate ==
  \A s \in Scene : s \in pending ~> (s \in active \/ phase = "down")

\* The inductive invariant behind NoCrash.
SceneInv ==
  /\ TypeOK
  /\ active \cap pending = {}
  /\ ActiveMeshesValid
  /\ PendingAssetsComing
  /\ NoCrash
=============================================================================
