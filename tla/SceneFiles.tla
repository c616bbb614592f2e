----------------------------- MODULE SceneFiles -----------------------------
(***************************************************************************)
(* Scenes on disk: the entities of a Scene and their count, the binary     *)
(* archive the systems write and read, the table of scenes of the Project  *)
(* and its file, and a process that ends, or dies while it writes a file.  *)
(* Everything happens on the main thread, in a process with a project.     *)
(* The assets that a pending scene waits for come all at once here; how    *)
(* they come, and the textures, are in Scenes and AssetManager.            *)
(***************************************************************************)
EXTENDS Naturals, FiniteSets

CONSTANTS
  None, Torn, \* no file, no scene, no name; a file that was truncated and not written
  Scene,      \* Scene objects
  Name,       \* names of scenes
  Path,       \* files that scenes are saved to or loaded from
  HomeOf,     \* the path "scenes/" + m_Name + ".tbs" of a name
  Entity,     \* identifiers of entities in a registry
  Model,      \* models that mesh components refer to
  Type,       \* values of the m_Type of a handle
  CountRange, \* p_EntityCount counts modulo this, 2^32 in the code
  Rules       \* what clients take care of, see below

\* Rules that the code relies on and does not enforce.
AllRules == {"typed",   \* a scene is saved when its handles have the type of a model
             "home",    \* a scene file is loaded and registered from where SaveScene put it
             "waited",  \* a scene is saved when it is active
             "default", \* the default scene is not removed from the project
             "there",   \* LoadProject is called with a project file that exists
             "written", \* the files of scenes can be opened for writing
             "intact"}  \* a file is not loaded when the process died writing it

ASSUME SceneFilesAssumption ==
  /\ HomeOf \in [Name -> Path]
  /\ \A m, n \in Name : HomeOf[m] = HomeOf[n] => m = n
  /\ "Model" \in Type
  /\ IsFiniteSet(Entity)
  /\ CountRange \in Nat \ {0}
  /\ Rules \subseteq AllRules

\* What SaveBinary writes.  A handle is written as its hash, twice, without its
\* type; the types are only in the list of the assets to load.
Archive == [name : Name, plain : SUBSET Entity, mesh : SUBSET (Entity \X Model),
            assets : SUBSET (Model \X Type)]

\* A Scene.  used: the entities; plain: those with a transform, a camera or entity
\* data; mesh: those with a MeshComponent; count: p_EntityCount; exact is history.
SceneState == [name : Name, used : SUBSET Entity, plain : SUBSET Entity,
               mesh : SUBSET (Entity \X Model \X Type), count : 0..CountRange - 1,
               active : BOOLEAN, exact : BOOLEAN]

Table == [Name -> Path \cup {None}]
Project == [scenes : Table, default : Name \cup {None}]

VARIABLES
  scene,       \* the Scene objects
  models,      \* models that are loaded, as models
  coming,      \* models that pending scenes have asked for
  project,     \* m_Project
  phase,       \* whether the process runs
  files,       \* scene files
  projectFile, \* the project file
  lastSaved,   \* history: what was last saved for a name
  entry        \* history: what became of a name that was put into the project

ghost == <<lastSaved, entry>>
disk  == <<files, projectFile>>
assets == <<models, coming>>
vars  == <<scene, assets, project, phase, disk, ghost>>

\* A name was never put into the project, or its removal was saved; it was put there
\* after the last SaveProject, or before; it was removed after it; or it was in the
\* project and the process that had it, or the project file, is gone.
Entries == {"none", "unsaved", "saved", "removed", "lost"}

ASSUME PointersAssumption ==
  /\ None \notin Name \cup Path \cup Archive \cup SceneState \cup Project
  /\ Torn \notin {None} \cup Archive \cup Project

TypeOK ==
  /\ scene \in [Scene -> SceneState \cup {None}]
  /\ models \subseteq Model
  /\ coming \subseteq Model
  /\ project \in Project \cup {None}
  /\ phase \in {"running", "crashed"}
  /\ files \in [Path -> Archive \cup {None, Torn}]
  /\ projectFile \in Project \cup {None, Torn}
  /\ lastSaved \in [Name -> Archive \cup {None, Torn}]
  /\ entry \in [Name -> Entries]

NoScenes == [s \in Scene |-> None]
Opened   == {s \in Scene : scene[s] # None}

Init ==
  /\ scene = NoScenes
  /\ models = {}
  /\ coming = {}
  /\ project = None
  /\ phase = "running"
  /\ files = [p \in Path |-> None]
  /\ projectFile = None
  /\ lastSaved = [n \in Name |-> None]
  /\ entry = [n \in Name |-> "none"]

\* A client acts on a scene that is open, active or pending, in a process with a project.
Running == phase = "running" /\ project # None
Uses(s) == Running /\ s \in Opened

(***************************************************************************)
(* Entities.                                                               *)
(***************************************************************************)
CreateScene(s, n) ==
  /\ Running
  /\ s \notin Opened
  /\ scene' = [scene EXCEPT ![s] = [name |-> n, used |-> {}, plain |-> {}, mesh |-> {},
                                   count |-> 0, active |-> TRUE, exact |-> TRUE]]
  /\ UNCHANGED <<assets, project, phase, disk, ghost>>

\* Nothing happens with a scene that is pending.
CloseScene(s) ==
  /\ Uses(s) /\ scene[s].active
  /\ scene' = [scene EXCEPT ![s] = None]
  /\ UNCHANGED <<assets, project, phase, disk, ghost>>

CreateEntity(s, e) ==
  /\ Uses(s)
  /\ e \notin scene[s].used
  /\ scene' = [scene EXCEPT ![s].used = @ \cup {e}, ![s].count = (@ + 1) % CountRange]
  /\ UNCHANGED <<assets, project, phase, disk, ghost>>

\* Mutants: the count is not decremented; it is decremented without a width.
CountKept(count, wrapped) == count
CountBelow(count, wrapped) == IF wrapped THEN count ELSE count - 1

\* registry.destroy returns the next version of the slot, which the code takes for
\* success: zero, when the version wraps around, is counted as a failure.
CountDown(count, wrapped) ==
  IF wrapped THEN count ELSE (count + CountRange - 1) % CountRange

\* The components of the entity go with it.
DestroyEntity(s, e, wrapped) ==
  /\ Uses(s)
  /\ e \in scene[s].used
  /\ scene' = [scene EXCEPT
       ![s].used = @ \ {e},
       ![s].plain = @ \ {e},
       ![s].mesh = {c \in @ : c[1] # e},
       ![s].count = CountDown(@, wrapped),
       ![s].exact = @ /\ ~wrapped]
  /\ UNCHANGED <<assets, project, phase, disk, ghost>>

\* AddComponent of a transform, a camera or entity data.
AddPlain(s, e) ==
  /\ Uses(s)
  /\ e \in scene[s].used \ scene[s].plain
  /\ scene' = [scene EXCEPT ![s].plain = @ \cup {e}]
  /\ UNCHANGED <<assets, project, phase, disk, ghost>>

\* AddComponent<MeshComponent> with the handle that LoadAsset returned, when the
\* model is loaded.
AddMesh(s, e, m) ==
  /\ Uses(s)
  /\ e \in scene[s].used /\ \A c \in scene[s].mesh : c[1] # e
  /\ scene' = [scene EXCEPT ![s].mesh = @ \cup {<<e, m, "Model">>}]
  /\ models' = models \cup {m}
  /\ UNCHANGED <<coming, project, phase, disk, ghost>>

RemoveComponents(s, e) ==
  /\ Uses(s)
  /\ e \in scene[s].used
  /\ scene' = [scene EXCEPT ![s].plain = @ \ {e}, ![s].mesh = {c \in @ : c[1] # e}]
  /\ UNCHANGED <<assets, project, phase, disk, ghost>>

(***************************************************************************)
(* Saving and loading a scene.                                             *)
(***************************************************************************)

\* Mutant: the assets that the systems require are not written.
SavesNoAssets(sc) ==
  [name |-> sc.name, plain |-> sc.plain, mesh |-> {<<c[1], c[2]>> : c \in sc.mesh},
   assets |-> {}]

\* SaveBinary.  Entities without components are not in the archive.
SaveBinary(sc) ==
  [name   |-> sc.name,
   plain  |-> sc.plain,
   mesh   |-> {<<c[1], c[2]>> : c \in sc.mesh},
   assets |-> {<<c[2], c[3]>> : c \in sc.mesh}]

\* SaveBinary dereferences the asset of every handle.
Typed(s) == \A c \in scene[s].mesh : c[3] = "Model"

\* Mutant: the table is left as it is.
Unlisted(n, p) == project

\* m_SerializedScenes.emplace: a name that is in the table keeps its path.
Emplaced(n, p) ==
  IF project.scenes[n] = None THEN [project EXCEPT !.scenes[n] = p] ELSE project

\* Mutant: another path than the one that was written is registered.
SomeHome(n) == CHOOSE p \in Path : p # HomeOf[n]

\* The path that SaveScene registers.
SavedAt(n) == HomeOf[n]

\* GetAsset finds the models of a scene; what it does not find is null, which
\* SaveBinary and FindMeshAsset dereference.
ModelsFound(s) == \A c \in scene[s].mesh : c[2] \in models

\* A name is put into the table, where it may be in the project file already.
Lists(n) == [entry EXCEPT ![n] = IF @ \in {"saved", "removed"} THEN "saved" ELSE "unsaved"]

\* SaveScene, of a scene that may be pending.  A stream that cannot be opened is not
\* noticed.
SaveScene(s, opens) ==
  LET n == scene[s].name
      data == SaveBinary(scene[s])
  IN  /\ Uses(s)
      /\ "typed" \in Rules => Typed(s)
      /\ "waited" \in Rules => scene[s].active
      /\ "written" \in Rules => opens
      /\ IF ModelsFound(s)
         THEN /\ files' = IF opens THEN [files EXCEPT ![HomeOf[n]] = data] ELSE files
              /\ project' = Emplaced(n, SavedAt(n))
              /\ lastSaved' = [lastSaved EXCEPT ![n] = data]
              /\ entry' = Lists(n)
              /\ UNCHANGED phase
         ELSE phase' = "crashed" /\ UNCHANGED <<files, project, ghost>>
      /\ UNCHANGED <<scene, assets, projectFile>>

\* Every system creates the entities it does not find.
UsedBy(data) == data.plain \cup {c[1] : c \in data.mesh}

\* The requests of LoadBinary for a model: the first one of a type that can be loaded
\* decides what the handle finds.
Requested(data) == {m \in Model : <<m, "Model">> \in data.assets}
Certain(data)   == {m \in Requested(data) : \A t \in Type : <<m, t>> \in data.assets => t = "Model"}

\* The type of a handle that was read is what was in its memory before.
ReadAs(data, types) == {<<c[1], c[2], types[c[1]]>> : c \in data.mesh}

\* LoadSceneFromPath: null for a path without a file; an exception for a torn one.
\* The entities that are read are not counted.
LoadSceneFromPath(s, p, types, found) ==
  LET data == files[p]
  IN  /\ Running
      /\ s \notin Opened
      /\ data # None
      /\ "intact" \in Rules => data # Torn
      /\ IF data = Torn
         THEN phase' = "crashed" /\ UNCHANGED <<scene, coming, project, entry>>
         ELSE /\ "home" \in Rules => p = HomeOf[data.name]
              /\ found \subseteq Requested(data) /\ Certain(data) \subseteq found
              /\ coming' = coming \cup (found \ models)
              /\ scene' = [scene EXCEPT ![s] =
                   [name |-> data.name, used |-> UsedBy(data), plain |-> data.plain,
                    mesh |-> ReadAs(data, types), count |-> 0, active |-> FALSE,
                    exact |-> UsedBy(data) = {}]]
              /\ project' = Emplaced(data.name, p)
              /\ entry' = Lists(data.name)
              /\ UNCHANGED phase
      /\ UNCHANGED <<models, disk, lastSaved>>

\* LoadSceneFromName: null for a name that is not in the table.
LoadSceneFromName(s, n, types, found) ==
  /\ Running
  /\ project.scenes[n] # None
  /\ LoadSceneFromPath(s, project.scenes[n], types, found)

\* The assets that were asked for are loaded, over some frames.
AssetsCome ==
  /\ phase = "running" /\ coming # {}
  /\ models' = models \cup coming
  /\ coming' = {}
  /\ UNCHANGED <<scene, project, phase, disk, ghost>>

\* PendingScenes, when nothing is loading: FindMeshAsset takes what it finds for a
\* model.
PendingScene(s) ==
  /\ Uses(s) /\ ~scene[s].active
  /\ coming = {}
  /\ IF ModelsFound(s)
     THEN scene' = [scene EXCEPT ![s].active = TRUE] /\ UNCHANGED phase
     ELSE phase' = "crashed" /\ UNCHANGED scene
  /\ UNCHANGED <<assets, project, disk, ghost>>

(***************************************************************************)
(* The table of scenes and its file.                                       *)
(***************************************************************************)

\* Clients add and update the paths of files that are there.
Known(n, p) ==
  /\ files[p] \notin {None, Torn} /\ files[p].name = n
  /\ "home" \in Rules => p = HomeOf[n]

AddScene(n, p) ==
  /\ Running
  /\ project.scenes[n] = None /\ Known(n, p)
  /\ project' = [project EXCEPT !.scenes[n] = p]
  /\ entry' = Lists(n)
  /\ UNCHANGED <<scene, assets, phase, disk, lastSaved>>

UpdateScene(n, p) ==
  /\ Running
  /\ project.scenes[n] # None /\ Known(n, p)
  /\ project' = [project EXCEPT !.scenes[n] = p]
  /\ UNCHANGED <<scene, assets, phase, disk, ghost>>

RemoveScene(n) ==
  /\ Running
  /\ project.scenes[n] # None
  /\ "default" \in Rules => project.default # n
  /\ project' = [project EXCEPT !.scenes[n] = None]
  /\ entry' = [entry EXCEPT ![n] = IF @ = "saved" THEN "removed" ELSE "none"]
  /\ UNCHANGED <<scene, assets, phase, disk, lastSaved>>

\* Mutant: the name is not looked up.
AnyName == Name

\* SetDefaultScene looks the name up in the table.
Registered == {n \in Name : project.scenes[n] # None}

SetDefaultScene(n) ==
  /\ Running
  /\ n \in Registered
  /\ project' = [project EXCEPT !.default = n]
  /\ UNCHANGED <<scene, assets, phase, disk, ghost>>

SaveProject ==
  /\ Running
  /\ projectFile' = project
  /\ entry' = [n \in Name |-> CASE entry[n] = "unsaved" -> "saved"
                               [] entry[n] = "removed" -> "none"
                               [] OTHER -> entry[n]]
  /\ UNCHANGED <<scene, assets, project, phase, files, lastSaved>>

EmptyProject == [scenes |-> [n \in Name |-> None], default |-> None]

\* Every name of the project is gone with its file.
Dropped == [n \in Name |-> CASE entry[n] \in {"unsaved", "saved"} -> "lost"
                           [] entry[n] = "removed" -> "none"
                           [] OTHER -> entry[n]]

\* CreateProject saves an empty table, over the one that is there.
CreateProject ==
  /\ phase = "running" /\ project = None
  /\ project' = EmptyProject
  /\ projectFile' = EmptyProject
  /\ entry' = Dropped
  /\ UNCHANGED <<scene, assets, phase, files, lastSaved>>

\* LoadProject parses what it reads; nothing, or half a file, is an exception.
LoadProject ==
  /\ phase = "running" /\ project = None
  /\ "there" \in Rules => projectFile # None
  /\ "intact" \in Rules => projectFile # Torn
  /\ IF projectFile \in {None, Torn}
     THEN phase' = "crashed" /\ UNCHANGED project
     ELSE project' = projectFile /\ UNCHANGED phase
  /\ UNCHANGED <<scene, assets, disk, ghost>>

(***************************************************************************)
(* Outside of the process: somebody copies the file of a scene, and the    *)
(* process ends or dies; the files are what the next one starts with.      *)
(***************************************************************************)
Homes == {HomeOf[n] : n \in Name}

CopyFile(p, q) ==
  /\ files[p] # None /\ q \notin Homes
  /\ files' = [files EXCEPT ![q] = files[p]]
  /\ UNCHANGED <<scene, assets, project, phase, projectFile, ghost>>

Restarts ==
  /\ scene' = NoScenes
  /\ models' = {}
  /\ coming' = {}
  /\ project' = None
  /\ phase' = "running"

\* What was put into the table or taken out of it after the last SaveProject is undone.
Undone == [n \in Name |-> CASE entry[n] = "unsaved" -> "lost"
                          [] entry[n] = "removed" -> "saved"
                          [] OTHER -> entry[n]]

\* A process ends between two operations: Shutdown saves nothing.  A process that
\* crashed is started again.
ProcessEnds ==
  /\ Running \/ phase = "crashed"
  /\ Restarts
  /\ entry' = Undone
  /\ UNCHANGED <<disk, lastSaved>>

\* The process dies in SaveStringToPath, which truncates the file and then writes it.
DiesSavingScene(s) ==
  LET n == scene[s].name
  IN  /\ Uses(s) /\ ModelsFound(s)
      /\ "waited" \in Rules => scene[s].active
      /\ files' = [files EXCEPT ![HomeOf[n]] = Torn]
      /\ lastSaved' = [lastSaved EXCEPT ![n] = Torn]
      /\ Restarts
      /\ entry' = Undone
      /\ UNCHANGED projectFile

DiesSavingProject ==
  /\ Running
  /\ projectFile' = Torn
  /\ Restarts
  /\ entry' = Dropped
  /\ UNCHANGED <<files, lastSaved>>

Entities ==
  \E s \in Scene :
    \/ \E n \in Name : CreateScene(s, n)
    \/ CloseScene(s)
    \/ \E e \in Entity :
         \/ CreateEntity(s, e)
         \/ \E wrapped \in BOOLEAN : DestroyEntity(s, e, wrapped)
         \/ AddPlain(s, e) \/ RemoveComponents(s, e)
         \/ \E m \in Model : AddMesh(s, e, m)

SceneIO ==
  \/ \E s \in Scene :
       \/ \E opens \in BOOLEAN : SaveScene(s, opens)
       \/ \E types \in [Entity -> Type], found \in SUBSET Model :
            \/ \E p \in Path : LoadSceneFromPath(s, p, types, found)
            \/ \E n \in Name : LoadSceneFromName(s, n, types, found)
       \/ PendingScene(s)
  \/ AssetsCome

ProjectIO ==
  \/ \E n \in Name :
       \/ \E p \in Path : AddScene(n, p) \/ UpdateScene(n, p)
       \/ RemoveScene(n) \/ SetDefaultScene(n)
  \/ SaveProject \/ CreateProject \/ LoadProject

Outside ==
  \/ \E p, q \in Path : CopyFile(p, q)
  \/ ProcessEnds
  \/ DiesSavingProject
  \/ \E s \in Scene : DiesSavingScene(s)

Next == Entities \/ SceneIO \/ ProjectIO \/ Outside

Spec == Init /\ [][Next]_vars
-----------------------------------------------------------------------------
(***************************************************************************)
(* Properties.                                                             *)
(***************************************************************************)

\* For clients that keep the rules, what was saved can be loaded: no file throws, and
\* FindMeshAsset finds the models of a loaded scene.
NoCrash == phase # "crashed"

\* LoadSceneFromName gives what was last saved under the name.
NamesFindLastSave ==
  project # None => \A n \in Registered : files[project.scenes[n]] = lastSaved[n]

\* The names that a process which loads the project file finds.
InFile == {n \in Name : projectFile \notin {None, Torn} /\ projectFile.scenes[n] # None}

\* What was saved, loaded or added is found by its name, until it is removed, by this
\* process and, from the next SaveProject on, by every later one.  Nothing else is,
\* and the rest is lost only by a process that ends or dies before SaveProject or in
\* it, or by a CreateProject; the file of a scene is there even then.
ListedAreFound ==
  \A n \in Name :
    /\ project # None => (n \in Registered <=> entry[n] \in {"unsaved", "saved"})
    /\ project = None => entry[n] \notin {"unsaved", "removed"}
    /\ n \in InFile <=> entry[n] \in {"saved", "removed"}
    /\ entry[n] # "none" => files[HomeOf[n]] # None

\* The default scene is one that the project has, in memory and in the file.
DefaultIsRegistered ==
  \A t \in {project, projectFile} \ {None, Torn} :
    t.default # None => t.scenes[t.default] # None

\* NumEntities counts the entities of a scene, unless it was loaded with entities or
\* the version of a slot wrapped around.
CountIsExact ==
  \A s \in Opened : scene[s].exact => scene[s].count = Cardinality(scene[s].used) % CountRange

\* An archive that gives every model the type of a model, and asks for it.
Sound(data) ==
  /\ \A c \in data.mesh : <<c[2], "Model">> \in data.assets
  /\ \A a \in data.assets : a[2] = "Model"

\* Every archive that was written, and every scene of a table.
SoundFiles   == \A p \in Path : files[p] \notin {None, Torn} => Sound(files[p])
SavedAtHome  == \A n \in Name : files[HomeOf[n]] = lastSaved[n]
AtHome(t)    == \A n \in Name : t.scenes[n] \in {None, HomeOf[n]}
TablesAtHome == \A t \in {project, projectFile} \ {None, Torn} : AtHome(t)

\* An active scene has its models, and what a pending scene asked for has come or comes.
PendingFound ==
  \A s \in Opened : \A c \in scene[s].mesh :
    c[2] \in models \/ (~scene[s].active /\ c[2] \in coming)

\* The inductive invariant behind these, under all rules.
SceneFilesInv ==
  /\ TypeOK
  /\ NoCrash
  /\ ListedAreFound
  /\ DefaultIsRegistered
  /\ SoundFiles
  /\ SavedAtHome
  /\ TablesAtHome
  /\ PendingFound
=============================================================================
