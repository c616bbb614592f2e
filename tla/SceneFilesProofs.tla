-------------------------- MODULE SceneFilesProofs --------------------------
(***************************************************************************)
(* What holds of scene files and projects for any number of scenes, names, *)
(* files, entities and models, and any way the process ends or dies.       *)
(***************************************************************************)
EXTENDS SceneFiles, Integers, TLAPS, FiniteSetTheorems

(***************************************************************************)
(* Types.                                                                  *)
(***************************************************************************)

\* p_EntityCount stays in its width.
LEMMA CountRanges ==
  ASSUME NEW count \in 0..CountRange - 1, NEW wrapped \in BOOLEAN
  PROVE  /\ (count + 1) % CountRange \in 0..CountRange - 1
         /\ CountDown(count, wrapped) \in 0..CountRange - 1
<1>1. CountRange \in Nat \ {0}
  BY SceneFilesAssumption
<1>2. ASSUME NEW x \in Nat PROVE x % CountRange \in 0..CountRange - 1
  BY <1>1, <1>2
<1>3. count + 1 \in Nat /\ count + CountRange - 1 \in Nat
  BY <1>1
<1> QED BY <1>2, <1>3 DEF CountDown

\* What is written of a scene is an archive.
LEMMA SavesArchives ==
  ASSUME NEW sc \in SceneState
  PROVE  SaveBinary(sc) \in Archive
BY DEF SceneState, Archive, SaveBinary

\* An archive that is read, whatever its handles get for a type, is a scene.
LEMMA ArchivesAreScenes ==
  ASSUME NEW data \in Archive, NEW types \in [Entity -> Type]
  PROVE  [name |-> data.name, used |-> UsedBy(data), plain |-> data.plain,
          mesh |-> ReadAs(data, types), count |-> 0, active |-> FALSE,
          exact |-> UsedBy(data) = {}] \in SceneState
<1>1. UsedBy(data) \subseteq Entity
  BY DEF Archive, UsedBy
<1>2. ReadAs(data, types) \subseteq Entity \X Model \X Type
  BY DEF Archive, ReadAs
<1>3. 0 \in 0..CountRange - 1
  BY SceneFilesAssumption
<1> QED BY <1>1, <1>2, <1>3 DEF SceneState, Archive

\* What an operation on the entities of a scene makes of it: it has no model it did not
\* have, but for one that is loaded.
MadeOf(s, r) ==
  \/ r.mesh = {}
  \/ /\ s \in Opened /\ r.active = scene[s].active
     /\ \A c \in r.mesh : c \in scene[s].mesh \/ c[2] \in models'

\* Every operation on entities leaves a scene, and what it does to the rest.
LEMMA EntitiesStep ==
  ASSUME TypeOK, Entities
  PROVE  /\ scene' \in [Scene -> SceneState \cup {None}]
         /\ models \subseteq models' /\ models' \subseteq Model
         /\ \A s \in Scene : scene'[s] # None => MadeOf(s, scene'[s]) \/ scene'[s] = scene[s]
         /\ UNCHANGED <<coming, project, phase, disk, ghost>>
<1> USE DEF TypeOK, Uses, Running, Opened
<1>1. PICK s \in Scene :
        \/ \E n \in Name : CreateScene(s, n)
        \/ CloseScene(s)
        \/ \E e \in Entity :
             \/ CreateEntity(s, e)
             \/ \E wrapped \in BOOLEAN : DestroyEntity(s, e, wrapped)
             \/ AddPlain(s, e) \/ RemoveComponents(s, e)
             \/ \E m \in Model : AddMesh(s, e, m)
  BY DEF Entities
<1>2. SUFFICES /\ \E r \in SceneState \cup {None} :
                    /\ scene' = [scene EXCEPT ![s] = r]
                    /\ r # None => MadeOf(s, r)
               /\ models \subseteq models' /\ models' \subseteq Model
               /\ UNCHANGED <<coming, project, phase, disk, ghost>>
  <2>1. PICK r \in SceneState \cup {None} : scene' = [scene EXCEPT ![s] = r] /\ (r # None => MadeOf(s, r))
    BY <1>2
  <2>2. scene' \in [Scene -> SceneState \cup {None}] /\ scene'[s] = r
    BY <2>1
  <2>3. \A q \in Scene : q # s => scene'[q] = scene[q]
    BY <2>1
  <2>4. \A q \in Scene : scene'[q] # None => MadeOf(q, scene'[q]) \/ scene'[q] = scene[q]
    <3>. HIDE DEF Opened
    <3>. QED BY <2>1, <2>2, <2>3
  <2>. QED BY <1>2, <2>2, <2>4
<1>3. ASSUME NEW n \in Name, CreateScene(s, n) PROVE
        /\ \E r \in SceneState \cup {None} :
             /\ scene' = [scene EXCEPT ![s] = r]
             /\ r # None => MadeOf(s, r)
        /\ models \subseteq models' /\ models' \subseteq Model
        /\ UNCHANGED <<coming, project, phase, disk, ghost>>
  <2>. DEFINE r == [name |-> n, used |-> {}, plain |-> {}, mesh |-> {}, count |-> 0,
                   active |-> TRUE, exact |-> TRUE]
  <2>1. 0 \in 0..CountRange - 1
    BY SceneFilesAssumption
  <2>2. r \in SceneState /\ r.mesh = {}
    BY <2>1 DEF SceneState
  <2>3. scene' = [scene EXCEPT ![s] = r]
    BY <1>3 DEF CreateScene
  <2>4. /\ models \subseteq models' /\ models' \subseteq Model
        /\ UNCHANGED <<coming, project, phase, disk, ghost>>
    BY <1>3 DEF CreateScene, assets
  <2>. HIDE DEF r
  <2>. QED BY <2>2, <2>3, <2>4 DEF MadeOf
<1>4. CASE CloseScene(s)
  <2>1. \E r \in SceneState \cup {None} :
          scene' = [scene EXCEPT ![s] = r] /\ (r # None => MadeOf(s, r))
    <3>. WITNESS None \in SceneState \cup {None}
    <3>. QED BY <1>4 DEF CloseScene
  <2>2. /\ models \subseteq models' /\ models' \subseteq Model
        /\ UNCHANGED <<coming, project, phase, disk, ghost>>
    BY <1>4 DEF CloseScene, assets
  <2>. QED BY <2>1, <2>2
<1>5. ASSUME Uses(s) PROVE scene[s] \in SceneState
  BY <1>5
<1>6. ASSUME NEW e \in Entity, CreateEntity(s, e) PROVE
        \E r \in SceneState : scene' = [scene EXCEPT ![s] = r] /\ MadeOf(s, r)
  <2>. DEFINE r == [scene[s] EXCEPT !.used = @ \cup {e}, !.count = (@ + 1) % CountRange]
  <2>1. Uses(s)
    BY <1>6 DEF CreateEntity
  <2>2. scene[s] \in SceneState /\ scene[s].count \in 0..CountRange - 1
    BY <1>5, <2>1 DEF SceneState
  <2>3. (scene[s].count + 1) % CountRange \in 0..CountRange - 1
    BY <2>2, CountRanges
  <2>4. r \in SceneState /\ r.active = scene[s].active /\ r.mesh = scene[s].mesh
    BY <2>2, <2>3 DEF SceneState
  <2>5. scene' = [scene EXCEPT ![s] = r]
    BY <1>6 DEF CreateEntity
  <2>. HIDE DEF r
  <2>. QED BY <2>1, <2>4, <2>5 DEF MadeOf
<1>7. ASSUME NEW e \in Entity, NEW wrapped \in BOOLEAN, DestroyEntity(s, e, wrapped) PROVE
        \E r \in SceneState : scene' = [scene EXCEPT ![s] = r] /\ MadeOf(s, r)
  <2>. DEFINE r == [scene[s] EXCEPT !.used = @ \ {e}, !.plain = @ \ {e},
                     !.mesh = {c \in @ : c[1] # e}, !.count = CountDown(@, wrapped),
                     !.exact = @ /\ ~wrapped]
  <2>1. Uses(s)
    BY <1>7 DEF DestroyEntity
  <2>2. scene[s] \in SceneState /\ scene[s].count \in 0..CountRange - 1
    BY <1>5, <2>1 DEF SceneState
  <2>3. CountDown(scene[s].count, wrapped) \in 0..CountRange - 1
    BY <2>2, CountRanges
  <2>4. r \in SceneState /\ r.active = scene[s].active /\ r.mesh \subseteq scene[s].mesh
    BY <2>2, <2>3 DEF SceneState
  <2>5. scene' = [scene EXCEPT ![s] = r]
    BY <1>7 DEF DestroyEntity
  <2>. HIDE DEF r
  <2>. QED BY <2>1, <2>4, <2>5 DEF MadeOf
<1>8. ASSUME NEW e \in Entity, AddPlain(s, e) PROVE
        \E r \in SceneState : scene' = [scene EXCEPT ![s] = r] /\ MadeOf(s, r)
  <2>. DEFINE r == [scene[s] EXCEPT !.plain = @ \cup {e}]
  <2>1. Uses(s)
    BY <1>8 DEF AddPlain
  <2>2. r \in SceneState /\ r.active = scene[s].active /\ r.mesh = scene[s].mesh
    BY <1>5, <2>1 DEF SceneState
  <2>3. scene' = [scene EXCEPT ![s] = r]
    BY <1>8 DEF AddPlain
  <2>. HIDE DEF r
  <2>. QED BY <2>1, <2>2, <2>3 DEF MadeOf
<1>9. ASSUME NEW e \in Entity, RemoveComponents(s, e) PROVE
        \E r \in SceneState : scene' = [scene EXCEPT ![s] = r] /\ MadeOf(s, r)
  <2>. DEFINE r == [scene[s] EXCEPT !.plain = @ \ {e}, !.mesh = {c \in @ : c[1] # e}]
  <2>1. Uses(s)
    BY <1>9 DEF RemoveComponents
  <2>2. r \in SceneState /\ r.active = scene[s].active /\ r.mesh \subseteq scene[s].mesh
    BY <1>5, <2>1 DEF SceneState
  <2>3. scene' = [scene EXCEPT ![s] = r]
    BY <1>9 DEF RemoveComponents
  <2>. HIDE DEF r
  <2>. QED BY <2>1, <2>2, <2>3 DEF MadeOf
<1>10. ASSUME NEW e \in Entity, NEW m \in Model, AddMesh(s, e, m) PROVE
        \E r \in SceneState : scene' = [scene EXCEPT ![s] = r] /\ MadeOf(s, r)
  <2>. DEFINE added == <<e, m, "Model">>
              r == [scene[s] EXCEPT !.mesh = @ \cup {added}]
  <2>1. added \in Entity \X Model \X Type /\ added[2] = m
    BY SceneFilesAssumption
  <2>2. Uses(s) /\ m \in models'
    BY <1>10 DEF AddMesh
  <2>3. scene' = [scene EXCEPT ![s] = r]
    BY <1>10 DEF AddMesh
  <2>. HIDE DEF added
  <2>4. r \in SceneState /\ r.active = scene[s].active /\ r.mesh = scene[s].mesh \cup {added}
    BY <1>5, <2>1, <2>2 DEF SceneState
  <2>. HIDE DEF r
  <2>. QED BY <2>1, <2>2, <2>3, <2>4 DEF MadeOf
<1>11. ASSUME NEW e \in Entity,
              \/ CreateEntity(s, e) \/ \E wrapped \in BOOLEAN : DestroyEntity(s, e, wrapped)
              \/ AddPlain(s, e) \/ RemoveComponents(s, e) \/ \E m \in Model : AddMesh(s, e, m)
       PROVE  /\ models \subseteq models' /\ models' \subseteq Model
              /\ UNCHANGED <<coming, project, phase, disk, ghost>>
  BY <1>11 DEF CreateEntity, DestroyEntity, AddPlain, RemoveComponents, AddMesh, assets
<1>. QED BY <1>1, <1>2, <1>3, <1>4, <1>6, <1>7, <1>8, <1>9, <1>10, <1>11

(***************************************************************************)
(* The inductive invariant, one group of operations at a time.             *)
(***************************************************************************)

\* The parts of the invariant that are about files and tables.
Filed == NoCrash /\ ListedAreFound /\ DefaultIsRegistered /\ SoundFiles /\ SavedAtHome /\ TablesAtHome

LEMMA FiledStays ==
  ASSUME Filed, UNCHANGED <<project, phase, disk, ghost>>
  PROVE  Filed'
BY DEF Filed, NoCrash, ListedAreFound, Registered, InFile, DefaultIsRegistered, SoundFiles,
   SavedAtHome, TablesAtHome, disk, ghost

\* Operations on entities change neither files nor tables, and a scene, active or
\* pending, gets only a model that is loaded.
LEMMA EntitiesKeep ==
  ASSUME SceneFilesInv, Entities
  PROVE  SceneFilesInv'
<1>1. TypeOK /\ Filed /\ PendingFound
  BY DEF SceneFilesInv, Filed
<1>2. /\ scene' \in [Scene -> SceneState \cup {None}]
      /\ models \subseteq models' /\ models' \subseteq Model
      /\ \A s \in Scene : scene'[s] # None => MadeOf(s, scene'[s]) \/ scene'[s] = scene[s]
      /\ UNCHANGED <<coming, project, phase, disk, ghost>>
  BY <1>1, EntitiesStep
<1>3. TypeOK'
  BY <1>1, <1>2 DEF TypeOK, disk, ghost
<1>4. PendingFound'
  BY <1>1, <1>2 DEF PendingFound, Opened, MadeOf
<1>5. Filed'
  BY <1>1, <1>2, FiledStays
<1>. QED BY <1>3, <1>4, <1>5 DEF SceneFilesInv, Filed

\* emplace puts a name into the table if it is not there, and changes nothing else.
LEMMA EmplacedKeeps ==
  ASSUME project \in Project, NEW n \in Name, NEW p \in Path
  PROVE  LET t == Emplaced(n, p)
         IN  /\ t \in Project
             /\ t.default = project.default
             /\ t.scenes[n] # None
             /\ \A m \in Name : t.scenes[m] = project.scenes[m] \/ (m = n /\ t.scenes[m] = p)
             /\ \A m \in Name : project.scenes[m] # None => t.scenes[m] # None
<1>1. p # None
  BY PointersAssumption
<1>2. project.scenes \in [Name -> Path \cup {None}]
  BY DEF Project, Table
<1>3. CASE project.scenes[n] = None
  <2>. DEFINE t == [project EXCEPT !.scenes[n] = p]
  <2>1. Emplaced(n, p) = t
    BY <1>3 DEF Emplaced
  <2>2. t \in Project /\ t.default = project.default /\ t.scenes = [project.scenes EXCEPT ![n] = p]
    BY <1>2 DEF Project, Table
  <2>. HIDE DEF t
  <2>. QED BY <1>1, <1>2, <1>3, <2>1, <2>2
<1>4. CASE project.scenes[n] # None
  BY <1>4 DEF Emplaced
<1>. QED BY <1>3, <1>4

\* The default scene of the table in memory.
LEMMA DefaultFound ==
  ASSUME SceneFilesInv, project \in Project
  PROVE  /\ project.default \in Name \cup {None}
         /\ project.default # None => project.scenes[project.default] # None
BY PointersAssumption DEF SceneFilesInv, DefaultIsRegistered, Project

\* What it takes for the parts of the invariant about tables, when a table at home
\* takes the place of the one in memory.
LEMMA TableStep ==
  ASSUME SceneFilesInv, project # None, project' \in Project, UNCHANGED projectFile,
         project'.default # None => project'.scenes[project'.default] # None,
         \A m \in Name : project'.scenes[m] \in {project.scenes[m], None, HomeOf[m]},
         \A m \in Name : project'.scenes[m] # None <=> entry'[m] \in {"unsaved", "saved"},
         \A m \in Name : entry'[m] \in {"saved", "removed"} <=> entry[m] \in {"saved", "removed"},
         \A m \in Name : entry'[m] # "none" => files'[HomeOf[m]] # None
  PROVE  ListedAreFound' /\ DefaultIsRegistered' /\ TablesAtHome'
<1>1. project' # None
  BY PointersAssumption
<1>2. \A m \in Name : project.scenes[m] \in {None, HomeOf[m]}
  BY PointersAssumption DEF SceneFilesInv, TablesAtHome, AtHome, TypeOK
<1>3. \A m \in Name : m \in InFile' <=> entry'[m] \in {"saved", "removed"}
  <2>1. InFile' = InFile
    BY DEF InFile
  <2>. QED BY <2>1 DEF SceneFilesInv, ListedAreFound
<1>4. \A m \in Name : m \in Registered' <=> project'.scenes[m] # None
  BY DEF Registered
<1>5. ListedAreFound'
  BY <1>1, <1>3, <1>4 DEF ListedAreFound
<1>6. DefaultIsRegistered'
  BY DEF SceneFilesInv, DefaultIsRegistered
<1>7. AtHome(project')
  BY <1>2 DEF AtHome
<1>8. TablesAtHome'
  BY <1>7 DEF SceneFilesInv, TablesAtHome, AtHome
<1>. QED BY <1>5, <1>6, <1>8

\* In a process with a project, the names of the table are those with an entry there.
LEMMA TableNow ==
  ASSUME SceneFilesInv, project \in Project
  PROVE  /\ project # None /\ project # Torn
         /\ entry \in [Name -> Entries]
         /\ \A m \in Name : project.scenes[m] # None <=> entry[m] \in {"unsaved", "saved"}
         /\ \A m \in Name : m \in InFile <=> entry[m] \in {"saved", "removed"}
         /\ \A m \in Name : entry[m] # "none" => files[HomeOf[m]] # None
<1>1. project # None /\ project # Torn
  BY PointersAssumption
<1>2. \A m \in Name : m \in Registered <=> project.scenes[m] # None
  BY DEF Registered
<1>. QED BY <1>1, <1>2 DEF SceneFilesInv, TypeOK, ListedAreFound

\* A name that gets an entry, for a file that is there.
LEMMA ListsStep ==
  ASSUME SceneFilesInv, project \in Project, NEW n \in Name, entry' = Lists(n),
         \A m \in Name : project'.scenes[m] # None <=> m = n \/ project.scenes[m] # None,
         files'[HomeOf[n]] # None,
         \A m \in Name : files[HomeOf[m]] # None => files'[HomeOf[m]] # None
  PROVE  /\ entry' \in [Name -> Entries]
         /\ \A m \in Name : project'.scenes[m] # None <=> entry'[m] \in {"unsaved", "saved"}
         /\ \A m \in Name : entry'[m] \in {"saved", "removed"} <=> entry[m] \in {"saved", "removed"}
         /\ \A m \in Name : entry'[m] # "none" => files'[HomeOf[m]] # None
<1>1. /\ entry \in [Name -> Entries]
      /\ \A m \in Name : project.scenes[m] # None <=> entry[m] \in {"unsaved", "saved"}
      /\ \A m \in Name : entry[m] # "none" => files[HomeOf[m]] # None
  BY TableNow
<1>2. /\ entry' \in [Name -> Entries]
      /\ entry'[n] = IF entry[n] \in {"saved", "removed"} THEN "saved" ELSE "unsaved"
      /\ \A m \in Name : m # n => entry'[m] = entry[m]
  BY <1>1 DEF Lists, Entries
<1>. QED BY <1>1, <1>2

\* Saving a scene: the archive is sound, goes to the home of the name and becomes the
\* last one of that name only, and the table gets that home.
LEMMA SaveSceneKeeps ==
  ASSUME Rules = AllRules, SceneFilesInv, NEW s \in Scene, NEW opens \in BOOLEAN,
         SaveScene(s, opens)
  PROVE  SceneFilesInv'
<1>. DEFINE n == scene[s].name
            data == SaveBinary(scene[s])
<1>1. TypeOK /\ project \in Project /\ s \in Opened /\ scene[s] \in SceneState
  BY DEF SceneFilesInv, TypeOK, SaveScene, Uses, Running, Opened
<1>2. n \in Name /\ HomeOf[n] \in Path
  BY <1>1, SceneFilesAssumption DEF SceneState
<1>3. data \in Archive
  BY <1>1, SavesArchives
<1>4. Typed(s) /\ opens = TRUE /\ scene[s].active
  BY DEF SaveScene, AllRules
<1>5. ModelsFound(s)
  BY <1>1, <1>4 DEF SceneFilesInv, PendingFound, ModelsFound
<1>6. Sound(data)
  <2>1. \A c \in scene[s].mesh : c[3] = "Model"
    BY <1>4 DEF Typed
  <2>2. data.mesh = {<<c[1], c[2]>> : c \in scene[s].mesh} /\ data.assets = {<<c[2], c[3]>> : c \in scene[s].mesh}
    BY DEF SaveBinary
  <2>3. \A d \in data.mesh : <<d[2], "Model">> \in data.assets
    BY <2>1, <2>2
  <2>4. \A a \in data.assets : a[2] = "Model"
    BY <2>1, <2>2
  <2>. QED BY <2>3, <2>4 DEF Sound
<1>7. /\ files' = [files EXCEPT ![HomeOf[n]] = data]
      /\ lastSaved' = [lastSaved EXCEPT ![n] = data]
      /\ project' = Emplaced(n, HomeOf[n])
      /\ entry' = Lists(n)
      /\ UNCHANGED <<scene, models, coming, phase, projectFile>>
  BY <1>4, <1>5 DEF SaveScene, SavedAt, assets
<1>. HIDE DEF data, n
<1>8. /\ project' \in Project /\ project'.default = project.default /\ project'.scenes[n] # None
      /\ \A m \in Name : project'.scenes[m] = project.scenes[m] \/ (m = n /\ project'.scenes[m] = HomeOf[n])
      /\ \A m \in Name : project.scenes[m] # None => project'.scenes[m] # None
  BY <1>1, <1>2, <1>7, EmplacedKeeps
<1>9. /\ files'[HomeOf[n]] # None
      /\ \A m \in Name : files[HomeOf[m]] # None => files'[HomeOf[m]] # None
  <2>1. data # None
    BY <1>3, PointersAssumption
  <2>. QED BY <1>1, <1>2, <1>7, <2>1 DEF TypeOK
<1>10. \A m \in Name : project'.scenes[m] # None <=> m = n \/ project.scenes[m] # None
  BY <1>8
<1>11. /\ entry' \in [Name -> Entries]
       /\ \A m \in Name : project'.scenes[m] # None <=> entry'[m] \in {"unsaved", "saved"}
       /\ \A m \in Name : entry'[m] \in {"saved", "removed"} <=> entry[m] \in {"saved", "removed"}
       /\ \A m \in Name : entry'[m] # "none" => files'[HomeOf[m]] # None
  BY <1>1, <1>2, <1>7, <1>9, <1>10, ListsStep
<1>12. ListedAreFound' /\ DefaultIsRegistered' /\ TablesAtHome'
  <2>1. project # None
    BY <1>1, PointersAssumption
  <2>2. project'.default # None => project'.scenes[project'.default] # None
    BY <1>1, <1>8, DefaultFound
  <2>3. \A m \in Name : project'.scenes[m] \in {project.scenes[m], None, HomeOf[m]}
    BY <1>8
  <2>. QED BY <1>7, <1>8, <1>11, <2>1, <2>2, <2>3, TableStep
<1>13. TypeOK'
  BY <1>1, <1>2, <1>3, <1>7, <1>8, <1>11 DEF TypeOK
<1>14. SoundFiles'
  BY <1>1, <1>6, <1>7 DEF SceneFilesInv, SoundFiles, TypeOK
<1>15. SavedAtHome'
  BY <1>1, <1>2, <1>7, SceneFilesAssumption DEF SceneFilesInv, SavedAtHome, TypeOK
<1>16. NoCrash' /\ PendingFound'
  BY <1>7 DEF SceneFilesInv, NoCrash, PendingFound, Opened
<1>. QED BY <1>12, <1>13, <1>14, <1>15, <1>16 DEF SceneFilesInv

\* Loading a scene: the file is there, whole and at home, and the models it asks for
\* are those its components refer to.
LEMMA LoadSceneFromPathKeeps ==
  ASSUME Rules = AllRules, SceneFilesInv, NEW s \in Scene, NEW p \in Path,
         NEW types \in [Entity -> Type], NEW found \in SUBSET Model,
         LoadSceneFromPath(s, p, types, found)
  PROVE  SceneFilesInv'
<1>. DEFINE data == files[p]
            r == [name |-> data.name, used |-> UsedBy(data), plain |-> data.plain,
                  mesh |-> ReadAs(data, types), count |-> 0, active |-> FALSE,
                  exact |-> UsedBy(data) = {}]
<1>1. TypeOK /\ project \in Project
  BY DEF SceneFilesInv, TypeOK, LoadSceneFromPath, Running
<1>2. data # None /\ data # Torn
  BY DEF LoadSceneFromPath, AllRules
<1>3. data \in Archive /\ Sound(data)
  BY <1>1, <1>2 DEF SceneFilesInv, TypeOK, SoundFiles
<1>4. data.name \in Name
  BY <1>3 DEF Archive
<1>5. r \in SceneState /\ r.active = FALSE
  BY <1>3, ArchivesAreScenes
<1>6. /\ p = HomeOf[data.name]
      /\ Certain(data) \subseteq found
      /\ coming' = coming \cup (found \ models)
      /\ scene' = [scene EXCEPT ![s] = r]
      /\ project' = Emplaced(data.name, p)
      /\ entry' = Lists(data.name)
      /\ UNCHANGED <<phase, models, files, projectFile, lastSaved>>
  BY <1>2 DEF LoadSceneFromPath, AllRules, disk
<1>7. \A c \in r.mesh : c[2] \in models \/ c[2] \in coming'
  <2>1. SUFFICES ASSUME NEW c \in ReadAs(data, types) PROVE c[2] \in models \/ c[2] \in coming'
    OBVIOUS
  <2>2. PICK d \in data.mesh : c = <<d[1], d[2], types[d[1]]>>
    BY DEF ReadAs
  <2>3. <<d[2], "Model">> \in data.assets /\ d[2] \in Model
    BY <1>3 DEF Sound, Archive
  <2>4. \A t \in Type : <<d[2], t>> \in data.assets => t = "Model"
    BY <1>3 DEF Sound
  <2>5. d[2] \in Certain(data)
    BY <2>3, <2>4 DEF Certain, Requested
  <2>. QED BY <1>6, <2>2, <2>5
<1>. HIDE DEF r, data
<1>8. /\ project' \in Project /\ project'.default = project.default
      /\ project'.scenes[data.name] # None
      /\ \A m \in Name : \/ project'.scenes[m] = project.scenes[m]
                         \/ m = data.name /\ project'.scenes[m] = p
      /\ \A m \in Name : project.scenes[m] # None => project'.scenes[m] # None
  BY <1>1, <1>4, <1>6, EmplacedKeeps
<1>9. files'[HomeOf[data.name]] # None
  BY <1>2, <1>6 DEF data
<1>10. \A m \in Name : project'.scenes[m] # None <=> m = data.name \/ project.scenes[m] # None
  BY <1>8
<1>11. /\ entry' \in [Name -> Entries]
       /\ \A m \in Name : project'.scenes[m] # None <=> entry'[m] \in {"unsaved", "saved"}
       /\ \A m \in Name : entry'[m] \in {"saved", "removed"} <=> entry[m] \in {"saved", "removed"}
       /\ \A m \in Name : entry'[m] # "none" => files'[HomeOf[m]] # None
  BY <1>1, <1>4, <1>6, <1>9, <1>10, ListsStep
<1>12. ListedAreFound' /\ DefaultIsRegistered' /\ TablesAtHome'
  <2>1. project # None
    BY <1>1, PointersAssumption
  <2>2. project'.default # None => project'.scenes[project'.default] # None
    BY <1>1, <1>8, DefaultFound
  <2>3. \A m \in Name : project'.scenes[m] \in {project.scenes[m], None, HomeOf[m]}
    BY <1>6, <1>8
  <2>. QED BY <1>6, <1>8, <1>11, <2>1, <2>2, <2>3, TableStep
<1>13. TypeOK'
  BY <1>1, <1>4, <1>5, <1>6, <1>8, <1>11 DEF TypeOK
<1>14. PendingFound'
  BY <1>1, <1>5, <1>6, <1>7, PointersAssumption DEF SceneFilesInv, PendingFound, Opened, TypeOK
<1>15. NoCrash' /\ SoundFiles' /\ SavedAtHome'
  BY <1>6 DEF SceneFilesInv, NoCrash, SoundFiles, SavedAtHome
<1>. QED BY <1>12, <1>13, <1>14, <1>15 DEF SceneFilesInv

\* What was asked for comes, and nothing that was there goes.
LEMMA AssetsComeKeeps ==
  ASSUME SceneFilesInv, AssetsCome
  PROVE  SceneFilesInv'
<1>1. TypeOK /\ Filed /\ PendingFound
  BY DEF SceneFilesInv, Filed
<1>2. /\ models' = models \cup coming /\ coming' = {}
      /\ UNCHANGED <<scene, project, phase, disk, ghost>>
  BY DEF AssetsCome
<1>3. TypeOK'
  BY <1>1, <1>2 DEF TypeOK, disk, ghost
<1>4. PendingFound'
  BY <1>1, <1>2 DEF PendingFound, Opened
<1>5. Filed'
  BY <1>1, <1>2, FiledStays
<1>. QED BY <1>3, <1>4, <1>5 DEF SceneFilesInv, Filed

\* A pending scene has its models when none is still to come, and becomes active.
LEMMA PendingSceneKeeps ==
  ASSUME SceneFilesInv, NEW s \in Scene, PendingScene(s)
  PROVE  SceneFilesInv'
<1>1. TypeOK /\ Filed /\ s \in Opened /\ scene[s] \in SceneState /\ coming = {}
  BY DEF SceneFilesInv, Filed, TypeOK, PendingScene, Uses, Opened
<1>2. \A c \in scene[s].mesh : c[2] \in models
  BY <1>1 DEF SceneFilesInv, PendingFound
<1>. DEFINE r == [scene[s] EXCEPT !.active = TRUE]
<1>3. /\ scene' = [scene EXCEPT ![s] = r]
      /\ UNCHANGED <<phase, models, coming, project, disk, ghost>>
  BY <1>2 DEF PendingScene, ModelsFound, assets
<1>4. r \in SceneState /\ r.active /\ r.mesh = scene[s].mesh
  BY <1>1 DEF SceneState
<1>. HIDE DEF r
<1>5. TypeOK'
  BY <1>1, <1>3, <1>4 DEF TypeOK, disk, ghost
<1>6. PendingFound'
  BY <1>1, <1>2, <1>3, <1>4 DEF SceneFilesInv, PendingFound, Opened, TypeOK
<1>7. Filed'
  BY <1>1, <1>3, FiledStays
<1>. QED BY <1>5, <1>6, <1>7 DEF SceneFilesInv, Filed

\* The parts of the invariant that are not about the table in memory.
LEMMA RestKeeps ==
  ASSUME SceneFilesInv, project' \in Project \cup {None}, entry' \in [Name -> Entries],
         UNCHANGED <<scene, assets, phase, disk, lastSaved>>
  PROVE  /\ TypeOK' /\ NoCrash' /\ SoundFiles' /\ SavedAtHome' /\ PendingFound'
<1>1. UNCHANGED <<files, projectFile, models, coming>>
  BY DEF disk, assets
<1>. QED BY <1>1 DEF SceneFilesInv, TypeOK, NoCrash, SoundFiles, SavedAtHome, PendingFound, Opened

\* Adding and updating the path of a scene, where its file is at home.
LEMMA AddUpdateKeep ==
  ASSUME Rules = AllRules, SceneFilesInv, NEW n \in Name, NEW p \in Path,
         AddScene(n, p) \/ UpdateScene(n, p)
  PROVE  SceneFilesInv'
<1>1. TypeOK /\ project \in Project /\ project # None
  BY PointersAssumption DEF SceneFilesInv, TypeOK, AddScene, UpdateScene, Running
<1>2. project.scenes \in [Name -> Path \cup {None}]
  BY <1>1 DEF Project, Table
<1>3. p = HomeOf[n] /\ files[p] # None
  BY DEF AddScene, UpdateScene, Known, AllRules
<1>4. /\ project' = [project EXCEPT !.scenes[n] = p]
      /\ UNCHANGED <<scene, assets, phase, disk, lastSaved>>
  BY DEF AddScene, UpdateScene, ghost
<1>5. /\ project' \in Project
      /\ project'.default = project.default
      /\ project'.scenes = [project.scenes EXCEPT ![n] = p]
  BY <1>1, <1>2, <1>4 DEF Project, Table
<1>6. p # None
  BY PointersAssumption
<1>7. \A m \in Name : project'.scenes[m] # None <=> m = n \/ project.scenes[m] # None
  BY <1>2, <1>5, <1>6
<1>8. /\ entry' \in [Name -> Entries]
      /\ \A m \in Name : project'.scenes[m] # None <=> entry'[m] \in {"unsaved", "saved"}
      /\ \A m \in Name : entry'[m] \in {"saved", "removed"} <=> entry[m] \in {"saved", "removed"}
      /\ \A m \in Name : entry'[m] # "none" => files'[HomeOf[m]] # None
  <2>1. UNCHANGED files
    BY <1>4 DEF disk
  <2>2. CASE AddScene(n, p)
    <3>1. entry' = Lists(n)
      BY <2>2 DEF AddScene
    <3>. QED BY <1>1, <1>3, <1>7, <2>1, <3>1, ListsStep
  <2>3. CASE UpdateScene(n, p)
    <3>1. UNCHANGED entry /\ project.scenes[n] # None
      BY <2>3 DEF UpdateScene, ghost
    <3>. QED BY <1>1, <1>7, <2>1, <3>1, TableNow
  <2>. QED BY <2>2, <2>3
<1>9. \A m \in Name : project'.scenes[m] \in {project.scenes[m], None, HomeOf[m]}
  BY <1>2, <1>3, <1>5
<1>10. project'.default # None => project'.scenes[project'.default] # None
  BY <1>1, <1>2, <1>5, <1>6, DefaultFound
<1>11. UNCHANGED projectFile
  BY <1>4 DEF disk
<1>12. ListedAreFound' /\ DefaultIsRegistered' /\ TablesAtHome'
  BY <1>1, <1>5, <1>8, <1>9, <1>10, <1>11, TableStep
<1>13. TypeOK' /\ NoCrash' /\ SoundFiles' /\ SavedAtHome' /\ PendingFound'
  BY <1>4, <1>5, <1>8, RestKeeps
<1>. QED BY <1>12, <1>13 DEF SceneFilesInv

\* Removing a scene that is not the default one, and choosing the default among the
\* scenes of the table.
LEMMA RemoveDefaultKeep ==
  ASSUME Rules = AllRules, SceneFilesInv, NEW n \in Name,
         RemoveScene(n) \/ SetDefaultScene(n)
  PROVE  SceneFilesInv'
<1>1. TypeOK /\ project \in Project /\ project # None
  BY PointersAssumption DEF SceneFilesInv, TypeOK, RemoveScene, SetDefaultScene, Running
<1>2. project.scenes \in [Name -> Path \cup {None}]
  BY <1>1 DEF Project, Table
<1>3. UNCHANGED <<scene, assets, phase, disk, lastSaved>>
  BY DEF RemoveScene, SetDefaultScene, ghost
<1>4. UNCHANGED <<files, projectFile>>
  BY <1>3 DEF disk
<1>5. /\ entry \in [Name -> Entries]
      /\ \A m \in Name : project.scenes[m] # None <=> entry[m] \in {"unsaved", "saved"}
      /\ \A m \in Name : entry[m] # "none" => files[HomeOf[m]] # None
  BY <1>1, TableNow
<1>6. /\ project' \in Project
      /\ \A m \in Name : project'.scenes[m] \in {project.scenes[m], None}
      /\ project'.default # None => project'.scenes[project'.default] # None
      /\ entry' \in [Name -> Entries]
      /\ \A m \in Name : project'.scenes[m] # None <=> entry'[m] \in {"unsaved", "saved"}
      /\ \A m \in Name : entry'[m] \in {"saved", "removed"} <=> entry[m] \in {"saved", "removed"}
      /\ \A m \in Name : entry'[m] # "none" => files[HomeOf[m]] # None
  <2>1. CASE RemoveScene(n)
    <3>1. /\ project' = [project EXCEPT !.scenes[n] = None]
          /\ entry' = [entry EXCEPT ![n] = IF @ = "saved" THEN "removed" ELSE "none"]
          /\ project.scenes[n] # None
      BY <2>1 DEF RemoveScene
    <3>2. /\ project' \in Project
          /\ project'.default = project.default
          /\ project'.scenes = [project.scenes EXCEPT ![n] = None]
      BY <1>1, <1>2, <3>1 DEF Project, Table
    <3>3. project.default # n
      BY <2>1 DEF RemoveScene, AllRules
    <3>4. project'.default # None => project'.scenes[project'.default] # None
      BY <1>1, <1>2, <3>2, <3>3, DefaultFound
    <3>5. /\ entry' \in [Name -> Entries]
          /\ entry[n] \in {"unsaved", "saved"}
          /\ entry'[n] = IF entry[n] = "saved" THEN "removed" ELSE "none"
          /\ \A m \in Name : m # n => entry'[m] = entry[m]
      BY <1>5, <3>1 DEF Entries
    <3>6. project'.scenes[n] = None /\ \A m \in Name : m # n => project'.scenes[m] = project.scenes[m]
      BY <1>2, <3>2
    <3>. QED BY <1>5, <3>2, <3>4, <3>5, <3>6
  <2>2. CASE SetDefaultScene(n)
    <3>1. project' = [project EXCEPT !.default = n] /\ project.scenes[n] # None /\ UNCHANGED entry
      BY <2>2 DEF SetDefaultScene, Registered, ghost
    <3>2. project' \in Project /\ project'.default = n /\ project'.scenes = project.scenes
      BY <1>1, <3>1 DEF Project
    <3>. QED BY <1>5, <3>1, <3>2
  <2>. QED BY <2>1, <2>2
<1>7. ListedAreFound' /\ DefaultIsRegistered' /\ TablesAtHome'
  <2>1. \A m \in Name : project'.scenes[m] \in {project.scenes[m], None, HomeOf[m]}
    BY <1>6
  <2>. QED BY <1>1, <1>4, <1>6, <2>1, TableStep
<1>8. TypeOK' /\ NoCrash' /\ SoundFiles' /\ SavedAtHome' /\ PendingFound'
  BY <1>3, <1>6, RestKeeps
<1>. QED BY <1>7, <1>8 DEF SceneFilesInv

\* A table that is saved, made or loaded: the one in memory and the one in the file
\* become the same, and it has the names whose entry is saved.
LEMMA SameTableKeeps ==
  ASSUME SceneFilesInv, NEW t \in Project,
         project' = t, projectFile' = t,
         AtHome(t), t.default # None => t.scenes[t.default] # None,
         entry' \in [Name -> Entries],
         \A m \in Name : entry'[m] \notin {"unsaved", "removed"},
         \A m \in Name : t.scenes[m] # None <=> entry'[m] = "saved",
         \A m \in Name : entry'[m] # "none" => entry[m] # "none",
         UNCHANGED <<scene, assets, phase, files, lastSaved>>
  PROVE  SceneFilesInv'
<1>1. t # None /\ t # Torn
  BY PointersAssumption
<1>2. UNCHANGED <<models, coming>>
  BY DEF assets
<1>3. TypeOK' /\ NoCrash' /\ SoundFiles' /\ SavedAtHome' /\ PendingFound'
  BY <1>2 DEF SceneFilesInv, TypeOK, NoCrash, SoundFiles, SavedAtHome, PendingFound, Opened
<1>4. \A m \in Name : (m \in Registered' <=> t.scenes[m] # None) /\ (m \in InFile' <=> t.scenes[m] # None)
  BY <1>1 DEF Registered, InFile
<1>5. \A m \in Name : entry'[m] # "none" => files'[HomeOf[m]] # None
  BY DEF SceneFilesInv, ListedAreFound
<1>6. ListedAreFound'
  BY <1>1, <1>4, <1>5 DEF ListedAreFound
<1>7. DefaultIsRegistered'
  BY DEF DefaultIsRegistered
<1>8. TablesAtHome'
  BY DEF TablesAtHome, AtHome
<1>. QED BY <1>3, <1>6, <1>7, <1>8 DEF SceneFilesInv

\* What becomes of an entry when the project file is lost or written over.
LEMMA DroppedEntries ==
  ASSUME entry \in [Name -> Entries]
  PROVE  /\ Dropped \in [Name -> Entries]
         /\ \A m \in Name : Dropped[m] \in {"none", "lost"} /\ (Dropped[m] # "none" => entry[m] # "none")
BY DEF Dropped, Entries

\* What becomes of an entry when the process is gone.
LEMMA UndoneEntries ==
  ASSUME entry \in [Name -> Entries]
  PROVE  /\ Undone \in [Name -> Entries]
         /\ \A m \in Name : /\ Undone[m] \notin {"unsaved", "removed"}
                            /\ Undone[m] = "saved" <=> entry[m] \in {"saved", "removed"}
                            /\ Undone[m] # "none" => entry[m] # "none"
BY DEF Undone, Entries

\* SaveProject, CreateProject and LoadProject lead to one table.
LEMMA ProjectFileKeeps ==
  ASSUME Rules = AllRules, SceneFilesInv, SaveProject \/ CreateProject \/ LoadProject
  PROVE  SceneFilesInv'
<1>1. entry \in [Name -> Entries]
  BY DEF SceneFilesInv, TypeOK
<1>2. CASE SaveProject
  <2>1. project \in Project /\ project # None /\ project # Torn
    BY <1>2, PointersAssumption DEF SceneFilesInv, TypeOK, SaveProject, Running
  <2>2. AtHome(project) /\ (project.default # None => project.scenes[project.default] # None)
    BY <2>1 DEF SceneFilesInv, TablesAtHome, DefaultIsRegistered
  <2>3. \A m \in Name : project.scenes[m] # None <=> entry[m] \in {"unsaved", "saved"}
    BY <2>1, TableNow
  <2>4. /\ project' = project /\ projectFile' = project
        /\ entry' = [n \in Name |-> CASE entry[n] = "unsaved" -> "saved"
                                      [] entry[n] = "removed" -> "none"
                                      [] OTHER -> entry[n]]
        /\ UNCHANGED <<scene, assets, phase, files, lastSaved>>
    BY <1>2 DEF SaveProject, ghost
  <2>5. /\ entry' \in [Name -> Entries]
        /\ \A m \in Name : /\ entry'[m] \notin {"unsaved", "removed"}
                           /\ entry'[m] = "saved" <=> entry[m] \in {"unsaved", "saved"}
                           /\ entry'[m] # "none" => entry[m] # "none"
    BY <1>1, <2>4 DEF Entries
  <2>. QED BY <2>1, <2>2, <2>3, <2>4, <2>5, SameTableKeeps
<1>3. CASE CreateProject
  <2>1. EmptyProject \in Project /\ AtHome(EmptyProject) /\ EmptyProject.default = None
    BY DEF EmptyProject, Project, Table, AtHome
  <2>2. \A m \in Name : EmptyProject.scenes[m] = None
    BY DEF EmptyProject
  <2>3. /\ project' = EmptyProject /\ projectFile' = EmptyProject /\ entry' = Dropped
        /\ UNCHANGED <<scene, assets, phase, files, lastSaved>>
    BY <1>3 DEF CreateProject
  <2>4. /\ entry' \in [Name -> Entries]
        /\ \A m \in Name : entry'[m] \in {"none", "lost"} /\ (entry'[m] # "none" => entry[m] # "none")
    BY <1>1, <2>3, DroppedEntries
  <2>5. \A m \in Name : entry'[m] \notin {"unsaved", "removed"} /\ entry'[m] # "saved"
    BY <2>4
  <2>. QED BY <2>1, <2>2, <2>3, <2>4, <2>5, SameTableKeeps
<1>4. CASE LoadProject
  <2>1. projectFile # None /\ projectFile # Torn /\ project = None
    BY <1>4 DEF LoadProject, AllRules
  <2>2. projectFile \in Project
    BY <2>1 DEF SceneFilesInv, TypeOK
  <2>3. AtHome(projectFile) /\ (projectFile.default # None => projectFile.scenes[projectFile.default] # None)
    BY <2>1 DEF SceneFilesInv, TablesAtHome, DefaultIsRegistered
  <2>4. /\ project' = projectFile /\ projectFile' = projectFile
        /\ UNCHANGED <<scene, assets, phase, files, lastSaved, entry>>
    BY <1>4, <2>1 DEF LoadProject, disk, ghost
  <2>5. \A m \in Name : entry'[m] \notin {"unsaved", "removed"}
    BY <2>1, <2>4 DEF SceneFilesInv, ListedAreFound
  <2>6. \A m \in Name : projectFile.scenes[m] # None <=> entry[m] \in {"saved", "removed"}
    <3>1. \A m \in Name : m \in InFile <=> projectFile.scenes[m] # None
      BY <2>1 DEF InFile
    <3>. QED BY <3>1 DEF SceneFilesInv, ListedAreFound
  <2>7. \A m \in Name : projectFile.scenes[m] # None <=> entry'[m] = "saved"
    BY <2>4, <2>5, <2>6
  <2>. QED BY <1>1, <2>2, <2>3, <2>4, <2>5, <2>7, SameTableKeeps
<1>. QED BY <1>2, <1>3, <1>4

\* A process starts again: nothing is pending and no table is in memory.
LEMMA RestartKeeps ==
  ASSUME SceneFilesInv, Restarts,
         projectFile' \in Project \cup {None, Torn},
         projectFile' = projectFile \/ projectFile' = Torn,
         entry' \in [Name -> Entries],
         \A m \in Name : entry'[m] \notin {"unsaved", "removed"},
         \A m \in Name : m \in InFile' <=> entry'[m] = "saved",
         \A m \in Name : entry'[m] # "none" => files'[HomeOf[m]] # None,
         files' \in [Path -> Archive \cup {None, Torn}],
         lastSaved' \in [Name -> Archive \cup {None, Torn}],
         SoundFiles', SavedAtHome'
  PROVE  SceneFilesInv'
<1>1. /\ scene' = [s \in Scene |-> None] /\ models' = {} /\ coming' = {}
      /\ project' = None /\ phase' = "running"
  BY DEF Restarts, NoScenes
<1>2. TypeOK' /\ NoCrash' /\ PendingFound'
  BY <1>1 DEF SceneFilesInv, TypeOK, NoCrash, PendingFound, Opened
<1>3. ListedAreFound'
  BY <1>1 DEF ListedAreFound
<1>4. DefaultIsRegistered'
  BY <1>1 DEF SceneFilesInv, DefaultIsRegistered
<1>5. TablesAtHome'
  BY <1>1 DEF SceneFilesInv, TablesAtHome, AtHome
<1>. QED BY <1>2, <1>3, <1>4, <1>5 DEF SceneFilesInv

\* A copy never lands at a home; a process that ends, or dies saving a scene, loses what
\* is not in the project file, one that dies saving the project loses that, and no file
\* of a scene goes.
LEMMA OutsideKeeps ==
  ASSUME Rules = AllRules, SceneFilesInv, Outside
  PROVE  SceneFilesInv'
<1>1. TypeOK /\ entry \in [Name -> Entries]
  BY DEF SceneFilesInv, TypeOK
<1>2. \A n \in Name : HomeOf[n] \in Path /\ HomeOf[n] \in Homes
  BY SceneFilesAssumption DEF Homes
<1>3. /\ \A m \in Name : m \in InFile <=> entry[m] \in {"saved", "removed"}
      /\ \A m \in Name : entry[m] # "none" => files[HomeOf[m]] # None
  BY DEF SceneFilesInv, ListedAreFound
<1>4. ASSUME NEW p \in Path, NEW q \in Path, CopyFile(p, q) PROVE SceneFilesInv'
  <2>1. /\ files' = [files EXCEPT ![q] = files[p]] /\ q \notin Homes
        /\ UNCHANGED <<scene, models, coming, project, phase, projectFile, lastSaved, entry>>
    BY <1>4 DEF CopyFile, ghost, assets
  <2>2. TypeOK' /\ SoundFiles'
    BY <1>1, <2>1 DEF TypeOK, SceneFilesInv, SoundFiles
  <2>3. \A n \in Name : files'[HomeOf[n]] = files[HomeOf[n]]
    BY <1>1, <1>2, <2>1 DEF TypeOK
  <2>4. SavedAtHome'
    BY <2>1, <2>3 DEF SceneFilesInv, SavedAtHome
  <2>5. ListedAreFound'
    BY <2>1, <2>3 DEF SceneFilesInv, ListedAreFound, Registered, InFile
  <2>6. NoCrash' /\ DefaultIsRegistered' /\ TablesAtHome' /\ PendingFound'
    BY <2>1 DEF SceneFilesInv, NoCrash, DefaultIsRegistered, TablesAtHome, PendingFound, Opened
  <2>. QED BY <2>2, <2>4, <2>5, <2>6 DEF SceneFilesInv
<1>5. CASE ProcessEnds
  <2>1. Restarts /\ entry' = Undone /\ UNCHANGED <<files, projectFile, lastSaved>>
    BY <1>5 DEF ProcessEnds, disk
  <2>2. SoundFiles' /\ SavedAtHome'
    BY <2>1 DEF SceneFilesInv, SoundFiles, SavedAtHome
  <2>3. /\ entry' \in [Name -> Entries]
        /\ \A m \in Name : /\ entry'[m] \notin {"unsaved", "removed"}
                           /\ entry'[m] = "saved" <=> entry[m] \in {"saved", "removed"}
                           /\ entry'[m] # "none" => entry[m] # "none"
    BY <1>1, <2>1, UndoneEntries
  <2>4. InFile' = InFile
    BY <2>1 DEF InFile
  <2>5. \A m \in Name : m \in InFile' <=> entry'[m] = "saved"
    BY <1>3, <2>3, <2>4
  <2>6. \A m \in Name : entry'[m] # "none" => files'[HomeOf[m]] # None
    BY <1>3, <2>1, <2>3
  <2>7. /\ projectFile' \in Project \cup {None, Torn}
        /\ files' \in [Path -> Archive \cup {None, Torn}]
        /\ lastSaved' \in [Name -> Archive \cup {None, Torn}]
    BY <1>1, <2>1 DEF TypeOK
  <2>. QED BY <2>1, <2>2, <2>3, <2>5, <2>6, <2>7, RestartKeeps
<1>6. CASE DiesSavingProject
  <2>1. projectFile' = Torn /\ entry' = Dropped /\ Restarts /\ UNCHANGED <<files, lastSaved>>
    BY <1>6 DEF DiesSavingProject
  <2>2. SoundFiles' /\ SavedAtHome'
    BY <2>1 DEF SceneFilesInv, SoundFiles, SavedAtHome
  <2>3. /\ entry' \in [Name -> Entries]
        /\ \A m \in Name : entry'[m] \in {"none", "lost"} /\ (entry'[m] # "none" => entry[m] # "none")
    BY <1>1, <2>1, DroppedEntries
  <2>4. \A m \in Name : entry'[m] \notin {"unsaved", "removed"} /\ entry'[m] # "saved"
    BY <2>3
  <2>5. \A m \in Name : m \notin InFile'
    BY <2>1 DEF InFile
  <2>6. \A m \in Name : entry'[m] # "none" => files'[HomeOf[m]] # None
    BY <1>3, <2>1, <2>3
  <2>7. /\ files' \in [Path -> Archive \cup {None, Torn}]
        /\ lastSaved' \in [Name -> Archive \cup {None, Torn}]
    BY <1>1, <2>1 DEF TypeOK
  <2>. QED BY <2>1, <2>2, <2>3, <2>4, <2>5, <2>6, <2>7, RestartKeeps
<1>7. ASSUME NEW s \in Scene, DiesSavingScene(s) PROVE SceneFilesInv'
  <2>. DEFINE n == scene[s].name
  <2>1. n \in Name
    BY <1>1, <1>7 DEF TypeOK, DiesSavingScene, Uses, Opened, SceneState
  <2>2. /\ files' = [files EXCEPT ![HomeOf[n]] = Torn]
        /\ lastSaved' = [lastSaved EXCEPT ![n] = Torn]
        /\ entry' = Undone /\ Restarts /\ UNCHANGED projectFile
    BY <1>7 DEF DiesSavingScene
  <2>. HIDE DEF n
  <2>3. SoundFiles'
    BY <1>1, <1>2, <2>1, <2>2 DEF TypeOK, SceneFilesInv, SoundFiles
  <2>4. SavedAtHome'
    BY <1>1, <1>2, <2>1, <2>2, SceneFilesAssumption DEF TypeOK, SceneFilesInv, SavedAtHome
  <2>5. /\ entry' \in [Name -> Entries]
        /\ \A m \in Name : /\ entry'[m] \notin {"unsaved", "removed"}
                           /\ entry'[m] = "saved" <=> entry[m] \in {"saved", "removed"}
                           /\ entry'[m] # "none" => entry[m] # "none"
    BY <1>1, <2>2, UndoneEntries
  <2>6. InFile' = InFile
    BY <2>2 DEF InFile
  <2>7. \A m \in Name : m \in InFile' <=> entry'[m] = "saved"
    BY <1>3, <2>5, <2>6
  <2>8. \A m \in Name : files[HomeOf[m]] # None => files'[HomeOf[m]] # None
    BY <1>1, <1>2, <2>1, <2>2, PointersAssumption DEF TypeOK
  <2>9. \A m \in Name : entry'[m] # "none" => files'[HomeOf[m]] # None
    BY <1>3, <2>5, <2>8
  <2>10. /\ projectFile' \in Project \cup {None, Torn}
         /\ files' \in [Path -> Archive \cup {None, Torn}]
         /\ lastSaved' \in [Name -> Archive \cup {None, Torn}]
    BY <1>1, <1>2, <2>1, <2>2 DEF TypeOK
  <2>. QED BY <2>2, <2>3, <2>4, <2>5, <2>7, <2>9, <2>10, RestartKeeps
<1>. QED BY <1>4, <1>5, <1>6, <1>7 DEF Outside

\* No file, no table and no scene satisfies the invariant.
LEMMA InitHolds == Init => SceneFilesInv
<1>. SUFFICES ASSUME Init PROVE SceneFilesInv
  OBVIOUS
<1>. USE DEF Init, NoScenes
<1>1. TypeOK /\ NoCrash
  BY DEF TypeOK, NoCrash, Entries
<1>2. ListedAreFound /\ DefaultIsRegistered /\ SoundFiles /\ TablesAtHome /\ PendingFound
  BY DEF ListedAreFound, InFile, DefaultIsRegistered, SoundFiles, TablesAtHome, PendingFound, Opened
<1>3. SavedAtHome
  BY SceneFilesAssumption DEF SavedAtHome
<1>. QED BY <1>1, <1>2, <1>3 DEF SceneFilesInv

\* Every step keeps the invariant, for clients that keep the rules.
LEMMA NextKeeps ==
  ASSUME Rules = AllRules, SceneFilesInv, [Next]_vars
  PROVE  SceneFilesInv'
<1>1. CASE Entities
  BY <1>1, EntitiesKeep
<1>2. CASE SceneIO
  <2>1. \/ \E s \in Scene :
             \/ \E opens \in BOOLEAN : SaveScene(s, opens)
             \/ \E types \in [Entity -> Type], found \in SUBSET Model :
                  \/ \E p \in Path : LoadSceneFromPath(s, p, types, found)
                  \/ \E n \in Name : LoadSceneFromName(s, n, types, found)
             \/ PendingScene(s)
        \/ AssetsCome
    BY <1>2 DEF SceneIO
  <2>2. ASSUME NEW s \in Scene, NEW types \in [Entity -> Type],
               NEW found \in SUBSET Model, NEW n \in Name, LoadSceneFromName(s, n, types, found)
        PROVE  SceneFilesInv'
    <3>1. project.scenes[n] \in Path
      BY <2>2 DEF SceneFilesInv, TypeOK, LoadSceneFromName, Running, Project, Table
    <3>2. LoadSceneFromPath(s, project.scenes[n], types, found)
      BY <2>2 DEF LoadSceneFromName
    <3>. QED BY <3>1, <3>2, LoadSceneFromPathKeeps
  <2>. QED BY <2>1, <2>2, SaveSceneKeeps, LoadSceneFromPathKeeps, PendingSceneKeeps, AssetsComeKeeps
<1>3. CASE ProjectIO
  BY <1>3, AddUpdateKeep, RemoveDefaultKeep, ProjectFileKeeps DEF ProjectIO
<1>4. CASE Outside
  BY <1>4, OutsideKeeps
<1>5. CASE UNCHANGED vars
  BY <1>5 DEF vars, disk, ghost, assets, SceneFilesInv, TypeOK, NoCrash, ListedAreFound, Registered,
     InFile, DefaultIsRegistered, SoundFiles, SavedAtHome, TablesAtHome, PendingFound, Opened
<1>. QED BY <1>1, <1>2, <1>3, <1>4, <1>5 DEF Next

(***************************************************************************)
(* The theorems, for clients that keep all the rules.                      *)
(***************************************************************************)

\* Types, sound archives, each last save at the home of its name, tables that name
\* homes only and have the names that were put there, and scenes, active and pending,
\* that find their models.
THEOREM SceneFilesInvariant ==
  ASSUME Rules = AllRules
  PROVE  Spec => []SceneFilesInv
<1>1. SceneFilesInv /\ [Next]_vars => SceneFilesInv'
  BY NextKeeps
<1>. QED BY InitHolds, <1>1, PTL DEF Spec

\* LoadProject and LoadSceneFromPath never throw, and neither FindMeshAsset nor
\* SaveBinary dereferences the null of a model that is not loaded.
THEOREM SavedScenesLoad ==
  ASSUME Rules = AllRules
  PROVE  Spec => []NoCrash
<1>1. SceneFilesInv => NoCrash
  BY DEF SceneFilesInv
<1>. QED BY SceneFilesInvariant, <1>1, PTL

\* The table in memory has the names that SaveScene, LoadSceneFromPath or AddScene put
\* there, until they are removed; the project file has those of the last SaveProject,
\* which survive the end and the death of a process, in a write of a scene too.  The
\* others are lost with the process that did not save them, and all of them when it dies
\* in SaveProject or a later one makes a new project; the files of the scenes stay.
THEOREM ListedStayFound ==
  ASSUME Rules = AllRules
  PROVE  Spec => []ListedAreFound
<1>1. SceneFilesInv => ListedAreFound
  BY DEF SceneFilesInv
<1>. QED BY SceneFilesInvariant, <1>1, PTL

\* The default scene is in the table, in memory and in the project file.
THEOREM DefaultStaysRegistered ==
  ASSUME Rules = AllRules
  PROVE  Spec => []DefaultIsRegistered
<1>1. SceneFilesInv => DefaultIsRegistered
  BY DEF SceneFilesInv
<1>. QED BY SceneFilesInvariant, <1>1, PTL

\* The file that a name of the project leads to has what SaveScene last wrote for it.
THEOREM NamesFindTheirSave ==
  ASSUME Rules = AllRules
  PROVE  Spec => []NamesFindLastSave
<1>1. SceneFilesInv => NamesFindLastSave
  <2>1. SUFFICES ASSUME SceneFilesInv, project # None, NEW n \in Registered
                 PROVE  files[project.scenes[n]] = lastSaved[n]
    BY DEF NamesFindLastSave
  <2>2. project # Torn
    BY <2>1, PointersAssumption DEF SceneFilesInv, TypeOK
  <2>3. n \in Name /\ project.scenes[n] = HomeOf[n]
    BY <2>1, <2>2 DEF Registered, SceneFilesInv, TablesAtHome, AtHome
  <2>. QED BY <2>1, <2>3 DEF SceneFilesInv, SavedAtHome
<1>. QED BY SceneFilesInvariant, <1>1, PTL

-----------------------------------------------------------------------------
(***************************************************************************)
(* The count of entities, whatever clients do.                             *)
(***************************************************************************)

\* A number is a multiple of n and a remainder, and the remainder is the only one.
LEMMA Divides ==
  ASSUME NEW n \in Nat \ {0}, NEW c \in Nat
  PROVE  \E q \in Int : c = n * q + (c % n)
<1>1. c \div n \in Int /\ c = n * (c \div n) + (c % n)
  OBVIOUS
<1>. QED BY <1>1

\* A positive multiple of n is n or more.
LEMMA Times ==
  ASSUME NEW n \in Nat \ {0}, NEW d \in Int, d > 0
  PROVE  n * d >= n
OBVIOUS

\* Quotient and remainder are unique.
LEMMA Unique ==
  ASSUME NEW n \in Nat \ {0}, NEW q \in Int, NEW p \in Int, NEW r \in 0..n - 1, NEW s \in 0..n - 1,
    n * q + r = n * p + s
  PROVE  r = s
<1>1. n * (q - p) = s - r
  OBVIOUS
<1>2. n * (p - q) = r - s
  OBVIOUS
<1>3. ~(q - p > 0)
  BY <1>1, Times
<1>4. ~(p - q > 0)
  BY <1>2, Times
<1>5. q = p
  BY <1>3, <1>4
<1>. QED BY <1>1, <1>5

\* Numbers that differ by a multiple of n have the same remainder.
LEMMA SameRemainder ==
  ASSUME NEW n \in Nat \ {0}, NEW x \in Nat, NEW y \in Nat, NEW k \in Int, x = n * k + y
  PROVE  x % n = y % n
<1>1. PICK q \in Int : x = n * q + (x % n)
  BY Divides
<1>2. PICK p \in Int : y = n * p + (y % n)
  BY Divides
<1>. DEFINE r == x % n
            s == y % n
<1>3. r \in 0..n - 1 /\ s \in 0..n - 1
  OBVIOUS
<1>4. n * q + r = n * (k + p) + s
  <2>1. n * (k + p) = n * k + n * p
    OBVIOUS
  <2>2. x = n * q + r /\ y = n * p + s
    BY <1>1, <1>2
  <2>3. n * q \in Int /\ n * p \in Int /\ n * k \in Int /\ r \in Int /\ s \in Int
    BY <1>3
  <2>. HIDE DEF r, s
  <2>. QED BY <2>1, <2>2, <2>3
<1>5. k + p \in Int
  OBVIOUS
<1>. HIDE DEF r, s
<1>6. r = s
  BY <1>3, <1>4, <1>5, Unique
<1>. QED BY <1>6 DEF r, s

\* Counting up and down modulo n is counting and then taking the remainder.
LEMMA Counts ==
  ASSUME NEW n \in Nat \ {0}, NEW c \in Nat
  PROVE  /\ ((c % n) + 1) % n = (c + 1) % n
         /\ c > 0 => ((c % n) + n - 1) % n = (c - 1) % n
         /\ 0 % n = 0
<1>. DEFINE r == c % n
<1>1. r \in Nat
  OBVIOUS
<1>2. PICK q \in Int : c = n * q + r
  BY Divides
<1>. HIDE DEF r
<1>3. (c + 1) % n = (r + 1) % n
  <2>. DEFINE x == c + 1
              y == r + 1
  <2>1. x \in Nat /\ y \in Nat /\ x = n * q + y
    BY <1>1, <1>2
  <2>. HIDE DEF x, y
  <2>2. x % n = y % n
    BY <2>1, SameRemainder
  <2>. QED BY <2>2 DEF x, y
<1>4. ASSUME c > 0 PROVE (r + n - 1) % n = (c - 1) % n
  <2>. DEFINE x == r + n - 1
              y == c - 1
              k == 1 - q
  <2>0. n * k = n - n * q /\ n * q \in Int
    OBVIOUS
  <2>1. x \in Nat /\ y \in Nat /\ k \in Int /\ x = n * k + y
    <3>1. k \in Int /\ x \in Nat /\ y \in Nat
      BY <1>1, <1>4
    <3>2. x = (n - n * q) + y
      BY <1>1, <1>2, <2>0
    <3>. HIDE DEF x, y, k
    <3>. QED BY <2>0, <3>1, <3>2
  <2>. HIDE DEF x, y, k
  <2>2. x % n = y % n
    BY <2>1, SameRemainder
  <2>. QED BY <2>2 DEF x, y
<1>5. 0 % n = 0
  OBVIOUS
<1>. QED BY <1>3, <1>4, <1>5 DEF r

\* No file, no project and no scene gets a type of its own, whatever rules clients keep.
LEMMA NextTypes ==
  ASSUME TypeOK, [Next]_vars
  PROVE  TypeOK'
<1>. USE DEF TypeOK
<1>0. /\ \A n \in Name : Lists(n) \in [Name -> Entries]
      /\ Dropped \in [Name -> Entries] /\ Undone \in [Name -> Entries]
  BY DroppedEntries, UndoneEntries DEF Lists, Entries
<1>1. CASE Entities
  BY <1>1, EntitiesStep DEF disk, ghost
<1>2. ASSUME NEW s \in Scene, NEW opens \in BOOLEAN, SaveScene(s, opens) PROVE TypeOK'
  <2>. DEFINE n == scene[s].name
              data == SaveBinary(scene[s])
  <2>1. scene[s] \in SceneState /\ project \in Project
    BY <1>2 DEF SaveScene, Uses, Running, Opened
  <2>2. n \in Name /\ HomeOf[n] \in Path /\ data \in Archive
    BY <2>1, SavesArchives, SceneFilesAssumption DEF SceneState
  <2>3. UNCHANGED <<scene, models, coming, projectFile>>
    BY <1>2 DEF SaveScene, assets
  <2>4. CASE ModelsFound(s)
    <3>1. /\ files' = IF opens THEN [files EXCEPT ![HomeOf[n]] = data] ELSE files
          /\ project' = Emplaced(n, HomeOf[n]) /\ lastSaved' = [lastSaved EXCEPT ![n] = data]
          /\ entry' = Lists(n) /\ UNCHANGED phase
      BY <1>2, <2>4 DEF SaveScene, SavedAt
    <3>. HIDE DEF n, data
    <3>2. project' \in Project
      BY <2>1, <2>2, <3>1, EmplacedKeeps
    <3>3. files' \in [Path -> Archive \cup {None, Torn}]
      BY <2>2, <3>1
    <3>. QED BY <1>0, <2>2, <2>3, <3>1, <3>2, <3>3
  <2>5. CASE ~ModelsFound(s)
    <3>1. phase' = "crashed" /\ UNCHANGED <<files, project, lastSaved, entry>>
      BY <1>2, <2>5 DEF SaveScene, ghost
    <3>. QED BY <2>3, <3>1
  <2>. QED BY <2>4, <2>5
<1>3. ASSUME NEW s \in Scene, NEW p \in Path, NEW types \in [Entity -> Type],
             NEW found \in SUBSET Model, LoadSceneFromPath(s, p, types, found)
      PROVE  TypeOK'
  <2>. DEFINE data == files[p]
              r == [name |-> data.name, used |-> UsedBy(data), plain |-> data.plain,
                    mesh |-> ReadAs(data, types), count |-> 0, active |-> FALSE,
                    exact |-> UsedBy(data) = {}]
  <2>1. project \in Project /\ UNCHANGED <<models, files, projectFile, lastSaved>>
    BY <1>3 DEF LoadSceneFromPath, Running, disk
  <2>2. CASE data = Torn
    <3>1. phase' = "crashed" /\ UNCHANGED <<scene, coming, project, entry>>
      BY <1>3, <2>2 DEF LoadSceneFromPath
    <3>. QED BY <2>1, <3>1
  <2>3. CASE data # Torn
    <3>1. data \in Archive
      BY <1>3, <2>3 DEF LoadSceneFromPath
    <3>2. r \in SceneState /\ data.name \in Name
      BY <3>1, ArchivesAreScenes DEF Archive
    <3>3. /\ coming' = coming \cup (found \ models) /\ scene' = [scene EXCEPT ![s] = r]
          /\ project' = Emplaced(data.name, p) /\ entry' = Lists(data.name)
          /\ UNCHANGED phase
      BY <1>3, <2>3 DEF LoadSceneFromPath
    <3>. HIDE DEF r, data
    <3>4. project' \in Project
      BY <2>1, <3>2, <3>3, EmplacedKeeps
    <3>. QED BY <1>0, <2>1, <3>2, <3>3, <3>4
  <2>. QED BY <2>2, <2>3
<1>4. CASE SceneIO
  <2>1. ASSUME NEW s \in Scene, PendingScene(s) PROVE TypeOK'
    <3>1. scene[s] \in SceneState /\ UNCHANGED <<models, coming, project, disk, ghost>>
      BY <2>1 DEF PendingScene, Uses, Opened, assets
    <3>2. [scene[s] EXCEPT !.active = TRUE] \in SceneState
      BY <3>1 DEF SceneState
    <3>3. \/ phase' = "crashed" /\ UNCHANGED scene
          \/ scene' = [scene EXCEPT ![s] = [scene[s] EXCEPT !.active = TRUE]] /\ UNCHANGED phase
      BY <2>1 DEF PendingScene
    <3>. QED BY <3>1, <3>2, <3>3 DEF disk, ghost
  <2>2. ASSUME NEW s \in Scene, NEW n \in Name, NEW types \in [Entity -> Type],
               NEW found \in SUBSET Model, LoadSceneFromName(s, n, types, found)
        PROVE  TypeOK'
    <3>1. project.scenes[n] \in Path
      BY <2>2 DEF LoadSceneFromName, Running, Project, Table
    <3>2. LoadSceneFromPath(s, project.scenes[n], types, found)
      BY <2>2 DEF LoadSceneFromName
    <3>. QED BY <1>3, <3>1, <3>2
  <2>3. CASE AssetsCome
    BY <2>3 DEF AssetsCome, disk, ghost
  <2>. HIDE DEF TypeOK
  <2>. QED BY <1>2, <1>3, <1>4, <2>1, <2>2, <2>3 DEF SceneIO
<1>5. CASE ProjectIO
  <2>1. ASSUME NEW n \in Name,
               \/ \E p \in Path : AddScene(n, p) \/ UpdateScene(n, p)
               \/ RemoveScene(n) \/ SetDefaultScene(n)
        PROVE  TypeOK'
    <3>1. project \in Project /\ UNCHANGED <<scene, models, coming, phase, disk, lastSaved>>
      BY <2>1 DEF AddScene, UpdateScene, RemoveScene, SetDefaultScene, Running, ghost, assets
    <3>2. project.scenes \in Table /\ project.default \in Name \cup {None}
      BY <3>1 DEF Project
    <3>3. \/ \E p \in Path \cup {None} : project' = [project EXCEPT !.scenes[n] = p]
          \/ project' = [project EXCEPT !.default = n]
      BY <2>1 DEF AddScene, UpdateScene, RemoveScene, SetDefaultScene
    <3>4. project' \in Project
      BY <3>1, <3>2, <3>3 DEF Project, Table
    <3>5. \/ entry' = entry \/ entry' = Lists(n)
          \/ entry' = [entry EXCEPT ![n] = IF @ = "saved" THEN "removed" ELSE "none"]
      BY <2>1 DEF AddScene, UpdateScene, RemoveScene, SetDefaultScene, ghost
    <3>6. entry' \in [Name -> Entries]
      BY <1>0, <3>5 DEF Entries
    <3>. QED BY <3>1, <3>4, <3>6 DEF disk
  <2>2. CASE SaveProject
    <3>1. entry' = [n \in Name |-> CASE entry[n] = "unsaved" -> "saved"
                                     [] entry[n] = "removed" -> "none"
                                     [] OTHER -> entry[n]]
      BY <2>2 DEF SaveProject
    <3>2. entry' \in [Name -> Entries]
      BY <3>1 DEF Entries
    <3>. QED BY <2>2, <3>2 DEF SaveProject, Running, assets
  <2>3. CASE CreateProject
    <3>1. EmptyProject \in Project
      BY DEF EmptyProject, Project, Table
    <3>. QED BY <1>0, <2>3, <3>1 DEF CreateProject, assets
  <2>4. CASE LoadProject
    BY <2>4 DEF LoadProject, disk, ghost, assets
  <2>. HIDE DEF TypeOK
  <2>. QED BY <1>5, <2>1, <2>2, <2>3, <2>4 DEF ProjectIO
<1>6. ASSUME Restarts, files' \in [Path -> Archive \cup {None, Torn}],
             projectFile' \in Project \cup {None, Torn},
             lastSaved' \in [Name -> Archive \cup {None, Torn}], entry' \in [Name -> Entries]
      PROVE  TypeOK'
  BY <1>6 DEF Restarts, NoScenes
<1>7. CASE Outside
  <2>1. ASSUME NEW p \in Path, NEW q \in Path, CopyFile(p, q) PROVE TypeOK'
    BY <2>1 DEF CopyFile, ghost, assets
  <2>2. CASE ProcessEnds
    BY <1>0, <1>6, <2>2 DEF ProcessEnds, disk
  <2>3. CASE DiesSavingProject
    BY <1>0, <1>6, <2>3 DEF DiesSavingProject
  <2>4. ASSUME NEW s \in Scene, DiesSavingScene(s) PROVE TypeOK'
    <3>1. scene[s].name \in Name /\ HomeOf[scene[s].name] \in Path
      BY <2>4, SceneFilesAssumption DEF DiesSavingScene, Uses, Opened, SceneState
    <3>. QED BY <1>0, <1>6, <2>4, <3>1 DEF DiesSavingScene
  <2>. HIDE DEF TypeOK
  <2>. QED BY <1>7, <2>1, <2>2, <2>3, <2>4 DEF Outside
<1>8. CASE UNCHANGED vars
  BY <1>8 DEF vars, disk, ghost, assets
<1>. HIDE DEF TypeOK
<1>. QED BY <1>1, <1>4, <1>5, <1>7, <1>8 DEF Next

Exact(r) == r.exact => r.count = Cardinality(r.used) % CountRange

\* A step that puts an exact scene, or none, in the place of s.
LEMMA SceneStep ==
  ASSUME TypeOK, CountIsExact, NEW s \in Scene, NEW r, r = None \/ Exact(r),
         scene' = [scene EXCEPT ![s] = r]
  PROVE  CountIsExact'
BY DEF TypeOK, CountIsExact, Exact, Opened

\* Creating and destroying entities.
LEMMA EntitiesCount ==
  ASSUME TypeOK, CountIsExact, Entities
  PROVE  CountIsExact'
<1>1. PICK s \in Scene :
        \/ \E n \in Name : CreateScene(s, n)
        \/ CloseScene(s)
        \/ \E e \in Entity :
             \/ CreateEntity(s, e)
             \/ \E wrapped \in BOOLEAN : DestroyEntity(s, e, wrapped)
             \/ AddPlain(s, e) \/ RemoveComponents(s, e)
             \/ \E m \in Model : AddMesh(s, e, m)
  BY DEF Entities
<1>. DEFINE sc == scene[s]
            used == sc.used
            k == Cardinality(used)
<1>2. CountRange \in Nat \ {0} /\ Cardinality({}) % CountRange = 0
  BY SceneFilesAssumption, FS_EmptySet, Counts
<1>3. ASSUME Uses(s)
      PROVE  /\ sc \in SceneState /\ Exact(sc)
             /\ IsFiniteSet(used) /\ k \in Nat
  <2>1. sc \in SceneState /\ Exact(sc)
    BY <1>3 DEF Uses, Opened, TypeOK, CountIsExact, Exact
  <2>2. used \subseteq Entity
    BY <2>1 DEF SceneState
  <2>. QED BY <2>1, <2>2, SceneFilesAssumption, FS_Subset, FS_CardinalityType
<1>4. ASSUME NEW n \in Name, CreateScene(s, n) PROVE CountIsExact'
  <2>. DEFINE r == [name |-> n, used |-> {}, plain |-> {}, mesh |-> {},
                    count |-> 0, active |-> TRUE, exact |-> TRUE]
  <2>1. scene' = [scene EXCEPT ![s] = r]
    BY <1>4 DEF CreateScene
  <2>2. Exact(r)
    BY <1>2 DEF Exact
  <2>. HIDE DEF r
  <2>. QED BY <2>1, <2>2, SceneStep
<1>5. CASE CloseScene(s)
  BY <1>5, SceneStep DEF CloseScene
<1>6. ASSUME NEW e \in Entity, CreateEntity(s, e) PROVE CountIsExact'
  <2>. DEFINE r == [sc EXCEPT !.used = @ \cup {e}, !.count = (@ + 1) % CountRange]
  <2>1. scene' = [scene EXCEPT ![s] = r] /\ Uses(s) /\ e \notin used
    BY <1>6 DEF CreateEntity
  <2>2. sc \in SceneState /\ Exact(sc) /\ IsFiniteSet(used) /\ k \in Nat
    BY <1>3, <2>1
  <2>3. Cardinality(used \cup {e}) = k + 1
    BY <2>1, <2>2, FS_AddElement
  <2>4. r.used = used \cup {e} /\ r.count = (sc.count + 1) % CountRange /\ r.exact = sc.exact
    BY <2>2 DEF SceneState
  <2>. HIDE DEF r
  <2>5. Exact(r)
    BY <1>2, <2>2, <2>3, <2>4, Counts DEF Exact
  <2>. QED BY <2>1, <2>5, SceneStep
<1>7. ASSUME NEW e \in Entity, NEW wrapped \in BOOLEAN, DestroyEntity(s, e, wrapped)
      PROVE  CountIsExact'
  <2>. DEFINE r == [sc EXCEPT !.used = @ \ {e}, !.plain = @ \ {e},
                     !.mesh = {c \in @ : c[1] # e}, !.count = CountDown(@, wrapped),
                     !.exact = @ /\ ~wrapped]
  <2>1. scene' = [scene EXCEPT ![s] = r] /\ Uses(s) /\ e \in used
    BY <1>7 DEF DestroyEntity
  <2>2. sc \in SceneState /\ Exact(sc) /\ IsFiniteSet(used) /\ k \in Nat
    BY <1>3, <2>1
  <2>3. Cardinality(used \ {e}) = k - 1 /\ k > 0
    <3>1. Cardinality(used \ {e}) = k - 1
      BY <2>1, <2>2, FS_RemoveElement
    <3>2. k # 0
      BY <2>1, <2>2, FS_EmptySet
    <3>. QED BY <2>2, <3>1, <3>2
  <2>4. /\ r.used = used \ {e} /\ r.count = CountDown(sc.count, wrapped)
        /\ r.exact => sc.exact /\ ~wrapped
    BY <2>2 DEF SceneState
  <2>. HIDE DEF r
  <2>5. Exact(r)
    <3>. SUFFICES ASSUME r.exact PROVE r.count = (k - 1) % CountRange
      BY <2>3, <2>4 DEF Exact
    <3>1. sc.count = k % CountRange /\ ~wrapped
      BY <2>2, <2>4 DEF Exact
    <3>2. r.count = ((k % CountRange) + CountRange - 1) % CountRange
      BY <2>4, <3>1 DEF CountDown
    <3>. QED BY <1>2, <2>2, <2>3, <3>2, Counts
  <2>. QED BY <2>1, <2>5, SceneStep
<1>8. ASSUME NEW e \in Entity,
             AddPlain(s, e) \/ RemoveComponents(s, e) \/ \E m \in Model : AddMesh(s, e, m)
      PROVE  CountIsExact'
  <2>1. sc \in SceneState /\ Exact(sc)
    BY <1>3, <1>8 DEF AddPlain, RemoveComponents, AddMesh
  <2>2. PICK plain, mesh : scene' = [scene EXCEPT ![s] = [sc EXCEPT !.plain = plain, !.mesh = mesh]]
    <3>1. /\ sc = [sc EXCEPT !.mesh = sc.mesh] /\ sc = [sc EXCEPT !.plain = sc.plain]
      BY <2>1 DEF SceneState
    <3>2. CASE AddPlain(s, e)
      <4>1. scene' = [scene EXCEPT ![s] = [sc EXCEPT !.plain = sc.plain \cup {e}, !.mesh = sc.mesh]]
        BY <2>1, <3>2 DEF AddPlain, SceneState
      <4>. QED BY <4>1
    <3>3. CASE RemoveComponents(s, e)
      <4>1. scene' = [scene EXCEPT ![s] = [sc EXCEPT !.plain = sc.plain \ {e},
                                                    !.mesh = {c \in sc.mesh : c[1] # e}]]
        BY <3>3 DEF RemoveComponents
      <4>. QED BY <4>1
    <3>4. ASSUME NEW m \in Model, AddMesh(s, e, m)
          PROVE  \E plain, mesh : scene' = [scene EXCEPT ![s] = [sc EXCEPT !.plain = plain, !.mesh = mesh]]
      <4>1. scene' = [scene EXCEPT ![s] = [sc EXCEPT !.plain = sc.plain,
                                                    !.mesh = sc.mesh \cup {<<e, m, "Model">>}]]
        BY <2>1, <3>4 DEF AddMesh, SceneState
      <4>. QED BY <4>1
    <3>. QED BY <1>8, <3>2, <3>3, <3>4
  <2>. DEFINE r == [sc EXCEPT !.plain = plain, !.mesh = mesh]
  <2>3. r.used = used /\ r.count = sc.count /\ r.exact = sc.exact
    BY <2>1 DEF SceneState
  <2>4. Exact(r)
    BY <2>1, <2>3 DEF Exact
  <2>. HIDE DEF r
  <2>. QED BY <2>2, <2>4, SceneStep DEF r
<1>. QED BY <1>1, <1>4, <1>5, <1>6, <1>7, <1>8

\* Loading a scene and making it active; nothing else changes the entities of a scene.
LEMMA NextCount ==
  ASSUME TypeOK, CountIsExact, [Next]_vars
  PROVE  CountIsExact'
<1>1. ASSUME NEW s \in Scene, NEW p \in Path, NEW types \in [Entity -> Type],
             NEW found \in SUBSET Model, LoadSceneFromPath(s, p, types, found)
      PROVE  CountIsExact'
  <2>1. CASE UNCHANGED scene
    BY <2>1 DEF CountIsExact, Opened
  <2>2. CASE files[p] # Torn
    <3>. DEFINE data == files[p]
                r == [name |-> data.name, used |-> UsedBy(data), plain |-> data.plain,
                      mesh |-> ReadAs(data, types), count |-> 0, active |-> FALSE,
                      exact |-> UsedBy(data) = {}]
    <3>1. scene' = [scene EXCEPT ![s] = r]
      BY <1>1, <2>2 DEF LoadSceneFromPath
    <3>2. Exact(r)
      <4>1. Cardinality({}) % CountRange = 0
        BY SceneFilesAssumption, FS_EmptySet, Counts
      <4>2. r.exact = (UsedBy(data) = {}) /\ r.count = 0 /\ r.used = UsedBy(data)
        OBVIOUS
      <4>. HIDE DEF r, data
      <4>. QED BY <4>1, <4>2 DEF Exact
    <3>. HIDE DEF r
    <3>. QED BY <3>1, <3>2, SceneStep
  <2>. QED BY <1>1, <2>1, <2>2 DEF LoadSceneFromPath
<1>2. ASSUME NEW s \in Scene, PendingScene(s) PROVE CountIsExact'
  <2>1. CASE UNCHANGED scene
    BY <2>1 DEF CountIsExact, Opened
  <2>2. CASE scene' = [scene EXCEPT ![s].active = TRUE]
    <3>. DEFINE r == [scene[s] EXCEPT !.active = TRUE]
    <3>1. scene[s] \in SceneState /\ Exact(scene[s])
      BY <1>2 DEF PendingScene, Uses, Opened, TypeOK, CountIsExact, Exact
    <3>2. /\ scene' = [scene EXCEPT ![s] = r]
          /\ r.used = scene[s].used /\ r.count = scene[s].count /\ r.exact = scene[s].exact
      BY <2>2, <3>1 DEF SceneState
    <3>3. Exact(r)
      BY <3>1, <3>2 DEF Exact
    <3>. HIDE DEF r
    <3>. QED BY <3>2, <3>3, SceneStep
  <2>. QED BY <1>2, <2>1, <2>2 DEF PendingScene
<1>3. CASE SceneIO
  <2>1. ASSUME NEW s \in Scene, NEW n \in Name, NEW types \in [Entity -> Type],
               NEW found \in SUBSET Model, LoadSceneFromName(s, n, types, found)
        PROVE  CountIsExact'
    <3>1. project.scenes[n] \in Path
      BY <2>1 DEF LoadSceneFromName, Running, Project, Table, TypeOK
    <3>2. LoadSceneFromPath(s, project.scenes[n], types, found)
      BY <2>1 DEF LoadSceneFromName
    <3>. QED BY <1>1, <3>1, <3>2
  <2>2. ASSUME NEW s \in Scene, NEW opens \in BOOLEAN, SaveScene(s, opens) PROVE CountIsExact'
    BY <2>2 DEF SaveScene, CountIsExact, Opened
  <2>3. CASE AssetsCome
    BY <2>3 DEF AssetsCome, CountIsExact, Opened
  <2>. QED BY <1>1, <1>2, <1>3, <2>1, <2>2, <2>3 DEF SceneIO
<1>4. ASSUME UNCHANGED scene \/ Restarts PROVE CountIsExact'
  BY <1>4 DEF CountIsExact, Opened, Restarts, NoScenes
<1>5. CASE ProjectIO \/ Outside \/ UNCHANGED vars
  BY <1>4, <1>5 DEF ProjectIO, AddScene, UpdateScene, RemoveScene, SetDefaultScene, SaveProject,
     CreateProject, LoadProject, Outside, CopyFile, ProcessEnds, DiesSavingProject,
     DiesSavingScene, vars
<1>. QED BY <1>3, <1>5, EntitiesCount DEF Next

\* Types hold whatever rules clients keep.
THEOREM SceneFilesTypes == Spec => []TypeOK
<1>1. Init => TypeOK
  BY DEF Init, NoScenes, TypeOK, Entries
<1>2. TypeOK /\ [Next]_vars => TypeOK'
  BY NextTypes
<1>. QED BY <1>1, <1>2, PTL DEF Spec

\* NumEntities, modulo its width: every entity of a scene is counted once, whatever
\* clients do, unless the scene was loaded with entities or a version wrapped around.
THEOREM CountStaysExact == Spec => []CountIsExact
<1>1. Init => CountIsExact
  BY DEF Init, NoScenes, CountIsExact, Opened
<1>2. TypeOK /\ CountIsExact /\ [Next]_vars => CountIsExact'
  BY NextCount
<1>. QED BY <1>1, <1>2, SceneFilesTypes, PTL DEF Spec

-----------------------------------------------------------------------------
(***************************************************************************)
(* A scene that is loaded and saved again.                                 *)
(***************************************************************************)

\* An archive lists the models of its components and no other.
ListsModels(data) == {a[1] : a \in data.assets} = {c[2] : c \in data.mesh}

ArchivesListModels == \A p \in Path : files[p] \notin {None, Torn} => ListsModels(files[p])

\* What SaveBinary writes lists the models of the components.
LEMMA SavesList ==
  ASSUME NEW sc
  PROVE  ListsModels(SaveBinary(sc))
<1>. DEFINE M == SaveBinary(sc).mesh
            A == SaveBinary(sc).assets
<1>1. M = {<<c[1], c[2]>> : c \in sc.mesh}
  BY DEF SaveBinary
<1>2. A = {<<c[2], c[3]>> : c \in sc.mesh}
  BY DEF SaveBinary
<1>. HIDE DEF M, A
<1>3. /\ \A d \in M : \E c \in sc.mesh : d = <<c[1], c[2]>>
      /\ \A c \in sc.mesh : <<c[1], c[2]>> \in M
  BY <1>1
<1>4. /\ \A a \in A : \E c \in sc.mesh : a = <<c[2], c[3]>>
      /\ \A c \in sc.mesh : <<c[2], c[3]>> \in A
  BY <1>2
<1>5. ASSUME NEW a \in A PROVE \E d \in M : a[1] = d[2]
  <2>1. PICK c \in sc.mesh : a = <<c[2], c[3]>>
    BY <1>4
  <2>2. <<c[1], c[2]>>[2] = a[1]
    BY <2>1
  <2>. QED BY <1>3, <2>2
<1>6. ASSUME NEW d \in M PROVE \E a \in A : a[1] = d[2]
  <2>1. PICK c \in sc.mesh : d = <<c[1], c[2]>>
    BY <1>3
  <2>2. <<c[2], c[3]>>[1] = d[2]
    BY <2>1
  <2>. QED BY <1>4, <2>2
<1>7. {a[1] : a \in A} = {d[2] : d \in M}
  BY <1>5, <1>6
<1>. QED BY <1>7 DEF ListsModels, M, A

\* A file is what SaveBinary wrote, a copy of it, or torn.
LEMMA NextLists ==
  ASSUME TypeOK, ArchivesListModels, [Next]_vars
  PROVE  ArchivesListModels'
<1>1. ASSUME UNCHANGED files PROVE ArchivesListModels'
  BY <1>1 DEF ArchivesListModels
<1>2. ASSUME NEW s \in Scene, NEW opens \in BOOLEAN, SaveScene(s, opens)
      PROVE  ArchivesListModels'
  <2>1. \/ files' = files
        \/ files' = [files EXCEPT ![HomeOf[scene[s].name]] = SaveBinary(scene[s])]
    BY <1>2 DEF SaveScene
  <2>. QED BY <2>1, SavesList DEF ArchivesListModels, TypeOK
<1>3. ASSUME NEW s \in Scene, DiesSavingScene(s) PROVE ArchivesListModels'
  BY <1>3 DEF DiesSavingScene, ArchivesListModels, TypeOK
<1>4. ASSUME NEW p \in Path, NEW q \in Path, CopyFile(p, q) PROVE ArchivesListModels'
  BY <1>4 DEF CopyFile, ArchivesListModels, TypeOK
<1>5. CASE Entities
  <2>1. UNCHANGED disk
    BY <1>5, EntitiesStep
  <2>. QED BY <1>1, <2>1 DEF disk
<1>6. CASE SceneIO
  BY <1>1, <1>2, <1>6 DEF SceneIO, LoadSceneFromPath, LoadSceneFromName, PendingScene, AssetsCome, disk
<1>7. CASE ProjectIO
  BY <1>1, <1>7 DEF ProjectIO, AddScene, UpdateScene, RemoveScene, SetDefaultScene, SaveProject,
     CreateProject, LoadProject, disk
<1>8. CASE Outside
  BY <1>1, <1>3, <1>4, <1>8 DEF Outside, ProcessEnds, DiesSavingProject, disk
<1>. QED BY <1>1, <1>5, <1>6, <1>7, <1>8 DEF Next, vars, disk

\* What a scene that was loaded from an archive is saved as.
SavedAgain(was, now, types) ==
  /\ now.name = was.name /\ now.plain = was.plain /\ now.mesh = was.mesh
  /\ {a[1] : a \in now.assets} = {a[1] : a \in was.assets}
  /\ Sound(was) /\ (\A c \in was.mesh : types[c[1]] = "Model") => now = was

\* The archive of the scene that is read from an archive.
LEMMA ReadIsSavedAgain ==
  ASSUME NEW data \in Archive, ListsModels(data), NEW types,
         NEW sc, sc.name = data.name, sc.plain = data.plain, sc.mesh = ReadAs(data, types)
  PROVE  SavedAgain(data, SaveBinary(sc), types)
<1>. DEFINE now == SaveBinary(sc)
<1>1. now = [name |-> data.name, plain |-> data.plain, mesh |-> {<<c[1], c[2]>> : c \in sc.mesh},
             assets |-> {<<c[2], c[3]>> : c \in sc.mesh}]
  BY DEF SaveBinary
<1>2. \A c \in data.mesh : c = <<c[1], c[2]>>
  BY DEF Archive
<1>3. /\ \A d \in sc.mesh : \E c \in data.mesh : d[1] = c[1] /\ d[2] = c[2] /\ d[3] = types[c[1]]
      /\ \A c \in data.mesh : \E d \in sc.mesh : d[1] = c[1] /\ d[2] = c[2] /\ d[3] = types[c[1]]
  <2>1. sc.mesh = {<<c[1], c[2], types[c[1]]>> : c \in data.mesh}
    BY DEF ReadAs
  <2>2. ASSUME NEW d \in sc.mesh
        PROVE  \E c \in data.mesh : d[1] = c[1] /\ d[2] = c[2] /\ d[3] = types[c[1]]
    <3>1. PICK c \in data.mesh : d = <<c[1], c[2], types[c[1]]>>
      BY <2>1
    <3>. QED BY <3>1
  <2>3. ASSUME NEW c \in data.mesh
        PROVE  \E d \in sc.mesh : d[1] = c[1] /\ d[2] = c[2] /\ d[3] = types[c[1]]
    <3>. DEFINE d == <<c[1], c[2], types[c[1]]>>
    <3>1. d \in sc.mesh
      BY <2>1
    <3>2. d[1] = c[1] /\ d[2] = c[2] /\ d[3] = types[c[1]]
      OBVIOUS
    <3>. HIDE DEF d
    <3>. QED BY <3>1, <3>2
  <2>. QED BY <2>2, <2>3
<1>4. now.mesh = data.mesh
  <2>1. now.mesh = {<<d[1], d[2]>> : d \in sc.mesh}
    BY <1>1
  <2>2. ASSUME NEW x \in now.mesh PROVE x \in data.mesh
    <3>1. PICK d \in sc.mesh : x = <<d[1], d[2]>>
      BY <2>1
    <3>2. PICK c \in data.mesh : d[1] = c[1] /\ d[2] = c[2]
      BY <1>3
    <3>. QED BY <1>2, <3>1, <3>2
  <2>3. ASSUME NEW c \in data.mesh PROVE c \in now.mesh
    <3>1. PICK d \in sc.mesh : d[1] = c[1] /\ d[2] = c[2]
      BY <1>3
    <3>2. <<d[1], d[2]>> \in now.mesh
      BY <2>1
    <3>. QED BY <1>2, <3>1, <3>2
  <2>. QED BY <2>2, <2>3
<1>5. /\ \A a \in now.assets : \E c \in data.mesh : a = <<c[2], types[c[1]]>>
      /\ \A c \in data.mesh : <<c[2], types[c[1]]>> \in now.assets
  <2>1. now.assets = {<<d[2], d[3]>> : d \in sc.mesh}
    BY <1>1
  <2>2. ASSUME NEW a \in now.assets PROVE \E c \in data.mesh : a = <<c[2], types[c[1]]>>
    <3>1. PICK d \in sc.mesh : a = <<d[2], d[3]>>
      BY <2>1
    <3>. QED BY <1>3, <3>1
  <2>3. ASSUME NEW c \in data.mesh PROVE <<c[2], types[c[1]]>> \in now.assets
    <3>1. PICK d \in sc.mesh : d[2] = c[2] /\ d[3] = types[c[1]]
      BY <1>3
    <3>2. <<d[2], d[3]>> \in now.assets
      BY <2>1
    <3>. QED BY <3>1, <3>2
  <2>. QED BY <2>2, <2>3
<1>6. {a[1] : a \in now.assets} = {a[1] : a \in data.assets}
  BY <1>4, SavesList DEF ListsModels
<1>7. ASSUME Sound(data), \A c \in data.mesh : types[c[1]] = "Model"
      PROVE  now.assets = data.assets
  <2>1. \A a \in data.assets : a = <<a[1], "Model">>
    <3>1. \A a \in data.assets : a = <<a[1], a[2]>>
      BY DEF Archive
    <3>. QED BY <1>7, <3>1 DEF Sound
  <2>2. \A c \in data.mesh : <<c[2], "Model">> \in data.assets
    BY <1>7 DEF Sound
  <2>3. now.assets \subseteq data.assets
    BY <1>5, <1>7, <2>2
  <2>4. ASSUME NEW a \in data.assets PROVE a \in now.assets
    <3>1. PICK c \in data.mesh : c[2] = a[1]
      BY DEF ListsModels
    <3>. QED BY <1>5, <1>7, <2>1, <3>1
  <2>. QED BY <2>3, <2>4
<1>8. data = [name |-> data.name, plain |-> data.plain, mesh |-> data.mesh, assets |-> data.assets]
  BY DEF Archive
<1>9. now.name = data.name /\ now.plain = data.plain
  BY <1>1
<1>10. now = [name |-> data.name, plain |-> data.plain, mesh |-> now.mesh, assets |-> now.assets]
  BY <1>1
<1>. HIDE DEF now
<1>11. Sound(data) /\ (\A c \in data.mesh : types[c[1]] = "Model") => now = data
  BY <1>4, <1>7, <1>8, <1>10
<1>. QED BY <1>4, <1>6, <1>9, <1>11 DEF SavedAgain, now

\* A scene that was loaded would be saved with the name, the components (of the entities
\* that have any) and the models of its archive, whatever rules clients keep; all that can
\* get lost is the types of the handles, and nothing is where they keep the type of a model.
THEOREM LoadedIsSavedAgain ==
  Spec => [][\A s \in Scene, p \in Path, types \in [Entity -> Type], found \in SUBSET Model :
               LoadSceneFromPath(s, p, types, found) /\ files[p] # Torn
               => SavedAgain(files[p], SaveBinary(scene[s])', types)]_vars
<1>. DEFINE Again == \A s \in Scene, p \in Path, types \in [Entity -> Type], found \in SUBSET Model :
               LoadSceneFromPath(s, p, types, found) /\ files[p] # Torn
               => SavedAgain(files[p], SaveBinary(scene[s])', types)
<1>1. Init => ArchivesListModels
  BY DEF Init, ArchivesListModels
<1>2. TypeOK /\ ArchivesListModels /\ [Next]_vars => ArchivesListModels'
  BY NextLists
<1>3. TypeOK /\ ArchivesListModels => Again
  <2>1. SUFFICES ASSUME TypeOK, ArchivesListModels, NEW s \in Scene, NEW p \in Path,
                        NEW types \in [Entity -> Type], NEW found \in SUBSET Model,
                        LoadSceneFromPath(s, p, types, found), files[p] # Torn
                 PROVE  SavedAgain(files[p], SaveBinary(scene[s])', types)
    OBVIOUS
  <2>. DEFINE data == files[p]
              r == [name |-> data.name, used |-> UsedBy(data), plain |-> data.plain,
                    mesh |-> ReadAs(data, types), count |-> 0, active |-> FALSE,
                    exact |-> UsedBy(data) = {}]
  <2>2. scene'[s] = r
    BY <2>1 DEF LoadSceneFromPath, TypeOK
  <2>3. data \in Archive /\ ListsModels(data)
    BY <2>1 DEF LoadSceneFromPath, TypeOK, ArchivesListModels
  <2>4. r.name = data.name /\ r.plain = data.plain /\ r.mesh = ReadAs(data, types)
    OBVIOUS
  <2>5. SaveBinary(scene[s])' = SaveBinary(scene'[s])
    BY DEF SaveBinary
  <2>. HIDE DEF r, data
  <2>6. SavedAgain(data, SaveBinary(r), types)
    BY <2>3, <2>4, ReadIsSavedAgain
  <2>. QED BY <2>2, <2>5, <2>6 DEF data
<1>. QED BY <1>1, <1>2, <1>3, SceneFilesTypes, PTL DEF Spec
=============================================================================
