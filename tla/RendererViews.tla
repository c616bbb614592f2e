---------------------------- MODULE RendererViews ----------------------------
(***************************************************************************)
(* The tables of turas::Renderer: pipeline templates, views with their     *)
(* pipelines, viewports and shader programs, and what PostFrame does with  *)
(* them each frame.  Viewports and camera views hold raw pointers, to a    *)
(* View and to a Scene.  Everything happens on the main thread: clients    *)
(* (the editor, a game's code) act, then the frame is submitted.           *)
(***************************************************************************)
EXTENDS FiniteSets

CONSTANTS
  Name,      \* names of views and viewports, up to Utils::Hash
  SceneName, \* the name of the editor's view, and of its viewport
  Object,    \* addresses of View objects; a freed one may be used again
  Scene,     \* addresses of Scene objects
  Template,  \* hashes of pipeline templates
  BuiltIn,   \* the template that AddBuiltInPipelines adds
  Owning,    \* templates whose command dispatchers own GPU objects
  Program,   \* names of shader programs
  Stage,     \* names of shader stages
  StagesOf,  \* the two stages a program is linked from
  Uses,      \* the programs that the callback of a template creates
  Rules      \* what clients take care of, see below

\* Rules that the code relies on and does not enforce.
AllRules == {"named",    \* a view is constructed with the name it is filed under
             "staged",   \* pipelines and viewports are made when their shaders exist
             "pointed",  \* a viewport has a view when the frame is submitted
             "shown",    \* a view is not destroyed while a viewport shows it
             "live",     \* SetViewportView gets a view that exists
             "filmed"}   \* a scene is not closed while a camera view films it

ASSUME RendererAssumption ==
  /\ SceneName \in Name
  /\ BuiltIn \in Owning /\ Owning \subseteq Template
  /\ "Present" \in Program
  /\ StagesOf \in [Program -> SUBSET Stage]
  /\ Uses \in [Template -> SUBSET Program]
  /\ Rules \subseteq AllRules

\* No entry; an entry that operator[] made, without view and pipeline; a null
\* pointer to a view; a null pointer to a scene.
Absent == "absent"
Hollow == "hollow"
Null   == "null"

ASSUME PointersAssumption ==
  /\ Object \cap {Absent, Hollow, Null} = {}
  /\ Null \notin Scene

VARIABLES
  templates,  \* keys of p_CreatePipelineCallbacks
  stages,     \* keys of p_ShaderStages
  programs,   \* keys of p_ShaderPrograms
  views,      \* p_ViewData; the view of an entry
  owned,      \* the GPU objects of the pipeline of an entry
  name,       \* m_Hash of a view
  camera,     \* m_Scene of a view, null unless it is a SceneCameraView with a scene
  viewports,  \* p_Viewports; the m_View of an entry
  presents,   \* which viewports are PresentToImageViewports
  scenes,     \* m_ActiveScenes
  project,    \* whether Engine::m_Project is set
  phase,      \* who acts
  leaked,     \* history: GPU objects whose owner died without freeing them
  reused      \* history: whether a name that was taken was created again

tables == <<templates, stages, programs>>
filed  == <<views, owned>>
heap   == <<name, camera>>
ports  == <<viewports, presents>>
ghost  == <<leaked, reused>>
vars   == <<tables, filed, heap, ports, scenes, project, phase, ghost>>

\* GPU objects, by who frees them: what Pipeline::Free reaches, what the command
\* dispatchers of a pipeline own, what the Free of a viewport reaches.
PipelineObjects == {"pipeline", "dispatcher"}
GpuObjects      == PipelineObjects \cup {"viewport"}

TypeOK ==
  /\ templates \subseteq Template
  /\ stages \subseteq Stage
  /\ programs \subseteq Program
  /\ views \in [Name -> Object \cup {Absent, Hollow}]
  /\ owned \in [Name -> SUBSET PipelineObjects]
  /\ name \in [Object -> Name]
  /\ camera \in [Object -> Scene \cup {Null}]
  /\ viewports \in [Name -> Object \cup {Absent, Null}]
  /\ presents \subseteq Name
  /\ scenes \subseteq Scene
  /\ project \in BOOLEAN
  /\ phase \in {"client", "frame", "crashed", "down"}
  /\ leaked \subseteq GpuObjects
  /\ reused \in BOOLEAN

\* The views that exist, and the viewports.
Alive  == {views[n] : n \in Name} \ {Absent, Hollow}
Opened == {p \in Name : viewports[p] # Absent}

\* Renderer::Start has loaded the stages it found in the shaders directory.
Init ==
  /\ templates = {}
  /\ stages \in SUBSET Stage
  /\ programs = {}
  /\ views = [n \in Name |-> Absent]
  /\ owned = [n \in Name |-> {}]
  /\ name \in [Object -> Name]
  /\ camera = [o \in Object |-> Null]
  /\ viewports = [n \in Name |-> Absent]
  /\ presents = {}
  /\ scenes = {}
  /\ project = FALSE
  /\ phase = "client"
  /\ leaked = {}
  /\ reused = FALSE

(***************************************************************************)
(* Operations of the renderer, called by clients.                          *)
(***************************************************************************)
AddPipelineTemplate(t) ==
  /\ phase = "client"
  /\ templates' = templates \cup {t}
  /\ UNCHANGED <<stages, programs, filed, heap, ports, scenes, project, phase, ghost>>

RemovePipelineTemplate(t) ==
  /\ phase = "client"
  /\ templates' = templates \ {t}
  /\ UNCHANGED <<stages, programs, filed, heap, ports, scenes, project, phase, ghost>>

\* CreateShaderVF returns null unless both stages are loaded, and else the program
\* of that name, which it links if there is none.
Linkable(p) == StagesOf[p] \subseteq stages

CreateShader(p) ==
  /\ phase = "client"
  /\ Linkable(p)
  /\ programs' = programs \cup {p}
  /\ UNCHANGED <<templates, stages, filed, heap, ports, scenes, project, phase, ghost>>

DestroyShader(p) ==
  /\ phase = "client"
  /\ programs' = programs \ {p}
  /\ UNCHANGED <<templates, stages, filed, heap, ports, scenes, project, phase, ghost>>

\* Mutant: operator[] where the code uses emplace.
FiledAlways(n, o) == [views EXCEPT ![n] = o]

\* p_ViewData.emplace: an entry that is there, even a hollow one, is kept.
Filed(n, o) == IF views[n] = Absent THEN [views EXCEPT ![n] = o] ELSE views

\* What the callback of a template makes: framebuffers, materials and a quad, and
\* for the built-in one the VkPipelineData that its command dispatchers get.
Makes(t) == IF t \in Owning THEN PipelineObjects ELSE {"pipeline"}

\* The view and the pipeline that emplace does not take die with the temporary
\* ViewData: the pipeline without Free, and its GPU objects with it.
NewView(n, t, o, own, scene) ==
  /\ views' = Filed(n, o)
  /\ name' = [name EXCEPT ![o] = own]
  /\ camera' = [camera EXCEPT ![o] = scene]
  /\ IF views[n] = Absent
     THEN owned' = [owned EXCEPT ![n] = Makes(t)] /\ UNCHANGED leaked
     ELSE leaked' = leaked \cup Makes(t) /\ UNCHANGED owned
  /\ reused' = (reused \/ views[n] # Absent)

\* CreateView: null without the template; the callback of the template makes its
\* programs and dereferences them.  The new View is at an address not in use.
CreateView(n, t, o, own, scene) ==
  /\ phase = "client"
  /\ t \in templates
  /\ o \notin Alive
  /\ "named" \in Rules => own = n
  /\ "staged" \in Rules => \A p \in Uses[t] : Linkable(p)
  /\ scene \in scenes \cup {Null}
  /\ IF \A p \in Uses[t] : Linkable(p)
     THEN /\ programs' = programs \cup Uses[t]
          /\ NewView(n, t, o, own, scene)
          /\ UNCHANGED phase
     ELSE /\ phase' = "crashed"
          /\ UNCHANGED <<programs, filed, heap, ghost>>
  /\ UNCHANGED <<templates, stages, ports, scenes, project>>

\* Mutant: the pipeline of an entry is not freed before the entry goes.
LosesAll(objects) == objects

\* ViewData::Free calls Pipeline::Free, which frees m_LvkPipeline and m_PresentQuad
\* and nothing that the command dispatchers own: those die with the entry.
Unfreed(objects) == objects \ {"pipeline"}

\* DestroyView; the pipeline pointer of a hollow entry is dereferenced.
DestroyView(n) ==
  /\ phase = "client"
  /\ views[n] # Absent
  /\ "shown" \in Rules => \A p \in Opened : viewports[p] # views[n]
  /\ IF views[n] = Hollow
     THEN phase' = "crashed" /\ UNCHANGED <<filed, leaked>>
     ELSE /\ views' = [views EXCEPT ![n] = Absent]
          /\ owned' = [owned EXCEPT ![n] = {}]
          /\ leaked' = leaked \cup Unfreed(owned[n])
          /\ UNCHANGED phase
  /\ UNCHANGED <<tables, heap, ports, scenes, project, reused>>

\* GetPresentShader finds the program if a client has linked it.  It cannot link it
\* itself: it passes the name of the program in the place of the vertex stage.
PresentShaderFound == "Present" \in programs

\* CreateViewport; the view of a new viewport is null.
NewViewport(p, present) ==
  /\ viewports' = IF p \in Opened THEN viewports ELSE [viewports EXCEPT ![p] = Null]
  /\ presents' = IF present /\ p \notin Opened THEN presents \cup {p} ELSE presents
  /\ leaked' = IF present /\ p \in Opened THEN leaked \cup {"viewport"} ELSE leaked
  /\ reused' = (reused \/ p \in Opened)

CreateViewport(p, present) ==
  /\ phase = "client"
  /\ "staged" \in Rules => (present => PresentShaderFound)
  /\ IF present => PresentShaderFound
     THEN NewViewport(p, present) /\ UNCHANGED phase
     ELSE phase' = "crashed" /\ UNCHANGED <<ports, ghost>>
  /\ UNCHANGED <<tables, filed, heap, scenes, project>>

\* SetViewportView: nothing happens with a null view or an unknown viewport.
SetViewportView(p, o) ==
  /\ phase = "client"
  /\ p \in Opened
  /\ "live" \in Rules => o \in Alive
  /\ viewports' = [viewports EXCEPT ![p] = o]
  /\ UNCHANGED <<tables, filed, heap, presents, scenes, project, phase, ghost>>

\* A SceneCameraView that films a scene is turned to another one, or to none.
TurnCamera(o, s) ==
  /\ phase = "client"
  /\ o \in Alive /\ camera[o] # Null
  /\ camera' = [camera EXCEPT ![o] = s]
  /\ UNCHANGED <<tables, filed, name, ports, scenes, project, phase, ghost>>

\* AddViewsAndViewports of the editor: what CreateView returns, the view that is
\* filed under the name, is shown; a null pointer is not.
ViewShown(p, shown) ==
  viewports' = [viewports EXCEPT ![p] =
                  IF shown # Hollow THEN shown ELSE IF p \in Opened THEN @ ELSE Null]

\* PostLoadProject in the editor, once per engine: AddBuiltInPipelines, then
\* AddViewsAndViewports with a view that films no scene.
PostLoadProject(o) ==
  /\ phase = "client"
  /\ ~project
  /\ o \notin Alive
  /\ "staged" \in Rules => \A q \in Uses[BuiltIn] : Linkable(q)
  /\ project' = TRUE
  /\ templates' = templates \cup {BuiltIn}
  /\ IF \A q \in Uses[BuiltIn] : Linkable(q)
     THEN /\ programs' = programs \cup Uses[BuiltIn]
          /\ NewView(SceneName, BuiltIn, o, SceneName, Null)
          /\ ViewShown(SceneName, views'[SceneName])
          /\ UNCHANGED phase
     ELSE /\ phase' = "crashed"
          /\ UNCHANGED <<programs, filed, heap, viewports, ghost>>
  /\ UNCHANGED <<stages, presents, scenes>>

(***************************************************************************)
(* Scenes, as far as the renderer sees them.                               *)
(***************************************************************************)
CreateScene(s) ==
  /\ phase = "client"
  /\ scenes' = scenes \cup {s}
  /\ UNCHANGED <<tables, filed, heap, ports, project, phase, ghost>>

CloseScene(s) ==
  /\ phase = "client"
  /\ "filmed" \in Rules => \A o \in Alive : camera[o] # s
  /\ scenes' = scenes \ {s}
  /\ UNCHANGED <<tables, filed, heap, ports, project, phase, ghost>>

(***************************************************************************)
(* The frame.                                                              *)
(***************************************************************************)
ClientReturns ==
  /\ phase = "client"
  /\ "pointed" \in Rules => \A p \in Opened : viewports[p] # Null
  /\ phase' = "frame"
  /\ UNCHANGED <<tables, filed, heap, ports, scenes, project, ghost>>

Shown == {viewports[p] : p \in Opened} \ {Null}

\* Mutant: an entry is filed as hollow whether or not it is there.
HollowAlways ==
  [n \in Name |-> IF \E o \in Shown : name[o] = n THEN Hollow ELSE views[n]]

\* p_ViewData[viewport_data.m_View->m_Hash] inserts what it does not find.
Inserted ==
  [n \in Name |-> IF views[n] = Absent /\ \E o \in Shown : name[o] = n
                  THEN Hollow ELSE views[n]]

\* GetViewMatrix and GetProjectionMatrix of a SceneCameraView look into its scene.
Filmable(o) == camera[o] \in scenes \cup {Null}

\* Update of the viewports: skips a viewport without a view and one without a pipeline.
Updates ==
  \A o \in Shown : o \in Alive /\ (Inserted[name[o]] # Hollow => Filmable(o))

\* State updaters and command dispatchers of every pipeline, for every scene.
Draws ==
  scenes # {} => \A n \in Name : Inserted[n] # Hollow /\ (Inserted[n] # Absent => Filmable(Inserted[n]))

\* RecordViewportCommands: every viewport needs its view, and one that presents
\* needs the quad of its pipeline.
Records ==
  \A p \in Opened :
    /\ viewports[p] # Null
    /\ p \in presents => Inserted[name[viewports[p]]] # Hollow

PostFrame ==
  /\ phase = "frame"
  /\ IF Updates /\ Draws /\ Records
     THEN views' = Inserted /\ phase' = "client"
     ELSE phase' = "crashed" /\ UNCHANGED views
  /\ UNCHANGED <<tables, owned, heap, ports, scenes, project, ghost>>

\* Mutant: Reset leaves the views in their table.
KeepsViews == views

\* Reset frees the programs, the pipelines (by the same ViewData::Free) and the
\* viewports, and clears the tables.
ClearsViews == [n \in Name |-> Absent]

\* Engine::Shutdown, after it closed the scenes: Reset, then the device goes.  The
\* null pipeline of a hollow entry is dereferenced.
Shutdown ==
  /\ phase = "client"
  /\ scenes' = {}
  /\ stages' = {}
  /\ programs' = {}
  /\ IF \E n \in Name : views[n] = Hollow
     THEN phase' = "crashed" /\ UNCHANGED <<filed, ports, leaked>>
     ELSE /\ views' = ClearsViews
          /\ owned' = [n \in Name |-> {}]
          /\ leaked' = leaked \cup Unfreed(UNION {owned[n] : n \in Name})
          /\ viewports' = [n \in Name |-> Absent]
          /\ presents' = {}
          /\ phase' = "down"
  /\ UNCHANGED <<templates, heap, project, reused>>

Ended == phase \in {"crashed", "down"} /\ UNCHANGED vars

Client ==
  \/ \E t \in Template : AddPipelineTemplate(t) \/ RemovePipelineTemplate(t)
  \/ \E p \in Program : CreateShader(p) \/ DestroyShader(p)
  \/ \E n \in Name :
       \/ \E t \in Template, o \in Object, own \in Name, s \in Scene \cup {Null} :
            CreateView(n, t, o, own, s)
       \/ DestroyView(n)
       \/ \E present \in BOOLEAN : CreateViewport(n, present)
       \/ \E o \in Object : SetViewportView(n, o)
  \/ \E o \in Object :
       \/ PostLoadProject(o)
       \/ \E s \in scenes \cup {Null} : TurnCamera(o, s)
  \/ \E s \in Scene : CreateScene(s) \/ CloseScene(s)
  \/ Shutdown

Next == Client \/ ClientReturns \/ PostFrame \/ Ended

Spec == Init /\ [][Next]_vars
-----------------------------------------------------------------------------
(***************************************************************************)
(* Properties.                                                             *)
(***************************************************************************)

\* For clients that keep the rules, no operation and no frame dereferences a null
\* pointer or an object that was destroyed.
NoCrash == phase # "crashed"

\* A viewport shows a view that exists and is filed under its own name, so that the
\* lookup in PostFrame finds its pipeline and inserts nothing.
ShownViewsAreFiled ==
  \A p \in Opened : viewports[p] # Null => views[name[viewports[p]]] = viewports[p]

\* The scene that a view films is active.
FilmedScenesAreActive == \A o \in Alive : Filmable(o)

\* Of the GPU objects that Pipeline::Free and the Free of a viewport reach, none is
\* lost unless a client creates a view or a viewport under a name that is taken: a
\* view that is filed has them, its DestroyView or the shutdown frees them.  The
\* objects of the command dispatchers are not among them, those are always lost.
FreedUnlessReused ==
  /\ \A n \in Name : views[n] \in Object <=> "pipeline" \in owned[n]
  /\ leaked \ {"dispatcher"} # {} => reused

\* A view stays in its entry until it is destroyed: creating the same name again
\* does not pull it from under the pointers that clients and viewports hold.
ViewsAreStable ==
  [][\A n \in Name : views[n] \in Object => views'[n] \in {views[n], Absent}]_vars

\* The inductive invariant behind NoCrash, under all rules.
RendererInv ==
  /\ TypeOK
  /\ \A n \in Name : views[n] # Hollow /\ (views[n] # Absent => name[views[n]] = n)
  /\ ShownViewsAreFiled
  /\ FilmedScenesAreActive
  /\ presents \subseteq Opened
  /\ phase = "frame" => \A p \in Opened : viewports[p] # Null
  /\ NoCrash
  /\ FreedUnlessReused
=============================================================================
