------------------------- MODULE RendererViewsProofs -------------------------
(* Proofs about RendererViews, for any number of names, views and scenes.  *)
EXTENDS RendererViews, TLAPS

\* A new renderer satisfies the invariant.
LEMMA InitRendererInv == Init => RendererInv
<1> SUFFICES ASSUME Init PROVE RendererInv
  OBVIOUS
<1> USE RendererAssumption, PointersAssumption
         DEF Init, Absent, Hollow, Null
<1>1. TypeOK
  BY DEF TypeOK
<1>2. /\ Opened = {} /\ Alive = {}
      /\ \A n \in Name : views[n] = Absent
  BY DEF Opened, Alive
<1> QED
  BY <1>1, <1>2 DEF RendererInv, ShownViewsAreFiled, FilmedScenesAreActive, NoCrash,
     FreedUnlessReused

\* What the creation of a view does to the invariant's parts: the new view is filed
\* under its own name, or nowhere.
LEMMA NewViewFiled ==
  ASSUME RendererInv,
         NEW n \in Name, NEW t \in Template, NEW o \in Object, o \notin Alive,
         NEW s \in scenes \cup {Null},
         NewView(n, t, o, n, s)
  PROVE  /\ views' \in [Name -> Object \cup {Absent, Hollow}]
         /\ name' \in [Object -> Name]
         /\ camera' \in [Object -> Scene \cup {Null}]
         /\ \A m \in Name : views'[m] # Hollow /\ (views'[m] # Absent => name'[views'[m]] = m)
         /\ \A m \in Name : views[m] # Absent => views'[m] = views[m]
         /\ views'[n] \in Object
         /\ \A v \in Alive : name'[v] = name[v] /\ camera'[v] = camera[v]
         /\ Alive \subseteq Alive'
         /\ \A v \in Alive' : camera'[v] \in scenes \cup {Null}
         /\ owned' \in [Name -> SUBSET PipelineObjects]
         /\ \A m \in Name : views'[m] \in Object <=> "pipeline" \in owned'[m]
         /\ leaked' \subseteq GpuObjects /\ reused' \in BOOLEAN
         /\ leaked' \ {"dispatcher"} # {} => reused'
<1> USE PointersAssumption DEF Absent, Hollow, Null
<1>1. /\ TypeOK /\ FreedUnlessReused
      /\ \A v \in Alive : camera[v] \in scenes \cup {Null}
  BY DEF RendererInv, FilmedScenesAreActive, Filmable
<1>2. /\ views' = Filed(n, o)
      /\ name' = [name EXCEPT ![o] = n]
      /\ camera' = [camera EXCEPT ![o] = s]
  BY DEF NewView
<1>3. \A m \in Name : views[m] # Absent => views[m] \in Alive /\ views[m] # o
  BY DEF RendererInv, Alive
<1>4. \A m \in Name : views'[m] = views[m] \/ (m = n /\ views[m] = Absent /\ views'[m] = o)
  BY <1>1, <1>2 DEF TypeOK, Filed
<1>5. views' \in [Name -> Object \cup {Absent, Hollow}]
  BY <1>1, <1>2 DEF TypeOK, Filed
<1>6. name' \in [Object -> Name] /\ camera' \in [Object -> Scene \cup {Null}]
  BY <1>1, <1>2 DEF TypeOK
<1>7. Alive \subseteq Object
  BY <1>1 DEF TypeOK, Alive
<1>8. \A v \in Alive : v # o /\ name'[v] = name[v] /\ camera'[v] = camera[v]
  BY <1>1, <1>2, <1>7 DEF TypeOK
<1>9. name'[o] = n /\ camera'[o] = s
  BY <1>1, <1>2 DEF TypeOK
<1>10. \A v \in Alive' : v \in Alive \/ v = o
  BY <1>4 DEF Alive
<1>11. Alive \subseteq Alive'
  BY <1>4 DEF Alive
<1>12. \A m \in Name : views'[m] # Hollow /\ (views'[m] # Absent => name'[views'[m]] = m)
  <2> TAKE m \in Name
  <2>1. CASE views'[m] = views[m]
    BY <2>1, <1>3, <1>8 DEF RendererInv
  <2>2. CASE m = n /\ views'[m] = o
    BY <2>2, <1>9
  <2> QED
    BY <2>1, <2>2, <1>4
<1>13. views'[n] \in Object
  BY <1>1, <1>2, <1>5, <1>12 DEF TypeOK, Filed
<1>14. /\ Makes(t) \subseteq PipelineObjects /\ Makes(t) \subseteq GpuObjects
       /\ "pipeline" \in Makes(t)
  BY DEF Makes, PipelineObjects, GpuObjects
<1>15. /\ leaked' \subseteq GpuObjects /\ reused' \in BOOLEAN
       /\ leaked' \ {"dispatcher"} # {} => reused'
  BY <1>1, <1>14 DEF NewView, TypeOK, FreedUnlessReused
<1>16. owned' = IF views[n] = Absent THEN [owned EXCEPT ![n] = Makes(t)] ELSE owned
  BY DEF NewView
<1>17. /\ owned' \in [Name -> SUBSET PipelineObjects]
       /\ \A m \in Name : owned'[m] = IF m = n /\ views[n] = Absent THEN Makes(t) ELSE owned[m]
  BY <1>1, <1>14, <1>16 DEF TypeOK
<1>18. \A m \in Name : views'[m] \in Object <=> "pipeline" \in owned'[m]
  <2> TAKE m \in Name
  <2>1. CASE m = n /\ views[n] = Absent
    BY <2>1, <1>13, <1>14, <1>17
  <2>2. CASE ~(m = n /\ views[n] = Absent)
    BY <2>2, <1>1, <1>4, <1>17 DEF FreedUnlessReused
  <2> QED
    BY <2>1, <2>2
<1> QED
  BY <1>1, <1>3, <1>4, <1>5, <1>6, <1>8, <1>9, <1>10, <1>11, <1>12, <1>13, <1>15, <1>17, <1>18

\* A viewport that shows a view keeps showing it when a view is created.
LEMMA NewViewKeepsShown ==
  ASSUME RendererInv,
         NEW n \in Name, NEW t \in Template, NEW o \in Object, o \notin Alive,
         NEW s \in scenes \cup {Null},
         NewView(n, t, o, n, s)
  PROVE  \A p \in Opened : viewports[p] # Null =>
            /\ viewports[p] \in Alive
            /\ views'[name'[viewports[p]]] = viewports[p]
<1> USE PointersAssumption DEF Absent, Hollow, Null
<1> SUFFICES ASSUME NEW p \in Opened, viewports[p] # Null
             PROVE  /\ viewports[p] \in Alive
                    /\ views'[name'[viewports[p]]] = viewports[p]
  OBVIOUS
<1>1. viewports[p] \in Object /\ views[name[viewports[p]]] = viewports[p]
  BY DEF RendererInv, TypeOK, Opened, ShownViewsAreFiled
<1>2. name[viewports[p]] \in Name
  BY <1>1 DEF RendererInv, TypeOK
<1>3. viewports[p] \in Alive
  BY <1>1, <1>2 DEF Alive
<1> QED
  BY <1>1, <1>2, <1>3, NewViewFiled

\* Nothing but the phase, the tables of templates and shaders and the viewports that
\* have no view depends on the rest: what a step has to keep.
LEMMA SameViews ==
  ASSUME RendererInv, UNCHANGED <<filed, heap>>,
         viewports' \in [Name -> Object \cup {Absent, Null}],
         presents' \subseteq Opened',
         \A p \in Opened' : viewports'[p] # Null => viewports'[p] \in Alive,
         scenes' \subseteq Scene,
         \A o \in Alive : camera[o] \in scenes' \cup {Null},
         templates' \subseteq Template, stages' \subseteq Stage, programs' \subseteq Program,
         project' \in BOOLEAN,
         phase' \in {"client", "frame", "down"},
         phase' = "frame" => \A p \in Opened' : viewports'[p] # Null,
         leaked' \subseteq GpuObjects, reused' \in BOOLEAN,
         leaked' \ {"dispatcher"} # {} => reused'
  PROVE  RendererInv'
<1>1. views' = views /\ owned' = owned /\ name' = name /\ camera' = camera
  BY DEF filed, heap
<1>2. /\ owned \in [Name -> SUBSET PipelineObjects]
      /\ \A n \in Name : views[n] \in Object <=> "pipeline" \in owned[n]
      /\ views \in [Name -> Object \cup {Absent, Hollow}]
      /\ name \in [Object -> Name]
      /\ camera \in [Object -> Scene \cup {Null}]
      /\ \A n \in Name : views[n] # Hollow /\ (views[n] # Absent => name[views[n]] = n)
  BY DEF RendererInv, TypeOK, FreedUnlessReused
<1>3. presents' \subseteq Name
  BY DEF Opened
<1>4. TypeOK'
  BY <1>1, <1>2, <1>3 DEF TypeOK
<1>5. \A o \in Alive : views[name[o]] = o /\ o \in Object
  BY <1>2 DEF Alive
<1>6. Alive' = Alive
  BY <1>1 DEF Alive
<1>7. ShownViewsAreFiled'
  BY <1>1, <1>5 DEF ShownViewsAreFiled
<1>8. FilmedScenesAreActive'
  BY <1>1, <1>6 DEF FilmedScenesAreActive, Filmable
<1> QED
  BY <1>1, <1>2, <1>4, <1>7, <1>8 DEF RendererInv, NoCrash, FreedUnlessReused

\* The viewports of a state with the invariant, in the form SameViews asks for.
LEMMA ShownAreAlive ==
  ASSUME RendererInv
  PROVE  \A p \in Opened : viewports[p] # Null => viewports[p] \in Alive
<1> USE PointersAssumption DEF Absent, Hollow, Null
<1> SUFFICES ASSUME NEW p \in Opened, viewports[p] # Null PROVE viewports[p] \in Alive
  OBVIOUS
<1>1. viewports[p] \in Object /\ views[name[viewports[p]]] = viewports[p]
  BY DEF RendererInv, TypeOK, Opened, ShownViewsAreFiled
<1>2. name[viewports[p]] \in Name
  BY <1>1 DEF RendererInv, TypeOK
<1> QED
  BY <1>1, <1>2 DEF Alive

-----------------------------------------------------------------------------
\* The creation of a view by a client.
LEMMA CreateViewKeeps ==
  ASSUME Rules = AllRules, RendererInv,
         NEW n \in Name, NEW t \in Template, NEW o \in Object, NEW own \in Name,
         NEW s \in Scene \cup {Null}, CreateView(n, t, o, own, s)
  PROVE  RendererInv'
<1>1. /\ NewView(n, t, o, n, s) /\ s \in scenes \cup {Null} /\ o \notin Alive
      /\ programs' = programs \cup Uses[t] /\ phase' = "client"
      /\ UNCHANGED <<templates, stages, ports, scenes, project>>
  BY DEF CreateView, AllRules
<1>2. /\ views' \in [Name -> Object \cup {Absent, Hollow}]
      /\ name' \in [Object -> Name]
      /\ camera' \in [Object -> Scene \cup {Null}]
      /\ \A m \in Name : views'[m] # Hollow /\ (views'[m] # Absent => name'[views'[m]] = m)
      /\ \A v \in Alive' : camera'[v] \in scenes \cup {Null}
      /\ owned' \in [Name -> SUBSET PipelineObjects]
      /\ \A m \in Name : views'[m] \in Object <=> "pipeline" \in owned'[m]
      /\ leaked' \subseteq GpuObjects /\ reused' \in BOOLEAN
      /\ leaked' \ {"dispatcher"} # {} => reused'
  BY <1>1, NewViewFiled
<1>3. TypeOK'
  BY <1>1, <1>2, RendererAssumption DEF RendererInv, TypeOK, ports
<1>4. ShownViewsAreFiled'
  BY <1>1, NewViewKeepsShown DEF ShownViewsAreFiled, Opened, ports
<1>5. FilmedScenesAreActive'
  BY <1>1, <1>2 DEF FilmedScenesAreActive, Filmable
<1>6. presents' \subseteq Opened'
  BY <1>1 DEF RendererInv, Opened, ports
<1> QED
  BY <1>1, <1>2, <1>3, <1>4, <1>5, <1>6 DEF RendererInv, NoCrash, FreedUnlessReused

\* The creation of the editor's view and viewport.
LEMMA PostLoadProjectKeeps ==
  ASSUME Rules = AllRules, RendererInv, NEW o \in Object, PostLoadProject(o)
  PROVE  RendererInv'
<1> USE PointersAssumption, RendererAssumption DEF Absent, Hollow, Null
<1>1. /\ NewView(SceneName, BuiltIn, o, SceneName, Null) /\ o \notin Alive
      /\ ViewShown(SceneName, views'[SceneName])
      /\ programs' = programs \cup Uses[BuiltIn] /\ phase' = "client"
      /\ templates' = templates \cup {BuiltIn} /\ project' = TRUE
      /\ UNCHANGED <<stages, presents, scenes>>
  BY DEF PostLoadProject, AllRules
<1>2. /\ views' \in [Name -> Object \cup {Absent, Hollow}]
      /\ name' \in [Object -> Name]
      /\ camera' \in [Object -> Scene \cup {Null}]
      /\ \A m \in Name : views'[m] # Hollow /\ (views'[m] # Absent => name'[views'[m]] = m)
      /\ \A v \in Alive' : camera'[v] \in scenes \cup {Null}
      /\ views'[SceneName] \in Object
      /\ owned' \in [Name -> SUBSET PipelineObjects]
      /\ \A m \in Name : views'[m] \in Object <=> "pipeline" \in owned'[m]
      /\ leaked' \subseteq GpuObjects /\ reused' \in BOOLEAN
      /\ leaked' \ {"dispatcher"} # {} => reused'
  BY <1>1, NewViewFiled
<1>3. viewports' = [viewports EXCEPT ![SceneName] = views'[SceneName]]
  BY <1>1, <1>2 DEF ViewShown
<1>4. viewports \in [Name -> Object \cup {Absent, Null}]
  BY DEF RendererInv, TypeOK
<1>5. viewports' \in [Name -> Object \cup {Absent, Null}]
  BY <1>2, <1>3, <1>4
<1>6. TypeOK'
  BY <1>1, <1>2, <1>5 DEF RendererInv, TypeOK
<1>7. ShownViewsAreFiled'
  <2> SUFFICES ASSUME NEW p \in Opened', viewports'[p] # Null
               PROVE  views'[name'[viewports'[p]]] = viewports'[p]
    BY DEF ShownViewsAreFiled
  <2>1. CASE p = SceneName
    BY <2>1, <1>2, <1>3, <1>4
  <2>2. CASE p # SceneName
    <3>1. viewports'[p] = viewports[p] /\ p \in Opened
      BY <2>2, <1>3, <1>4 DEF Opened
    <3> QED
      BY <3>1, <1>1, NewViewKeepsShown
  <2> QED
    BY <2>1, <2>2
<1>8. FilmedScenesAreActive'
  BY <1>1, <1>2 DEF FilmedScenesAreActive, Filmable
<1>9. presents' \subseteq Opened'
  BY <1>1, <1>2, <1>3, <1>4 DEF RendererInv, Opened
<1> QED
  BY <1>1, <1>2, <1>6, <1>7, <1>8, <1>9 DEF RendererInv, NoCrash, FreedUnlessReused

\* The removal of a view that no viewport shows.
LEMMA DestroyViewKeeps ==
  ASSUME Rules = AllRules, RendererInv, NEW n \in Name, DestroyView(n)
  PROVE  RendererInv'
<1> USE PointersAssumption DEF Absent, Hollow, Null
<1>1. /\ views' = [views EXCEPT ![n] = Absent] /\ views[n] # Absent
      /\ owned' = [owned EXCEPT ![n] = {}]
      /\ leaked' = leaked \cup Unfreed(owned[n]) /\ phase' = "client"
      /\ \A p \in Opened : viewports[p] # views[n]
      /\ UNCHANGED <<tables, heap, ports, scenes, project, reused>>
  BY DEF DestroyView, RendererInv, AllRules
<1>2. /\ views \in [Name -> Object \cup {Absent, Hollow}]
      /\ owned \in [Name -> SUBSET PipelineObjects]
      /\ leaked \subseteq GpuObjects
      /\ FreedUnlessReused
  BY DEF RendererInv, TypeOK
<1>3. /\ owned' \in [Name -> SUBSET PipelineObjects]
       /\ leaked' \subseteq leaked \cup {"dispatcher"} /\ leaked' \subseteq GpuObjects
  BY <1>1, <1>2 DEF Unfreed, PipelineObjects, GpuObjects
<1>4. FreedUnlessReused'
  <2>1. \A m \in Name : views'[m] \in Object <=> "pipeline" \in owned'[m]
    BY <1>1, <1>2 DEF FreedUnlessReused
  <2>2. leaked' \ {"dispatcher"} # {} => reused'
    BY <1>1, <1>2, <1>3 DEF FreedUnlessReused
  <2> QED
    BY <2>1, <2>2 DEF FreedUnlessReused
<1>5. TypeOK'
  BY <1>1, <1>2, <1>3 DEF RendererInv, TypeOK, tables, heap, ports
<1>6. \A m \in Name : views'[m] = IF m = n THEN Absent ELSE views[m]
  BY <1>1, <1>2
<1>7. \A m \in Name : views'[m] # Hollow /\ (views'[m] # Absent => name'[views'[m]] = m)
  BY <1>1, <1>6 DEF RendererInv, heap
<1>8. Alive' \subseteq Alive
  BY <1>6 DEF Alive
<1>9. ShownViewsAreFiled'
  BY <1>1, <1>6, ShownAreAlive DEF RendererInv, TypeOK, ShownViewsAreFiled, Opened, heap, ports
<1>10. FilmedScenesAreActive'
  BY <1>1, <1>8 DEF RendererInv, FilmedScenesAreActive, Filmable, heap
<1>11. presents' \subseteq Opened'
  BY <1>1 DEF RendererInv, Opened, ports
<1> QED
  BY <1>1, <1>5, <1>7, <1>9, <1>10, <1>11, <1>4 DEF RendererInv, NoCrash

\* A frame finds everything it looks for, and leaves the tables as they are.
LEMMA PostFrameKeeps ==
  ASSUME RendererInv, PostFrame
  PROVE  RendererInv' /\ UNCHANGED views
<1> USE PointersAssumption DEF Absent, Hollow, Null
<1>1. phase = "frame" /\ \A p \in Opened : viewports[p] # Null
  BY DEF PostFrame, RendererInv
<1>2. \A o \in Shown : o \in Alive /\ views[name[o]] = o /\ name[o] \in Name
  <2> TAKE o \in Shown
  <2>1. PICK p \in Opened : o = viewports[p]
    BY DEF Shown
  <2>2. o \in Object
    BY <2>1, <1>1 DEF RendererInv, TypeOK, Opened
  <2> QED
    BY <1>1, <2>1, <2>2, ShownAreAlive DEF RendererInv, TypeOK, ShownViewsAreFiled
<1>3. Inserted = views
  <2>1. \A n \in Name : (views[n] = Absent /\ \E o \in Shown : name[o] = n) => FALSE
    BY <1>2 DEF Alive
  <2>2. Inserted = [n \in Name |-> views[n]]
    BY <2>1 DEF Inserted
  <2> QED
    BY <2>2 DEF RendererInv, TypeOK
<1>4. Updates
  BY <1>2 DEF Updates, RendererInv, FilmedScenesAreActive
<1>5. Draws
  BY <1>3 DEF Draws, RendererInv, FilmedScenesAreActive, Alive
<1>6. Records
  <2> SUFFICES ASSUME NEW p \in Opened
               PROVE  viewports[p] # Null /\ Inserted[name[viewports[p]]] # Hollow
    BY DEF Records
  <2>1. viewports[p] \in Shown
    BY <1>1 DEF Shown
  <2> QED
    BY <1>1, <1>2, <1>3, <2>1 DEF RendererInv
<1>7. /\ UNCHANGED filed /\ phase' = "client"
      /\ UNCHANGED <<tables, heap, ports, scenes, project, ghost>>
  BY <1>3, <1>4, <1>5, <1>6 DEF PostFrame, filed
<1>8. RendererInv'
  BY <1>7, SameViews, ShownAreAlive
     DEF RendererInv, TypeOK, FilmedScenesAreActive, Filmable, FreedUnlessReused, Opened,
         tables, heap, ports, ghost
<1> QED
  BY <1>7, <1>8 DEF filed

\* Every other step of a client leaves the views alone.
LEMMA OtherStepsKeep ==
  ASSUME Rules = AllRules, RendererInv,
         \/ \E t \in Template : AddPipelineTemplate(t) \/ RemovePipelineTemplate(t)
         \/ \E p \in Program : CreateShader(p) \/ DestroyShader(p)
         \/ \E n \in Name, present \in BOOLEAN : CreateViewport(n, present)
         \/ \E n \in Name, o \in Object : SetViewportView(n, o)
         \/ \E s \in Scene : CreateScene(s) \/ CloseScene(s)
         \/ ClientReturns
  PROVE  RendererInv' /\ UNCHANGED views
<1> USE PointersAssumption DEF Absent, Hollow, Null
<1>1. /\ TypeOK /\ ShownViewsAreFiled /\ presents \subseteq Opened /\ NoCrash
      /\ leaked \ {"dispatcher"} # {} => reused
      /\ \A o \in Alive : camera[o] \in scenes \cup {Null}
  BY DEF RendererInv, FreedUnlessReused, FilmedScenesAreActive, Filmable
<1>2. Alive \subseteq Object
  BY <1>1 DEF TypeOK, Alive
<1>3. \A p \in Opened : viewports[p] # Null => viewports[p] \in Alive
  BY ShownAreAlive
<1>4. ASSUME NEW t \in Template, AddPipelineTemplate(t) \/ RemovePipelineTemplate(t)
      PROVE  RendererInv' /\ UNCHANGED views
  BY <1>1, <1>3, <1>4, SameViews
     DEF AddPipelineTemplate, RemovePipelineTemplate, TypeOK, Opened, filed, heap, ports, ghost
<1>5. ASSUME NEW p \in Program, CreateShader(p) \/ DestroyShader(p)
      PROVE  RendererInv' /\ UNCHANGED views
  BY <1>1, <1>3, <1>5, SameViews
     DEF CreateShader, DestroyShader, TypeOK, Opened, filed, heap, ports, ghost
<1>6. ASSUME NEW n \in Name, NEW present \in BOOLEAN, CreateViewport(n, present)
      PROVE  RendererInv' /\ UNCHANGED views
  <2>1. /\ NewViewport(n, present) /\ phase' = "client"
        /\ UNCHANGED <<tables, filed, heap, scenes, project>>
    BY <1>6 DEF CreateViewport, AllRules
  <2>2. /\ viewports' \in [Name -> Object \cup {Absent, Null}]
        /\ Opened' = Opened \cup {n}
        /\ \A p \in Opened' : viewports'[p] # Null => p \in Opened /\ viewports'[p] = viewports[p]
        /\ presents' \subseteq Opened'
    BY <1>1, <2>1 DEF TypeOK, NewViewport, Opened
  <2>3. /\ leaked' \subseteq GpuObjects /\ reused' \in BOOLEAN
        /\ leaked' \ {"dispatcher"} # {} => reused'
    BY <1>1, <2>1 DEF TypeOK, NewViewport, GpuObjects
  <2> QED
    BY <1>1, <1>3, <2>1, <2>2, <2>3, SameViews DEF TypeOK, tables, filed, heap
<1>7. ASSUME NEW n \in Name, NEW o \in Object, SetViewportView(n, o)
      PROVE  RendererInv' /\ UNCHANGED views
  <2>1. /\ viewports' = [viewports EXCEPT ![n] = o] /\ n \in Opened /\ o \in Alive
        /\ phase' = "client"
        /\ UNCHANGED <<tables, filed, heap, presents, scenes, project, ghost>>
    BY <1>7 DEF SetViewportView, AllRules
  <2>2. /\ viewports' \in [Name -> Object \cup {Absent, Null}]
        /\ Opened' = Opened
        /\ \A p \in Opened' : viewports'[p] = viewports[p] \/ viewports'[p] \in Alive
    BY <1>1, <1>2, <2>1 DEF TypeOK, Opened
  <2> QED
    BY <1>1, <1>3, <2>1, <2>2, SameViews DEF TypeOK, tables, filed, heap, ghost
<1>8. ASSUME NEW s \in Scene, CreateScene(s) \/ CloseScene(s)
      PROVE  RendererInv' /\ UNCHANGED views
  BY <1>1, <1>3, <1>8, SameViews
     DEF CreateScene, CloseScene, AllRules, TypeOK, Opened, tables, filed, heap, ports, ghost
<1>9. ASSUME ClientReturns
      PROVE  RendererInv' /\ UNCHANGED views
  BY <1>1, <1>3, <1>9, SameViews
     DEF ClientReturns, AllRules, TypeOK, Opened, tables, filed, heap, ports, ghost
<1> QED
  BY <1>4, <1>5, <1>6, <1>7, <1>8, <1>9

\* A camera view turned to an active scene, or to none.
LEMMA TurnCameraKeeps ==
  ASSUME RendererInv, NEW o \in Object, NEW s \in scenes \cup {Null}, TurnCamera(o, s)
  PROVE  RendererInv' /\ UNCHANGED views
<1>1. /\ camera' = [camera EXCEPT ![o] = s] /\ phase' = phase
      /\ UNCHANGED <<tables, filed, name, ports, scenes, project, ghost>>
  BY DEF TurnCamera
<1>2. camera \in [Object -> Scene \cup {Null}] /\ scenes \subseteq Scene
  BY DEF RendererInv, TypeOK
<1>3. TypeOK'
  BY <1>1, <1>2 DEF RendererInv, TypeOK, tables, filed, ports, ghost
<1>4. Alive' = Alive /\ Opened' = Opened
  BY <1>1 DEF Alive, Opened, filed, ports
<1>5. ShownViewsAreFiled'
  BY <1>1 DEF RendererInv, ShownViewsAreFiled, Opened, filed, ports
<1>6. Alive \subseteq Object
  BY DEF RendererInv, TypeOK, Alive
<1>7. FilmedScenesAreActive'
  BY <1>1, <1>2, <1>4, <1>6 DEF RendererInv, FilmedScenesAreActive, Filmable
<1> QED
  BY <1>1, <1>3, <1>4, <1>5, <1>7 DEF RendererInv, NoCrash, FreedUnlessReused, filed, ports, ghost

\* The shutdown clears the tables.
LEMMA ShutdownKeeps ==
  ASSUME RendererInv, Shutdown
  PROVE  /\ RendererInv'
         /\ \A n \in Name : views'[n] = Absent
<1> USE PointersAssumption DEF Absent, Hollow, Null
<1>1. /\ views' = [n \in Name |-> Absent] /\ viewports' = [n \in Name |-> Absent]
      /\ owned' = [n \in Name |-> {}]
      /\ leaked' = leaked \cup Unfreed(UNION {owned[n] : n \in Name})
      /\ presents' = {} /\ phase' = "down" /\ scenes' = {} /\ stages' = {} /\ programs' = {}
      /\ UNCHANGED <<templates, heap, project, reused>>
  BY DEF Shutdown, RendererInv, ClearsViews
<1>2. /\ owned \in [Name -> SUBSET PipelineObjects] /\ leaked \subseteq GpuObjects
      /\ leaked \ {"dispatcher"} # {} => reused
  BY DEF RendererInv, TypeOK, FreedUnlessReused
<1>3. UNION {owned[n] : n \in Name} \subseteq PipelineObjects
  BY <1>2
<1>4. leaked' \subseteq leaked \cup {"dispatcher"} /\ leaked' \subseteq GpuObjects
  BY <1>1, <1>2, <1>3 DEF Unfreed, PipelineObjects, GpuObjects
<1>5. FreedUnlessReused'
  BY <1>1, <1>2, <1>4 DEF FreedUnlessReused
<1>6. TypeOK'
  BY <1>1, <1>4 DEF RendererInv, TypeOK, heap
<1>7. Opened' = {} /\ Alive' = {}
  BY <1>1 DEF Opened, Alive
<1> QED
  BY <1>1, <1>6, <1>7, <1>5 DEF RendererInv, ShownViewsAreFiled, FilmedScenesAreActive, NoCrash

-----------------------------------------------------------------------------
\* Every step keeps the invariant, and moves no view to another entry.
LEMMA NextKeeps ==
  ASSUME Rules = AllRules, RendererInv, [Next]_vars
  PROVE  /\ RendererInv'
         /\ \A n \in Name : views[n] \in Object => views'[n] \in {views[n], Absent}
<1> USE PointersAssumption DEF Absent, Hollow, Null
<1>1. ASSUME NEW n \in Name, NEW t \in Template, NEW o \in Object, NEW own \in Name,
             NEW s \in Scene \cup {Null}, CreateView(n, t, o, own, s)
      PROVE  /\ RendererInv'
             /\ \A m \in Name : views[m] \in Object => views'[m] = views[m]
  <2>1. NewView(n, t, o, n, s) /\ s \in scenes \cup {Null} /\ o \notin Alive
    BY <1>1 DEF CreateView, AllRules
  <2> QED
    BY <1>1, <2>1, CreateViewKeeps, NewViewFiled
<1>2. ASSUME NEW o \in Object, PostLoadProject(o)
      PROVE  /\ RendererInv'
             /\ \A m \in Name : views[m] \in Object => views'[m] = views[m]
  <2>1. NewView(SceneName, BuiltIn, o, SceneName, Null) /\ o \notin Alive
    BY <1>2 DEF PostLoadProject, AllRules
  <2> QED
    BY <1>2, <2>1, PostLoadProjectKeeps, NewViewFiled, RendererAssumption
<1>3. ASSUME NEW n \in Name, DestroyView(n)
      PROVE  /\ RendererInv'
             /\ \A m \in Name : views[m] \in Object => views'[m] \in {views[m], Absent}
  <2>1. views' = [views EXCEPT ![n] = Absent]
    BY <1>3 DEF DestroyView, RendererInv
  <2>2. views \in [Name -> Object \cup {Absent, Hollow}]
    BY DEF RendererInv, TypeOK
  <2> QED
    BY <1>3, <2>1, <2>2, DestroyViewKeeps
<1>4. ASSUME NEW o \in Object, NEW s \in scenes \cup {Null}, TurnCamera(o, s)
      PROVE  RendererInv' /\ UNCHANGED views
  BY <1>4, TurnCameraKeeps
<1>5. CASE Shutdown
  BY <1>5, ShutdownKeeps
<1>6. CASE PostFrame
  BY <1>6, PostFrameKeeps
<1>7. CASE UNCHANGED vars
  <2>1. phase \in {"client", "frame", "down"}
    BY DEF RendererInv, TypeOK, NoCrash
  <2>2. UNCHANGED <<templates, stages, programs, views, owned, name, camera, viewports, presents,
                   scenes, project, phase, leaked, reused>>
    BY <1>7 DEF vars, tables, filed, heap, ports, ghost
  <2>3. RendererInv'
    BY <2>2 DEF RendererInv, TypeOK, ShownViewsAreFiled, FilmedScenesAreActive, Filmable,
       NoCrash, FreedUnlessReused, Alive, Opened
  <2> QED
    BY <2>2, <2>3
<1>8. CASE ClientReturns
  BY <1>8, OtherStepsKeep
<1>9. CASE Client
  BY <1>1, <1>2, <1>3, <1>4, <1>5, <1>9, OtherStepsKeep DEF Client
<1> QED
  BY <1>6, <1>7, <1>8, <1>9 DEF Next, Ended

\* For clients that keep all the rules, the invariant holds for any number of names,
\* views, viewports, templates, shaders and scenes.
THEOREM RendererInvariant ==
  ASSUME Rules = AllRules
  PROVE  Spec => []RendererInv
<1>1. RendererInv /\ [Next]_vars => RendererInv'
  BY NextKeeps
<1> QED
  BY <1>1, InitRendererInv, PTL DEF Spec

\* So no operation and no frame dereferences a null pointer or a destroyed object.
THEOREM RendererNeverCrashes ==
  ASSUME Rules = AllRules
  PROVE  Spec => []NoCrash
<1>1. RendererInv => NoCrash
  BY DEF RendererInv
<1> QED
  BY <1>1, RendererInvariant, PTL

\* PostFrame finds the pipeline of every view that a viewport shows.
THEOREM ViewportsShowFiledViews ==
  ASSUME Rules = AllRules
  PROVE  Spec => []ShownViewsAreFiled
<1>1. RendererInv => ShownViewsAreFiled
  BY DEF RendererInv
<1> QED
  BY <1>1, RendererInvariant, PTL

\* A view that is filed has its pipeline's GPU objects, and of those that
\* Pipeline::Free and the Free of a viewport reach none is lost unless a name that is
\* taken is created again.  What the command dispatchers own is not freed.
THEOREM FreeReachesTheRest ==
  ASSUME Rules = AllRules
  PROVE  Spec => []FreedUnlessReused
<1>1. RendererInv => FreedUnlessReused
  BY DEF RendererInv
<1> QED
  BY <1>1, RendererInvariant, PTL

\* The view of an entry is never replaced, only destroyed.
THEOREM ViewsStay ==
  ASSUME Rules = AllRules
  PROVE  Spec => ViewsAreStable
<1>1. RendererInv /\ [Next]_vars
        => [\A n \in Name : views[n] \in Object => views'[n] \in {views[n], Absent}]_vars
  BY NextKeeps
<1> QED
  BY <1>1, RendererInvariant, PTL DEF Spec, ViewsAreStable
=============================================================================
