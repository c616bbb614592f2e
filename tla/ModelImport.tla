----------------------------- MODULE ModelImport -----------------------------
(***************************************************************************)
(* What a thread of std::async does for the asset manager: LoadModel, with *)
(* ProcessNode and ProcessMesh, and LoadTexture.  Loaders run side by side *)
(* and share nothing but the counts of the DebugMemoryTracker, which the   *)
(* operator new of Mesh, ModelAsset and TextureAsset changes without a     *)
(* lock.  What assimp reads from a file is given by constants.             *)
(***************************************************************************)
EXTENDS Naturals, Sequences, FiniteSets, SequencesExt, Functions

CONSTANTS
  Loader,     \* threads
  File,       \* what they are asked to load
  Unreadable, \* models that assimp cannot open
  Textures,   \* files that are textures; the others are models
  Mesh,       \* meshes that assimp reads
  MapType,    \* map types of textures
  MeshesOf,   \* the meshes of the root node of a model
  ChildrenOf, \* the number of children of that node
  Lines,      \* meshes with a face that is not a triangle
  Bare,       \* meshes without texture coordinates
  Vertices,   \* the number of vertices of a mesh
  MapsOf,     \* the textures of the material of a mesh: pairs of a map type and a texture
  StackLimit  \* calls of ProcessNode that a thread's stack holds

Model == File \ Textures
Class == {"ModelAsset", "Mesh", "TextureAsset"}

ASSUME ImportAssumption ==
  /\ Textures \subseteq File
  /\ Unreadable \subseteq Model
  /\ MeshesOf \in [Model -> Seq(Mesh)]
  /\ ChildrenOf \in [Model -> Nat]
  /\ Vertices \in [Mesh -> Nat]
  /\ MapsOf \in [Mesh -> Seq(MapType \X Textures)]
  /\ StackLimit \in Nat \ {0}

(***************************************************************************)
(* The builder of vertex layouts.                                          *)
(***************************************************************************)

\* Mutant: the last attribute is left out of the offset of the next.
SizeBeforeLast(layout) ==
  FoldFunctionOnSet(+, 0, [i \in DOMAIN layout |-> layout[i].size], 1..Len(layout) - 1)

\* The loop over m_Attributes from the last to the first.
SizeSoFar(layout) ==
  FoldFunctionOnSet(+, 0, [i \in DOMAIN layout |-> layout[i].size], DOMAIN layout)

AddAttribute(layout, size) ==
  Append(layout, [location |-> Len(layout), size |-> size, offset |-> SizeSoFar(layout)])

\* A builder to which attributes of these sizes were added.
Layout(sizes) == FoldLeft(AddAttribute, <<>>, sizes)

\* The stride that Build computes.
Stride(layout) == FoldFunctionOnSet(+, 0, [i \in DOMAIN layout |-> layout[i].size], DOMAIN layout)

\* Each attribute begins where the one before it ends, and the last ends at the stride.
Packed(layout) ==
  LET End(i) == layout[i].offset + layout[i].size
  IN  /\ layout[1].offset = 0
      /\ \A i \in 2..Len(layout) : layout[i].offset = End(i - 1)
      /\ Stride(layout) = End(Len(layout))

\* Position, normal and texture coordinates, in bytes.
MeshLayout == Layout(<<12, 12, 8>>)

-----------------------------------------------------------------------------
VARIABLES
  pc,       \* where a loader is
  file,     \* what it loads
  calls,    \* calls of ProcessNode on its stack
  at,       \* the next mesh of the node
  entries,  \* m_Entries of its model
  news,     \* newAssetsToLoad
  tasks,    \* number of callbacks it returned
  seen,     \* the count it has read to increment
  count,    \* s_AllocationInfo
  made,     \* history: objects that were allocated
  raced     \* history: whether two loaders were in operator new at once

local == <<file, calls, at, entries, news, tasks>>
vars  == <<pc, local, seen, count, made, raced>>

Steps == {"idle", "new ModelAsset", "new Mesh", "new TextureAsset", "node", "mesh",
          "returned", "overflow"}

Entry == [mesh : Mesh, layout : {MeshLayout}, floats : Nat, maps : SUBSET (MapType \X Textures)]

\* In operator new, after the count was read.
Within == {l \in Loader : seen[l] # {}}

TypeOK ==
  /\ pc \in [Loader -> Steps]
  /\ \A l \in Loader :
       /\ file[l] \in File
       /\ calls[l] \in 0..StackLimit
       /\ at[l] \in Nat
       /\ entries[l] \in Seq(Entry)
       /\ news[l] \in Seq(File)
       /\ tasks[l] \in Nat
       /\ seen[l] \subseteq Nat
  /\ count \in [Class -> Nat]
  /\ made \in [Class -> Nat]
  /\ raced \in BOOLEAN

Init ==
  /\ pc = [l \in Loader |-> "idle"]
  /\ file \in [Loader -> File]
  /\ calls = [l \in Loader |-> 0]
  /\ at = [l \in Loader |-> 1]
  /\ entries = [l \in Loader |-> <<>>]
  /\ news = [l \in Loader |-> <<>>]
  /\ tasks = [l \in Loader |-> 0]
  /\ seen = [l \in Loader |-> {}]
  /\ count = [c \in Class |-> 0]
  /\ made = [c \in Class |-> 0]
  /\ raced = FALSE

Goes(l, from, to) == pc[l] = from /\ pc' = [pc EXCEPT ![l] = to]

\* LoadModel or LoadTexture begins; a model that cannot be opened returns null.
Begin(l) ==
  /\ Goes(l, "idle", IF file[l] \in Textures THEN "new TextureAsset"
                     ELSE IF file[l] \in Unreadable THEN "returned" ELSE "new ModelAsset")
  /\ UNCHANGED <<local, seen, count, made, raced>>

(***************************************************************************)
(* operator new: count++ reads the count and writes it back.               *)
(***************************************************************************)
New(c) == CASE c = "ModelAsset"   -> "new ModelAsset"
            [] c = "Mesh"         -> "new Mesh"
            [] c = "TextureAsset" -> "new TextureAsset"

ReadCount(l, c) ==
  /\ pc[l] = New(c) /\ seen[l] = {}
  /\ seen' = [seen EXCEPT ![l] = {count[c]}]
  /\ raced' = (raced \/ Within # {})
  /\ UNCHANGED <<pc, local, count, made>>

\* Mutants: the count of a class is set when it is first seen, and then kept; the
\* count is taken down, as operator delete does.
CountOnce(n) == 1
CountDown(n) == n - 1

CountUp(n) == n + 1

\* The object is there; what comes next.
After(c) == CASE c = "ModelAsset"   -> "node"
              [] c = "Mesh"         -> "mesh"
              [] c = "TextureAsset" -> "returned"

WriteCount(l, c) ==
  /\ seen[l] # {}
  /\ Goes(l, New(c), After(c))
  /\ count' = [count EXCEPT ![c] = CountUp(CHOOSE n \in seen[l] : TRUE)]
  /\ made' = [made EXCEPT ![c] = @ + 1]
  /\ seen' = [seen EXCEPT ![l] = {}]
  /\ calls' = IF c = "ModelAsset" THEN [calls EXCEPT ![l] = 1] ELSE calls
  /\ tasks' = IF c = "TextureAsset" THEN [tasks EXCEPT ![l] = 1] ELSE tasks
  /\ UNCHANGED <<file, at, entries, news, raced>>

(***************************************************************************)
(* ProcessMesh.                                                            *)
(***************************************************************************)

\* Mutant: the normals are left out.
FloatsWithoutNormal(m) == IF m \in Bare THEN 0 ELSE 5 * Vertices[m]

\* Three floats of position, three of normal and two of texture coordinates per
\* vertex, for a mesh that has them all.
Floats(m) == IF m \in Bare THEN 0 ELSE 8 * Vertices[m]

\* emplace: the first texture of a map type is kept.
Maps(m) ==
  LET props == MapsOf[m]
  IN  {props[i] : i \in {i \in DOMAIN props : \A j \in 1..i - 1 : props[j][1] # props[i][1]}}

\* Mutants: a texture is asked for once per mesh; the first texture only.
AskAgain(asked, path) == Append(asked, path)
AskOne(asked, path)   == IF asked = <<>> THEN <<path>> ELSE asked

\* newAssetsToLoad has every texture once.
Ask(asked, path) == IF path \in ToSet(asked) THEN asked ELSE Append(asked, path)

Paths(m) == [i \in DOMAIN MapsOf[m] |-> MapsOf[m][i][2]]

\* Mutant: a mesh that cannot be loaded gets an empty entry.
KeepsLines(m) == TRUE

\* An error message, and the new Mesh is lost.
Triangles(m) == m \notin Lines

ProcessMesh(l) ==
  LET m == MeshesOf[file[l]][at[l]]
  IN  /\ Goes(l, "mesh", "node")
      /\ at' = [at EXCEPT ![l] = @ + 1]
      /\ IF Triangles(m)
         THEN /\ entries' = [entries EXCEPT ![l] =
                   Append(@, [mesh |-> m, layout |-> MeshLayout, floats |-> Floats(m),
                              maps |-> Maps(m)])]
              /\ news' = [news EXCEPT ![l] = FoldLeft(Ask, @, Paths(m))]
         ELSE UNCHANGED <<entries, news>>
      /\ UNCHANGED <<file, calls, tasks, seen, count, made, raced>>

(***************************************************************************)
(* ProcessNode: all the meshes of the node, then itself for every child,   *)
(* with the same node again.                                               *)
(***************************************************************************)
NextMesh(l) ==
  /\ Goes(l, "node", "new Mesh")
  /\ at[l] <= Len(MeshesOf[file[l]])
  /\ UNCHANGED <<local, seen, count, made, raced>>

\* Mutant: a node without children calls itself, too.
NeverEmpty(f) == ChildrenOf[f] < 0

NoChildren(f) == ChildrenOf[f] = 0

LastMesh(l) == pc[l] = "node" /\ at[l] > Len(MeshesOf[file[l]])

Recurses(l) ==
  /\ LastMesh(l) /\ ~NoChildren(file[l])
  /\ IF calls[l] = StackLimit
     THEN pc' = [pc EXCEPT ![l] = "overflow"] /\ UNCHANGED <<calls, at>>
     ELSE /\ calls' = [calls EXCEPT ![l] = @ + 1]
          /\ at' = [at EXCEPT ![l] = 1]
          /\ UNCHANGED pc
  /\ UNCHANGED <<file, entries, news, tasks, seen, count, made, raced>>

\* LoadModel makes a callback for every entry.
LoadModelReturns(l) ==
  /\ LastMesh(l) /\ NoChildren(file[l])
  /\ pc' = [pc EXCEPT ![l] = "returned"]
  /\ calls' = [calls EXCEPT ![l] = 0]
  /\ tasks' = [tasks EXCEPT ![l] = Len(entries[l])]
  /\ UNCHANGED <<file, at, entries, news, seen, count, made, raced>>

Load(l) ==
  \/ Begin(l)
  \/ \E c \in Class : ReadCount(l, c) \/ WriteCount(l, c)
  \/ NextMesh(l)
  \/ ProcessMesh(l)
  \/ Recurses(l)
  \/ LoadModelReturns(l)

\* The futures of the loaders are ready, or their stack overflowed.
Ended ==
  /\ \A l \in Loader : pc[l] \in {"returned", "overflow"}
  /\ UNCHANGED vars

Next == Ended \/ \E l \in Loader : Load(l)

Spec == Init /\ [][Next]_vars /\ \A l \in Loader : WF_vars(Load(l))
-----------------------------------------------------------------------------
(***************************************************************************)
(* Properties.                                                             *)
(***************************************************************************)
Flat(f) == f \in Textures \/ f \in Unreadable \/ ChildrenOf[f] = 0

Returned == {l \in Loader : pc[l] = "returned"}

\* These entries are the meshes of triangles among the first n of these meshes, in order.
TrianglesUpTo(es, meshes, n) ==
  \E pos \in [DOMAIN es -> 1..n] :
    /\ \A i, j \in DOMAIN es : i < j => pos[i] < pos[j]
    /\ \A k \in 1..n : meshes[k] \notin Lines <=> \E i \in DOMAIN es : pos[i] = k
    /\ \A i \in DOMAIN es : es[i].mesh = meshes[pos[i]]

\* The entry index of a MeshComponent counts the meshes of triangles of the root node,
\* in order: a mesh of lines moves all the meshes after it.
EntriesAreTriangleMeshes ==
  \A l \in Returned :
    file[l] \in Model \ Unreadable =>
      TrianglesUpTo(entries[l], MeshesOf[file[l]], Len(MeshesOf[file[l]]))

\* Every texture that a material of an entry refers to is loaded with the model.
TexturesAreRequested ==
  \A l \in Loader : \A i \in DOMAIN entries[l] : \A map \in entries[l][i].maps :
    map[2] \in ToSet(news[l])

\* It is loaded once, whatever meshes share it.
RequestsAreDistinct == \A l \in Loader : IsInjective(news[l])

\* The layout of an entry is packed, and a mesh with texture coordinates has the vertex
\* data that it describes (in bytes); one without has indices and no vertices.
VertexDataFitsLayout ==
  \A l \in Loader : \A i \in DOMAIN entries[l] :
    LET e == entries[l][i]
    IN  /\ Packed(e.layout)
        /\ 4 * e.floats = IF e.mesh \in Bare THEN 0 ELSE Stride(e.layout) * Vertices[e.mesh]

\* The memory tracker counts every object, as long as no two loaders were in operator
\* new at once.
CountsAreExact == raced \/ count = made

\* LoadModel returns for a model whose root node has no children.
FlatImportsReturn ==
  \A l \in Loader : (pc[l] = "idle" /\ Flat(file[l])) ~> pc[l] = "returned"
=============================================================================
