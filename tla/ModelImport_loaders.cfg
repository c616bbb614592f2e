SPECIFICATION Spec
CONSTANTS
  Loader = {l1, l2}
  File <- Files
  Unreadable = {"broken"}
  Textures = {"wood", "bump"}
  Mesh <- MeshNames
  MapType = {"diffuse", "normal"}
  MeshesOf <- Meshes
  ChildrenOf <- Children
  Lines = {"wire"}
  Bare = {"roof"}
  Vertices <- Sizes
  MapsOf <- Maps4
  StackLimit = 3
INVARIANTS
  TypeOK
  EntriesAreTriangleMeshes
  TexturesAreRequested
  RequestsAreDistinct
  VertexDataFitsLayout
  CountsAreExact
PROPERTIES
  FlatImportsReturn
