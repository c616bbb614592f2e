SPECIFICATION Spec
CONSTANTS
  Handle <- Files
  Models = {"crate"}
  Unsupported = {"notes"}
  Brings <- Textures
  Archives <- Saved
  Scene = {s1, s2}
  Unreadable = {}
  Careful = TRUE
  AwaitUnloads = TRUE
  AwaitScenes = TRUE
  MaxRequests = 3
INVARIANTS
  SceneInv
  NoCrash
  ActiveMeshesValid
PROPERTIES
  PendingScenesActivate
