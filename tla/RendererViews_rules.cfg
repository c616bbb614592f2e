SPECIFICATION Spec
CONSTANTS
  Name = {"scene", "map"}
  SceneName = "scene"
  v1 = v1
  v2 = v2
  Object = {v1, v2}
  Scene = {s1}
  Template = {"deferred", "game"}
  BuiltIn = "deferred"
  Owning = {"deferred"}
  Program <- Shaders
  Stage = {"uv.vert", "light.frag"}
  StagesOf <- LinkedFrom
  Uses <- Needs
  Rules <- AllRules
SYMMETRY Symmetric
INVARIANTS
  RendererInv
  NoCrash
  ShownViewsAreFiled
  FreedUnlessReused
PROPERTIES
  ViewsAreStable
