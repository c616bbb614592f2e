SPECIFICATION Spec
CONSTANTS
  None = None
  Torn = Torn
  ts1 = ts1
  ts2 = ts2
  home1 = home1
  home2 = home2
  copy = copy
  Scene = {s1}
  Name = {ts1, ts2}
  Path <- Files
  HomeOf <- Home
  Entity = {1}
  Model = {"crate"}
  Type = {"Model", "other"}
  CountRange = 3
  Rules <- AllRules
SYMMETRY Swaps
INVARIANTS
  SceneFilesInv
  NoCrash
  NamesFindLastSave
  ListedAreFound
  DefaultIsRegistered
  CountIsExact
