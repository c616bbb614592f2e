SPECIFICATION Spec
CONSTANTS
  None = None
  Torn = Torn
  ts1 = ts1
  ts2 = ts2
  home1 = home1
  home2 = home2
  copy = copy
  Scene = {s1}
  Name = {ts1}
  Path = {home1}
  HomeOf <- OneHome
  Entity = {1, 2}
  Model = {"crate"}
  Type = {"Model", "other"}
  CountRange = 4
  Rules <- Untyped
INVARIANTS
  NoCrash
