SPECIFICATION Spec
CONSTANTS
  None = None
  Info <- CrateInfo
  Handle <- CrateInfo
  HandleOf <- Identity
  TypeOf <- CrateTypes
  Entries <- CrateEntries
  Textures <- CrateTextures
  Unreadable = {}
  Requests <- CrateInfo
  Careful = FALSE
  CallbackTasksPerTick = 2
  MaxAsyncTaskInFlight = 2
  MaxQueued = 2
INVARIANTS
  LoadRequestsHold
