SPECIFICATION Spec
CONSTANTS
  None = None
  Info <- SharedInfo
  Handle <- SharedInfo
  HandleOf <- Identity
  TypeOf <- SharedTypes
  Entries <- SharedEntries
  Textures <- SharedTextures
  Unreadable = {}
  Requests <- SharedRequests
  Careful = TRUE
  CallbackTasksPerTick = 2
  MaxAsyncTaskInFlight = 2
  MaxQueued = 1
INVARIANTS
  SafetyInv
  TexturesOfLoadedModels
  LoadRequestsHold
  UnloadRequestsHold
PROPERTIES
  WaitsReturn
