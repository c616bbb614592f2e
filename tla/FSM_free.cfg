SPECIFICATION MachineSpec
CONSTANTS
  NoTrigger = "None"
  States <- ThreeStates
  Triggers = {"a", "b"}
  Transitions <- FreeTransitions
  HasEntry = {0, 2}
  HasExit = {0, 2}
  Returns <- FreeReturns
  Start = 0
INVARIANTS
  MachineTypeOK
  EntryPending
