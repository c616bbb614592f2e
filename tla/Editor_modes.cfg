SPECIFICATION Spec
CONSTANTS
  NoTrigger = "None"
  States <- EditorStates
  Triggers = {"Play", "Stop", "OpenProjectFinished"}
  Transitions <- EditorTransitions
  HasEntry <- Modes
  HasExit <- Modes
  Returns <- FrameReturns
  Start = 2
  MaxScenes = 12
INVARIANTS
  EditorInv
  ProjectIsOpen
  EntryExitPaired
PROPERTIES
  ProcessReturns
