------------------------------ MODULE MCEditor ------------------------------
(* The machine that EditorEngine::InitEditorFSM builds.                     *)
EXTENDS Editor

EditorStates      == <<Edit, Debug, OpenProject>>
EditorTransitions == <<Arrow("Play", Edit, Debug), Arrow("Stop", Debug, Edit),
                       Arrow("OpenProjectFinished", OpenProject, Edit)>>
Modes             == {Edit, Debug, OpenProject}
FrameReturns      == [m \in Modes |->
  {NoTrigger} \cup (IF m = OpenProject THEN {"OpenProjectFinished"} ELSE {})]
=============================================================================
