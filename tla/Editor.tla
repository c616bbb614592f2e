------------------------------- MODULE Editor -------------------------------
(***************************************************************************)
(* The main loop of EditorEngine: every call of Process runs one frame of  *)
(* the current mode.  The open-project dialog returns the trigger that     *)
(* leads to mode Edit, whose frames show windows that read m_Project.      *)
(***************************************************************************)
EXTENDS FSM

CONSTANT MaxScenes  \* bound: scenes the user creates from the menu

\* EditorEngine::Mode.  InitEditorFSM gives every mode an entry and an exit
\* procedure and makes this the machine of the module FSM.
Edit        == 0
Debug       == 1
OpenProject == 2

Arrow(t, src, dst) == [trigger |-> t, src |-> src, dst |-> dst]

ASSUME EditorAssumption ==
  /\ States = <<Edit, Debug, OpenProject>>
  /\ Transitions = <<Arrow("Play", Edit, Debug), Arrow("Stop", Debug, Edit),
                     Arrow("OpenProjectFinished", OpenProject, Edit)>>
  /\ Triggers = {"Play", "Stop", "OpenProjectFinished"}
  /\ Returns = [m \in {Edit, Debug, OpenProject} |->
       {NoTrigger} \cup (IF m = OpenProject THEN {"OpenProjectFinished"} ELSE {})]
  /\ HasEntry = {Edit, Debug, OpenProject}
  /\ HasExit = {Edit, Debug, OpenProject}
  /\ Start = OpenProject
  /\ MaxScenes \in Nat

VARIABLES
  project,  \* m_Project is not null
  pressed,  \* the button of the dialog that was pressed in the last frame
  dialog,   \* show_new_scene_dialog
  scenes,   \* the number of scenes created from the menu
  run       \* whether the program runs, has left Run, was terminated or crashed

vars == <<machine, project, pressed, dialog, scenes, run>>

TypeOK ==
  /\ MachineTypeOK
  /\ project \in BOOLEAN
  /\ pressed \in {"none", "load", "create"}
  /\ dialog \in BOOLEAN
  /\ scenes \in 0..MaxScenes
  /\ run \in {"running", "left", "terminated", "crashed"}

Init ==
  /\ MachineInit
  /\ project = FALSE
  /\ pressed = "none"
  /\ dialog = FALSE
  /\ scenes = 0
  /\ run = "running"

Mode == States[index]

\* What OpenProjectImGui returns; the results of LoadProject and CreateProject
\* are ignored.
Finished(button) == IF button = "none" THEN NoTrigger ELSE "OpenProjectFinished"

\* Mutant: LoadProject keeps no project when it cannot read the file.
OpensNewOnly(button) == button = "create"

\* LoadProject and CreateProject set m_Project before they read or write files.
Opens(button) == button # "none"

\* OnOpenProjectUpdate.  A button is not pressed in two frames in a row: that
\* needs a press and a release of the mouse.  Nothing catches what LoadProject and
\* CreateProject throw.
OpenProjectFrame(button) ==
  /\ run = "running" /\ pc = "action" /\ Mode = OpenProject
  /\ pressed # "none" => button = "none"
  /\ pressed' = button
  /\ project' = (project \/ Opens(button))
  /\ \/ run' = run /\ ActionReturns(Finished(button))
     \/ button # "none" /\ ~project /\ run' = "terminated" /\ UNCHANGED machine
  /\ UNCHANGED <<dialog, scenes>>

\* OnEditUpdate and OnRuntimeUpdate: DebugUpdate shows the name of the project;
\* then the menu, its New Scene dialog, and CreateScene.
EditFrame ==
  /\ run = "running" /\ pc = "action" /\ Mode \in {Edit, Debug}
  /\ IF project
     THEN /\ ActionReturns(NoTrigger)
          /\ \/ dialog' = TRUE /\ UNCHANGED scenes
             \/ dialog /\ dialog' = FALSE /\ scenes < MaxScenes /\ scenes' = scenes + 1
             \/ UNCHANGED <<dialog, scenes>>
          /\ UNCHANGED run
     ELSE run' = "crashed" /\ UNCHANGED <<machine, dialog, scenes>>
  /\ UNCHANGED <<project, pressed>>

MachineStep ==
  /\ run = "running"
  /\ Process \/ RunEntry \/ Iterate
  /\ UNCHANGED <<project, pressed, dialog, scenes, run>>

\* ShouldRun is false after a frame in which the window was closed.
LeaveRun ==
  /\ run = "running" /\ pc = "idle"
  /\ run' = "left"
  /\ UNCHANGED <<machine, project, pressed, dialog, scenes>>

Ended == run # "running" /\ UNCHANGED vars

Next ==
  \/ \E button \in {"none", "load", "create"} : OpenProjectFrame(button)
  \/ EditFrame
  \/ MachineStep
  \/ LeaveRun
  \/ Ended

\* Process is one call on one thread: once entered it keeps running.
InProcess == pc # "idle" /\ Next
Spec == Init /\ [][Next]_vars /\ WF_vars(InProcess)

-----------------------------------------------------------------------------
\* The windows of modes Edit and Debug never read a null m_Project: no mode
\* change outruns the dialog, whose own frame runs once more after the change.
ProjectIsOpen == run # "crashed"

\* An entry procedure that ran is followed by the exit procedure of the same mode
\* before the entry procedure of another one.
EntryExitPaired == pc = "idle" => open \subseteq {current}

\* A call of Process returns: the trigger of the dialog is used up by the one
\* transition it has.
ProcessReturns == pc # "idle" ~> (pc = "idle" \/ run # "running")

\* The inductive invariant behind ProjectIsOpen and EntryExitPaired: while the stale
\* index still names OpenProject, the button that led away from it is not pressed a
\* second time, so that frame ends the call.
EditorInv ==
  /\ ProjectIsOpen
  /\ open \subseteq {current}
  /\ current # OpenProject => project
  /\ pc # "idle" => index \in DOMAIN States
  /\ pc = "entry" => Mode = current
  /\ pc = "action" => \/ Mode = current /\ runEntry
                      \/ Mode = OpenProject /\ pressed # "none"
  /\ pc = "loop" => /\ Mode = OpenProject /\ current = OpenProject
                    /\ trigger = "OpenProjectFinished"
                    /\ project /\ pressed # "none" /\ runEntry
=============================================================================
