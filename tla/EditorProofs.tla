---------------------------- MODULE EditorProofs ----------------------------
(* Proofs about the state machine, for any machine, and about the main loop *)
(* of the editor, for any number of scenes.                                 *)
EXTENDS Editor, TLAPS

-----------------------------------------------------------------------------
\* The entry procedure of the current state has run when Process trusts that it has.
THEOREM EntryInvariant == MachineSpec => []EntryInv
<1>1. MachineInit => EntryInv
  BY DEF MachineInit, EntryInv
<1>2. ASSUME EntryInv, [MachineNext]_machine PROVE EntryInv'
  <2>1. ASSUME NEW t \in Triggers, Trigger(t) PROVE EntryInv'
    BY <2>1 DEF Trigger, ResetRunEntry, EntryInv
  <2>2. CASE Process
    BY <1>2, <2>2 DEF Process, EntryInv
  <2>3. CASE RunEntry
    BY <1>2, <2>3 DEF RunEntry, EntryRuns, EntryInv
  <2>4. CASE RunAction
    BY <1>2, <2>4 DEF RunAction, ActionReturns, EntryInv
  <2>5. CASE Iterate
    <3>1. CASE Matching(trigger, current) = {}
      BY <2>5, <3>1 DEF Iterate, EntryInv
    <3>2. CASE Matching(trigger, current) # {}
      <4>1. runEntry' = FALSE /\ pc' \in {"action", "loop"}
        BY <2>5, <3>2 DEF Iterate, ResetRunEntry
      <4> QED BY <4>1 DEF EntryInv
    <3> QED BY <3>1, <3>2
  <2>6. CASE UNCHANGED machine
    BY <1>2, <2>6 DEF machine, EntryInv
  <2> QED BY <1>2, <2>1, <2>2, <2>3, <2>4, <2>5, <2>6 DEF MachineNext
<1> QED BY <1>1, <1>2, PTL DEF MachineSpec

\* A state entered by a transition gets its entry procedure with the next Process,
\* although the loop works with the index of the state it started in.
THEOREM EntryIsPending == MachineSpec => []EntryPending
<1>1. EntryInv => EntryPending
  BY DEF EntryInv, EntryPending
<1> QED BY <1>1, EntryInvariant, PTL

\* The elements of a sequence over a set belong to it.
LEMMA Elements ==
  ASSUME NEW S, NEW s \in Seq(S)
  PROVE  \A k \in DOMAIN s : s[k] \in S
OBVIOUS

\* The machine stays in states that were added, on triggers that were added, and its
\* counter in eight bits.
THEOREM MachineTypesHold == MachineSpec => []MachineTypeOK
<1>1. /\ \A k \in DOMAIN Transitions : Transitions[k].trigger \in Triggers /\ Transitions[k].dst \in Registered
      /\ \A k \in DOMAIN States : States[k] \in Registered /\ Returns[States[k]] \subseteq Triggers \cup {NoTrigger}
      /\ Start \in Registered /\ 1 \in DOMAIN States
  <2>1. \A k \in DOMAIN States : States[k] \in Registered
    BY DEF Registered
  <2>2. Start \in Registered
    BY FSMAssumption
  <2>3. 1 \in DOMAIN States
    <3>1. PICK k \in DOMAIN States : Start = States[k]
      BY <2>2 DEF Registered
    <3>2. States \in Seq(Nat)
      BY FSMAssumption
    <3>3. Len(States) \in Nat /\ DOMAIN States = 1..Len(States)
      BY <3>2
    <3>4. \A n \in Nat : \A i \in 1..n : 1 \in 1..n
      OBVIOUS
    <3>5. k \in 1..Len(States)
      BY <3>3
    <3>. QED BY <3>3, <3>4, <3>5
  <2>4. \A k \in DOMAIN States : Returns[States[k]] \in SUBSET (Triggers \cup {NoTrigger})
    BY <2>1, FSMAssumption
  <2>5. \A k \in DOMAIN Transitions : Transitions[k] \in [trigger : Triggers, src : Registered, dst : Registered]
    BY FSMAssumption, Elements
  <2>6. \A k \in DOMAIN Transitions : Transitions[k].trigger \in Triggers /\ Transitions[k].dst \in Registered
    BY <2>5
  <2>. QED BY <2>1, <2>2, <2>3, <2>4, <2>6
<1>2. MachineInit => MachineTypeOK
  <2>. SUFFICES ASSUME MachineInit PROVE MachineTypeOK
    OBVIOUS
  <2>1. current \in Registered /\ previous \in Registered /\ index \in DOMAIN States
    BY <1>1 DEF MachineInit
  <2>2. /\ runEntry \in BOOLEAN /\ trigger \in Triggers \cup {NoTrigger} /\ entered \in BOOLEAN
        /\ pc \in {"idle", "entry", "action", "loop"}
    BY DEF MachineInit
  <2>3. numTransitions \in 0..255
    BY DEF MachineInit
  <2>4. open \subseteq Registered
    BY DEF MachineInit
  <2>. QED BY <2>1, <2>2, <2>3, <2>4 DEF MachineTypeOK
<1>3. ASSUME MachineTypeOK, [MachineNext]_machine PROVE MachineTypeOK'
  <2>. USE <1>1, <1>3 DEF MachineTypeOK
  <2>1. ASSUME NEW t \in Triggers, Trigger(t) PROVE MachineTypeOK'
    BY <2>1 DEF Trigger, Matching, ResetRunEntry, ExitRuns
  <2>2. CASE Process
    BY <2>2 DEF Process
  <2>3. CASE RunEntry
    BY <2>3 DEF RunEntry, EntryRuns
  <2>4. CASE RunAction
    BY <2>4 DEF RunAction, ActionReturns
  <2>5. CASE Iterate
    <3>1. numTransitions' \in 0..255
      BY <2>5 DEF Iterate, Incremented
    <3>2. /\ current' \in Registered /\ previous' \in Registered /\ pc' \in {"action", "loop"}
          /\ UNCHANGED <<index, trigger>>
      BY <2>5 DEF Iterate, Matching
    <3>3. runEntry' \in BOOLEAN /\ entered' \in BOOLEAN
      BY <2>5 DEF Iterate, EntryRuns, ResetRunEntry
    <3>4. open' \subseteq Registered
      BY <2>5 DEF Iterate, EntryRuns, ExitRuns
    <3>. QED BY <3>1, <3>2, <3>3, <3>4
  <2>6. CASE UNCHANGED machine
    BY <2>6 DEF machine
  <2>. QED BY <1>3, <2>1, <2>2, <2>3, <2>4, <2>5, <2>6 DEF MachineNext
<1>. QED BY <1>2, <1>3, PTL DEF MachineSpec

-----------------------------------------------------------------------------
\* The only transition of the dialog leads to mode Edit.
LEMMA DialogLeadsToEdit ==
  /\ Matching("OpenProjectFinished", OpenProject) # {}
  /\ \A k \in Matching("OpenProjectFinished", OpenProject) : Transitions[k].dst = Edit
<1>1. /\ DOMAIN Transitions = 1..3
      /\ Transitions[1].trigger = "Play"
      /\ Transitions[2].trigger = "Stop"
      /\ Transitions[3] = Arrow("OpenProjectFinished", OpenProject, Edit)
  BY EditorAssumption DEF Arrow
<1>2. \A k \in 1..3 : Transitions[k].trigger = "OpenProjectFinished" => k = 3
  BY <1>1
<1>3. 3 \in Matching("OpenProjectFinished", OpenProject)
  BY <1>1, <1>2 DEF Matching, Arrow
<1>4. \A k \in Matching("OpenProjectFinished", OpenProject) : k = 3
  BY <1>1, <1>2 DEF Matching
<1> QED BY <1>1, <1>3, <1>4 DEF Arrow

\* A frame of the dialog keeps the invariant.
LEMMA DialogKeeps ==
  ASSUME EditorInv, NEW button \in {"none", "load", "create"}, OpenProjectFrame(button)
  PROVE  EditorInv'
<1>1. /\ pc = "action" /\ Mode = OpenProject
      /\ pressed' = button /\ project' = (project \/ button # "none")
      /\ UNCHANGED <<current, runEntry, index, open>>
      /\ run' # "crashed"
      /\ pressed # "none" => button = "none"
  BY DEF OpenProjectFrame, ActionReturns, Opens, machine
<1>2. \/ pc' = "idle"
      \/ pc' = "loop" /\ button # "none" /\ trigger' = "OpenProjectFinished"
      \/ pc' = "action" /\ button # "none"
  BY DEF OpenProjectFrame, ActionReturns, Finished, machine
<1>3. button # "none" => current = OpenProject /\ runEntry
  BY <1>1 DEF EditorInv
<1> QED BY <1>1, <1>2, <1>3 DEF EditorInv, ProjectIsOpen, Mode

\* An iteration of the loop in Process keeps the invariant.
LEMMA IterateKeeps ==
  ASSUME EditorInv, Iterate, UNCHANGED <<project, pressed, run>>
  PROVE  EditorInv'
<1>1. /\ pc = "loop" /\ current = OpenProject /\ Mode = OpenProject /\ runEntry
      /\ project /\ pressed # "none" /\ ~EntryRuns
      /\ Matching(trigger, current) = Matching("OpenProjectFinished", OpenProject)
  BY DEF EditorInv, Iterate, EntryRuns
<1>2. current' = Edit /\ pc' = "action" /\ open' = {} /\ index' = index
  <2>1. Edit # OpenProject
    BY DEF Edit, OpenProject
  <2>2. OpenProject \in HasExit
    BY EditorAssumption
  <2> QED BY <1>1, <2>1, <2>2, DialogLeadsToEdit DEF Iterate, ExitRuns, EditorInv
<1> QED BY <1>1, <1>2 DEF EditorInv, ProjectIsOpen, Mode

\* The inductive invariant of the editor.
THEOREM EditorInvariant == Spec => []EditorInv
<1>1. Init => EditorInv
  BY EditorAssumption DEF Init, MachineInit, EditorInv, ProjectIsOpen
<1>2. ASSUME EditorInv, [Next]_vars PROVE EditorInv'
  <2>1. CASE EditFrame
    <3>1. project /\ pc = "action" /\ Mode # OpenProject
      BY <1>2, <2>1 DEF EditorInv, EditFrame, Edit, Debug, OpenProject
    <3>2. /\ pc' = "idle"
          /\ UNCHANGED <<current, open, project, pressed, run>>
      BY <2>1, <3>1 DEF EditFrame, ActionReturns
    <3> QED BY <1>2, <3>2 DEF EditorInv, ProjectIsOpen
  <2>2. CASE MachineStep /\ Process
    <3>1. /\ pc' = "entry" /\ index' \in DOMAIN States /\ States[index'] = current
          /\ UNCHANGED <<current, open, project, run>>
      BY <2>2 DEF MachineStep, Process
    <3> QED BY <1>2, <3>1 DEF EditorInv, ProjectIsOpen, Mode
  <2>3. CASE MachineStep /\ RunEntry
    <3>1. pc = "entry" /\ Mode = current /\ index \in DOMAIN States
      BY <1>2, <2>3 DEF EditorInv, RunEntry
    <3>2. Mode \in HasEntry
      BY <3>1, EditorAssumption DEF Mode, Edit, Debug, OpenProject
    <3>3. runEntry'
      BY <2>3, <3>2 DEF RunEntry, EntryRuns, Mode
    <3>4. open' \subseteq {current}
      BY <1>2, <2>3, <3>1 DEF RunEntry, EntryRuns, Mode, EditorInv
    <3>5. pc' = "action" /\ UNCHANGED <<current, index, project, run>>
      BY <2>3 DEF MachineStep, RunEntry
    <3> QED BY <1>2, <3>1, <3>3, <3>4, <3>5 DEF EditorInv, ProjectIsOpen, Mode
  <2>4. CASE MachineStep /\ Iterate
    BY <1>2, <2>4, IterateKeeps DEF MachineStep
  <2>5. CASE LeaveRun
    BY <1>2, <2>5 DEF LeaveRun, machine, EditorInv, ProjectIsOpen, Mode
  <2>6. CASE UNCHANGED vars
    BY <1>2, <2>6 DEF vars, machine, EditorInv, ProjectIsOpen, Mode
  <2> QED BY <1>2, <2>1, <2>2, <2>3, <2>4, <2>5, <2>6, DialogKeeps
          DEF Next, MachineStep, Ended
<1> QED BY <1>1, <1>2, PTL DEF Spec

\* No window of modes Edit and Debug reads a null m_Project.
THEOREM ProjectStaysOpen == Spec => []ProjectIsOpen
<1>1. EditorInv => ProjectIsOpen
  BY DEF EditorInv
<1> QED BY <1>1, EditorInvariant, PTL

\* Entry and exit procedures of the modes run in pairs.
THEOREM EntriesAndExitsPair == Spec => []EntryExitPaired
<1>1. EditorInv => EntryExitPaired
  BY DEF EditorInv, EntryExitPaired
<1> QED BY <1>1, EditorInvariant, PTL

-----------------------------------------------------------------------------
\* What a frame returns is what the action of its mode may return.
LEMMA FramesReturn ==
  /\ \A s \in {Edit, Debug, OpenProject} : NoTrigger \in Returns[s]
  /\ "OpenProjectFinished" \in Returns[OpenProject]
BY EditorAssumption

\* A step of the main loop is a step of the machine, or none.
LEMMA EditorMoves ==
  ASSUME EditorInv, [Next]_vars
  PROVE  [MachineNext]_machine
<1>1. CASE EditFrame
  <2>1. NoTrigger \in Returns[States[index]]
    BY <1>1, FramesReturn DEF EditFrame, Mode
  <2> QED BY <1>1, <2>1 DEF EditFrame, MachineNext, RunAction
<1>2. ASSUME NEW button \in {"none", "load", "create"}, OpenProjectFrame(button)
      PROVE  [MachineNext]_machine
  <2>1. Finished(button) \in Returns[States[index]]
    BY <1>2, FramesReturn DEF OpenProjectFrame, Mode, Finished
  <2> QED BY <1>2, <2>1 DEF OpenProjectFrame, MachineNext, RunAction
<1>3. CASE MachineStep
  BY <1>3 DEF MachineStep, MachineNext
<1>4. CASE LeaveRun \/ Ended \/ UNCHANGED vars
  BY <1>4 DEF LeaveRun, Ended, vars
<1> QED BY <1>1, <1>2, <1>3, <1>4 DEF Next

\* The machine inside the editor is one of the machines of FSM: the frames return
\* only triggers their modes may return, so all that is proved of every machine
\* holds of this one.
THEOREM EditorIsMachine == Spec => MachineSpec
<1>1. Init => MachineInit
  BY DEF Init
<1> QED BY <1>1, EditorMoves, EditorInvariant, PTL DEF Spec, MachineSpec

\* The editor stays within its types, the machine's included.
THEOREM EditorTypesHold == Spec => []TypeOK
<1> DEFINE Own == /\ project \in BOOLEAN /\ pressed \in {"none", "load", "create"}
                  /\ dialog \in BOOLEAN /\ scenes \in 0..MaxScenes
                  /\ run \in {"running", "left", "terminated", "crashed"}
<1>0. MaxScenes \in Nat
  BY EditorAssumption
<1>1. Init => Own
  <2>1. Init => scenes \in 0..MaxScenes
    BY <1>0 DEF Init
  <2> QED BY <2>1 DEF Init
<1>2. ASSUME Own, [Next]_vars PROVE Own'
  <2>1. CASE EditFrame
    <3>1. scenes' \in 0..MaxScenes
      BY <1>0, <1>2, <2>1 DEF EditFrame
    <3> QED BY <1>2, <2>1, <3>1 DEF EditFrame
  <2>2. ASSUME NEW button \in {"none", "load", "create"}, OpenProjectFrame(button)
        PROVE  Own'
    BY <1>2, <2>2 DEF OpenProjectFrame, Opens
  <2>3. CASE MachineStep \/ LeaveRun \/ Ended \/ UNCHANGED vars
    BY <1>2, <2>3 DEF MachineStep, LeaveRun, Ended, vars
  <2> QED BY <1>2, <2>1, <2>2, <2>3 DEF Next
<1>3. MachineTypeOK /\ Own => TypeOK
  BY DEF TypeOK
<1> QED BY <1>1, <1>2, <1>3, EditorIsMachine, MachineTypesHold, PTL DEF Spec

\* How many steps a call of Process has left.
StepsToReturn ==
  CASE pc = "entry" -> 4
    [] pc = "action" -> IF pressed = "none" THEN 3 ELSE 1
    [] pc = "loop" -> 2
    [] OTHER -> 0

\* A call of Process of the editor takes at most four steps: the entry, the frame, the
\* transition, and the frame of the stale mode.  With the fairness of Spec this is
\* why ProcessReturns holds.
THEOREM ProcessIsShort ==
  Spec => [][pc # "idle" => StepsToReturn \in 1..4 /\ StepsToReturn' \in 0..(StepsToReturn - 1)]_vars
<1> DEFINE Short == pc # "idle" => StepsToReturn \in 1..4 /\ StepsToReturn' \in 0..(StepsToReturn - 1)
<1>1. ASSUME EditorInv, TypeOK, [Next]_vars PROVE [Short]_vars
  <2>1. CASE EditFrame
    <3>1. pc = "action" /\ pc' = "idle"
      BY <1>1, <2>1 DEF EditFrame, ActionReturns, EditorInv, Edit, Debug, OpenProject
    <3>2. StepsToReturn \in {1, 3} /\ StepsToReturn' = 0
      BY <3>1 DEF StepsToReturn
    <3> QED BY <3>2
  <2>2. ASSUME NEW button \in {"none", "load", "create"}, OpenProjectFrame(button)
        PROVE  Short
    <3>1. CASE button = "none"
      <4>1. pc = "action" /\ pc' = "idle"
        BY <2>2, <3>1 DEF OpenProjectFrame, ActionReturns, Finished
      <4>2. StepsToReturn \in {1, 3} /\ StepsToReturn' = 0
        BY <4>1 DEF StepsToReturn
      <4> QED BY <4>2
    <3>2. CASE button # "none"
      <4>1. NoTrigger # "OpenProjectFinished"
        BY FSMAssumption, EditorAssumption
      <4>2. /\ pc = "action" /\ pc' \in {"loop", "action"}
            /\ pressed = "none" /\ pressed' # "none"
        BY <2>2, <3>2, <4>1 DEF OpenProjectFrame, ActionReturns, Finished, machine
      <4>3. StepsToReturn = 3 /\ StepsToReturn' \in {1, 2}
        BY <4>2 DEF StepsToReturn
      <4> QED BY <4>3
    <3> QED BY <3>1, <3>2
  <2>3. CASE MachineStep /\ RunEntry
    <3>1. pc = "entry" /\ pc' = "action"
      BY <2>3 DEF RunEntry
    <3>2. StepsToReturn = 4 /\ StepsToReturn' \in {1, 3}
      BY <3>1 DEF StepsToReturn
    <3> QED BY <3>2
  <2>4. CASE MachineStep /\ Iterate
    <3>1. /\ current = OpenProject /\ trigger = "OpenProjectFinished" /\ pressed # "none"
          /\ pressed' = pressed /\ pc = "loop"
      BY <1>1, <2>4 DEF MachineStep, Iterate, EditorInv
    <3>2. Edit # OpenProject
      BY DEF Edit, OpenProject
    <3>3. pc' = "action"
      BY <2>4, <3>1, <3>2, DialogLeadsToEdit DEF Iterate
    <3>4. StepsToReturn = 2 /\ StepsToReturn' = 1
      BY <3>1, <3>3 DEF StepsToReturn
    <3> QED BY <3>4
  <2>5. CASE (MachineStep /\ Process) \/ LeaveRun
    BY <2>5 DEF Process, LeaveRun
  <2>6. CASE Ended \/ UNCHANGED vars
    BY <2>6 DEF Ended
  <2> QED BY <1>1, <2>1, <2>2, <2>3, <2>4, <2>5, <2>6 DEF Next, MachineStep
<1> QED BY <1>1, EditorInvariant, EditorTypesHold, PTL DEF Spec
=============================================================================
