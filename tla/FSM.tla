-------------------------------- MODULE FSM --------------------------------
(***************************************************************************)
(* The state machine of Core/FSM.cpp.  Process looks the current state up  *)
(* once and keeps its position in p_States while transitions change the    *)
(* state under it: the entry procedure and the action it runs later in the *)
(* same call are those of the state it started in.  The owner calls        *)
(* Process and Trigger from one thread; the callbacks are its own code.    *)
(*                                                                         *)
(* The calls that set a machine up (AddState, AddStateEntry, AddStateExit, *)
(* AddTrigger, SetStartingState) come before the first Process and are the *)
(* constants.                                                              *)
(***************************************************************************)
EXTENDS Integers, Sequences

CONSTANTS
  States,       \* p_States in the order of AddState
  Triggers,     \* what AddTrigger was given
  NoTrigger,    \* NO_TRIGGER
  Transitions,  \* p_Transitions, in order
  HasEntry,     \* the states AddStateEntry was called for
  HasExit,      \* the states AddStateExit was called for
  Returns,      \* what the action of a state may return
  Start         \* the argument of SetStartingState

Registered == {States[k] : k \in DOMAIN States}

\* TransitionState indexes p_States with a state, so states are added in the order
\* of their numbers; Process finds the starting state.
ASSUME FSMAssumption ==
  /\ States \in Seq(Nat)
  /\ \A k \in DOMAIN States : States[k] = k - 1
  /\ NoTrigger \notin Triggers
  /\ Transitions \in Seq([trigger : Triggers, src : Registered, dst : Registered])
  /\ HasEntry \subseteq Registered
  /\ HasExit \subseteq Registered
  /\ Returns \in [Registered -> SUBSET (Triggers \cup {NoTrigger})]
  /\ Start \in Registered

VARIABLES
  current,         \* p_CurrentState
  previous,        \* p_PreviousState
  runEntry,        \* p_RunEntry
  index,           \* the local index: a position in States
  trigger,         \* the local trigger
  numTransitions,  \* the local counter, a uint8_t
  pc,              \* where in Process the machine is
  entered,         \* history: the current state's own entry procedure has run
  open             \* history: states whose entry procedure ran and exit did not

machine == <<current, previous, runEntry, index, trigger, numTransitions, pc, entered, open>>

MachineTypeOK ==
  /\ current \in Registered
  /\ previous \in Registered
  /\ runEntry \in BOOLEAN
  /\ index \in DOMAIN States
  /\ trigger \in Triggers \cup {NoTrigger}
  /\ numTransitions \in 0..255
  /\ pc \in {"idle", "entry", "action", "loop"}
  /\ entered \in BOOLEAN
  /\ open \subseteq Registered

MachineInit ==
  /\ current = Start
  /\ previous = Start
  /\ runEntry = FALSE
  /\ index = 1
  /\ trigger = NoTrigger
  /\ numTransitions = 0
  /\ pc = "idle"
  /\ entered = FALSE
  /\ open = {}

\* The entry procedure of the state at index, if it has one and none ran yet.
EntryRuns == ~runEntry /\ States[index] \in HasEntry

\* Mutant: the destination of a transition is compared with the current state.
MatchingDestination(t, s) ==
  {k \in DOMAIN Transitions : Transitions[k].trigger = t /\ Transitions[k].dst = s}

\* The first transition for a trigger in a state, as a set of at most one.
Matching(t, s) ==
  {k \in DOMAIN Transitions :
     /\ Transitions[k].trigger = t
     /\ Transitions[k].src = s
     /\ \A j \in 1..(k - 1) : Transitions[j].trigger # t \/ Transitions[j].src # s}

\* Mutant: the exit procedure of the destination is run.
ExitOfDestination(opened, dst) == opened \ ({dst} \cap HasExit)

\* TransitionState runs the exit procedure of the state that is left.
ExitRuns(opened, dst) == opened \ ({current} \cap HasExit)

\* Mutant: p_RunEntry survives a transition.
KeepsRunEntry(entry) == entry

\* TransitionState makes the next Process run an entry procedure again.
ResetRunEntry(entry) == FALSE

\* FSM::Trigger: the owner fires a trigger between two calls of Process.
Trigger(t) ==
  /\ pc = "idle"
  /\ \E k \in Matching(t, current) :
       /\ current' = Transitions[k].dst
       /\ open' = ExitRuns(open, Transitions[k].dst)
  /\ runEntry' = ResetRunEntry(runEntry)
  /\ entered' = FALSE
  /\ UNCHANGED <<previous, index, trigger, numTransitions, pc>>

Process ==
  /\ pc = "idle"
  /\ \E k \in DOMAIN States : States[k] = current /\ index' = k
  /\ pc' = "entry"
  /\ numTransitions' = 0
  /\ trigger' = NoTrigger
  /\ UNCHANGED <<current, previous, runEntry, entered, open>>

RunEntry ==
  /\ pc = "entry"
  /\ runEntry' = (runEntry \/ EntryRuns)
  /\ entered' = (entered \/ EntryRuns)
  /\ open' = IF EntryRuns THEN open \cup {States[index]} ELSE open
  /\ pc' = "action"
  /\ UNCHANGED <<current, previous, index, trigger, numTransitions>>

\* The action of the state at index returns a trigger; NO_TRIGGER ends the call.
ActionReturns(t) ==
  /\ pc = "action"
  /\ trigger' = t
  /\ IF t = NoTrigger
     THEN pc' = "idle" /\ previous' = current
     ELSE pc' = "loop" /\ UNCHANGED previous
  /\ UNCHANGED <<current, runEntry, index, numTransitions, entered, open>>

RunAction == \E t \in Returns[States[index]] : ActionReturns(t)

\* Mutant: a counter that does not wrap.
IncrementedInt(n) == n + 1

\* numTransitions++ on a uint8_t.
Incremented(n) == (n + 1) % 256

\* One iteration of the while loop.  Without a transition to another state the
\* same trigger is tried again, and nothing changes any more.
Iterate ==
  /\ pc = "loop"
  /\ previous' = current
  /\ LET opened == IF EntryRuns THEN open \cup {States[index]} ELSE open
         ran    == runEntry \/ EntryRuns
     IN  IF Matching(trigger, current) = {}
         THEN /\ runEntry' = ran
              /\ open' = opened
              /\ entered' = (entered \/ (EntryRuns /\ States[index] = current))
              /\ UNCHANGED <<current, numTransitions, pc>>
         ELSE \E k \in Matching(trigger, current) :
                /\ current' = Transitions[k].dst
                /\ open' = ExitRuns(opened, Transitions[k].dst)
                /\ runEntry' = ResetRunEntry(ran)
                /\ entered' = FALSE
                /\ numTransitions' = Incremented(numTransitions)
                /\ pc' = IF Transitions[k].dst # current THEN "action" ELSE "loop"
  /\ UNCHANGED <<index, trigger>>

MachineNext ==
  \/ \E t \in Triggers : Trigger(t)
  \/ Process
  \/ RunEntry
  \/ RunAction
  \/ Iterate

MachineSpec == MachineInit /\ [][MachineNext]_machine

-----------------------------------------------------------------------------
\* Between two calls p_RunEntry never claims the entry procedure of the current
\* state when it was that of another one: the next Process runs the entry procedure
\* of a state entered by a transition, although the loop ran with a stale index.
EntryPending == pc = "idle" /\ runEntry => entered

\* The inductive invariant behind it: only inside the loop may the flag stand for
\* the entry procedure of another state, and every way out of the loop resets it.
EntryInv ==
  /\ pc # "loop" /\ runEntry => entered
  /\ pc = "entry" => States[index] = current
=============================================================================
