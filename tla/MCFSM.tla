------------------------------- MODULE MCFSM -------------------------------
(* An instance of FSM whose actions return any trigger at any time; one     *)
(* state has no procedures, one has a transition to itself.                 *)
EXTENDS FSM

T(t, s, d) == [trigger |-> t, src |-> s, dst |-> d]

ThreeStates     == <<0, 1, 2>>
FreeTransitions == <<T("a", 0, 1), T("a", 1, 2), T("b", 1, 0), T("b", 2, 0), T("a", 2, 2), T("b", 0, 2)>>
FreeReturns     == [s \in 0..2 |-> {"None", "a", "b"}]
=============================================================================
