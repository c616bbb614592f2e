---------------------------- MODULE MCSceneFiles ----------------------------
(* Small instances of SceneFiles for TLC.                                  *)
EXTENDS SceneFiles, TLC

CONSTANTS ts1, ts2, home1, home2, copy

\* Two scenes of a project; their files, and a copy of one of them.
Home  == ts1 :> home1 @@ ts2 :> home2
Files == {home1, home2, copy}

\* A name goes with its home: the two can only change places together.
Swaps == {f \in Permutations({ts1, ts2, home1, home2}) :
            \A n \in {ts1, ts2} : f[n] \in {ts1, ts2} /\ f[Home[n]] = Home[f[n]]}

\* One scene, with clients that do not look at the types of their handles.
OneHome == ts1 :> home1
Untyped == AllRules \ {"typed"}
=============================================================================
