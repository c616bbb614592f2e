------------------------------ MODULE MCScenes ------------------------------
(* A small instance of Scenes for TLC.                                     *)
EXTENDS Scenes

\* A model with its texture, and a file without a loader.
Files    == {"crate", "wood", "notes"}
Textures == [h \in Files |-> IF h = "crate" THEN {"wood"} ELSE {}]

\* A saved scene without a model, and one with it.
Saved == {{}, {"crate"}}
=============================================================================
