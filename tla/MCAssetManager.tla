--------------------------- MODULE MCAssetManager ---------------------------
(* Small instances of AssetManager for TLC.                                *)
EXTENDS AssetRefinement, TLC

\* Hashes that do not collide: a handle per path.
Identity == [i \in Info |-> i]

\* One model of three entries with one texture, that clients may also load.
CrateInfo     == {"crate.obj", "wood.png"}
CrateTypes    == [i \in CrateInfo |-> IF i = "crate.obj" THEN "Model" ELSE "Texture"]
CrateEntries  == [i \in CrateInfo |-> IF i = "crate.obj" THEN 3 ELSE 0]
CrateTextures == [i \in CrateInfo |-> IF i = "crate.obj" THEN <<"wood.png">> ELSE <<>>]

\* Two models that share a texture, a model none of whose meshes could be imported
\* and a text file; clients only ask for models and text.
SharedInfo     == {"chair.obj", "table.obj", "empty.obj", "wood.png", "notes.txt"}
SharedModels   == {"chair.obj", "table.obj", "empty.obj"}
SharedRequests == SharedInfo \ {"wood.png"}
SharedTypes    == [i \in SharedInfo |-> IF i \in SharedModels THEN "Model"
                                       ELSE IF i = "notes.txt" THEN "Text" ELSE "Texture"]
SharedEntries  == [i \in SharedInfo |-> IF i \in {"chair.obj", "table.obj"} THEN 1 ELSE 0]
SharedTextures == [i \in SharedInfo |-> IF SharedEntries[i] = 1 THEN <<"wood.png">> ELSE <<>>]
=============================================================================
