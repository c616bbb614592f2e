---------------------------- MODULE MCModelImport ----------------------------
(* A small instance of ModelImport for TLC.                                *)
EXTENDS ModelImport

\* A house with a mesh of lines between two others, one of them without texture
\* coordinates, which share a texture; a model whose root has a child; one that
\* cannot be opened; two textures.
Models   == {"house", "tree", "broken"}
Files    == Models \cup {"wood", "bump"}
MeshNames == {"wall", "wire", "roof", "leaf"}
Meshes   == [f \in Models |-> CASE f = "house" -> <<"wall", "wire", "roof">>
                                [] f = "tree"  -> <<"leaf">>
                                [] OTHER       -> <<>>]
Children == [f \in Models |-> IF f = "tree" THEN 1 ELSE 0]
Sizes    == [m \in MeshNames |-> IF m = "wall" THEN 4 ELSE 3]
Wood     == <<"diffuse", "wood">>
Bump     == <<"normal", "bump">>
Maps4    == [m \in MeshNames |->
               CASE m = "wall" -> <<Wood, Bump>>
                 [] m = "roof" -> <<Bump, Wood, <<"diffuse", "bump">>>>
                 [] OTHER      -> <<Wood>>]
=============================================================================
