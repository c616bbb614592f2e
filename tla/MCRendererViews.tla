--------------------------- MODULE MCRendererViews ---------------------------
(* A small instance of RendererViews for TLC.                              *)
EXTENDS RendererViews, TLC

CONSTANTS v1, v2

\* The shaders of the built-in pipeline and of a viewport that presents, which
\* share a vertex stage.
Shaders    == {"lightpass", "Present"}
LinkedFrom == [p \in Shaders |-> IF p = "lightpass" THEN {"uv.vert", "light.frag"}
                                ELSE {"uv.vert"}]

\* A template of a game needs no shader of its own.
Needs == [t \in {"deferred", "game"} |-> IF t = "deferred" THEN {"lightpass"} ELSE {}]

Symmetric == Permutations({v1, v2})
=============================================================================
