--------------------------- MODULE MCRenderContext --------------------------
(* Surfaces that give two or three images; see the .cfg files.             *)
EXTENDS RenderContext

TwoOrThree == {2, 3}
==============================================================================
