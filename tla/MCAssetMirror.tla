--------------------------- MODULE MCAssetMirror ---------------------------
(* Small instances of AssetMirror for TLC. *)
EXTENDS AssetMirror, TLC

CONSTANTS l1, l2, png1, svg1, png2, e1, e2

(* Two images of one entity, whose extension changed, and one of another. *)
Shown == (png1 :> e1) @@ (svg1 :> e1) @@ (png2 :> e2)

(* One image each of two entities. *)
Apart == (png1 :> e1) @@ (png2 :> e2)
=============================================================================
