--------------------------- MODULE MCNativeFiles ---------------------------
(* Two updates of one record: the quota has room for the upload of either
   beside the file the record has, not for both. *)
EXTENDS NativeFiles, TLC
CONSTANTS s1, s2, old
Two == {s1, s2}
Sizes == (s1 :> 1) @@ (s2 :> 2) @@ (old :> 1)
=============================================================================
