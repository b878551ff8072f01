---------------------------- MODULE MCFileStore ----------------------------
(***************************************************************************)
(* One loan and two wish items; a receipt's scan, a picture, a screenshot  *)
(* that may be uploaded as either, and one picture left on the old disk.   *)
(***************************************************************************)
EXTENDS FileStore, TLC

MCLegacy == "oldPicture" :> "wishlist"
Symmetry == Permutations(Session) \cup Permutations(Item)
=============================================================================
