--------------------------- MODULE MCSenderDispatch ---------------------------
(***************************************************************************)
(* Instances of SenderDispatch for TLC.  Paths are interchangeable.        *)
(***************************************************************************)
EXTENDS SenderDispatch

PathSymmetry == Permutations(Path)
=============================================================================
