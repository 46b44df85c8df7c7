------------------------------ MODULE MCSchTree ------------------------------
(***************************************************************************)
(* Instances of SchTreeSpec for TLC.  Paths are interchangeable.               *)
(***************************************************************************)
EXTENDS SchTreeSpec

PathSymmetry == Permutations(Path)
=============================================================================
