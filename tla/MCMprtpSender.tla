---------------------------- MODULE MCMprtpSender ----------------------------
(***************************************************************************)
(* Instances of MprtpSender for TLC.  Pads are interchangeable, and so are *)
(* ids.                                                                    *)
(***************************************************************************)
EXTENDS MprtpSender, TLC

PadSymmetry == Permutations(Pad) \cup Permutations(Id)
=============================================================================
