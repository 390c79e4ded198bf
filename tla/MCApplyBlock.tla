---------------------------- MODULE MCApplyBlock ----------------------------
(***************************************************************************)
(* Instances of ApplyBlock for TLC.  Nothing tells keys apart, so they are *)
(* a symmetry set.                                                         *)
(***************************************************************************)
EXTENDS ApplyBlock

CONSTANTS k1, k2

TwoKeys == {k1, k2}
Alike == Permutations(PubKey)
=============================================================================
