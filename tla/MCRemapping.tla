---------------------------- MODULE MCRemapping -----------------------------
(* Instances of Remapping for TLC.                                         *)
EXTENDS Remapping, TLC

CONSTANTS o1, o2, o3

ThreeObjects == {o1, o2, o3}
(* One address more than objects: a stub is allocated before its object is *)
(* freed.  The addresses of the spaces interleave.                         *)
Spaces     == 0 :> {1, 3, 6, 8} @@ 1 :> {2, 4, 5, 7}
OneLarge   == {9}

Symmetry == Permutations(ThreeObjects)

=============================================================================
