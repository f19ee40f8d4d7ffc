------------------------------- MODULE MCSwap -------------------------------
(* Instances of Swap for TLC.                                              *)
EXTENDS Swap, TLC

CONSTANTS o1, o2, t1, t2

OneObject  == {o1}
TwoObjects == {o1, o2}
NoThreads  == {}
OneThread  == {t1}
TwoThreads == {t1, t2}
OneField   == {1}
TwoFields  == {1, 2}
OneValue   == {0}
TwoValues  == {0, 1}

ThreadSymmetry == Permutations(Threads)

=============================================================================
