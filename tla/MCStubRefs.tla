----------------------------- MODULE MCStubRefs -----------------------------
(* Instances of StubRefs for TLC.                                          *)
EXTENDS StubRefs, TLC

CONSTANTS f1, f2, x1, x2, t1, t2

TwoFields  == {f1, f2}
TwoTargets == {x1, x2}
TwoThreads == {t1, t2}

Symmetry == Permutations(TwoFields) \cup Permutations(TwoTargets) \cup Permutations(TwoThreads)

(* The properties say nothing of what follows the other races.             *)
MishapBound == mishap \in {"none", "missed"}

=============================================================================
