------------------------- MODULE MCReclamationTable -------------------------
(* Instances of ReclamationTable for TLC.                                  *)
EXTENDS ReclamationTable

CONSTANTS t1, t2

NoThreads  == {}
OneThread  == {t1}
TwoThreads == {t1, t2}

=============================================================================
