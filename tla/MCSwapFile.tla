----------------------------- MODULE MCSwapFile -----------------------------
(* Instances of SwapFile for TLC.                                          *)
EXTENDS SwapFile

CONSTANT t1

TwoKeys   == {1, 2}
TwoSizes  == <<1, 2>>
OneThread == {t1}

=============================================================================
