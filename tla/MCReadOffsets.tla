--------------------------- MODULE MCReadOffsets ---------------------------
(* Bounds for ReadOffsets: a file of two reads and a rest.                 *)
EXTENDS ReadOffsets

CONSTANTS t1, t2, m

OneThread == {t1}
TwoThreads == {t1, t2}
=============================================================================
