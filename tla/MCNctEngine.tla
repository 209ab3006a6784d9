---------------------------- MODULE MCNctEngine ----------------------------
(* Model values, their symmetry and the bounds for NctEngine.              *)
EXTENDS NctEngine, TLC

CONSTANTS t1, t2, q1, q2, q3, q4

OneThread == {t1}
TwoThreads == {t1, t2}
TwoReqs == {q1, q2}
ThreeReqs == {q1, q2, q3}
FourReqs == {q1, q2, q3, q4}

NullTest == {"null"}
DecodingTests == {"getattr", "read"}

NoFaults == {}
AllFaults == FaultKinds
Eof == {"eof"}

Symmetry == Permutations(RecvThreads) \cup Permutations(Req)
=============================================================================
