----------------------------- MODULE MCReqPool -----------------------------
(* A pool smaller than the number of jobs, so that the main thread and a   *)
(* receive thread that starts late both have to wait.                      *)
EXTENDS ReqPool

CONSTANTS t1, t2, m, r1, r2, r3, none

MCRecvThreads == {t1, t2}
MCReqs == {r1, r2, r3}
=============================================================================
