------------------------------ MODULE MCStats ------------------------------
(* A second of three microseconds, a sample every microsecond, and a cycle   *)
(* counter that counts microseconds too, but is read as one of cycles.      *)
EXTENDS Stats, TLC

CONSTANTS t1, t2, nobody, m, a, b, again

MCThreads == {t1, t2}
MCTestReplies == {a, b}
MCResends == {again}
MCLatency == (m :> 2) @@ (a :> 1) @@ (b :> 3)
MCOpts == {[haveTsc |-> FALSE, jobs |-> 1, mark |-> 1, outdir |-> FALSE],
           [haveTsc |-> TRUE, jobs |-> 2, mark |-> 0, outdir |-> TRUE]}
=============================================================================
