------------------------------ MODULE FreePool ------------------------------
(***************************************************************************)
(* What the pool of request objects promises: a thread that wants a        *)
(* request gets one nobody else has, and as long as a request is free and  *)
(* a thread wants one, some thread gets one.                               *)
(***************************************************************************)
CONSTANTS Threads, Reqs

VARIABLES free,   \* the requests nobody has
          want,   \* the threads inside nct_req_alloc
          got     \* the request a thread has just been given, or {}

vars == <<free, want, got>>

Init == free = Reqs /\ want = {} /\ got = [t \in Threads |-> {}]

(* nct_req_alloc is called.                                                *)
Ask(t) ==
  /\ t \notin want
  /\ want' = want \cup {t}
  /\ UNCHANGED <<free, got>>

(* It takes a request out of the pool, which settles what it will return.  *)
Grant(t, r) ==
  /\ t \in want /\ r \in free
  /\ want' = want \ {t}
  /\ free' = free \ {r}
  /\ got' = [got EXCEPT ![t] = {r}]

(* The thread has passed it on.                                            *)
Use(t) ==
  /\ got[t] # {}
  /\ got' = [got EXCEPT ![t] = {}]
  /\ UNCHANGED <<free, want>>

(* nct_req_free, by any thread.                                            *)
Return(r) ==
  /\ r \in Reqs \ free
  /\ free' = free \cup {r}
  /\ UNCHANGED <<want, got>>

SomeGrant == \E t \in Threads, r \in Reqs : Grant(t, r)

Next ==
  \/ \E t \in Threads : Ask(t) \/ Use(t)
  \/ SomeGrant
  \/ \E r \in Reqs : Return(r)

Spec == Init /\ [][Next]_vars
FairSpec == Spec /\ WF_vars(SomeGrant)
=============================================================================
