------------------------------ MODULE Exchange ------------------------------
(***************************************************************************)
(* What the request engine promises whoever has a request: nobody else has *)
(* it, and the reply it is given, if it is given one, is that to its own   *)
(* last call, once.  The promise ends with the first of the races and      *)
(* faults the code is not prepared for.                                    *)
(***************************************************************************)
CONSTANTS Req,    \* the requests
          Xids,   \* the names of calls
          NoCall  \* a request that does not wait for a reply

VARIABLES idle,   \* the requests nobody has
          call,   \* the call each request waits for
          wire,   \* the calls that may still be answered
          broken  \* the promise has ended

vars == <<idle, call, wire, broken>>

Init ==
  /\ idle = Req /\ call = [r \in Req |-> NoCall]
  /\ wire = {} /\ broken = FALSE

(* A request is taken out of the pool, and returned.                       *)
Acquire(r) ==
  /\ r \in idle
  /\ idle' = idle \ {r}
  /\ UNCHANGED <<call, wire, broken>>

Return(r) ==
  /\ r \notin idle /\ call[r] = NoCall
  /\ idle' = idle \cup {r}
  /\ UNCHANGED <<call, wire, broken>>

(* A call is sent, under a name no other call goes by; or it is lost.      *)
Call(r, x) ==
  /\ r \notin idle /\ call[r] = NoCall
  /\ x \notin wire /\ \A q \in Req : call[q] # x
  /\ call' = [call EXCEPT ![r] = x]
  /\ wire' \in {wire, wire \cup {x}}
  /\ UNCHANGED <<idle, broken>>

(* Its reply is handed to the request that sent it.                        *)
Reply(r) ==
  /\ call[r] \in wire
  /\ wire' = wire \ {call[r]}
  /\ call' = [call EXCEPT ![r] = NoCall]
  /\ UNCHANGED <<idle, broken>>

(* The connection ends.                                                    *)
Lose ==
  /\ wire' \in SUBSET wire
  /\ UNCHANGED <<idle, call, broken>>

Break == broken'

Next ==
  \/ Break
  \/ Lose
  \/ \E r \in Req : Acquire(r) \/ Return(r) \/ Reply(r) \/ \E x \in Xids : Call(r, x)

Spec == Init /\ [][Next]_vars
=============================================================================
