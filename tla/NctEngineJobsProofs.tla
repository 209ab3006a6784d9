------------------------ MODULE NctEngineJobsProofs ------------------------
(* The jobs of NctEngine: how many there are, how many calls they have in  *)
(* flight, what is left of them when main() unmounts, and that the main    *)
(* thread is woken when it waits for the first reply.                      *)
EXTENDS NctEngineProofs, FiniteSetTheorems

-----------------------------------------------------------------------------
(* The main thread, while it waits for the reply to the mount, waits for a *)
(* request without a callback, and is the one waiter; so the thread that   *)
(* answers it takes the branch that wakes it, and finds waiters > 0.       *)
Sleeping == {"m_sleep", "m_woken"}

WaitsPlain ==
  pc[Main] \in WaitingPcs \cup {"m_send"} => hold[Main] \in Req /\ ~reqCb[hold[Main]]

WaitersExact ==
  /\ pc[Main] \in Sleeping => waiters = 1
  /\ pc[Main] \in {"m_alloc", "m_send", "m_check", "m_wait"} => waiters = 0

WakeInv == TypeInv /\ WaitsPlain /\ WaitersExact /\ NoLostWakeup

LEMMA WakeInit == Init => WakeInv
  BY TypeInit, EngineAssumption
  DEF Init, WakeInv, WaitsPlain, WaitersExact, NoLostWakeup, WaitingPcs, Sleeping, Actors

(* A step that leaves the main thread and req_done alone, after which      *)
(* every thread on its way to wake is still on it.                         *)
LEMMA WakeQuiet ==
  ASSUME WakeInv, TypeInv',
         UNCHANGED <<reqDone, reqCb, waiters>>,
         pc'[Main] = pc[Main], hold'[Main] = hold[Main],
         \A t \in RecvThreads :
           pc[t] \in {"answered", "wake"} => pc'[t] \in {"answered", "wake"} /\ hold'[t] = hold[t]
  PROVE  WakeInv'
  BY DEF WakeInv, WaitsPlain, WaitersExact, NoLostWakeup

LEMMA WakeNext == WakeInv /\ [Next]_vars => WakeInv'
  <1>. SUFFICES ASSUME WakeInv, [Next]_vars PROVE WakeInv'
    OBVIOUS
  <1>1. TypeInv /\ TypeInv'
    BY TypeNext DEF WakeInv
  <1>2. Main \in Actors /\ \A t \in RecvThreads : t \in Actors /\ t # Main
    BY EngineAssumption DEF Actors
  <1>. USE <1>1, <1>2 DEF At, Goto, Hold, table, reqs, conn, locals, jobs
  <1>3. ASSUME NEW t \in RecvThreads, RecvStep(t) PROVE WakeInv'
    <2>1. CASE RecvAlloc(t)
      BY <2>1 DEF RecvAlloc, Take, WakeInv, WaitsPlain, WaitersExact, NoLostWakeup, TypeInv, TypeOK
    <2>2. CASE Match(t)
      <3>1. CASE UNCHANGED <<reqs, pc>>
        BY <2>2, <3>1, WakeQuiet DEF Match
      <3>2. CASE hold[t] # NULL /\ reqXid[hold[t]] = rxid[t]
        <4>1. /\ reqDone' = [reqDone EXCEPT ![hold[t]] = TRUE]
              /\ pc' = [pc EXCEPT ![t] = IF reqCb[hold[t]] THEN "called" ELSE "answered"]
              /\ UNCHANGED <<reqCb, hold, waiters>> /\ pc[t] = "match" /\ hold[t] \in Req
          BY <2>2, <3>2 DEF Match, TypeInv, TypeOK
        <4>2. NoLostWakeup'
          BY <4>1 DEF WakeInv, WaitsPlain, WaitingPcs, NoLostWakeup, TypeInv, TypeOK
        <4>. QED
          BY <4>1, <4>2 DEF WakeInv, WaitsPlain, WaitersExact, TypeInv, TypeOK
      <3>. QED
        BY <2>2, <3>1, <3>2 DEF Match
    <2>3. CASE Branch(t)
      <3>1. /\ pc' = [pc EXCEPT ![t] = IF reqCb[hold[t]] THEN "cb" ELSE "wake"]
            /\ UNCHANGED <<reqDone, reqCb, hold, waiters>>
        BY <2>3 DEF Branch
      <3>2. NoLostWakeup'
        BY <3>1 DEF WakeInv, WaitsPlain, WaitingPcs, NoLostWakeup, TypeInv, TypeOK
      <3>. QED
        BY <3>1, <3>2 DEF WakeInv, WaitsPlain, WaitersExact, TypeInv, TypeOK
    <2>4. CASE Wake(t)
      <3>1. /\ \A a \in Actors \ {t, Main} : pc'[a] = pc[a]
            /\ pc'[Main] = IF waiters > 0 /\ pc[Main] = "m_sleep" THEN "m_woken" ELSE pc[Main]
            /\ UNCHANGED <<reqDone, reqCb, waiters>> /\ hold'[Main] = hold[Main]
        BY <2>4 DEF Wake, SomeoneWaits, TypeInv, TypeOK
      <3>2. pc'[Main] # "m_sleep"
        BY <3>1 DEF WakeInv, WaitersExact, Sleeping
      <3>. QED
        BY <3>1, <3>2 DEF WakeInv, WaitsPlain, WaitersExact, NoLostWakeup, Sleeping, WaitingPcs
    <2>5. CASE CallbackSends(t)
      <3>1. /\ reqDone' = [reqDone EXCEPT ![hold[t]] = FALSE]
            /\ UNCHANGED <<reqCb, hold, waiters>> /\ pc[t] = "cb"
            /\ pc' = [pc EXCEPT ![t] = "check"]
        BY <2>5 DEF CallbackSends, Transmit
      <3>. QED
        BY <3>1 DEF WakeInv, WaitsPlain, WaitersExact, NoLostWakeup, TypeInv, TypeOK
    <2>6. CASE Scan(t)
      <3>1. /\ reqDone' = reqDone \/ reqDone' = [reqDone EXCEPT ![tbl[scanI[t]]] = FALSE]
            /\ UNCHANGED <<reqCb, waiters>> /\ pc[t] = "scan"
            /\ pc' = pc \/ pc' = [pc EXCEPT ![t] = "rescan"]
            /\ \A a \in Actors \ {t} : hold'[a] = hold[a]
        BY <2>6 DEF Scan, Transmit, TypeInv, TypeOK
      <3>2. \A a \in Actors \ {t} : pc'[a] = pc[a]
        BY <3>1 DEF TypeInv, TypeOK
      <3>3. hold[Main] \in Req /\ reqDone'[hold[Main]] => reqDone[hold[Main]]
        BY <3>1 DEF TypeInv, TypeOK
      <3>4. NoLostWakeup'
        <4>. SUFFICES ASSUME pc'[Main] = "m_sleep", reqDone'[hold'[Main]]
                      PROVE  \E u \in RecvThreads : pc'[u] \in {"answered", "wake"} /\ hold'[u] = hold'[Main]
          BY DEF NoLostWakeup
        <4>1. reqDone[hold[Main]] /\ pc[Main] = "m_sleep" /\ hold'[Main] = hold[Main]
          BY <3>1, <3>2, <3>3 DEF WakeInv, WaitsPlain, WaitingPcs
        <4>2. PICK u \in RecvThreads : pc[u] \in {"answered", "wake"} /\ hold[u] = hold[Main]
          BY <4>1 DEF WakeInv, NoLostWakeup
        <4>3. u # t
          BY <3>1, <4>2
        <4>. QED
          BY <3>1, <3>2, <4>1, <4>2, <4>3
      <3>. QED
        BY <3>1, <3>2, <3>4 DEF WakeInv, WaitsPlain, WaitersExact
    <2>7. CASE \/ Receive(t) \/ ReceiveEof(t) \/ ReceiveDenied(t) \/ ReceiveError(t) \/ Lookup(t)
               \/ CallbackFails(t) \/ ReadFreedStatus(t) \/ CallbackExpires(t)
               \/ CallbackReturns(t) \/ EndJob(t) \/ ShutWrite(t) \/ Reconnect(t) \/ Rescan(t)
      <3>1. /\ UNCHANGED <<reqDone, reqCb, waiters>> /\ pc[t] \notin {"answered", "wake"}
            /\ \A a \in Actors \ {t} : pc'[a] = pc[a] /\ hold'[a] = hold[a]
        BY <2>7 DEF Receive, ReceiveEof, ReceiveDenied, ReceiveError, Lookup, CallbackFails,
             ReadFreedStatus, CallbackExpires, CallbackReturns, LengthCheck, EndJob, ShutWrite,
             Reconnect, Rescan, TypeInv, TypeOK
      <3>. QED
        BY <3>1, WakeQuiet
    <2>. QED
      BY <1>3, <2>1, <2>2, <2>3, <2>4, <2>5, <2>6, <2>7 DEF RecvStep
  <1>4. CASE MainStep
    <2>1. CASE MountAlloc
      BY <2>1 DEF MountAlloc, Take, WakeInv, WaitsPlain, WaitersExact, NoLostWakeup, TypeInv, TypeOK,
           WaitingPcs, Sleeping
    <2>2. CASE MountSend
      <3>1. pc' = [pc EXCEPT ![Main] = "m_check"] /\ UNCHANGED <<reqCb, hold, waiters>> /\ pc[Main] = "m_send"
        BY <2>2 DEF MountSend, Transmit
      <3>. QED
        BY <3>1 DEF WakeInv, WaitsPlain, WaitersExact, NoLostWakeup, TypeInv, TypeOK, WaitingPcs, Sleeping
    <2>3. CASE MountCheck \/ WaitReply \/ WaitAgain
      BY <2>3 DEF MountCheck, LengthCheck, WaitReply, WaitAgain, Answered, WakeInv, WaitsPlain,
           WaitersExact, NoLostWakeup, TypeInv, TypeOK, WaitingPcs, Sleeping
    <2>4. CASE \/ MountAttr \/ NextJob \/ JobAlloc \/ JobStart \/ JobSend \/ JobCheck
               \/ StatsExit \/ Umount \/ Join
      <3>1. pc'[Main] \in {"m_attr", "j_next", "j_alloc", "j_start", "j_send", "j_check",
                           "stats", "umount", "join", "done"}
        BY <2>4 DEF MountAttr, NextJob, JobAlloc, JobStart, JobSend, JobCheck, LengthCheck,
             StatsExit, Umount, Join, TypeInv, TypeOK
      <3>. QED
        BY <3>1 DEF WakeInv, WaitsPlain, WaitersExact, NoLostWakeup, WaitingPcs, Sleeping
    <2>. QED
      BY <1>4, <2>1, <2>2, <2>3, <2>4 DEF MainStep
  <1>5. CASE SpuriousWakeup
    BY <1>5 DEF SpuriousWakeup, WakeInv, WaitsPlain, WaitersExact, NoLostWakeup, TypeInv, TypeOK,
         WaitingPcs, Sleeping
  <1>6. CASE (\E r \in Req : Expire(r)) \/ ServerCloses \/ UNCHANGED vars
    BY <1>6, WakeQuiet DEF Expire, ServerCloses, vars
  <1>. QED
    BY <1>3, <1>4, <1>5, <1>6 DEF Next

(* The main thread never sleeps on a reply that has arrived unless a       *)
(* thread is on its way to wake it: nct_req_wait against the broadcast of  *)
(* nct_req_recv_loop, whatever races and faults have happened.             *)
THEOREM WakeupIsNotLost == Spec => []NoLostWakeup
  <1>1. WakeInv => NoLostWakeup
    BY DEF WakeInv
  <1>. QED
    BY <1>1, WakeInit, WakeNext, PTL DEF Spec

-----------------------------------------------------------------------------
(* The count of jobs, as long as nothing in mishap has happened.  A job is *)
(* a request with a callback outside of the pool, or one freed a moment    *)
(* ago by a thread that still has to take it off the count.                *)
Ending == {t \in RecvThreads : pc[t] \in {"rc", "dec"}}
Starting == IF pc[Main] \in {"j_alloc", "j_start"} THEN 1 ELSE 0

Counted == jobsCnt = Cardinality(LiveJobs) + Cardinality(Ending) + Starting

(* Who runs a callback has a request with one; the main thread has one     *)
(* without until start() sets it.                                          *)
CallbackHeld == \A t \in RecvThreads : pc[t] \in {"called", "cb"} => hold[t] \in Req /\ reqCb[hold[t]]
MainHolds ==
  fate = "run" =>
    /\ pc[Main] \in {"m_attr", "j_start"} => ~reqCb[hold[Main]]
    /\ pc[Main] = "j_send" => reqCb[hold[Main]]

(* What is parked in the table is a job, or the call of the mount.         *)
ParkedLive ==
  \A i \in Slots : tbl[i] # NULL =>
    reqCb[tbl[i]] \/ (pc[Main] \in WaitingPcs /\ hold[Main] = tbl[i])

(* No more jobs are counted than were begun, none before the mount and     *)
(* none once the statistics loop has ended.                                *)
Begun == IF pc[Main] \in {"j_alloc", "j_start", "j_send"} THEN started + 1 ELSE started
Bounded == jobsCnt <= Begun /\ Begun <= JobsMax
NoneYet == pc[Main] \in {"m_alloc", "m_send", "m_attr"} \cup WaitingPcs => started = 0
NoneLeft == pc[Main] \in {"umount", "join", "done"} => jobsCnt = 0

JobsInv ==
  Counted /\ CallbackHeld /\ MainHolds /\ ParkedLive /\ Bounded /\ NoneYet /\ NoneLeft

CountInv == IInv /\ (mishap = {} => JobsInv)

(* Sets of requests and of threads can be counted.                         *)
LEMMA Countable ==
  \A S : S \subseteq Req \/ S \subseteq RecvThreads => IsFiniteSet(S) /\ Cardinality(S) \in Nat
  BY CountingAssumption, FS_Subset, FS_CardinalityType

LEMMA JobsInit == Init => JobsInv
  <1>. SUFFICES ASSUME Init PROVE JobsInv
    OBVIOUS
  <1>1. pc[Main] = "m_alloc" /\ \A t \in RecvThreads : pc[t] = "alloc"
    BY EngineAssumption DEF Init, Actors
  <1>2. LiveJobs = {} /\ Ending = {} /\ Starting = 0 /\ Begun = 0
    BY <1>1 DEF Init, LiveJobs, Ending, Starting, Begun
  <1>3. Counted
    BY <1>2, FS_EmptySet DEF Init, Counted
  <1>4. CallbackHeld /\ MainHolds /\ NoneLeft
    BY <1>1 DEF CallbackHeld, MainHolds, NoneLeft
  <1>5. ParkedLive /\ NoneYet
    BY DEF Init, ParkedLive, NoneYet
  <1>6. Bounded
    BY <1>2, EngineAssumption DEF Init, Bounded
  <1>. QED
    BY <1>3, <1>4, <1>5, <1>6 DEF JobsInv

(* A step of a receive thread or of the world that starts and ends no job. *)
LEMMA QuietJobs ==
  ASSUME TypeInv, JobsInv,
         UNCHANGED <<reqCb, free, jobsCnt, started>>,
         fate' = "run" => fate = "run",
         pc'[Main] = pc[Main] \/ (pc[Main] = "m_sleep" /\ pc'[Main] = "m_woken"),
         hold'[Main] = hold[Main],
         \A t \in RecvThreads : pc'[t] \in {"called", "cb"} => hold'[t] \in Req /\ reqCb[hold'[t]],
         \A t \in RecvThreads : pc'[t] \in {"rc", "dec"} <=> pc[t] \in {"rc", "dec"},
         \A i \in Slots : tbl'[i] = tbl[i] \/ tbl'[i] = NULL \/ reqCb[tbl'[i]]
  PROVE  JobsInv'
  <1>1. LiveJobs' = LiveJobs /\ Ending' = Ending
    BY DEF LiveJobs, Ending
  <1>2. Counted'
    BY <1>1 DEF JobsInv, Counted, Starting
  <1>3. CallbackHeld'
    BY DEF CallbackHeld
  <1>4. MainHolds'
    BY DEF JobsInv, MainHolds
  <1>5. ParkedLive'
    BY DEF JobsInv, ParkedLive, WaitingPcs
  <1>6. Bounded' /\ NoneYet' /\ NoneLeft'
    BY DEF JobsInv, Bounded, Begun, NoneYet, NoneLeft, WaitingPcs
  <1>. QED
    BY <1>2, <1>3, <1>4, <1>5, <1>6 DEF JobsInv

(* A request that leaves the pool is nobody's job, before and after.       *)
LEMMA TakeKeepsJobs ==
  ASSUME TypeInv, RouteInv, JobsInv, NEW r \in Req, Take(r)
  PROVE  /\ LiveJobs' = LiveJobs /\ ~reqCb'[r]
         /\ \A q \in Req \ {r} : reqCb'[q] = reqCb[q]
         /\ \A a \in Actors : pc[a] \in OwningPcs => hold[a] # r
         /\ \A i \in Slots : tbl[i] # r
  <1>1. /\ reqCb' = [reqCb EXCEPT ![r] = FALSE] /\ free' = free \ {r} /\ r \in free
        /\ reqCb \in [Req -> BOOLEAN]
    BY DEF Take, TypeInv, TypeOK
  <1>2. ~reqCb'[r] /\ \A q \in Req \ {r} : reqCb'[q] = reqCb[q]
    BY <1>1
  <1>3. LiveJobs' = LiveJobs
    BY <1>1, <1>2 DEF LiveJobs
  <1>4. \A a \in Actors : pc[a] \in OwningPcs => hold[a] # r
    BY <1>1 DEF RouteInv, ClaimsOut, Claims
  <1>5. \A i \in Slots : tbl[i] # r
    BY <1>1, EngineAssumption DEF RouteInv, ParkedOut
  <1>. QED
    BY <1>2, <1>3, <1>4, <1>5

(* A callback frees its request: the job is no longer alive, and ending.   *)
LEMMA ReleaseEndsJob ==
  ASSUME TypeInv, RouteInv, JobsInv, NEW t \in RecvThreads,
         pc[t] = "cb", free' = free \cup {hold[t]},
         pc'[t] \in {"rc", "dec"},
         \A a \in Actors \ {t} : pc'[a] = pc[a] /\ hold'[a] = hold[a],
         fate = "run", UNCHANGED <<reqCb, tbl, jobsCnt, started>>
  PROVE  JobsInv'
  <1>1. /\ hold[t] \in LiveJobs /\ t \notin Ending /\ t \in Actors
        /\ Main \in Actors \ {t}
    BY EngineAssumption DEF JobsInv, CallbackHeld, LiveJobs, Ending, RouteInv, ClaimsOut, Claims, OwningPcs, Actors
  <1>2. LiveJobs' = LiveJobs \ {hold[t]} /\ Ending' = Ending \cup {t}
    BY <1>1 DEF LiveJobs, Ending, Actors
  <1>3. IsFiniteSet(LiveJobs) /\ IsFiniteSet(Ending)
    BY Countable DEF LiveJobs, Ending
  <1>4. /\ Cardinality(LiveJobs') = Cardinality(LiveJobs) - 1
        /\ Cardinality(Ending') = Cardinality(Ending) + 1
    BY <1>1, <1>2, <1>3, FS_AddElement, FS_RemoveElement
  <1>5. Cardinality(LiveJobs) \in Nat /\ Cardinality(Ending) \in Nat /\ Starting \in Nat
    BY Countable DEF LiveJobs, Ending, Starting
  <1>6. Counted'
    BY <1>1, <1>4, <1>5 DEF JobsInv, Counted, Starting
  <1>7. CallbackHeld'
    BY DEF JobsInv, CallbackHeld, Actors
  <1>8. MainHolds' /\ ParkedLive' /\ Bounded' /\ NoneYet' /\ NoneLeft'
    BY <1>1 DEF JobsInv, MainHolds, ParkedLive, Bounded, Begun, NoneYet, NoneLeft
  <1>. QED
    BY <1>6, <1>7, <1>8 DEF JobsInv

LEMMA RecvJobs ==
  ASSUME TypeInv, TypeInv', RouteInv, JobsInv, mishap' = {}, NEW t \in RecvThreads, RecvStep(t)
  PROVE  JobsInv'
  <1>1. /\ t \in Actors /\ Main \in Actors /\ t # Main
        /\ pc \in [Actors -> RecvPcs \cup MainPcs] /\ hold \in [Actors -> Req \cup {NULL}]
    BY EngineAssumption DEF Actors, TypeInv, TypeOK
  <1>. USE <1>1 DEF At, Goto, Hold, table, reqs, conn, locals, jobs
  <1>2. CASE RecvAlloc(t)
    <2>1. PICK r \in Req : Take(r)
      BY <1>2 DEF RecvAlloc
    <2>2. /\ pc' = [pc EXCEPT ![t] = "recv"] /\ pc[t] = "alloc"
          /\ UNCHANGED <<fate, hold, tbl, jobsCnt, started>>
      BY <1>2 DEF RecvAlloc
    <2>3. /\ LiveJobs' = LiveJobs
          /\ \A q \in Req \ {r} : reqCb'[q] = reqCb[q]
          /\ \A a \in Actors : pc[a] \in OwningPcs => hold[a] # r
          /\ \A i \in Slots : tbl[i] # r
      BY <2>1, TakeKeepsJobs
    <2>4. Ending' = Ending /\ Starting' = Starting /\ Begun' = Begun
      BY <2>2 DEF Ending, Starting, Begun
    <2>5. Counted' /\ Bounded' /\ NoneYet' /\ NoneLeft'
      BY <2>2, <2>3, <2>4 DEF JobsInv, Counted, Bounded, NoneYet, NoneLeft
    <2>6. CallbackHeld'
      BY <2>2, <2>3 DEF JobsInv, CallbackHeld, OwningPcs, Actors
    <2>7. MainHolds'
      <3>1. ASSUME fate = "run", pc[Main] \in {"m_attr", "j_start", "j_send"}
            PROVE  hold[Main] \in Req \ {r}
        BY <2>3, <3>1 DEF TypeInv, HoldOK, HoldingPcs, OwningPcs
      <3>. QED
        BY <2>2, <2>3, <3>1 DEF JobsInv, MainHolds
    <2>8. ParkedLive'
      <3>1. \A i \in Slots : tbl[i] # NULL => tbl[i] \in Req \ {r}
        BY <2>3 DEF TypeInv, TypeOK
      <3>. QED
        BY <2>2, <2>3, <3>1 DEF JobsInv, ParkedLive
    <2>. QED
      BY <2>5, <2>6, <2>7, <2>8 DEF JobsInv
  <1>3. CASE Match(t)
    <2>1. \A i \in Slots : tbl'[i] = tbl[i] \/ tbl'[i] = NULL
      BY <1>3 DEF Match, ClearSlot, TypeInv, TypeOK
    <2>2. /\ UNCHANGED <<reqCb, free, jobsCnt, started, hold>> /\ fate = "run" /\ pc[t] = "match"
          /\ \/ pc' = pc
             \/ hold[t] \in Req /\ pc' = [pc EXCEPT ![t] = IF reqCb[hold[t]] THEN "called" ELSE "answered"]
      BY <1>3 DEF Match
    <2>3. /\ \A a \in Actors \ {t} : pc'[a] = pc[a]
          /\ pc'[t] = "called" => hold[t] \in Req /\ reqCb[hold[t]]
          /\ pc'[t] \notin {"cb", "rc", "dec"}
      BY <2>2
    <2>. QED
      BY <2>1, <2>2, <2>3, QuietJobs DEF JobsInv, CallbackHeld, Actors
  <1>4. CASE Branch(t)
    <2>1. /\ UNCHANGED <<reqCb, free, jobsCnt, started, hold, tbl>> /\ fate = "run"
          /\ hold[t] \in Req /\ pc[t] \in {"called", "answered"}
          /\ pc' = [pc EXCEPT ![t] = IF reqCb[hold[t]] THEN "cb" ELSE "wake"]
      BY <1>4 DEF Branch, TypeInv, HoldOK, HoldingPcs, OwningPcs
    <2>. QED
      BY <2>1, QuietJobs DEF JobsInv, CallbackHeld
  <1>5. CASE Wake(t)
    <2>1. /\ UNCHANGED <<reqCb, free, jobsCnt, started, tbl>> /\ fate = "run"
          /\ pc[t] = "wake" /\ pc'[t] = "recv"
          /\ pc'[Main] = pc[Main] \/ (pc[Main] = "m_sleep" /\ pc'[Main] = "m_woken")
          /\ \A u \in RecvThreads \ {t} : pc'[u] = pc[u] /\ hold'[u] = hold[u]
          /\ hold'[Main] = hold[Main]
      BY <1>5, EngineAssumption DEF Wake, Actors
    <2>. QED
      BY <2>1, QuietJobs DEF JobsInv, CallbackHeld
  <1>6. CASE CallbackFails(t)
    <2>1. /\ free' = free \cup {hold[t]} /\ pc[t] = "cb" /\ fate = "run"
          /\ pc' = [pc EXCEPT ![t] = "rc"] \/ pc' = [pc EXCEPT ![t] = "dec"]
          /\ \A a \in Actors \ {t} : hold'[a] = hold[a]
          /\ UNCHANGED <<reqCb, tbl, jobsCnt, started>>
      BY <1>6 DEF CallbackFails, Release
    <2>. QED
      BY <2>1, ReleaseEndsJob
  <1>7. CASE CallbackExpires(t)
    <2>1. /\ free' = free \cup {hold[t]} /\ pc[t] = "cb" /\ fate = "run"
          /\ pc' = [pc EXCEPT ![t] = "dec"]
          /\ \A a \in Actors \ {t} : hold'[a] = hold[a]
          /\ UNCHANGED <<reqCb, tbl, jobsCnt, started>>
      BY <1>7 DEF CallbackExpires, Release
    <2>. QED
      BY <2>1, ReleaseEndsJob
  <1>8. CASE CallbackSends(t)
    <2>1. /\ UNCHANGED <<reqCb, free, jobsCnt, started, hold>> /\ fate = "run"
          /\ pc[t] = "cb" /\ pc' = [pc EXCEPT ![t] = "check"]
          /\ tbl' = [tbl EXCEPT ![Slot(sendXid)] = hold[t]]
      BY <1>8 DEF CallbackSends, Transmit
    <2>2. \A i \in Slots : tbl'[i] = tbl[i] \/ reqCb[tbl'[i]]
      BY <2>1 DEF JobsInv, CallbackHeld, TypeInv, TypeOK
    <2>. QED
      BY <2>1, <2>2, QuietJobs DEF JobsInv, CallbackHeld
  <1>9. CASE EndJob(t)
    <2>1. /\ UNCHANGED <<fate, reqCb, free, tbl, started, hold>> /\ pc[t] = "dec"
          /\ pc' = [pc EXCEPT ![t] = "shut"] \/ pc' = [pc EXCEPT ![t] = "recv"]
          /\ jobsCnt' = (jobsCnt + UMod - 1) % UMod
      BY <1>9 DEF EndJob, OneJobLess
    <2>0. pc'[t] \in {"shut", "recv"} /\ \A a \in Actors \ {t} : pc'[a] = pc[a]
      BY <2>1
    <2>2. LiveJobs' = LiveJobs /\ Ending' = Ending \ {t} /\ t \in Ending /\ Starting' = Starting
      <3>1. LiveJobs' = LiveJobs
        BY <2>1 DEF LiveJobs
      <3>2. Ending' = Ending \ {t} /\ t \in Ending
        BY <2>0, <2>1 DEF Ending, Actors
      <3>. QED
        BY <2>0, <3>1, <3>2 DEF Starting
    <2>3. IsFiniteSet(Ending) /\ Cardinality(Ending) \in Nat /\ Cardinality(Ending') \in Nat
      BY Countable DEF Ending
    <2>4. Cardinality(Ending') = Cardinality(Ending) - 1
      BY <2>2, <2>3, FS_RemoveElement
    <2>5. Cardinality(LiveJobs) \in Nat /\ Starting \in Nat
      BY Countable DEF LiveJobs, Starting
    <2>6. jobsCnt \in 1 .. UMod - 1
      BY <2>3, <2>4, <2>5 DEF JobsInv, Counted, TypeInv, TypeOK, Xids
    <2>7. jobsCnt' = jobsCnt - 1
      BY <2>1, <2>6, EngineAssumption
    <2>8. Counted'
      BY <2>2, <2>3, <2>4, <2>5, <2>6, <2>7 DEF JobsInv, Counted
    <2>9. CallbackHeld' /\ MainHolds' /\ ParkedLive' /\ NoneYet'
      BY <2>0, <2>1 DEF JobsInv, CallbackHeld, MainHolds, ParkedLive, NoneYet, Actors
    <2>10. Begun' = Begun /\ Begun \in Int
      BY <2>0, <2>1 DEF Begun, TypeInv, TypeOK
    <2>11. Bounded' /\ NoneLeft'
      BY <2>0, <2>6, <2>7, <2>10, EngineAssumption DEF JobsInv, Bounded, NoneLeft
    <2>. QED
      BY <2>8, <2>9, <2>11 DEF JobsInv
  <1>10. CASE ReceiveDenied(t) \/ Reconnect(t) \/ Scan(t) \/ Rescan(t)
    BY <1>10 DEF ReceiveDenied, Reconnect, Scan, Rescan, RouteInv, NoReconnect
  <1>11. CASE \/ Receive(t) \/ ReceiveEof(t) \/ ReceiveError(t) \/ Lookup(t)
              \/ CallbackReturns(t) \/ ShutWrite(t)
    <2>1. /\ UNCHANGED <<reqCb, free, jobsCnt, started, tbl>> /\ fate = "run"
          /\ \A a \in Actors \ {t} : pc'[a] = pc[a] /\ hold'[a] = hold[a]
          /\ pc[t] \notin {"called", "cb", "rc", "dec"} /\ pc'[t] \notin {"called", "cb", "rc", "dec"}
      BY <1>11 DEF Receive, ReceiveEof, ReceiveError, Lookup, CallbackReturns, LengthCheck, ShutWrite
    <2>. QED
      BY <2>1, QuietJobs DEF JobsInv, CallbackHeld, Actors
  <1>12. CASE ReadFreedStatus(t)
    <2>1. /\ UNCHANGED <<reqCb, free, jobsCnt, started, tbl>> /\ fate = "run"
          /\ pc[t] = "rc" /\ pc' = [pc EXCEPT ![t] = "dec"]
          /\ \A a \in Actors \ {t} : hold'[a] = hold[a]
      BY <1>12 DEF ReadFreedStatus
    <2>. QED
      BY <2>1, QuietJobs DEF JobsInv, CallbackHeld, Actors
  <1>. QED
    BY <1>2, <1>3, <1>4, <1>5, <1>6, <1>7, <1>8, <1>9, <1>10, <1>11, <1>12 DEF RecvStep

(* The steps of the main thread.                                           *)
LEMMA MainJobs ==
  ASSUME TypeInv, TypeInv', RouteInv, JobsInv, mishap' = {}, MainStep
  PROVE  JobsInv'
  <1>1. /\ Main \in Actors /\ Main \notin RecvThreads
        /\ pc \in [Actors -> RecvPcs \cup MainPcs] /\ hold \in [Actors -> Req \cup {NULL}]
        /\ jobsCnt \in Nat /\ started \in Nat
    BY EngineAssumption DEF Actors, TypeInv, TypeOK, Xids
  <1>2. fate = "run" /\ \A t \in RecvThreads : pc'[t] = pc[t] /\ hold'[t] = hold[t]
    BY <1>1 DEF MainStep, MountAlloc, MountSend, MountCheck, LengthCheck, WaitReply, WaitAgain, MountAttr,
       NextJob, JobAlloc, JobStart, JobSend, JobCheck, StatsExit, Umount, Join, At, Goto, Hold, locals, Actors
  <1>3. Ending' = Ending
    BY <1>2 DEF Ending
  <1>. USE <1>1 DEF At, Goto, Hold, table, reqs, conn, locals, jobs
  <1>4. CASE MountAlloc \/ JobAlloc
    <2>1. PICK r \in Req : Take(r) /\ hold' = [hold EXCEPT ![Main] = r]
      BY <1>4 DEF MountAlloc, JobAlloc
    <2>2. /\ \/ pc[Main] = "m_alloc" /\ pc'[Main] = "m_send"
             \/ pc[Main] = "j_alloc" /\ pc'[Main] = "j_start"
          /\ UNCHANGED <<fate, tbl, jobsCnt, started>>
      BY <1>4 DEF MountAlloc, JobAlloc
    <2>3. /\ LiveJobs' = LiveJobs /\ ~reqCb'[r]
          /\ \A q \in Req \ {r} : reqCb'[q] = reqCb[q]
          /\ \A a \in Actors : pc[a] \in OwningPcs => hold[a] # r
          /\ \A i \in Slots : tbl[i] # r
      BY <2>1, TakeKeepsJobs
    <2>4. Counted' /\ Bounded' /\ NoneYet' /\ NoneLeft'
      BY <1>3, <2>2, <2>3 DEF JobsInv, Counted, Starting, Bounded, Begun, NoneYet, NoneLeft, WaitingPcs
    <2>5. CallbackHeld'
      BY <1>2, <2>3 DEF JobsInv, CallbackHeld, OwningPcs, Actors
    <2>6. MainHolds'
      BY <2>1, <2>2, <2>3 DEF MainHolds
    <2>7. ParkedLive'
      <3>1. \A i \in Slots : tbl[i] # NULL => tbl[i] \in Req \ {r}
        BY <2>3 DEF TypeInv, TypeOK
      <3>. QED
        BY <2>2, <2>3, <3>1 DEF JobsInv, ParkedLive, WaitingPcs
    <2>. QED
      BY <2>4, <2>5, <2>6, <2>7 DEF JobsInv
  <1>5. ASSUME UNCHANGED <<reqCb, free>> PROVE LiveJobs' = LiveJobs /\ CallbackHeld'
    BY <1>2, <1>5 DEF LiveJobs, JobsInv, CallbackHeld
  <1>6. CASE MountSend \/ JobSend
    <2>1. /\ \/ /\ pc[Main] = "m_send" /\ pc'[Main] = "m_check" /\ started' = started
             \/ /\ pc[Main] = "j_send" /\ pc'[Main] = "j_check" /\ started' = started + 1
                /\ reqCb[hold[Main]]
          /\ UNCHANGED <<reqCb, free, jobsCnt, hold>>
          /\ tbl' = [tbl EXCEPT ![Slot(sendXid)] = hold[Main]]
      BY <1>6 DEF MountSend, JobSend, Transmit, JobsInv, MainHolds
    <2>2. Counted' /\ MainHolds'
      BY <1>3, <1>5, <2>1 DEF JobsInv, Counted, Starting, MainHolds
    <2>3. Bounded' /\ NoneYet' /\ NoneLeft'
      BY <2>1 DEF JobsInv, Bounded, Begun, NoneYet, NoneLeft, WaitingPcs
    <2>4. ParkedLive'
      BY <2>1 DEF JobsInv, ParkedLive, WaitingPcs, TypeInv, TypeOK
    <2>. QED
      BY <1>5, <2>1, <2>2, <2>3, <2>4 DEF JobsInv
  <1>7. CASE MountCheck \/ WaitReply \/ WaitAgain
    <2>1. /\ pc[Main] \in WaitingPcs
          /\ pc'[Main] \in WaitingPcs \/ (pc'[Main] = "m_attr" /\ reqDone[hold[Main]])
          /\ UNCHANGED <<reqCb, free, jobsCnt, started, hold, tbl>>
      BY <1>7 DEF MountCheck, LengthCheck, WaitReply, WaitAgain, Answered, WaitingPcs
    <2>2. Counted' /\ MainHolds'
      BY <1>3, <1>5, <2>1 DEF JobsInv, Counted, Starting, MainHolds, RouteInv, MountPlain, WaitingPcs
    <2>3. Bounded' /\ NoneYet' /\ NoneLeft'
      BY <2>1 DEF JobsInv, Bounded, Begun, NoneYet, NoneLeft, WaitingPcs
    <2>4. ParkedLive'
      BY <2>1 DEF JobsInv, ParkedLive, RouteInv, SlotsHold
    <2>. QED
      BY <1>5, <2>1, <2>2, <2>3, <2>4 DEF JobsInv
  <1>8. CASE MountAttr
    <2>1. /\ pc[Main] = "m_attr" /\ hold[Main] \in Req /\ ~reqCb[hold[Main]]
          /\ UNCHANGED <<reqCb, tbl, jobsCnt, started>>
          /\ \/ fate' # "run" /\ free' = free /\ pc' = pc
             \/ free' = free \cup {hold[Main]} /\ pc'[Main] = "j_next"
      BY <1>8 DEF MountAttr, Release, JobsInv, MainHolds, TypeInv, HoldOK, HoldingPcs, OwningPcs
    <2>2. LiveJobs' = LiveJobs
      BY <2>1 DEF LiveJobs
    <2>3. Counted' /\ MainHolds'
      BY <1>3, <2>1, <2>2 DEF JobsInv, Counted, Starting, MainHolds
    <2>4. Bounded' /\ NoneYet' /\ NoneLeft'
      BY <2>1 DEF JobsInv, Bounded, Begun, NoneYet, NoneLeft, WaitingPcs
    <2>5. ParkedLive' /\ CallbackHeld'
      BY <1>2, <2>1 DEF JobsInv, ParkedLive, CallbackHeld, WaitingPcs
    <2>. QED
      BY <2>3, <2>4, <2>5 DEF JobsInv
  <1>9. CASE NextJob
    <2>1. /\ pc[Main] = "j_next" /\ UNCHANGED <<reqCb, free, tbl, started>>
          /\ \/ /\ started < JobsMax /\ pc'[Main] = "j_alloc" /\ jobsCnt' = (jobsCnt + 1) % UMod
             \/ pc'[Main] = "stats" /\ jobsCnt' = jobsCnt
      BY <1>9 DEF NextJob
    <2>2. started < JobsMax => (jobsCnt + 1) % UMod = jobsCnt + 1
      BY <2>1, EngineAssumption, CountingAssumption DEF JobsInv, Bounded, Begun
    <2>3. Cardinality(LiveJobs) \in Nat /\ Cardinality(Ending) \in Nat
      BY Countable DEF LiveJobs, Ending
    <2>4. Counted'
      BY <1>3, <1>5, <2>1, <2>2, <2>3 DEF JobsInv, Counted, Starting
    <2>5. MainHolds' /\ ParkedLive' /\ NoneYet' /\ NoneLeft'
      BY <2>1 DEF JobsInv, MainHolds, ParkedLive, NoneYet, NoneLeft, WaitingPcs
    <2>6. Bounded'
      BY <2>1, <2>2, EngineAssumption DEF JobsInv, Bounded, Begun
    <2>. QED
      BY <1>5, <2>1, <2>4, <2>5, <2>6 DEF JobsInv
  <1>10. CASE JobStart
    <2>1. /\ pc[Main] = "j_start" /\ pc'[Main] = "j_send"
          /\ reqCb' = [reqCb EXCEPT ![hold[Main]] = TRUE]
          /\ UNCHANGED <<free, tbl, jobsCnt, started, hold>>
      BY <1>10 DEF JobStart
    <2>2. /\ hold[Main] \in Req \ free /\ ~reqCb[hold[Main]] /\ reqCb \in [Req -> BOOLEAN]
      BY <1>2, <2>1 DEF JobsInv, MainHolds, TypeInv, TypeOK, HoldOK, HoldingPcs, OwningPcs, RouteInv, ClaimsOut, Claims
    <2>3. reqCb'[hold[Main]] /\ \A q \in Req : reqCb[q] => reqCb'[q]
      BY <2>1, <2>2
    <2>4. hold[Main] \notin LiveJobs /\ LiveJobs' = LiveJobs \cup {hold[Main]}
      BY <2>1, <2>2 DEF LiveJobs
    <2>5. /\ IsFiniteSet(LiveJobs) /\ Cardinality(LiveJobs) \in Nat /\ Cardinality(Ending) \in Nat
      BY Countable DEF LiveJobs, Ending
    <2>6. Cardinality(LiveJobs') = Cardinality(LiveJobs) + 1
      BY <2>4, <2>5, FS_AddElement
    <2>7. Counted'
      BY <1>3, <2>1, <2>5, <2>6 DEF JobsInv, Counted, Starting
    <2>8. CallbackHeld' /\ MainHolds'
      BY <1>2, <2>1, <2>3 DEF JobsInv, CallbackHeld, MainHolds
    <2>9. ParkedLive'
      BY <2>1, <2>3 DEF JobsInv, ParkedLive, WaitingPcs, TypeInv, TypeOK
    <2>10. Bounded' /\ NoneYet' /\ NoneLeft'
      BY <2>1 DEF JobsInv, Bounded, Begun, NoneYet, NoneLeft, WaitingPcs
    <2>. QED
      BY <2>7, <2>8, <2>9, <2>10 DEF JobsInv
  <1>11. CASE JobCheck \/ StatsExit \/ Umount \/ Join
    <2>1. /\ pc[Main] \in {"j_check", "stats", "umount", "join"}
          /\ pc'[Main] \in {"j_check", "j_next"} \/ (pc'[Main] \in {"umount", "join", "done"} /\ jobsCnt = 0)
          /\ UNCHANGED <<reqCb, free, tbl, jobsCnt, started>>
      BY <1>11 DEF JobCheck, LengthCheck, StatsExit, JobsGone, Umount, Join, JobsInv, NoneLeft
    <2>2. Counted' /\ MainHolds'
      BY <1>3, <1>5, <2>1 DEF JobsInv, Counted, Starting, MainHolds
    <2>3. ParkedLive' /\ Bounded' /\ NoneYet' /\ NoneLeft'
      BY <2>1 DEF JobsInv, ParkedLive, Bounded, Begun, NoneYet, NoneLeft, WaitingPcs
    <2>. QED
      BY <1>5, <2>1, <2>2, <2>3 DEF JobsInv
  <1>. QED
    BY <1>4, <1>6, <1>7, <1>8, <1>9, <1>10, <1>11 DEF MainStep

LEMMA WorldJobs ==
  ASSUME TypeInv, JobsInv,
         SpuriousWakeup \/ (\E r \in Req : Expire(r)) \/ ServerCloses \/ UNCHANGED vars
  PROVE  JobsInv'
  <1>1. /\ UNCHANGED <<fate, reqCb, free, jobsCnt, started, tbl, hold>>
        /\ \/ pc' = pc
           \/ pc[Main] = "m_sleep" /\ pc' = [pc EXCEPT ![Main] = "m_woken"]
    BY DEF SpuriousWakeup, Expire, ServerCloses, vars, At, Goto, table, reqs, locals, jobs
  <1>2. pc'[Main] = pc[Main] \/ (pc[Main] = "m_sleep" /\ pc'[Main] = "m_woken")
    BY <1>1 DEF TypeInv, TypeOK, Actors
  <1>3. \A t \in RecvThreads : pc'[t] = pc[t]
    BY <1>1, EngineAssumption DEF TypeInv, TypeOK, Actors
  <1>. QED
    BY <1>1, <1>2, <1>3, QuietJobs DEF JobsInv, CallbackHeld

LEMMA CountNext == CountInv /\ [Next]_vars => CountInv'
  <1>. SUFFICES ASSUME CountInv, [Next]_vars PROVE CountInv'
    OBVIOUS
  <1>1. IInv /\ IInv'
    BY IInvNext DEF CountInv
  <1>2. ASSUME mishap' = {} PROVE JobsInv'
    <2>1. TypeInv /\ TypeInv' /\ RouteInv /\ JobsInv
      BY <1>1, <1>2, MishapGrows DEF CountInv, IInv
    <2>2. CASE \E t \in RecvThreads : RecvStep(t)
      BY <1>2, <2>1, <2>2, RecvJobs
    <2>3. CASE MainStep
      BY <1>2, <2>1, <2>3, MainJobs
    <2>4. CASE SpuriousWakeup \/ (\E r \in Req : Expire(r)) \/ ServerCloses \/ UNCHANGED vars
      BY <2>1, <2>4, WorldJobs
    <2>. QED
      BY <2>2, <2>3, <2>4 DEF Next
  <1>. QED
    BY <1>1, <1>2 DEF CountInv

LEMMA CountHolds == Spec => []CountInv
  <1>1. Init => CountInv
    BY IInvInit, JobsInit DEF CountInv
  <1>. QED
    BY <1>1, CountNext, PTL DEF Spec

(* mnt_jobs_cnt is the number of the jobs alive or ending, for any number  *)
(* of threads and jobs and every way a callback may end.                   *)
THEOREM JobsAreCounted == Spec => []JobsCounted
  <1>1. CountInv => JobsCounted
    BY DEF CountInv, JobsInv, Counted, JobsCounted, Ending, Starting
  <1>. QED
    BY <1>1, CountHolds, PTL

(* A request that is called for is found in its slot, so that there are no *)
(* more calls than jobs, or one, that of the mount, before the first job.  *)
LEMMA CallsAreJobs ==
  ASSUME TypeInv, RouteInv, JobsInv, NEW x \in calls
  PROVE  tbl[Slot(x)] \in IF pc[Main] \in WaitingPcs THEN LiveJobs \cup {hold[Main]} ELSE LiveJobs
  <1>1. /\ Slot(x) \in Slots /\ tbl[Slot(x)] # NULL
    BY SlotInSlots DEF RouteInv, CallsFound, Found, TypeInv, TypeOK
  <1>2. tbl[Slot(x)] \in Req \ free
    BY <1>1 DEF RouteInv, ParkedOut, TypeInv, TypeOK
  <1>. QED
    BY <1>1, <1>2 DEF JobsInv, ParkedLive, LiveJobs

LEMMA FewCalls ==
  ASSUME TypeInv, RouteInv, JobsInv
  PROVE  Cardinality(calls) <= JobsMax
  <1>. DEFINE S == IF pc[Main] \in WaitingPcs THEN LiveJobs \cup {hold[Main]} ELSE LiveJobs
              f == [x \in calls |-> tbl[Slot(x)]]
  <1>1. f \in Injection(calls, S)
    <2>1. f \in [calls -> S]
      BY CallsAreJobs
    <2>2. \A x, y \in calls : f[x] = f[y] => x = y
      BY DEF RouteInv, CallsFound, Found
    <2>. QED
      BY <2>1, <2>2 DEF Injection, IsInjective
  <1>2. /\ IsFiniteSet(LiveJobs) /\ Cardinality(LiveJobs) \in Nat /\ Cardinality(Ending) \in Nat
        /\ Starting \in Nat /\ started \in Nat /\ jobsCnt \in Int
    BY Countable DEF LiveJobs, Ending, Starting, TypeInv, TypeOK, Xids
  <1>3. Cardinality(LiveJobs) <= jobsCnt
    BY <1>2 DEF JobsInv, Counted
  <1>4. IsFiniteSet(S) /\ Cardinality(S) <= JobsMax
    <2>1. CASE pc[Main] \in WaitingPcs
      <3>1. Cardinality(LiveJobs) = 0
        BY <1>2, <1>3, <2>1 DEF JobsInv, Bounded, Begun, NoneYet, WaitingPcs
      <3>2. S = {hold[Main]}
        BY <1>2, <2>1, <3>1, FS_EmptySet
      <3>3. IsFiniteSet({hold[Main]}) /\ Cardinality({hold[Main]}) = 1
        BY FS_Singleton
      <3>4. 1 <= JobsMax
        BY EngineAssumption
      <3>. HIDE DEF S
      <3>. QED
        BY <3>2, <3>3, <3>4
    <2>2. CASE pc[Main] \notin WaitingPcs
      BY <1>2, <1>3, <2>2, EngineAssumption DEF JobsInv, Bounded, Begun
    <2>. QED
      BY <2>1, <2>2
  <1>5. Cardinality(S) \in Nat /\ Cardinality(calls) \in Nat /\ Cardinality(calls) <= Cardinality(S)
    BY <1>1, <1>4, FS_Injection, FS_CardinalityType
  <1>. QED
    BY <1>4, <1>5, EngineAssumption

(* Until one of the named races or faults happens, no more calls than -j   *)
(* are in flight.                                                          *)
THEOREM CallsInFlight == Spec => []InFlightUnlessMishap
  <1>1. CountInv => InFlightUnlessMishap
    BY FewCalls DEF CountInv, IInv, InFlightUnlessMishap, InFlightAtMostJobs
  <1>. QED
    BY <1>1, CountHolds, PTL

(* When main() unmounts, no call is outstanding and no receive thread has  *)
(* anything left to do for a job.                                          *)
THEOREM TeardownIsQuiet == Spec => []TeardownQuiet
  <1>1. ASSUME CountInv, mishap = {}, pc[Main] \in {"umount", "join", "done"}
        PROVE  /\ calls = {}
               /\ \A t \in RecvThreads :
                    pc[t] \in {"alloc", "recv", "answered", "wake", "check", "shut", "exited"}
    <2>1. TypeInv /\ RouteInv /\ JobsInv
      BY <1>1 DEF CountInv, IInv
    <2>2. /\ IsFiniteSet(LiveJobs) /\ Cardinality(LiveJobs) \in Nat
          /\ IsFiniteSet(Ending) /\ Cardinality(Ending) \in Nat
      BY Countable DEF LiveJobs, Ending
    <2>3. LiveJobs = {} /\ Ending = {}
      <3>1. Cardinality(LiveJobs) + Cardinality(Ending) = 0
        BY <1>1, <2>1, <2>2 DEF JobsInv, Counted, Starting, NoneLeft
      <3>. QED
        BY <2>2, <3>1, FS_EmptySet
    <2>4. calls = {}
      BY <1>1, <2>1, <2>3, CallsAreJobs DEF WaitingPcs
    <2>5. \A i \in Slots : tbl[i] = NULL
      BY <1>1, <2>1, <2>3 DEF JobsInv, ParkedLive, LiveJobs, RouteInv, ParkedOut, WaitingPcs, TypeInv, TypeOK
    <2>6. ASSUME NEW t \in RecvThreads
          PROVE  pc[t] \in {"alloc", "recv", "answered", "wake", "check", "shut", "exited"}
      <3>1. ~InReply(t)
        <4>1. rxid[t] \in Xids
          BY <2>1 DEF TypeInv, TypeOK
        <4>. QED
          BY <2>1, <2>5, <4>1, SlotInSlots DEF RouteInv, RepliesFound, Found
      <3>2. pc[t] \notin {"called", "cb"}
        BY <2>1, <2>3 DEF JobsInv, CallbackHeld, LiveJobs, RouteInv, ClaimsOut, Claims, OwningPcs, Actors
      <3>3. pc[t] \notin {"rc", "dec"}
        BY <2>3 DEF Ending
      <3>4. pc[t] \in RecvPcs /\ pc[t] \notin {"reconn", "scan", "rescan"}
        BY <2>1 DEF TypeInv, HoldOK, RouteInv, NoReconnect
      <3>. QED
        BY <3>1, <3>2, <3>3, <3>4 DEF InReply, RecvPcs
    <2>. QED
      BY <2>4, <2>6
  <1>2. CountInv => TeardownQuiet
    BY <1>1 DEF TeardownQuiet
  <1>. QED
    BY <1>2, CountHolds, PTL
=============================================================================
