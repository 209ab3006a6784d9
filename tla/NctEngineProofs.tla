-------------------------- MODULE NctEngineProofs --------------------------
(* Theorems about NctEngine, for every number of threads, requests and     *)
(* jobs, every test and every set of faults.                               *)
EXTENDS NctEngine, TLAPS

(* The places where a thread's local variable req is not null.             *)
HoldingPcs == OwningPcs \cup WaitingPcs \cup {"answered", "wake", "check", "rc", "j_check"}

(* Each thread runs its own code, and has a request where it uses one.     *)
HoldOK ==
  /\ \A t \in RecvThreads : pc[t] \in RecvPcs
  /\ pc[Main] \in MainPcs
  /\ fate = "run" => \A a \in Actors : pc[a] \in HoldingPcs => hold[a] \in Req

TypeInv == TypeOK /\ HoldOK

LEMMA ModRange == ASSUME NEW n \in Nat \ {0}, NEW x \in Int PROVE x % n \in 0..(n - 1)
  OBVIOUS

LEMMA SlotInSlots == ASSUME NEW x \in Xids PROVE Slot(x) \in Slots
  BY EngineAssumption, ModRange DEF Slot, Slots, Xids

LEMMA ZeroInRange == 0 \in Xids /\ 0 \in Slots
  BY EngineAssumption DEF Xids, Slots

LEMMA TypeInit == Init => TypeInv
  <1>. SUFFICES ASSUME Init PROVE TypeInv
    OBVIOUS
  <1>1. TypeOK
    <2>1. pc \in [Actors -> RecvPcs \cup MainPcs]
      BY DEF Init, RecvPcs, MainPcs
    <2>2. rstat \in [RecvThreads -> Status] /\ msgStat \in [Req -> Status]
      BY DEF Init, Status
    <2>3. fate \in Fates
      BY DEF Init, Fates
    <2>4. /\ reqDone \in [Req -> BOOLEAN] /\ reqCb \in [Req -> BOOLEAN]
          /\ reqOut \in [Req -> BOOLEAN]
      BY DEF Init
    <2>5. wr \in BOOLEAN /\ eof \in BOOLEAN
      BY DEF Init
    <2>6. /\ tbl \in [Slots -> Req \cup {NULL}] /\ msgLen \in [Req -> {"tx", "rx"}]
          /\ hold \in [Actors -> Req \cup {NULL}] /\ req0 \in [RecvThreads -> Req \cup {NULL}]
      BY DEF Init
    <2>7. /\ reqXid \in [Req -> Xids] /\ rxid \in [RecvThreads -> Xids]
          /\ scanI \in [RecvThreads -> Slots]
      BY ZeroInRange DEF Init
    <2>8. /\ mishap \subseteq Mishaps /\ expired \subseteq Req /\ free \subseteq Req
          /\ calls \subseteq Xids
      BY DEF Init
    <2>9. /\ sendXid \in Xids /\ sends \in Nat /\ jobsCnt \in Xids /\ started \in Nat
          /\ waiters \in Int
      BY ZeroInRange DEF Init
    <2>10. test \in Tests
      BY DEF Init
    <2>. QED
      BY <2>1, <2>2, <2>3, <2>4, <2>5, <2>6, <2>7, <2>8, <2>9, <2>10 DEF TypeOK
  <1>2. HoldOK
    BY EngineAssumption
    DEF Init, HoldOK, HoldingPcs, OwningPcs, WaitingPcs, Actors, RecvPcs, MainPcs
  <1>. QED
    BY <1>1, <1>2 DEF TypeInv

LEMMA TypeNext == TypeInv /\ [Next]_vars => TypeInv'
  <1>. SUFFICES ASSUME TypeInv, [Next]_vars PROVE TypeInv'
    OBVIOUS
  <1>. USE EngineAssumption, SlotInSlots, ZeroInRange
       DEF TypeInv, TypeOK, HoldOK, HoldingPcs, OwningPcs, WaitingPcs, Actors, RecvPcs,
           MainPcs, At, Goto, table, reqs, conn, locals, jobs
  <1>0. test' \in Tests
    BY DEF Next, RecvStep, MainStep, SpuriousWakeup, Expire, ServerCloses, vars
  <1>. USE <1>0
  <1>1. ASSUME NEW t \in RecvThreads, RecvStep(t) PROVE TypeInv'
    <2>1. CASE RecvAlloc(t)
      BY <2>1 DEF RecvAlloc, Take
    <2>2. CASE Receive(t)
      BY <2>2 DEF Receive, Status
    <2>3. CASE ReceiveEof(t)
      BY <2>3 DEF ReceiveEof
    <2>4. CASE ReceiveDenied(t)
      BY <2>4 DEF ReceiveDenied, Mishaps
    <2>5. CASE ReceiveError(t)
      BY <2>5 DEF ReceiveError, Fates
    <2>6. CASE Lookup(t)
      BY <2>6 DEF Lookup, Hold, Find
    <2>7. CASE Match(t)
      <3>1. CASE hold[t] = NULL /\ fate' = "segv" /\ UNCHANGED <<reqs, pc>>
        BY <2>7, <3>1 DEF Match, ClearSlot, Fates, Status
      <3>2. CASE fate' = "abort_xid" /\ UNCHANGED <<reqs, pc>>
        BY <2>7, <3>2 DEF Match, ClearSlot, Fates, Status
      <3>3. CASE fate' = fate
        <4>1. HoldOK'
          BY <2>7, <3>3 DEF Match
        <4>2. reqDone' \in [Req -> BOOLEAN] /\ reqOut' \in [Req -> BOOLEAN]
          <5>1. /\ reqDone' = [reqDone EXCEPT ![hold[t]] = TRUE]
                /\ reqOut' = [reqOut EXCEPT ![hold[t]] = FALSE]
            BY <2>7, <3>3 DEF Match
          <5>. QED
            BY <5>1
        <4>4. msgLen' \in [Req -> {"tx", "rx"}] /\ msgStat' \in [Req -> Status]
          BY <2>7, <3>3 DEF Match
        <4>3. pc' \in [Actors -> RecvPcs \cup MainPcs] /\ rstat' \in [RecvThreads -> Status]
          BY <2>7, <3>3 DEF Match, Status
        <4>. QED
          BY <2>7, <3>3, <4>1, <4>2, <4>3, <4>4 DEF Match, ClearSlot
      <3>. QED
        BY <2>7, <3>1, <3>2, <3>3 DEF Match
    <2>8. CASE Branch(t)
      BY <2>8 DEF Branch, Mishaps
    <2>9. CASE Wake(t)
      BY <2>9 DEF Wake, Hold, SomeoneWaits
    <2>10. CASE CallbackFails(t)
      <3>1. hold[t] \in Req
        BY <2>10 DEF CallbackFails
      <3>2. TypeOK'
        <4>1. mishap' \subseteq Mishaps
          BY <2>10 DEF CallbackFails, Mishaps
        <4>2. fate' \in Fates /\ free' \subseteq Req
          BY <2>10, <3>1 DEF CallbackFails, Release, Fates
        <4>3. /\ pc' \in [Actors -> RecvPcs \cup MainPcs]
              /\ hold' \in [Actors -> Req \cup {NULL}]
          BY <2>10 DEF CallbackFails, Hold
        <4>. QED
          BY <2>10, <4>1, <4>2, <4>3 DEF CallbackFails
      <3>3. HoldOK'
        BY <2>10, <3>1 DEF CallbackFails, Release, Hold
      <3>. QED
        BY <3>2, <3>3
    <2>11. CASE ReadFreedStatus(t)
      BY <2>11 DEF ReadFreedStatus, Hold, Mishaps
    <2>12. CASE CallbackExpires(t)
      BY <2>12 DEF CallbackExpires, Release, Hold, Fates
    <2>13. CASE CallbackSends(t)
      BY <2>13, ModRange DEF CallbackSends, Transmit, Stamp, Overruns, Xids, Fates, Mishaps
    <2>14. CASE CallbackReturns(t)
      BY <2>14 DEF CallbackReturns, LengthCheck, Hold, Fates
    <2>15. CASE EndJob(t)
      BY <2>15, ModRange DEF EndJob, OneJobLess, Xids
    <2>16. CASE ShutWrite(t)
      BY <2>16 DEF ShutWrite
    <2>17. CASE Reconnect(t)
      <3>1. calls' \subseteq Xids /\ wr' \in BOOLEAN /\ eof' \in BOOLEAN /\ fate' \in Fates
        BY <2>17 DEF Reconnect, Fates
      <3>2. /\ pc' \in [Actors -> RecvPcs \cup MainPcs]
            /\ scanI' \in [RecvThreads -> Slots]
        BY <2>17 DEF Reconnect
      <3>3. HoldOK'
        BY <2>17 DEF Reconnect
      <3>. QED
        BY <2>17, <3>1, <3>2, <3>3 DEF Reconnect
    <2>18. CASE Scan(t)
      <3>1. CASE fate' = "segv" /\ UNCHANGED <<mishap, table, reqs, calls, wr, eof, pc, hold>>
        BY <2>18, <3>1 DEF Scan, Fates
      <3>2. CASE /\ tbl[scanI[t]] # NULL
                 /\ Goto(t, "rescan") /\ Hold(t, NULL)
                 /\ UNCHANGED <<fate, mishap, table, reqs, calls, wr, eof>>
        BY <2>18, <3>2 DEF Scan, Hold
      <3>3. CASE /\ tbl[scanI[t]] # NULL /\ Transmit(tbl[scanI[t]], FALSE)
                 /\ mishap' = mishap \cup Overruns
                 /\ Goto(t, "rescan") /\ Hold(t, tbl[scanI[t]])
        <4>1. tbl[scanI[t]] \in Req
          BY <3>3
        <4>2. HoldOK'
          BY <2>18, <3>3, <4>1 DEF Scan, Transmit, Hold
        <4>3. TypeOK'
          BY <2>18, <3>3, <4>1, ModRange DEF Scan, Transmit, Stamp, Overruns, Hold, Xids, Fates, Mishaps
        <4>. QED
          BY <4>2, <4>3
      <3>. QED
        BY <2>18, <3>1, <3>2, <3>3 DEF Scan
    <2>19. CASE Rescan(t)
      <3>1. scanI' \in [RecvThreads -> Slots]
        <4>1. scanI[t] + 1 < ReqMax => scanI[t] + 1 \in Slots
          <5>1. scanI[t] \in Slots
            OBVIOUS
          <5>. QED
            BY <5>1 DEF Slots
        <4>2. \/ scanI' = scanI
              \/ scanI[t] + 1 < ReqMax /\ scanI' = [scanI EXCEPT ![t] = scanI[t] + 1]
              \/ scanI' = [scanI EXCEPT ![t] = 0]
          BY <2>19 DEF Rescan
        <4>. QED
          BY <4>1, <4>2
      <3>2. HoldOK'
        <4>1. fate' = fate \/ fate' = "abort_send"
          BY <2>19 DEF Rescan
        <4>2. pc' = pc \/ pc' = [pc EXCEPT ![t] = "scan"] \/ pc' = [pc EXCEPT ![t] = "recv"]
          BY <2>19 DEF Rescan
        <4>3. hold' = [hold EXCEPT ![t] = NULL] /\ pc[t] = "rescan" /\ fate = "run"
          BY <2>19 DEF Rescan, Hold
        <4>. QED
          BY <4>1, <4>2, <4>3
      <3>. QED
        BY <2>19, <3>1, <3>2 DEF Rescan, Hold, Fates
    <2>. QED
      BY <1>1, <2>1, <2>2, <2>3, <2>4, <2>5, <2>6, <2>7, <2>8, <2>9, <2>10, <2>11, <2>12, <2>13, <2>14, <2>15, <2>16, <2>17, <2>18, <2>19 DEF RecvStep
  <1>2. CASE MainStep
    <2>1. CASE MountAlloc
      BY <2>1 DEF MountAlloc, Take, Hold
    <2>2. CASE MountSend
      BY <2>2, ModRange DEF MountSend, Transmit, Stamp, Overruns, Xids, Fates, Mishaps
    <2>3. CASE MountCheck
      <3>1. HoldOK'
        BY <2>3 DEF MountCheck, LengthCheck
      <3>2. TypeOK'
        BY <2>3 DEF MountCheck, LengthCheck, Fates
      <3>. QED
        BY <3>1, <3>2
    <2>4. CASE WaitReply
      BY <2>4 DEF WaitReply, Answered
    <2>5. CASE WaitAgain
      BY <2>5 DEF WaitAgain, Answered
    <2>6. CASE MountAttr
      BY <2>6 DEF MountAttr, Release, Hold, Fates
    <2>7. CASE NextJob
      <3>1. (jobsCnt + 1) % UMod \in Xids
        BY ModRange DEF Xids
      <3>2. HoldOK'
        BY <2>7 DEF NextJob
      <3>. QED
        BY <2>7, <3>1, <3>2 DEF NextJob
    <2>8. CASE JobAlloc
      BY <2>8 DEF JobAlloc, Take, Hold
    <2>9. CASE JobStart
      <3>1. reqCb' \in [Req -> BOOLEAN]
        BY <2>9 DEF JobStart
      <3>2. HoldOK'
        BY <2>9 DEF JobStart, Hold
      <3>. QED
        <4>1. mishap' \subseteq Mishaps
          <5>1. mishap' = mishap \/ mishap' = mishap \cup {"nostart"}
            BY <2>9 DEF JobStart
          <5>2. "nostart" \in Mishaps
            BY DEF Mishaps
          <5>. QED
            BY <5>1, <5>2
        <4>2. /\ pc' \in [Actors -> RecvPcs \cup MainPcs]
              /\ hold' \in [Actors -> Req \cup {NULL}]
          BY <2>9 DEF JobStart, Hold
        <4>3. started' \in Nat /\ expired' \subseteq Req
          BY <2>9 DEF JobStart
        <4>. QED
          BY <2>9, <3>1, <3>2, <4>1, <4>2, <4>3 DEF JobStart
    <2>10. CASE JobSend
      BY <2>10, ModRange DEF JobSend, Transmit, Stamp, Overruns, Xids, Fates, Mishaps
    <2>11. CASE JobCheck
      BY <2>11 DEF JobCheck, LengthCheck, Hold, Fates
    <2>12. CASE StatsExit
      BY <2>12 DEF StatsExit
    <2>13. CASE Umount
      BY <2>13 DEF Umount
    <2>14. CASE Join
      BY <2>14 DEF Join
    <2>. QED
      BY <1>2, <2>1, <2>2, <2>3, <2>4, <2>5, <2>6, <2>7, <2>8, <2>9, <2>10, <2>11, <2>12, <2>13, <2>14 DEF MainStep
  <1>3. CASE SpuriousWakeup
    BY <1>3 DEF SpuriousWakeup
  <1>4. ASSUME NEW r \in Req, Expire(r) PROVE TypeInv'
    BY <1>4 DEF Expire
  <1>5. CASE ServerCloses
    BY <1>5 DEF ServerCloses
  <1>6. CASE UNCHANGED vars
    BY <1>6 DEF vars
  <1>. QED
    BY <1>1, <1>2, <1>3, <1>4, <1>5, <1>6 DEF Next

(* NctEngine never leaves its types.                                       *)
THEOREM TypeCorrect == Spec => []TypeOK
  <1>1. TypeInv => TypeOK
    BY DEF TypeInv
  <1>. QED
    BY <1>1, TypeInit, TypeNext, PTL DEF Spec

-----------------------------------------------------------------------------
(* The inductive invariant of the routing of replies.  Where a request is, *)
(* who may touch it and which xid it carries, as long as nothing in mishap *)
(* has happened.                                                           *)

(* A thread works on r, or is the main thread waiting for its reply.       *)
Claims(a, r) == hold[a] = r /\ pc[a] \in OwningPcs \cup WaitingPcs

SetAside(r) == \E t \in RecvThreads : req0[t] = r

(* A receive thread has a reply in hand whose slot it has not cleared.     *)
InReply(t) == pc[t] \in {"lookup", "match"}

Found(x) == tbl[Slot(x)] # NULL /\ reqXid[tbl[Slot(x)]] = x

(* Each request parked in the table is in the slot of its latest xid.      *)
SlotsHold ==
  \A i \in Slots : tbl[i] # NULL => Slot(reqXid[tbl[i]]) = i /\ ~reqDone[tbl[i]]

(* A call, whether unanswered or answered and not matched, finds its       *)
(* request, and is in one place only.                                      *)
CallsFound == \A x \in calls : Found(x)
RepliesFound == \A t \in RecvThreads : InReply(t) => rxid[t] \notin calls /\ Found(rxid[t])
RepliesDistinct ==
  \A t, u \in RecvThreads : InReply(t) /\ InReply(u) /\ rxid[t] = rxid[u] => t = u
MatchHolds == \A t \in RecvThreads : pc[t] = "match" => hold[t] = tbl[Slot(rxid[t])]

(* A request is claimed by one thread, and is then neither free nor aside; *)
(* one set aside is so for one thread and not free; one parked is neither, *)
(* and only the main thread, waiting, may claim it.                        *)
ClaimsDistinct == \A r \in Req : \A a, b \in Actors : Claims(a, r) /\ Claims(b, r) => a = b
ClaimsOut == \A r \in Req : \A a \in Actors : Claims(a, r) => r \notin free /\ ~SetAside(r)
AsideDistinct ==
  \A r \in Req : \A t, u \in RecvThreads : req0[t] = r /\ req0[u] = r => t = u
AsideOut == \A r \in Req : SetAside(r) => r \notin free
ParkedOut ==
  \A i \in Slots : tbl[i] # NULL =>
    /\ tbl[i] \notin free /\ ~SetAside(tbl[i])
    /\ \A a \in Actors : ~Owns(a, tbl[i])

(* The mount's request has no callback.                                    *)
MountPlain == pc[Main] \in WaitingPcs \cup {"m_send"} => ~reqCb[hold[Main]]

NoReconnect == \A t \in RecvThreads : pc[t] \notin {"reconn", "scan", "rescan"}
NoCrash == fate \notin {"segv", "abort_xid", "corrupt"}

RouteInv ==
  /\ SlotsHold /\ CallsFound /\ RepliesFound /\ RepliesDistinct /\ MatchHolds
  /\ ClaimsDistinct /\ ClaimsOut /\ AsideDistinct /\ AsideOut /\ ParkedOut
  /\ MountPlain /\ NoReconnect /\ NoCrash

IInv == TypeInv /\ (mishap = {} => RouteInv)

LEMMA RouteInit == Init => RouteInv
  <1>. SUFFICES ASSUME Init PROVE RouteInv
    OBVIOUS
  <1>1. \A a \in Actors : hold[a] = NULL /\ pc[a] \in {"m_alloc", "alloc"}
    BY EngineAssumption DEF Init
  <1>2. \A t \in RecvThreads : req0[t] = NULL /\ pc[t] = "alloc"
    BY EngineAssumption DEF Init, Actors
  <1>3. pc[Main] = "m_alloc"
    BY DEF Init, Actors
  <1>4. SlotsHold /\ CallsFound /\ ParkedOut
    BY DEF Init, SlotsHold, CallsFound, ParkedOut
  <1>5. RepliesFound /\ RepliesDistinct /\ MatchHolds /\ NoReconnect
    BY <1>2 DEF RepliesFound, RepliesDistinct, MatchHolds, NoReconnect, InReply
  <1>6. ClaimsDistinct /\ ClaimsOut
    BY <1>1, EngineAssumption DEF ClaimsDistinct, ClaimsOut, Claims
  <1>7. AsideDistinct /\ AsideOut
    BY <1>2, EngineAssumption DEF AsideDistinct, AsideOut, SetAside
  <1>8. MountPlain /\ NoCrash
    BY <1>3 DEF MountPlain, WaitingPcs, NoCrash, Init
  <1>. QED
    BY <1>4, <1>5, <1>6, <1>7, <1>8 DEF RouteInv

(* A step that sends, matches, allocates and frees nothing, and after      *)
(* which no thread claims a request or holds a reply that it did not       *)
(* before.                                                                 *)
LEMMA QuietStep ==
  ASSUME TypeOK, RouteInv,
         calls' \subseteq calls,
         UNCHANGED <<tbl, reqXid, reqDone, free, req0>>,
         \A t \in RecvThreads : InReply(t)' => InReply(t) /\ rxid'[t] = rxid[t],
         \A t \in RecvThreads : pc'[t] = "match" => pc[t] = "match" /\ hold'[t] = hold[t],
         \A a \in Actors, r \in Req : Claims(a, r)' => Claims(a, r),
         \A a \in Actors, r \in Req : Owns(a, r)' => Owns(a, r),
         MountPlain', NoReconnect', NoCrash'
  PROVE  RouteInv'
  <1>1. SlotsHold'
    BY DEF RouteInv, SlotsHold, Slot
  <1>2. CallsFound' /\ RepliesFound' /\ RepliesDistinct'
    BY DEF RouteInv, CallsFound, RepliesFound, RepliesDistinct, Found, Slot
  <1>3. MatchHolds'
    <2>. SUFFICES ASSUME NEW t \in RecvThreads, pc'[t] = "match"
                  PROVE  hold'[t] = tbl'[Slot(rxid'[t])]
      BY DEF MatchHolds, Slot
    <2>1. InReply(t)'
      BY DEF InReply
    <2>. QED
      BY <2>1 DEF RouteInv, MatchHolds, Slot
  <1>4. ClaimsDistinct'
    BY DEF RouteInv, ClaimsDistinct
  <1>5. ClaimsOut' /\ AsideDistinct' /\ AsideOut'
    BY DEF RouteInv, ClaimsOut, AsideDistinct, AsideOut, SetAside
  <1>6. ParkedOut'
    BY DEF RouteInv, ParkedOut, SetAside, TypeOK
  <1>. QED
    BY <1>1, <1>2, <1>3, <1>4, <1>5, <1>6 DEF RouteInv

(* The same for a step that moves one thread from one place to another.    *)
LEMMA QuietMove ==
  ASSUME TypeOK, RouteInv, NEW a \in Actors, NEW l,
         pc' = [pc EXCEPT ![a] = l],
         hold' = hold \/ hold' = [hold EXCEPT ![a] = NULL],
         calls' \subseteq calls,
         UNCHANGED <<tbl, reqXid, reqDone, free, req0, rxid>>,
         l \notin {"lookup", "match", "reconn", "scan", "rescan"},
         l \in OwningPcs \cup WaitingPcs => hold' = hold,
         l \in WaitingPcs => pc[a] \in WaitingPcs,
         l \in OwningPcs =>
           pc[a] \in OwningPcs \/ (pc[a] \in WaitingPcs /\ reqDone[hold[a]]),
         MountPlain', NoCrash'
  PROVE  RouteInv'
  <1>1. \A t \in RecvThreads : InReply(t)' => InReply(t) /\ rxid'[t] = rxid[t]
    BY DEF InReply, TypeOK
  <1>2. \A t \in RecvThreads : pc'[t] = "match" => pc[t] = "match" /\ hold'[t] = hold[t]
    BY DEF TypeOK, Actors
  <1>3. \A b \in Actors, r \in Req : Claims(b, r)' => Claims(b, r)
    BY EngineAssumption DEF Claims, TypeOK
  <1>4. \A b \in Actors, r \in Req : Owns(b, r)' => Owns(b, r)
    BY EngineAssumption DEF Owns, TypeOK, OwningPcs, WaitingPcs
  <1>5. NoReconnect'
    BY DEF RouteInv, NoReconnect, TypeOK, Actors
  <1>. QED
    BY <1>1, <1>2, <1>3, <1>4, <1>5, QuietStep

(* The quiet steps of a receive thread.                                    *)
LEMMA RecvQuiet ==
  ASSUME TypeInv, RouteInv, mishap' = {}, NEW t \in RecvThreads,
         \/ ReceiveEof(t) \/ ReceiveDenied(t) \/ Branch(t) \/ Wake(t) \/ ReadFreedStatus(t)
         \/ CallbackReturns(t) \/ EndJob(t) \/ ShutWrite(t)
         \/ Reconnect(t) \/ Scan(t) \/ Rescan(t)
  PROVE  RouteInv'
  <1>. USE DEF TypeInv, At, Goto, Hold, locals, conn, table, reqs, OwningPcs, WaitingPcs
  <1>0. /\ t \in Actors /\ t # Main /\ Main \in Actors
        /\ (pc'[Main] = pc[Main] /\ hold'[Main] = hold[Main] /\ reqCb' = reqCb => MountPlain')
        /\ (fate' \notin {"segv", "abort_xid", "corrupt"} => NoCrash')
    BY EngineAssumption DEF Actors, RouteInv, MountPlain, NoCrash
  <1>. USE <1>0 DEF TypeOK
  <1>1. CASE ReceiveEof(t)
    <2>1. MountPlain' /\ NoCrash'
      BY <1>1 DEF ReceiveEof, RouteInv, NoCrash
    <2>. QED
      BY <1>1, <2>1, QuietMove DEF ReceiveEof
  <1>2. CASE ReceiveDenied(t)
    BY <1>2 DEF ReceiveDenied
  <1>3. CASE Branch(t)
    <2>1. MountPlain' /\ NoCrash'
      BY <1>3 DEF Branch, RouteInv, NoCrash
    <2>2. IF reqCb[hold[t]] THEN pc[t] = "called" ELSE pc[t] = "answered"
      BY <1>3 DEF Branch
    <2>. QED
      BY <1>3, <2>1, <2>2, QuietMove DEF Branch
  <1>4. CASE Wake(t)
    <2>1. /\ UNCHANGED <<fate, calls, tbl, reqXid, reqDone, reqCb, free, req0, rxid>>
          /\ hold' = [hold EXCEPT ![t] = NULL]
      BY <1>4 DEF Wake
    <2>2. /\ \A b \in Actors : b # t /\ b # Main => pc'[b] = pc[b]
          /\ pc'[t] = "recv" /\ pc[t] = "wake"
          /\ pc'[Main] = pc[Main] \/ (pc[Main] = "m_sleep" /\ pc'[Main] = "m_woken")
      BY <1>4 DEF Wake
    <2>3. MountPlain'
      BY <2>1, <2>2 DEF RouteInv, MountPlain
    <2>4. NoCrash' /\ NoReconnect'
      BY <2>1, <2>2, EngineAssumption DEF RouteInv, NoCrash, NoReconnect, Actors
    <2>5. \A u \in RecvThreads : InReply(u)' => InReply(u) /\ rxid'[u] = rxid[u]
      BY <2>1, <2>2, EngineAssumption DEF InReply, Actors
    <2>6. \A u \in RecvThreads : pc'[u] = "match" => pc[u] = "match" /\ hold'[u] = hold[u]
      BY <2>1, <2>2, EngineAssumption DEF Actors
    <2>7. \A b \in Actors, r \in Req : Claims(b, r)' => Claims(b, r)
      BY <2>1, <2>2, EngineAssumption DEF Claims
    <2>8. \A b \in Actors, r \in Req : Owns(b, r)' => Owns(b, r)
      BY <2>1, <2>2, EngineAssumption DEF Owns
    <2>. QED
      BY <2>1, <2>3, <2>4, <2>5, <2>6, <2>7, <2>8, QuietStep
  <1>5. CASE ReadFreedStatus(t)
    <2>1. MountPlain' /\ NoCrash'
      BY <1>5 DEF ReadFreedStatus, RouteInv, NoCrash
    <2>. QED
      BY <1>5, <2>1, QuietMove DEF ReadFreedStatus
  <1>6. CASE CallbackReturns(t)
    <2>1. MountPlain' /\ NoCrash'
      BY <1>6 DEF CallbackReturns, LengthCheck, RouteInv, NoCrash
    <2>2. pc' = [pc EXCEPT ![t] = "recv"] \/ pc' = [pc EXCEPT ![t] = "check"]
      BY <1>6 DEF CallbackReturns, LengthCheck
    <2>. QED
      BY <1>6, <2>1, <2>2, QuietMove DEF CallbackReturns, LengthCheck
  <1>7. CASE EndJob(t)
    <2>1. MountPlain' /\ NoCrash'
      BY <1>7 DEF EndJob, RouteInv, NoCrash
    <2>2. pc' = [pc EXCEPT ![t] = "recv"] \/ pc' = [pc EXCEPT ![t] = "shut"]
      BY <1>7 DEF EndJob
    <2>. QED
      BY <1>7, <2>1, <2>2, QuietMove DEF EndJob
  <1>8. CASE ShutWrite(t)
    <2>1. MountPlain' /\ NoCrash'
      BY <1>8 DEF ShutWrite, RouteInv, NoCrash
    <2>. QED
      BY <1>8, <2>1, QuietMove DEF ShutWrite
  <1>9. CASE Reconnect(t) \/ Scan(t) \/ Rescan(t)
    BY <1>9 DEF Reconnect, Scan, Rescan, RouteInv, NoReconnect
  <1>. QED
    BY <1>1, <1>2, <1>3, <1>4, <1>5, <1>6, <1>7, <1>8, <1>9

(* The quiet steps of the main thread and of the world outside.            *)
LEMMA MainQuiet ==
  ASSUME TypeInv, RouteInv,
         \/ MountCheck \/ WaitReply \/ SpuriousWakeup \/ WaitAgain
         \/ NextJob \/ JobStart \/ JobCheck \/ StatsExit \/ Umount \/ Join
  PROVE  mishap' = {} => RouteInv'
  <1>. USE DEF TypeInv, TypeOK, At, Goto, Hold, locals, conn, table, reqs, OwningPcs, WaitingPcs
  <1>0. /\ Main \in Actors /\ NoCrash /\ MountPlain
        /\ (fate' \notin {"segv", "abort_xid", "corrupt"} => NoCrash')
    BY DEF Actors, RouteInv, NoCrash
  <1>. USE <1>0
  <1>1. CASE MountCheck
    <2>1. pc' = [pc EXCEPT ![Main] = "m_check"] \/ pc' = [pc EXCEPT ![Main] = "m_wait"]
      BY <1>1 DEF MountCheck, LengthCheck
    <2>2. MountPlain' /\ NoCrash'
      BY <1>1, <2>1 DEF MountCheck, LengthCheck, MountPlain, NoCrash
    <2>. QED
      BY <1>1, <2>1, <2>2, QuietMove DEF MountCheck, LengthCheck
  <1>2. CASE WaitReply
    <2>1. IF reqDone[hold[Main]] THEN pc' = [pc EXCEPT ![Main] = "m_attr"]
                                 ELSE pc' = [pc EXCEPT ![Main] = "m_sleep"]
      BY <1>2 DEF WaitReply, Answered
    <2>2. MountPlain' /\ NoCrash'
      BY <1>2, <2>1 DEF WaitReply, MountPlain, NoCrash
    <2>. QED
      BY <1>2, <2>1, <2>2, QuietMove DEF WaitReply
  <1>3. CASE SpuriousWakeup
    <2>1. MountPlain' /\ NoCrash'
      BY <1>3 DEF SpuriousWakeup, MountPlain, NoCrash
    <2>. QED
      BY <1>3, <2>1, QuietMove DEF SpuriousWakeup
  <1>4. CASE WaitAgain
    <2>1. IF reqDone[hold[Main]] THEN pc' = [pc EXCEPT ![Main] = "m_attr"]
                                 ELSE pc' = [pc EXCEPT ![Main] = "m_sleep"]
      BY <1>4 DEF WaitAgain, Answered
    <2>2. MountPlain' /\ NoCrash'
      BY <1>4, <2>1 DEF WaitAgain, MountPlain, NoCrash
    <2>. QED
      BY <1>4, <2>1, <2>2, QuietMove DEF WaitAgain
  <1>5. CASE NextJob
    <2>1. pc' = [pc EXCEPT ![Main] = "j_alloc"] \/ pc' = [pc EXCEPT ![Main] = "stats"]
      BY <1>5 DEF NextJob
    <2>2. MountPlain' /\ NoCrash'
      BY <1>5, <2>1 DEF NextJob, MountPlain, NoCrash
    <2>. QED
      BY <1>5, <2>1, <2>2, QuietMove DEF NextJob
  <1>6. CASE JobStart
    <2>1. pc' = [pc EXCEPT ![Main] = "j_send"] \/ pc' = [pc EXCEPT ![Main] = "j_next"]
      BY <1>6 DEF JobStart
    <2>2. MountPlain' /\ NoCrash'
      BY <1>6, <2>1 DEF JobStart, MountPlain, NoCrash
    <2>. QED
      BY <1>6, <2>1, <2>2, QuietMove DEF JobStart
  <1>7. CASE JobCheck
    <2>1. pc' = [pc EXCEPT ![Main] = "j_check"] \/ pc' = [pc EXCEPT ![Main] = "j_next"]
      BY <1>7 DEF JobCheck, LengthCheck
    <2>2. MountPlain' /\ NoCrash'
      BY <1>7, <2>1 DEF JobCheck, LengthCheck, MountPlain, NoCrash
    <2>. QED
      BY <1>7, <2>1, <2>2, QuietMove DEF JobCheck, LengthCheck
  <1>8. CASE StatsExit
    <2>1. MountPlain' /\ NoCrash'
      BY <1>8 DEF StatsExit, MountPlain, NoCrash
    <2>. QED
      BY <1>8, <2>1, QuietMove DEF StatsExit
  <1>9. CASE Umount
    <2>1. MountPlain' /\ NoCrash'
      BY <1>9 DEF Umount, MountPlain, NoCrash
    <2>. QED
      BY <1>9, <2>1, QuietMove DEF Umount
  <1>10. CASE Join
    <2>1. MountPlain' /\ NoCrash'
      BY <1>10 DEF Join, MountPlain, NoCrash
    <2>. QED
      BY <1>10, <2>1, QuietMove DEF Join
  <1>. QED
    BY <1>1, <1>2, <1>3, <1>4, <1>5, <1>6, <1>7, <1>8, <1>9, <1>10

LEMMA WorldQuiet ==
  ASSUME TypeInv, RouteInv,
         (\E r \in Req : Expire(r)) \/ ServerCloses \/ UNCHANGED vars
  PROVE  RouteInv'
  <1>1. /\ UNCHANGED <<fate, tbl, reqXid, reqDone, reqCb, free, pc, hold, req0, rxid>>
        /\ calls' \subseteq calls
    BY DEF Expire, ServerCloses, vars, table, reqs, conn, locals
  <1>2. MountPlain' /\ NoReconnect' /\ NoCrash'
    BY <1>1 DEF RouteInv, MountPlain, NoReconnect, NoCrash
  <1>. QED
    BY <1>1, <1>2, QuietStep DEF TypeInv, InReply, Claims, Owns

-----------------------------------------------------------------------------
(* The steps that move a request or a call.                                *)

(* The holder of a request puts it back into the pool.                     *)
LEMMA ReleaseStep ==
  ASSUME TypeOK, RouteInv, NEW a \in Actors, NEW l,
         hold[a] \in Req, Owns(a, hold[a]), pc[a] \in OwningPcs,
         free' = free \cup {hold[a]},
         pc' = [pc EXCEPT ![a] = l],
         hold' = hold \/ hold' = [hold EXCEPT ![a] = NULL],
         UNCHANGED <<calls, tbl, reqXid, reqDone, req0, rxid>>,
         l \in {"rc", "dec", "recv", "j_next"},
         MountPlain', NoCrash'
  PROVE  RouteInv'
  <1>1. \A t \in RecvThreads : (InReply(t)' => InReply(t)) /\ (pc'[t] = "match" => pc[t] = "match" /\ hold'[t] = hold[t])
    BY DEF InReply, TypeOK, Actors
  <1>2. \A b \in Actors, r \in Req : Claims(b, r)' => Claims(b, r) /\ b # a
    BY EngineAssumption DEF Claims, TypeOK, OwningPcs, WaitingPcs
  <1>3. \A b \in Actors, r \in Req : Owns(b, r)' => Owns(b, r)
    BY EngineAssumption DEF Owns, TypeOK, OwningPcs, WaitingPcs
  <1>4. Claims(a, hold[a])
    BY DEF Claims
  <1>5. SlotsHold' /\ CallsFound' /\ RepliesFound' /\ RepliesDistinct'
    BY <1>1 DEF RouteInv, SlotsHold, CallsFound, RepliesFound, RepliesDistinct, Found, Slot
  <1>6. MatchHolds'
    BY <1>1 DEF RouteInv, MatchHolds, Slot
  <1>7. ClaimsDistinct' /\ AsideDistinct'
    BY <1>2 DEF RouteInv, ClaimsDistinct, AsideDistinct
  <1>8. ClaimsOut'
    BY <1>2, <1>4 DEF RouteInv, ClaimsDistinct, ClaimsOut, SetAside
  <1>9. AsideOut'
    BY <1>4 DEF RouteInv, ClaimsOut, AsideOut, SetAside
  <1>10. ParkedOut'
    BY <1>3 DEF RouteInv, ParkedOut, SetAside, TypeOK
  <1>11. NoReconnect'
    BY DEF RouteInv, NoReconnect, TypeOK, Actors
  <1>. QED
    BY <1>5, <1>6, <1>7, <1>8, <1>9, <1>10, <1>11 DEF RouteInv

(* A request leaves the pool, for the main thread or to be set aside.      *)
LEMMA TakeStep ==
  ASSUME TypeOK, RouteInv, NEW r \in Req, Take(r),
         NEW a \in Actors, NEW l, pc' = [pc EXCEPT ![a] = l],
         \/ /\ a = Main /\ l \in {"m_send", "j_start"}
            /\ hold' = [hold EXCEPT ![a] = r] /\ req0' = req0
         \/ /\ a \in RecvThreads /\ l = "recv"
            /\ hold' = hold /\ req0' = [req0 EXCEPT ![a] = r]
            /\ pc[a] = "alloc",
         UNCHANGED <<fate, tbl, calls, rxid>>
  PROVE  RouteInv'
  <1>. USE EngineAssumption
  <1>1. /\ \A q \in Req : reqDone'[q] => reqDone[q]
        /\ \A q \in Req : reqCb'[q] => reqCb[q]
        /\ ~reqCb'[r]
        /\ UNCHANGED reqXid /\ free' = free \ {r} /\ r \in free
    BY DEF Take, TypeOK
  <1>2. \A t \in RecvThreads :
          /\ InReply(t)' => InReply(t)
          /\ pc'[t] = "match" => pc[t] = "match" /\ hold'[t] = hold[t]
    BY DEF InReply, TypeOK, Actors
  <1>3. \A b \in Actors, q \in Req : Claims(b, q)' => Claims(b, q) \/ (b = Main /\ a = Main /\ q = r)
    BY DEF Claims, TypeOK, OwningPcs, WaitingPcs
  <1>4. \A b \in Actors, q \in Req : Owns(b, q)' => Owns(b, q) \/ (b = Main /\ a = Main /\ q = r)
    BY <1>1 DEF Owns, TypeOK, OwningPcs, WaitingPcs
  <1>5. \A q \in Req : SetAside(q)' => SetAside(q) \/ (q = r /\ a # Main)
    BY DEF SetAside, TypeOK
  <1>6. /\ \A i \in Slots : tbl[i] # r
        /\ ~SetAside(r)
        /\ \A b \in Actors : ~Claims(b, r)
    BY <1>1 DEF RouteInv, ParkedOut, AsideOut, ClaimsOut
  <1>7. SlotsHold' /\ CallsFound' /\ RepliesFound' /\ RepliesDistinct'
    BY <1>1, <1>2 DEF RouteInv, SlotsHold, CallsFound, RepliesFound, RepliesDistinct, Found, Slot, TypeOK
  <1>8. MatchHolds'
    BY <1>2 DEF RouteInv, MatchHolds, Slot
  <1>9. ClaimsDistinct'
    BY <1>3, <1>6 DEF RouteInv, ClaimsDistinct
  <1>10. ClaimsOut'
    BY <1>1, <1>3, <1>5, <1>6 DEF RouteInv, ClaimsOut
  <1>11. AsideDistinct'
    BY <1>6 DEF RouteInv, AsideDistinct, SetAside, TypeOK
  <1>12. AsideOut'
    BY <1>1, <1>5 DEF RouteInv, AsideOut
  <1>13. ParkedOut'
    BY <1>1, <1>4, <1>5, <1>6 DEF RouteInv, ParkedOut, TypeOK
  <1>14. MountPlain'
    <2>1. CASE a = Main
      BY <1>1, <2>1 DEF MountPlain, TypeOK, Actors
    <2>2. CASE a # Main
      BY <1>1, <2>2 DEF RouteInv, MountPlain, TypeOK, Actors, Take
    <2>. QED
      BY <2>1, <2>2
  <1>15. NoReconnect' /\ NoCrash'
    BY DEF RouteInv, NoReconnect, NoCrash, TypeOK, Actors
  <1>. QED
    BY <1>7, <1>8, <1>9, <1>10, <1>11, <1>12, <1>13, <1>14, <1>15 DEF RouteInv

(* A request its owner sends goes into a slot that was empty.              *)
LEMMA SendStep ==
  ASSUME TypeOK, RouteInv, NEW a \in Actors, NEW l,
         hold[a] \in Req, pc[a] \in {"cb", "m_send", "j_send"},
         Transmit(hold[a], TRUE), Overruns = {},
         pc' = [pc EXCEPT ![a] = l],
         l \in {"check", "m_check", "j_check"},
         l = "m_check" => a = Main /\ pc[a] = "m_send",
         fate = "run", UNCHANGED <<free, locals>>
  PROVE  RouteInv'
  <1>. USE EngineAssumption
  <1>. DEFINE r == hold[a]
              x == sendXid
              i == Slot(x)
  <1>1. /\ tbl' = [tbl EXCEPT ![i] = r] /\ reqXid' = [reqXid EXCEPT ![r] = x]
        /\ reqDone' = [reqDone EXCEPT ![r] = FALSE]
        /\ calls' \subseteq calls \cup {x}
        /\ fate' \in {"run", "sigpipe"}
        /\ UNCHANGED <<reqCb, free, hold, req0, rxid>>
    BY DEF Transmit, Stamp, locals
  <1>2. r \in Req /\ i \in Slots /\ x \in Xids /\ tbl[i] = NULL
    BY SlotInSlots DEF TypeOK, Overruns
  <1>3. Owns(a, r) /\ Claims(a, r)
    BY DEF Owns, Claims, OwningPcs
  <1>4. \A j \in Slots : tbl[j] # r
    BY <1>3 DEF RouteInv, ParkedOut
  <1>5. r \notin free /\ ~SetAside(r) /\ \A b \in Actors : Claims(b, r) => b = a
    BY <1>2, <1>3 DEF RouteInv, ClaimsOut, ClaimsDistinct
  <1>6. \A t \in RecvThreads :
          /\ InReply(t)' => InReply(t)
          /\ pc'[t] = "match" => pc[t] = "match"
    BY DEF InReply, TypeOK, Actors
  <1>7. \A y \in Xids : Found(y) => Found(y)' /\ y # x
    BY <1>1, <1>2, <1>4, SlotInSlots DEF Found, TypeOK, Slot
  <1>8. \A y \in Xids : y = x => Found(y)'
    BY <1>1, <1>2 DEF Found, TypeOK, Slot
  <1>9. \A b \in Actors, q \in Req : Claims(b, q)' => Claims(b, q)
    BY <1>1 DEF Claims, TypeOK, OwningPcs, WaitingPcs
  <1>10. \A b \in Actors, q \in Req : Owns(b, q)' => Owns(b, q) /\ q # r
    <2>. SUFFICES ASSUME NEW b \in Actors, NEW q \in Req, Owns(b, q)'
                  PROVE  Owns(b, q) /\ q # r
      OBVIOUS
    <2>1. CASE b = a
      BY <1>1, <1>2, <2>1 DEF Owns, TypeOK, OwningPcs, WaitingPcs
    <2>2. CASE b # a
      <3>1. pc'[b] = pc[b] /\ hold'[b] = hold[b] /\ Claims(b, q)
        BY <1>1, <1>9, <2>2 DEF TypeOK, Owns, Claims
      <3>2. q # r
        BY <1>5, <2>2, <3>1
      <3>. QED
        BY <1>1, <3>1, <3>2 DEF Owns, TypeOK
    <2>. QED
      BY <2>1, <2>2
  <1>11. SlotsHold'
    BY <1>1, <1>2, <1>4 DEF RouteInv, SlotsHold, TypeOK, Slot
  <1>12. CallsFound'
    BY <1>1, <1>2, <1>7, <1>8 DEF RouteInv, CallsFound, TypeOK
  <1>13. RepliesFound' /\ RepliesDistinct'
    <2>1. \A t \in RecvThreads : InReply(t) => rxid[t] \in Xids /\ rxid[t] \notin calls /\ Found(rxid[t])
      BY DEF RouteInv, RepliesFound, TypeOK
    <2>. QED
      BY <1>1, <1>6, <1>7, <2>1 DEF RouteInv, RepliesFound, RepliesDistinct
  <1>14. MatchHolds'
    <2>. SUFFICES ASSUME NEW t \in RecvThreads, pc'[t] = "match"
                  PROVE  hold'[t] = tbl'[Slot(rxid'[t])]
      BY DEF MatchHolds, Slot
    <2>1. InReply(t) /\ hold[t] = tbl[Slot(rxid[t])] /\ tbl[Slot(rxid[t])] # NULL
      BY <1>6 DEF RouteInv, MatchHolds, RepliesFound, Found, InReply
    <2>2. Slot(rxid[t]) # i
      BY <1>2, <2>1
    <2>3. Slot(rxid[t]) \in Slots
      BY SlotInSlots DEF TypeOK
    <2>. QED
      BY <1>1, <2>1, <2>2, <2>3 DEF TypeOK, Slot
  <1>15. ClaimsDistinct' /\ ClaimsOut' /\ AsideDistinct' /\ AsideOut'
    BY <1>1, <1>9 DEF RouteInv, ClaimsDistinct, ClaimsOut, AsideDistinct, AsideOut, SetAside
  <1>16. ParkedOut'
    BY <1>1, <1>2, <1>5, <1>10 DEF RouteInv, ParkedOut, SetAside, TypeOK
  <1>17. MountPlain'
    BY <1>1 DEF RouteInv, MountPlain, TypeOK, WaitingPcs
  <1>18. NoReconnect' /\ NoCrash'
    BY <1>1 DEF RouteInv, NoReconnect, NoCrash, TypeOK, Actors
  <1>. QED
    BY <1>11, <1>12, <1>13, <1>14, <1>15, <1>16, <1>17, <1>18 DEF RouteInv

(* A receive thread takes a reply off the connection.                      *)
LEMMA ReceiveStep ==
  ASSUME TypeOK, RouteInv, NEW t \in RecvThreads, NEW x \in calls,
         pc[t] = "recv", pc' = [pc EXCEPT ![t] = "lookup"],
         rxid' = [rxid EXCEPT ![t] = x],
         calls' \subseteq calls \ {x},
         UNCHANGED <<fate, tbl, reqXid, reqDone, reqCb, free, hold, req0>>
  PROVE  RouteInv'
  <1>. USE EngineAssumption DEF TypeOK
  <1>1. t \in Actors /\ t # Main
    BY DEF Actors
  <1>2. \A u \in RecvThreads : /\ InReply(u)' => u = t \/ InReply(u)
                               /\ pc'[u] = "match" => pc[u] = "match"
                               /\ rxid'[u] = IF u = t THEN x ELSE rxid[u]
    BY <1>1 DEF InReply, Actors
  <1>3. ~InReply(t) /\ Found(x)
    BY DEF InReply, RouteInv, CallsFound
  <1>4. \A b \in Actors, q \in Req : (Claims(b, q)' => Claims(b, q)) /\ (Owns(b, q)' => Owns(b, q))
    BY <1>1 DEF Claims, Owns, OwningPcs, WaitingPcs
  <1>5. SlotsHold' /\ CallsFound' /\ RepliesFound' /\ RepliesDistinct'
    BY <1>2, <1>3 DEF RouteInv, SlotsHold, CallsFound, RepliesFound, RepliesDistinct, Found, Slot
  <1>6. MatchHolds'
    BY <1>2 DEF RouteInv, MatchHolds, Slot
  <1>7. ClaimsDistinct' /\ ClaimsOut' /\ AsideDistinct' /\ AsideOut'
    BY <1>4 DEF RouteInv, ClaimsDistinct, ClaimsOut, AsideDistinct, AsideOut, SetAside
  <1>8. ParkedOut'
    BY <1>4 DEF RouteInv, ParkedOut, SetAside
  <1>9. MountPlain' /\ NoReconnect' /\ NoCrash'
    BY <1>1 DEF RouteInv, MountPlain, NoReconnect, NoCrash, Actors
  <1>. QED
    BY <1>5, <1>6, <1>7, <1>8, <1>9 DEF RouteInv

LEMMA LookupStep ==
  ASSUME TypeOK, RouteInv, NEW t \in RecvThreads, Lookup(t)
  PROVE  RouteInv'
  <1>. USE EngineAssumption DEF TypeOK
  <1>1. /\ pc[t] = "lookup" /\ pc' = [pc EXCEPT ![t] = "match"]
        /\ hold' = [hold EXCEPT ![t] = tbl[Slot(rxid[t])]]
        /\ UNCHANGED <<fate, tbl, reqXid, reqDone, reqCb, calls, free, req0, rxid>>
    BY DEF Lookup, At, Goto, Hold, Find, table, reqs, conn
  <1>2. t \in Actors /\ t # Main
    BY DEF Actors
  <1>3. \A u \in RecvThreads : InReply(u)' => InReply(u)
    BY <1>1, <1>2 DEF InReply, Actors
  <1>4. \A b \in Actors, q \in Req : (Claims(b, q)' => Claims(b, q)) /\ (Owns(b, q)' => Owns(b, q))
    BY <1>1, <1>2 DEF Claims, Owns, OwningPcs, WaitingPcs
  <1>5. SlotsHold' /\ CallsFound' /\ RepliesFound' /\ RepliesDistinct'
    BY <1>1, <1>3 DEF RouteInv, SlotsHold, CallsFound, RepliesFound, RepliesDistinct, Found, Slot
  <1>6. MatchHolds'
    BY <1>1, <1>2 DEF RouteInv, MatchHolds, Slot, Actors
  <1>7. ClaimsDistinct' /\ ClaimsOut' /\ AsideDistinct' /\ AsideOut'
    BY <1>1, <1>4 DEF RouteInv, ClaimsDistinct, ClaimsOut, AsideDistinct, AsideOut, SetAside
  <1>8. ParkedOut'
    BY <1>1, <1>4 DEF RouteInv, ParkedOut, SetAside
  <1>9. MountPlain' /\ NoReconnect' /\ NoCrash'
    BY <1>1, <1>2 DEF RouteInv, MountPlain, NoReconnect, NoCrash, Actors
  <1>. QED
    BY <1>5, <1>6, <1>7, <1>8, <1>9 DEF RouteInv

(* The request found is the one that was called for: it leaves its slot    *)
(* and goes to the callback, or back to the main thread.                   *)
LEMMA MatchStep ==
  ASSUME TypeOK, HoldOK, RouteInv, NEW t \in RecvThreads, Match(t)
  PROVE  RouteInv'
  <1>. USE EngineAssumption DEF TypeOK
  <1>. DEFINE r == hold[t]
              i == Slot(rxid[t])
  <1>1. /\ pc[t] = "match" /\ InReply(t) /\ t \in Actors /\ t # Main
        /\ i \in Slots /\ tbl[i] = r /\ r \in Req /\ reqXid[r] = rxid[t]
    BY SlotInSlots DEF Match, At, InReply, Actors, RouteInv, MatchHolds, RepliesFound, Found
  <1>2. /\ pc' = [pc EXCEPT ![t] = IF reqCb[r] THEN "called" ELSE "answered"]
        /\ tbl' = [tbl EXCEPT ![i] = NULL]
        /\ reqDone' = [reqDone EXCEPT ![r] = TRUE]
        /\ UNCHANGED <<fate, reqXid, reqCb, calls, free, hold, req0>>
        /\ rxid' = [rxid EXCEPT ![t] = 0]
    BY <1>1 DEF Match, ClearSlot, Goto, conn
  <1>3. \A j \in Slots : j # i => tbl[j] # r
    BY <1>1 DEF RouteInv, SlotsHold, Slot
  <1>4. \A u \in RecvThreads : /\ InReply(u)' => InReply(u) /\ u # t /\ rxid'[u] = rxid[u]
                               /\ pc'[u] = "match" => pc[u] = "match" /\ u # t
    BY <1>1, <1>2 DEF InReply, Actors
  <1>5. r \notin free /\ ~SetAside(r) /\ \A a \in Actors : ~Owns(a, r)
    BY <1>1 DEF RouteInv, ParkedOut
  <1>6. \A a \in Actors : Claims(a, r) => a = Main /\ ~reqCb[r]
    <2>1. \A a \in Actors : Claims(a, r) => pc[a] \in WaitingPcs
      BY <1>5 DEF Claims, Owns
    <2>2. \A u \in RecvThreads : pc[u] \notin WaitingPcs
      BY DEF HoldOK, RecvPcs, WaitingPcs
    <2>. QED
      BY <2>1, <2>2 DEF Actors, RouteInv, MountPlain, Claims
  <1>7. \A a \in Actors, q \in Req : Claims(a, q)' => Claims(a, q) \/ (a = t /\ q = r /\ reqCb[r])
    BY <1>1, <1>2 DEF Claims, OwningPcs, WaitingPcs
  <1>8. \A a \in Actors, q \in Req : Owns(a, q)' => Owns(a, q) \/ q = r
    BY <1>1, <1>2 DEF Owns, OwningPcs, WaitingPcs
  <1>9. SlotsHold'
    BY <1>1, <1>2, <1>3 DEF RouteInv, SlotsHold, Slot
  <1>10. \A x \in Xids : Found(x) /\ x # rxid[t] => Slot(x) # i
    BY <1>1 DEF Found
  <1>11. \A x \in Xids : Found(x) /\ x # rxid[t] => Found(x)'
    BY <1>2, <1>10, SlotInSlots DEF Found, Slot
  <1>12. CallsFound'
    BY <1>1, <1>2, <1>11 DEF RouteInv, CallsFound, RepliesFound
  <1>13. RepliesFound' /\ RepliesDistinct'
    BY <1>1, <1>2, <1>4, <1>11 DEF RouteInv, RepliesFound, RepliesDistinct
  <1>14. MatchHolds'
    <2>. SUFFICES ASSUME NEW u \in RecvThreads, pc'[u] = "match"
                  PROVE  hold'[u] = tbl'[Slot(rxid'[u])]
      BY DEF MatchHolds, Slot
    <2>1. InReply(u) /\ u # t /\ rxid'[u] = rxid[u] /\ pc[u] = "match"
      BY <1>4 DEF InReply
    <2>2. Slot(rxid[u]) # i
      BY <1>1, <1>10, <2>1 DEF RouteInv, RepliesFound, RepliesDistinct
    <2>. QED
      BY <1>2, <2>1, <2>2, SlotInSlots DEF RouteInv, MatchHolds
  <1>15. ClaimsDistinct'
    BY <1>6, <1>7 DEF RouteInv, ClaimsDistinct
  <1>16. ClaimsOut' /\ AsideDistinct' /\ AsideOut'
    BY <1>2, <1>5, <1>7 DEF RouteInv, ClaimsOut, AsideDistinct, AsideOut, SetAside
  <1>17. ParkedOut'
    BY <1>1, <1>2, <1>3, <1>8 DEF RouteInv, ParkedOut, SetAside
  <1>18. MountPlain' /\ NoReconnect' /\ NoCrash'
    BY <1>1, <1>2 DEF RouteInv, MountPlain, NoReconnect, NoCrash, Actors
  <1>. QED
    BY <1>9, <1>12, <1>13, <1>14, <1>15, <1>16, <1>17, <1>18 DEF RouteInv

-----------------------------------------------------------------------------
(* The invariant is inductive.                                             *)

LEMMA RecvRoute ==
  ASSUME TypeInv, RouteInv, mishap' = {}, NEW t \in RecvThreads, RecvStep(t)
  PROVE  RouteInv'
  <1>. USE DEF TypeInv, At, Goto, Hold, locals, conn, table, reqs
  <1>0. /\ t \in Actors /\ t # Main /\ Main \in Actors
        /\ (pc'[Main] = pc[Main] /\ hold'[Main] = hold[Main] /\ reqCb' = reqCb => MountPlain')
        /\ (fate' = fate => NoCrash')
    BY EngineAssumption DEF Actors, RouteInv, MountPlain, NoCrash
  <1>1. CASE RecvAlloc(t)
    BY <1>0, <1>1, TakeStep DEF RecvAlloc
  <1>2. CASE Receive(t)
    BY <1>2, ReceiveStep DEF Receive
  <1>3. CASE ReceiveError(t)
    <2>1. CASE fate' = "abort_decode" /\ UNCHANGED <<calls, rxid, pc>>
      <3>1. MountPlain' /\ NoReconnect' /\ NoCrash'
        BY <1>3, <2>1 DEF ReceiveError, RouteInv, MountPlain, NoReconnect, NoCrash
      <3>. QED
        BY <1>3, <2>1, <3>1, QuietStep DEF ReceiveError, InReply, Claims, Owns
    <2>2. CASE fate' = fate
      BY <1>3, <2>2, ReceiveStep DEF ReceiveError
    <2>. QED
      BY <1>3, <2>1, <2>2 DEF ReceiveError
  <1>4. CASE Lookup(t)
    BY <1>4, LookupStep
  <1>5. CASE Match(t)
    BY <1>5, MatchStep
  <1>6. CASE CallbackFails(t) \/ CallbackExpires(t)
    <2>1. /\ pc[t] = "cb" /\ fate = "run" /\ free' = free \cup {hold[t]}
          /\ fate' = IF hold[t] \in free THEN "corrupt" ELSE fate
          /\ hold' = hold \/ hold' = [hold EXCEPT ![t] = NULL]
          /\ UNCHANGED <<calls, tbl, reqXid, reqDone, reqCb, req0, rxid>>
      BY <1>6 DEF CallbackFails, CallbackExpires, Release
    <2>2. hold[t] \in Req /\ Owns(t, hold[t]) /\ Claims(t, hold[t])
      BY <1>0, <2>1 DEF HoldOK, HoldingPcs, OwningPcs, Owns, Claims
    <2>3. hold[t] \notin free
      BY <1>0, <2>2 DEF RouteInv, ClaimsOut
    <2>4. \E l \in {"rc", "dec", "recv"} : pc' = [pc EXCEPT ![t] = l]
      BY <1>6 DEF CallbackFails, CallbackExpires
    <2>5. MountPlain' /\ NoCrash'
      BY <1>0, <2>1, <2>3, <2>4 DEF TypeOK
    <2>. QED
      BY <1>0, <2>1, <2>2, <2>4, <2>5, ReleaseStep DEF OwningPcs
  <1>7. CASE CallbackSends(t)
    <2>1. hold[t] \in Req
      BY <1>0, <1>7 DEF CallbackSends, HoldOK, HoldingPcs, OwningPcs
    <2>2. Overruns = {}
      BY <1>7 DEF CallbackSends
    <2>. QED
      BY <1>0, <1>7, <2>1, <2>2, SendStep DEF CallbackSends
  <1>. QED
    BY <1>1, <1>2, <1>3, <1>4, <1>5, <1>6, <1>7, RecvQuiet DEF RecvStep

LEMMA MainRoute ==
  ASSUME TypeInv, RouteInv, mishap' = {}, MainStep
  PROVE  RouteInv'
  <1>. USE DEF TypeInv, At, Goto, Hold, locals, conn, table, reqs
  <1>0. Main \in Actors
    BY DEF Actors
  <1>1. CASE MountAlloc
    BY <1>0, <1>1, TakeStep DEF MountAlloc
  <1>2. CASE JobAlloc
    BY <1>0, <1>2, TakeStep DEF JobAlloc
  <1>3. CASE MountSend \/ JobSend
    <2>1. hold[Main] \in Req
      BY <1>0, <1>3 DEF MountSend, JobSend, HoldOK, HoldingPcs, OwningPcs
    <2>2. Overruns = {}
      BY <1>3 DEF MountSend, JobSend
    <2>3. CASE MountSend
      BY <1>0, <2>1, <2>2, <2>3, SendStep DEF MountSend
    <2>4. CASE JobSend
      BY <1>0, <2>1, <2>2, <2>4, SendStep DEF JobSend
    <2>. QED
      BY <1>3, <2>3, <2>4
  <1>4. CASE MountAttr
    <2>1. CASE fate' = "abort_mount" /\ UNCHANGED <<free, pc>>
      <3>1. pc' = [pc EXCEPT ![Main] = "m_attr"]
        BY <1>4, <2>1 DEF MountAttr, TypeOK
      <3>2. MountPlain' /\ NoReconnect' /\ NoCrash'
        BY <1>4, <2>1 DEF MountAttr, RouteInv, MountPlain, WaitingPcs, NoReconnect, NoCrash
      <3>3. hold' = [hold EXCEPT ![Main] = NULL]
        BY <1>4 DEF MountAttr
      <3>4. \A a \in Actors, r \in Req : (Claims(a, r)' => Claims(a, r)) /\ (Owns(a, r)' => Owns(a, r))
        BY <1>4, <2>1, <3>3, EngineAssumption DEF MountAttr, Claims, Owns, TypeOK
      <3>5. \A t \in RecvThreads : hold'[t] = hold[t]
        BY <3>3, EngineAssumption DEF TypeOK, Actors
      <3>. QED
        BY <1>4, <2>1, <3>2, <3>4, <3>5, QuietStep DEF MountAttr, InReply
    <2>2. CASE Release(hold[Main]) /\ Goto(Main, "j_next")
      <3>1. hold[Main] \in Req /\ Owns(Main, hold[Main]) /\ Claims(Main, hold[Main])
        BY <1>0, <1>4 DEF MountAttr, HoldOK, HoldingPcs, OwningPcs, Owns, Claims
      <3>2. hold[Main] \notin free
        BY <1>0, <3>1 DEF RouteInv, ClaimsOut
      <3>3. MountPlain' /\ NoCrash'
        BY <1>0, <2>2, <3>2 DEF MountPlain, WaitingPcs, NoCrash, RouteInv, Release, TypeOK
      <3>. QED
        BY <1>0, <1>4, <2>2, <3>1, <3>3, ReleaseStep DEF MountAttr, Release, OwningPcs
    <2>. QED
      BY <1>4, <2>1, <2>2 DEF MountAttr
  <1>. QED
    BY <1>1, <1>2, <1>3, <1>4, MainQuiet DEF MainStep

LEMMA MishapGrows == [Next]_vars => mishap \subseteq mishap'
  <1>. USE DEF table, reqs, conn, locals, jobs, LengthCheck
  <1>1. ASSUME NEW t \in RecvThreads, RecvStep(t) PROVE mishap \subseteq mishap'
    BY <1>1 DEF RecvStep, RecvAlloc, Receive, ReceiveEof, ReceiveDenied, ReceiveError,
                Lookup, Match, Branch, Wake, CallbackFails, ReadFreedStatus, CallbackExpires,
                CallbackSends, CallbackReturns, EndJob, ShutWrite, Reconnect, Scan, Rescan
  <1>2. CASE MainStep
    BY <1>2 DEF MainStep, MountAlloc, MountSend, MountCheck, WaitReply, WaitAgain, MountAttr,
                NextJob, JobAlloc, JobStart, JobSend, JobCheck, StatsExit, Umount, Join
  <1>. QED
    BY <1>1, <1>2 DEF Next, SpuriousWakeup, Expire, ServerCloses, vars

LEMMA IInvInit == Init => IInv
  BY TypeInit, RouteInit DEF IInv

LEMMA IInvNext == IInv /\ [Next]_vars => IInv'
  <1>. SUFFICES ASSUME IInv, [Next]_vars PROVE IInv'
    OBVIOUS
  <1>1. TypeInv'
    BY TypeNext DEF IInv
  <1>2. ASSUME mishap' = {} PROVE RouteInv'
    <2>1. TypeInv /\ RouteInv
      BY <1>2, MishapGrows DEF IInv
    <2>2. CASE \E t \in RecvThreads : RecvStep(t)
      BY <1>2, <2>1, <2>2, RecvRoute
    <2>3. CASE MainStep
      BY <1>2, <2>1, <2>3, MainRoute
    <2>4. CASE SpuriousWakeup
      BY <1>2, <2>1, <2>4, MainQuiet
    <2>5. CASE (\E r \in Req : Expire(r)) \/ ServerCloses \/ UNCHANGED vars
      BY <2>1, <2>5, WorldQuiet
    <2>. QED
      BY <2>2, <2>3, <2>4, <2>5 DEF Next
  <1>. QED
    BY <1>1, <1>2 DEF IInv

LEMMA Invariance == Spec => []IInv
  BY IInvInit, IInvNext, PTL DEF Spec

(* As long as no race and no fault of mishap has happened, the reply to    *)
(* every call finds, in the slot of its xid, the request that sent it.     *)
THEOREM RepliesAreRouted == Spec => []ReplyFindsRequest
  <1>1. IInv => ReplyFindsRequest
    BY DEF IInv, RouteInv, ReplyFindsRequest, Unmatched, CallsFound, RepliesFound, InReply, Found
  <1>. QED
    BY <1>1, Invariance, PTL

(* A request is free, set aside, in one slot of the table or with one      *)
(* thread that works on it, and never in two of these places.              *)
THEOREM RequestsAreExclusive == Spec => []ExclusiveRequest
  <1>1. ASSUME IInv, mishap = {}, NEW r \in Req
        PROVE  /\ \A i, j \in Slots : tbl[i] = r /\ tbl[j] = r => i = j
               /\ \A a, b \in Actors : Owns(a, r) /\ Owns(b, r) => a = b
               /\ \A t, u \in RecvThreads : req0[t] = r /\ req0[u] = r => t = u
               /\ r \in free => ~Parked(r) /\ \A a \in Actors : ~Owns(a, r)
               /\ Parked(r) => \A a \in Actors : ~Owns(a, r)
               /\ (\E t \in RecvThreads : req0[t] = r)
                    => r \notin free /\ ~Parked(r) /\ \A a \in Actors : ~Owns(a, r)
    <2>1. RouteInv /\ r # NULL
      BY <1>1, EngineAssumption DEF IInv
    <2>2. \A a \in Actors : Owns(a, r) => Claims(a, r)
      BY DEF Owns, Claims
    <2>3. \A i, j \in Slots : tbl[i] = r /\ tbl[j] = r => i = j
      BY <2>1 DEF RouteInv, SlotsHold
    <2>4. \A a, b \in Actors : Owns(a, r) /\ Owns(b, r) => a = b
      BY <2>1, <2>2 DEF RouteInv, ClaimsDistinct
    <2>5. \A a \in Actors : Owns(a, r) => r \notin free /\ ~SetAside(r)
      BY <2>1, <2>2 DEF RouteInv, ClaimsOut
    <2>6. Parked(r) => r \notin free /\ ~SetAside(r) /\ \A a \in Actors : ~Owns(a, r)
      BY <2>1 DEF Parked, RouteInv, ParkedOut
    <2>7. \A t, u \in RecvThreads : req0[t] = r /\ req0[u] = r => t = u
      BY <2>1 DEF RouteInv, AsideDistinct
    <2>8. SetAside(r) => r \notin free
      BY <2>1 DEF RouteInv, AsideOut
    <2>. QED
      BY <2>3, <2>4, <2>5, <2>6, <2>7, <2>8 DEF SetAside
  <1>2. IInv => ExclusiveRequest
    BY <1>1 DEF ExclusiveRequest
  <1>. QED
    BY <1>2, Invariance, PTL

(* A reply meets an empty slot or a foreign xid, or a request is freed     *)
(* twice, only after one of the races or faults of mishap.                 *)
THEOREM CrashesNeedMishaps == Spec => []CrashNeedsMishap
  <1>1. IInv => CrashNeedsMishap
    BY DEF IInv, RouteInv, NoCrash, CrashNeedsMishap
  <1>. QED
    BY <1>1, Invariance, PTL

-----------------------------------------------------------------------------
(* NctEngine implements Exchange up to the first of the races and faults   *)
(* in mishap, for every number of threads, requests and jobs.              *)

(* What the request objects wait for, and the calls that may be answered,  *)
(* as the refinement sees them.                                            *)
Waits == [r \in Req |-> IF Parked(r) THEN reqXid[r] ELSE -1]
Wire == calls \cup {rxid[t] : t \in {u \in RecvThreads : pc[u] \in {"lookup", "match"}}}

LEMMA OnWire == \A x : x \in Wire <=> x \in calls \/ \E t \in RecvThreads : InReply(t) /\ rxid[t] = x
  BY DEF Wire, InReply

LEMMA OnWireNext ==
  \A x : x \in Wire' <=> x \in calls' \/ \E t \in RecvThreads : InReply(t)' /\ rxid'[t] = x
  BY DEF Wire, InReply

LEMMA WaitsSame == ASSUME UNCHANGED <<tbl, reqXid>> PROVE UNCHANGED Waits
  BY DEF Waits, Parked

LEMMA WireSame ==
  ASSUME UNCHANGED <<calls, rxid>>, \A t \in RecvThreads : InReply(t)' <=> InReply(t)
  PROVE  UNCHANGED Wire
  BY OnWire, OnWireNext

(* A step that neither sends nor matches, takes nothing out of the pool    *)
(* and returns nothing, loses calls at most.                               *)
LEMMA QuietLoses ==
  ASSUME mishap = {}, mishap' = {},
         UNCHANGED <<free, tbl, reqXid>>, calls' \subseteq calls,
         \A t \in RecvThreads :
           InReply(t)' => rxid'[t] \in calls \/ (InReply(t) /\ rxid'[t] = rxid[t])
  PROVE  Exch!Lose
  <1>1. Wire' \subseteq Wire
    BY OnWire, OnWireNext
  <1>2. UNCHANGED Waits
    BY WaitsSame
  <1>3. UNCHANGED (mishap # {})
    OBVIOUS
  <1>. QED
    BY <1>1, <1>2, <1>3 DEF Exch!Lose, Wire, Waits

LEMMA TakeAcquires ==
  ASSUME mishap = {}, mishap' = {}, NEW r \in Req, Take(r), UNCHANGED <<tbl, calls, rxid>>,
         \A t \in RecvThreads : InReply(t)' <=> InReply(t)
  PROVE  Exch!Acquire(r)
  <1>1. UNCHANGED Wire
    BY WireSame
  <1>2. UNCHANGED Waits
    BY WaitsSame DEF Take
  <1>3. UNCHANGED (mishap # {})
    OBVIOUS
  <1>. QED
    BY <1>1, <1>2, <1>3 DEF Exch!Acquire, Take, Wire, Waits

(* What is freed is nobody else's and not in the table.                    *)
LEMMA ReleaseReturns ==
  ASSUME TypeOK, RouteInv, mishap = {}, mishap' = {}, NEW a \in Actors,
         hold[a] \in Req, pc[a] \in OwningPcs, free' = free \cup {hold[a]},
         UNCHANGED <<tbl, reqXid, calls, rxid>>,
         \A t \in RecvThreads : InReply(t)' <=> InReply(t)
  PROVE  Exch!Return(hold[a])
  <1>1. UNCHANGED Wire
    BY WireSame
  <1>2. UNCHANGED Waits
    BY WaitsSame
  <1>3. UNCHANGED (mishap # {})
    OBVIOUS
  <1>4. Owns(a, hold[a]) /\ Claims(a, hold[a])
    BY DEF Owns, Claims
  <1>5. hold[a] \notin free
    BY <1>4 DEF RouteInv, ClaimsOut
  <1>6. ~Parked(hold[a])
    BY <1>4, EngineAssumption DEF RouteInv, ParkedOut, Parked
  <1>7. Waits[hold[a]] = -1
    BY <1>6 DEF Waits
  <1>. QED
    BY <1>1, <1>2, <1>3, <1>5, <1>7 DEF Exch!Return, Wire, Waits

(* What is sent waits for nothing yet, and goes by a name nothing else     *)
(* goes by: its slot is empty.                                             *)
LEMMA SendCalls ==
  ASSUME TypeOK, RouteInv, mishap = {}, mishap' = {}, NEW a \in Actors,
         hold[a] \in Req, pc[a] \in OwningPcs, Transmit(hold[a], TRUE), Overruns = {},
         UNCHANGED <<free, rxid>>,
         \A t \in RecvThreads : InReply(t)' <=> InReply(t)
  PROVE  \E r \in Req, x \in Xids : Exch!Call(r, x)
  <1>a. PICK r \in Req : r = hold[a]
    OBVIOUS
  <1>b. PICK x \in Xids : x = sendXid
    BY DEF TypeOK
  <1>. USE <1>a, <1>b
  <1>1. /\ tbl' = [tbl EXCEPT ![Slot(x)] = r] /\ reqXid' = [reqXid EXCEPT ![r] = x]
        /\ calls' = calls \/ calls' = calls \cup {x}
        /\ x \in Xids /\ Slot(x) \in Slots
        /\ tbl \in [Slots -> Req \cup {NULL}] /\ reqXid \in [Req -> Xids]
    BY SlotInSlots DEF Transmit, Stamp, TypeOK
  <1>2. tbl[Slot(x)] = NULL
    BY DEF Overruns
  <1>3. Owns(a, r) /\ Claims(a, r)
    BY DEF Owns, Claims
  <1>4. r \notin free /\ ~Parked(r)
    BY <1>3, EngineAssumption DEF RouteInv, ClaimsOut, ParkedOut, Parked
  <1>5. \A y \in Wire : tbl[Slot(y)] # NULL
    BY OnWire DEF RouteInv, CallsFound, RepliesFound, Found
  <1>6. x \notin Wire
    BY <1>2, <1>5
  <1>7. \A q \in Req : Waits[q] # x
    <2>1. \A q \in Req : Parked(q) => reqXid[q] # x
      BY <1>2, EngineAssumption DEF RouteInv, SlotsHold, Parked
    <2>2. x # -1
      BY <1>1, EngineAssumption DEF Xids
    <2>. QED
      BY <2>1, <2>2 DEF Waits
  <1>8. Waits' = [Waits EXCEPT ![r] = x]
    <2>1. /\ tbl'[Slot(x)] = r /\ \A i \in Slots \ {Slot(x)} : tbl'[i] = tbl[i]
          /\ reqXid'[r] = x /\ \A q \in Req \ {r} : reqXid'[q] = reqXid[q]
      BY <1>1
    <2>2. \E i \in Slots : tbl'[i] = r
      BY <1>1, <2>1
    <2>3. \A q \in Req \ {r} : (\E i \in Slots : tbl'[i] = q) <=> (\E i \in Slots : tbl[i] = q)
      BY <1>1, <1>2, <2>1, EngineAssumption
    <2>. QED
      BY <2>1, <2>2, <2>3 DEF Waits, Parked
  <1>9. Wire' = Wire \/ Wire' = Wire \cup {x}
    BY <1>1, OnWire, OnWireNext
  <1>10. Waits[r] = -1
    BY <1>4 DEF Waits
  <1>11. UNCHANGED (mishap # {})
    OBVIOUS
  <1>12. Exch!Call(r, x)
    BY <1>4, <1>6, <1>7, <1>8, <1>9, <1>10, <1>11 DEF Exch!Call, Wire, Waits
  <1>. QED
    BY <1>12

(* What is matched was sent by the request found in the table.             *)
LEMMA MatchReplies ==
  ASSUME TypeInv, RouteInv, mishap = {}, mishap' = {}, NEW t \in RecvThreads, Match(t)
  PROVE  \E r \in Req : Exch!Reply(r)
  <1>0. pc[t] = "match" /\ InReply(t) /\ t \in Actors
    BY DEF Match, At, InReply, Actors
  <1>a. PICK x \in Xids : x = rxid[t]
    BY DEF TypeInv, TypeOK
  <1>b. PICK r \in Req : r = hold[t]
    BY <1>0 DEF RouteInv, MatchHolds, RepliesFound, Found, TypeInv, TypeOK
  <1>. USE <1>a, <1>b
  <1>1. Slot(x) \in Slots
    BY SlotInSlots
  <1>2. r = tbl[Slot(x)] /\ r # NULL /\ reqXid[r] = x /\ r \in Req /\ x \notin calls
    BY <1>0, <1>1 DEF RouteInv, MatchHolds, RepliesFound, Found, TypeInv, TypeOK
  <1>3. /\ tbl' = [tbl EXCEPT ![Slot(x)] = NULL] /\ rxid' = [rxid EXCEPT ![t] = 0]
        /\ UNCHANGED <<reqXid, calls, free>>
        /\ \E l \in {"called", "answered"} : pc' = [pc EXCEPT ![t] = l]
        /\ tbl \in [Slots -> Req \cup {NULL}] /\ rxid \in [RecvThreads -> Xids]
        /\ pc \in [Actors -> RecvPcs \cup MainPcs]
    BY <1>0, <1>2 DEF Match, ClearSlot, Goto, reqs, conn, TypeInv, TypeOK
  <1>4. \A u \in RecvThreads : InReply(u)' <=> InReply(u) /\ u # t
    BY <1>0, <1>1, <1>3 DEF InReply, Actors
  <1>5. \A u \in RecvThreads \ {t} : rxid'[u] = rxid[u] /\ (InReply(u) => rxid[u] # x)
    BY <1>0, <1>1, <1>3 DEF RouteInv, RepliesDistinct
  <1>6. Wire' = Wire \ {x}
    BY <1>2, <1>3, <1>4, <1>5, OnWire, OnWireNext
  <1>7. x \in Wire
    BY <1>0, OnWire
  <1>8. Waits[r] = x
    BY <1>1, <1>2 DEF Waits, Parked
  <1>9. Waits' = [Waits EXCEPT ![r] = -1]
    <2>1. tbl'[Slot(x)] = NULL /\ \A i \in Slots \ {Slot(x)} : tbl'[i] = tbl[i]
      BY <1>0, <1>1, <1>3
    <2>2. \A i \in Slots : tbl[i] = r => i = Slot(x)
      BY <1>2 DEF RouteInv, SlotsHold
    <2>3. ~\E i \in Slots : tbl'[i] = r
      BY <1>2, <2>1, <2>2
    <2>4. \A q \in Req \ {r} : (\E i \in Slots : tbl'[i] = q) <=> (\E i \in Slots : tbl[i] = q)
      BY <1>2, <2>1, EngineAssumption
    <2>. QED
      BY <1>2, <1>3, <2>3, <2>4 DEF Waits, Parked
  <1>10. UNCHANGED (mishap # {})
    OBVIOUS
  <1>11. Exch!Reply(r)
    BY <1>3, <1>6, <1>7, <1>8, <1>9, <1>10 DEF Exch!Reply, Wire, Waits
  <1>. QED
    BY <1>11

-----------------------------------------------------------------------------
LEMMA RecvExchanges ==
  ASSUME TypeInv, RouteInv, mishap = {}, mishap' = {}, NEW t \in RecvThreads, RecvStep(t)
  PROVE  Exch!Next
  <1>. USE DEF At, Goto, Hold, locals, conn, table, reqs
  <1>0. t \in Actors /\ TypeOK /\ pc \in [Actors -> RecvPcs \cup MainPcs]
    BY DEF Actors, TypeInv, TypeOK
  <1>1. CASE RecvAlloc(t)
    <2>1. \A u \in RecvThreads : InReply(u)' <=> InReply(u)
      BY <1>0, <1>1 DEF RecvAlloc, InReply
    <2>. QED
      BY <1>1, <2>1, TakeAcquires DEF RecvAlloc, Exch!Next
  <1>2. CASE Receive(t) \/ ReceiveError(t)
    <2>1. \A u \in RecvThreads :
            InReply(u)' => rxid'[u] \in calls \/ (InReply(u) /\ rxid'[u] = rxid[u])
      <3>1. \/ UNCHANGED <<pc, rxid>>
            \/ pc' = [pc EXCEPT ![t] = "lookup"] /\ \E x \in calls : rxid' = [rxid EXCEPT ![t] = x]
        BY <1>2 DEF Receive, ReceiveError
      <3>2. rxid \in [RecvThreads -> Xids]
        BY <1>0 DEF TypeOK
      <3>3. \A u \in RecvThreads \ {t} : pc'[u] = pc[u] /\ rxid'[u] = rxid[u]
        BY <1>0, <3>1, <3>2 DEF Actors
      <3>4. UNCHANGED <<pc, rxid>> \/ rxid'[t] \in calls
        BY <3>1, <3>2
      <3>. QED
        BY <3>3, <3>4 DEF InReply
    <2>2. UNCHANGED <<free, tbl, reqXid>> /\ calls' \subseteq calls
      BY <1>2 DEF Receive, ReceiveError
    <2>. QED
      BY <2>1, <2>2, QuietLoses DEF Exch!Next
  <1>3. CASE Match(t)
    BY <1>3, MatchReplies DEF Exch!Next
  <1>4. CASE CallbackFails(t) \/ CallbackExpires(t)
    <2>1. /\ pc[t] = "cb" /\ fate = "run" /\ free' = free \cup {hold[t]}
          /\ UNCHANGED <<calls, tbl, reqXid, rxid>>
          /\ \E l \in {"rc", "dec", "recv"} : pc' = [pc EXCEPT ![t] = l]
      BY <1>4 DEF CallbackFails, CallbackExpires, Release
    <2>2. hold[t] \in Req /\ pc[t] \in OwningPcs
      BY <1>0, <2>1 DEF TypeInv, HoldOK, HoldingPcs, OwningPcs
    <2>3. \A u \in RecvThreads : InReply(u)' <=> InReply(u)
      BY <1>0, <2>1 DEF InReply
    <2>. QED
      BY <1>0, <2>1, <2>2, <2>3, ReleaseReturns DEF Exch!Next
  <1>5. CASE CallbackSends(t)
    <2>1. /\ pc[t] = "cb" /\ fate = "run" /\ Transmit(hold[t], TRUE) /\ Overruns = {}
          /\ pc' = [pc EXCEPT ![t] = "check"] /\ UNCHANGED <<free, rxid>>
      BY <1>5 DEF CallbackSends
    <2>2. hold[t] \in Req /\ pc[t] \in OwningPcs
      BY <1>0, <2>1 DEF TypeInv, HoldOK, HoldingPcs, OwningPcs
    <2>3. \A u \in RecvThreads : InReply(u)' <=> InReply(u)
      BY <1>0, <2>1 DEF InReply
    <2>. QED
      BY <1>0, <2>1, <2>2, <2>3, SendCalls DEF Exch!Next
  <1>6. CASE \/ ReceiveEof(t) \/ Lookup(t) \/ Branch(t) \/ ReadFreedStatus(t)
             \/ CallbackReturns(t) \/ EndJob(t) \/ ShutWrite(t)
    <2>1. UNCHANGED <<free, tbl, reqXid, calls, rxid>>
      BY <1>6 DEF ReceiveEof, Lookup, Branch, ReadFreedStatus, CallbackReturns, LengthCheck, EndJob, ShutWrite
    <2>2. \/ pc' = pc
          \/ pc[t] = "lookup" /\ pc' = [pc EXCEPT ![t] = "match"]
          \/ \E l \in {"exited", "cb", "wake", "dec", "recv", "shut"} : pc' = [pc EXCEPT ![t] = l]
      BY <1>6 DEF ReceiveEof, Lookup, Branch, ReadFreedStatus, CallbackReturns, LengthCheck, EndJob, ShutWrite
    <2>3. \A u \in RecvThreads : InReply(u)' => InReply(u)
      BY <1>0, <2>2 DEF InReply, Actors
    <2>. QED
      BY <2>1, <2>3, QuietLoses DEF Exch!Next
  <1>7. CASE Wake(t)
    <2>1. UNCHANGED <<free, tbl, reqXid, calls, rxid>>
      BY <1>7 DEF Wake
    <2>2. \A u \in RecvThreads : InReply(u)' => InReply(u)
      BY <1>0, <1>7, EngineAssumption DEF Wake, InReply, Actors
    <2>. QED
      BY <2>1, <2>2, QuietLoses DEF Exch!Next
  <1>8. ~ReceiveDenied(t) /\ ~Reconnect(t) /\ ~Scan(t) /\ ~Rescan(t)
    BY DEF ReceiveDenied, Reconnect, Scan, Rescan, RouteInv, NoReconnect
  <1>. QED
    BY <1>1, <1>2, <1>3, <1>4, <1>5, <1>6, <1>7, <1>8 DEF RecvStep

LEMMA MainExchanges ==
  ASSUME TypeInv, RouteInv, mishap = {}, mishap' = {}, MainStep
  PROVE  Exch!Next
  <1>. USE DEF At, Goto, Hold, locals, conn, table, reqs
  <1>0. Main \in Actors /\ TypeOK /\ pc \in [Actors -> RecvPcs \cup MainPcs]
    BY DEF Actors, TypeInv, TypeOK
  <1>. DEFINE Moved == \E l \in MainPcs : pc' = [pc EXCEPT ![Main] = l]
  <1>1. ASSUME Moved \/ pc' = pc PROVE \A u \in RecvThreads : InReply(u)' <=> InReply(u)
    BY <1>0, <1>1, EngineAssumption DEF InReply, Actors
  <1>. HIDE DEF Moved
  <1>2. CASE MountAlloc \/ JobAlloc
    <2>1. Moved
      BY <1>2 DEF MountAlloc, JobAlloc, Moved, MainPcs
    <2>. QED
      BY <1>1, <1>2, <2>1, TakeAcquires DEF MountAlloc, JobAlloc, Exch!Next
  <1>3. CASE MountSend \/ JobSend
    <2>1. Moved
      BY <1>3 DEF MountSend, JobSend, Moved, MainPcs
    <2>2. /\ pc[Main] \in {"m_send", "j_send"} /\ fate = "run" /\ Transmit(hold[Main], TRUE)
          /\ Overruns = {} /\ UNCHANGED <<free, rxid>>
      BY <1>3 DEF MountSend, JobSend
    <2>3. hold[Main] \in Req /\ pc[Main] \in OwningPcs
      BY <1>0, <2>2 DEF TypeInv, HoldOK, HoldingPcs, OwningPcs
    <2>. QED
      BY <1>0, <1>1, <2>1, <2>2, <2>3, SendCalls DEF Exch!Next
  <1>4. CASE MountAttr
    <2>1. CASE UNCHANGED <<free, pc>>
      BY <1>1, <1>4, <2>1, QuietLoses DEF MountAttr, Exch!Next
    <2>2. CASE Release(hold[Main]) /\ Goto(Main, "j_next")
      <3>1. Moved
        BY <2>2 DEF Moved, MainPcs
      <3>2. hold[Main] \in Req /\ pc[Main] \in OwningPcs
        BY <1>0, <1>4 DEF MountAttr, TypeInv, HoldOK, HoldingPcs, OwningPcs
      <3>. QED
        BY <1>0, <1>1, <1>4, <2>2, <3>1, <3>2, ReleaseReturns DEF MountAttr, Release, Exch!Next
    <2>. QED
      BY <1>4, <2>1, <2>2 DEF MountAttr
  <1>5. CASE \/ MountCheck \/ WaitReply \/ WaitAgain \/ NextJob \/ JobStart \/ JobCheck
             \/ StatsExit \/ Umount \/ Join
    <2>1. UNCHANGED <<free, tbl, reqXid, rxid>> /\ calls' \subseteq calls
      BY <1>5 DEF MountCheck, WaitReply, WaitAgain, NextJob, JobStart, JobCheck, LengthCheck,
                  StatsExit, Umount, Join
    <2>2. Moved \/ pc' = pc
      BY <1>5 DEF MountCheck, WaitReply, WaitAgain, NextJob, JobStart, JobCheck, LengthCheck,
                  StatsExit, Umount, Join, Moved, MainPcs
    <2>. QED
      BY <1>1, <2>1, <2>2, QuietLoses DEF Exch!Next
  <1>. QED
    BY <1>2, <1>3, <1>4, <1>5 DEF MainStep

LEMMA ExchangeInit == Init => Exch!Init
  <1>. SUFFICES ASSUME Init PROVE Exch!Init
    OBVIOUS
  <1>1. Waits = [r \in Req |-> -1]
    BY EngineAssumption DEF Init, Waits, Parked
  <1>2. Wire = {}
    BY EngineAssumption DEF Init, Wire, Actors
  <1>. QED
    BY <1>1, <1>2 DEF Init, Exch!Init, Waits, Wire

LEMMA ExchangeNext == IInv /\ [Next]_vars => [Exch!Next]_(Exch!vars)
  <1>. SUFFICES ASSUME IInv, [Next]_vars PROVE Exch!Next \/ UNCHANGED Exch!vars
    OBVIOUS
  <1>1. CASE mishap' # {}
    BY <1>1 DEF Exch!Next, Exch!Break
  <1>2. CASE mishap' = {}
    <2>1. mishap = {} /\ TypeInv /\ RouteInv
      BY <1>2, MishapGrows DEF IInv
    <2>2. CASE \E t \in RecvThreads : RecvStep(t)
      BY <1>2, <2>1, <2>2, RecvExchanges
    <2>3. CASE MainStep
      BY <1>2, <2>1, <2>3, MainExchanges
    <2>4. CASE SpuriousWakeup \/ (\E r \in Req : Expire(r)) \/ ServerCloses \/ UNCHANGED vars
      <3>1. UNCHANGED <<free, tbl, reqXid, rxid>> /\ calls' \subseteq calls
        BY <2>4 DEF SpuriousWakeup, Expire, ServerCloses, vars, table, reqs, conn, locals
      <3>2. \A u \in RecvThreads : InReply(u)' <=> InReply(u)
        BY <2>1, <2>4, EngineAssumption
        DEF SpuriousWakeup, Expire, ServerCloses, vars, Goto, InReply, Actors, TypeInv, TypeOK
      <3>. QED
        BY <1>2, <2>1, <3>1, <3>2, QuietLoses DEF Exch!Next
    <2>. QED
      BY <2>2, <2>3, <2>4 DEF Next
  <1>. QED
    BY <1>1, <1>2

(* Up to the first race or fault of mishap every step of NctEngine is one  *)
(* of Exchange, or none: replies are handed, once, to the request that     *)
(* sent the call, under any interleaving (the safety of ExchangeSpec).     *)
THEOREM EngineIsExchange == Spec => ExchangeSpec
  BY Invariance, ExchangeInit, ExchangeNext, PTL DEF Spec, ExchangeSpec, Exch!Spec
=============================================================================
