--------------------------- MODULE ReqPoolProofs ---------------------------
(* Theorems about ReqPool, for any number of threads, requests and jobs.   *)
EXTENDS ReqPool, FiniteSetTheorems, TLAPS

(* Each thread runs its own code, and whoever is inside of a critical      *)
(* section has the mutex.                                                  *)
Places ==
  /\ list \in Seq(Reqs) /\ mutex \in Threads \cup {NoThread}
  /\ waiters \in Int
  /\ pc \in [Threads -> Pcs]
  /\ req \in [Threads -> SUBSET Reqs]
  /\ mounted \in BOOLEAN /\ jobs \subseteq Reqs /\ started \in 0..JobsMax
  /\ req0 \in [RecvThreads -> SUBSET Reqs] /\ spurious \in 0..MaxSpurious
  /\ pc[Main] # "run" /\ \A t \in RecvThreads : pc[t] # "done"

Locked == \A t \in Threads : pc[t] \in {"test", "push"} <=> mutex = t

(* A job is started only while there is one left to start.                 *)
OneLeft ==
  mounted /\ pc[Main] \in {"lock", "test", "asleep", "woken", "got"} => started < JobsMax

(* A thread has one request where it has any; a receive thread sets one    *)
(* aside only after it has got it and never returns that one.              *)
OneRequest ==
  /\ \A t \in Threads : pc[t] \in {"got", "flock", "push"} => \E r \in Reqs : req[t] = {r}
  /\ \A t \in RecvThreads :
       pc[t] \in {"begin", "lock", "test", "asleep", "woken", "got"} => req0[t] = {}
  /\ \A t \in RecvThreads : pc[t] \in {"flock", "push"} => req[t] \cap req0[t] = {}

PoolInv == Places /\ Locked /\ OneLeft /\ OneRequest /\ Exclusive

-----------------------------------------------------------------------------
(* The list.                                                               *)

LEMMA FirstList ==
  /\ SetToSeq(Reqs) \in Seq(Reqs)
  /\ IsInjective(SetToSeq(Reqs))
  /\ ToSet(SetToSeq(Reqs)) = Reqs
  <1> DEFINE n == Cardinality(Reqs)
             s == SetToSeq(Reqs)
  <1>1. n \in Nat /\ ExistsBijection(1..n, Reqs)
    BY FS_CardinalityType, ReqPoolAssumption
  <1>2. PICK f \in [1..n -> Reqs] : IsInjective(f)
    BY <1>1 DEF ExistsBijection, Bijection, Injection, IsInjective
  <1>3. s \in [1..n -> Reqs] /\ IsInjective(s)
    BY <1>2 DEF SetToSeq
  <1>4. s \in Seq(Reqs) /\ DOMAIN s = 1..n
    BY <1>1, <1>3
  <1>5. ToSet(s) = Reqs
    <2>1. ToSet(s) \subseteq Reqs
      BY <1>3, <1>4 DEF ToSet
    <2>2. s \in Bijection(1..n, ToSet(s))
      BY <1>3, <1>4 DEF Bijection, Injection, Surjection, ToSet, IsInjective
    <2>3. IsFiniteSet(1..n) /\ Cardinality(1..n) = n
      BY <1>1, FS_Interval
    <2>4. Cardinality(ToSet(s)) = n
      <3>1. ExistsBijection(1..n, ToSet(s))
        BY <2>2 DEF ExistsBijection
      <3>. QED
        BY <2>3, <3>1, FS_Bijection
    <2>. QED
      BY <2>1, <2>4, FS_Subset, ReqPoolAssumption
  <1>. QED
    BY <1>3, <1>4, <1>5

(* What taking the head leaves.                                            *)
LEMMA Popped ==
  ASSUME NEW s \in Seq(Reqs), s # <<>>, IsInjective(s)
  PROVE  /\ Head(s) \in ToSet(s) /\ Head(s) \in Reqs
         /\ Tail(s) \in Seq(Reqs) /\ IsInjective(Tail(s))
         /\ ToSet(Tail(s)) = ToSet(s) \ {Head(s)}
         /\ Len(Tail(s)) = Len(s) - 1
  <1>1. /\ Len(s) \in Nat \ {0} /\ DOMAIN s = 1..Len(s)
        /\ Head(s) = s[1] /\ Tail(s) \in Seq(Reqs)
        /\ Len(Tail(s)) = Len(s) - 1 /\ DOMAIN Tail(s) = 1..(Len(s) - 1)
        /\ \A i \in 1..(Len(s) - 1) : Tail(s)[i] = s[i + 1]
    OBVIOUS
  <1>2. IsInjective(Tail(s))
    BY <1>1 DEF IsInjective
  <1>3. ASSUME NEW x \in ToSet(s), x # Head(s) PROVE x \in ToSet(Tail(s))
    <2>1. PICK i \in 1..Len(s) : x = s[i]
      BY <1>1 DEF ToSet
    <2>2. i - 1 \in 1..(Len(s) - 1) /\ Tail(s)[i - 1] = x
      BY <1>1, <1>3, <2>1
    <2>. QED
      BY <1>1, <2>2 DEF ToSet
  <1>4. ASSUME NEW x \in ToSet(Tail(s)) PROVE x \in ToSet(s) /\ x # Head(s)
    <2>1. PICK i \in 1..(Len(s) - 1) : x = s[i + 1]
      BY <1>1 DEF ToSet
    <2>. QED
      BY <1>1, <2>1 DEF ToSet, IsInjective
  <1>5. ToSet(Tail(s)) = ToSet(s) \ {Head(s)}
    BY <1>3, <1>4
  <1>6. Head(s) \in ToSet(s) /\ Head(s) \in Reqs
    BY <1>1 DEF ToSet
  <1>. QED
    BY <1>1, <1>2, <1>5, <1>6

(* What putting a request back in front gives.                             *)
LEMMA Pushed ==
  ASSUME NEW s \in Seq(Reqs), NEW r \in Reqs, IsInjective(s), r \notin ToSet(s)
  PROVE  /\ <<r>> \o s \in Seq(Reqs) /\ IsInjective(<<r>> \o s)
         /\ ToSet(<<r>> \o s) = ToSet(s) \cup {r}
         /\ Len(<<r>> \o s) = Len(s) + 1
  <1> DEFINE u == <<r>> \o s
  <1>1. /\ Len(s) \in Nat /\ DOMAIN s = 1..Len(s)
        /\ u \in Seq(Reqs) /\ Len(u) = Len(s) + 1 /\ DOMAIN u = 1..(Len(s) + 1)
        /\ u[1] = r
        /\ \A i \in 1..Len(s) : u[i + 1] = s[i]
    OBVIOUS
  <1>2. \A j \in 2..(Len(s) + 1) : j - 1 \in DOMAIN s /\ u[j] = s[j - 1]
    BY <1>1
  <1>3. IsInjective(u)
    <2>1. ASSUME NEW a \in DOMAIN u, NEW b \in DOMAIN u, u[a] = u[b] PROVE a = b
      <3>1. CASE a = 1 /\ b = 1
        BY <3>1
      <3>2. CASE a = 1 /\ b # 1
        BY <1>1, <1>2, <2>1, <3>2 DEF ToSet
      <3>3. CASE a # 1 /\ b = 1
        BY <1>1, <1>2, <2>1, <3>3 DEF ToSet
      <3>4. CASE a # 1 /\ b # 1
        <4>1. /\ a \in 2..(Len(s) + 1) /\ b \in 2..(Len(s) + 1)
          BY <1>1, <2>1, <3>4
        <4>2. s[a - 1] = s[b - 1] /\ a - 1 \in DOMAIN s /\ b - 1 \in DOMAIN s
          BY <1>2, <2>1, <4>1
        <4>3. a - 1 = b - 1
          BY <4>2 DEF IsInjective
        <4>. QED
          BY <4>1, <4>3
      <3>. QED
        BY <3>1, <3>2, <3>3, <3>4
    <2>. QED
      BY <2>1 DEF IsInjective
  <1>4. ASSUME NEW x \in ToSet(u) PROVE x \in ToSet(s) \cup {r}
    <2>1. PICK j \in 1..(Len(s) + 1) : x = u[j]
      BY <1>1 DEF ToSet
    <2>. QED
      BY <1>1, <1>2, <2>1 DEF ToSet
  <1>5. ASSUME NEW x \in ToSet(s) \cup {r} PROVE x \in ToSet(u)
    <2>1. CASE x = r
      BY <1>1, <2>1 DEF ToSet
    <2>2. CASE x \in ToSet(s)
      <3>1. PICK i \in 1..Len(s) : x = s[i]
        BY <1>1, <2>2 DEF ToSet
      <3>2. i + 1 \in DOMAIN u /\ u[i + 1] = x
        BY <1>1, <3>1
      <3>. QED
        BY <3>2 DEF ToSet
    <2>. QED
      BY <2>1, <2>2, <1>5
  <1>. QED
    BY <1>1, <1>3, <1>4, <1>5

-----------------------------------------------------------------------------
(* Nobody has a request twice.                                             *)

LEMMA PoolInit == Init => PoolInv
  <1>. SUFFICES ASSUME Init PROVE PoolInv
    OBVIOUS
  <1>1. Places
    <2>1. list \in Seq(Reqs)
      BY FirstList DEF Init
    <2>2. started \in 0..JobsMax /\ spurious \in 0..MaxSpurious /\ waiters \in Int
      BY ReqPoolAssumption DEF Init
    <2>3. pc \in [Threads -> Pcs] /\ req \in [Threads -> SUBSET Reqs]
      BY DEF Init, Pcs
    <2>. QED
      BY <2>1, <2>2, <2>3 DEF Init, Places, Threads
  <1>2. Locked
    BY ReqPoolAssumption DEF Init, Locked
  <1>3. OneLeft /\ OneRequest
    BY ReqPoolAssumption DEF Init, OneLeft, OneRequest, Threads
  <1>4. Exclusive
    <2>1. IsInjective(list) /\ jobs = {} /\ \A t \in Threads : Own(t) = {}
      BY FirstList DEF Init, Own
    <2>. QED
      BY <2>1 DEF Exclusive
  <1>. QED
    BY <1>1, <1>2, <1>3, <1>4 DEF PoolInv

LEMMA PoolNext == PoolInv /\ [Next]_vars => PoolInv'
  <1>. SUFFICES ASSUME PoolInv, [Next]_vars PROVE PoolInv'
    OBVIOUS
  <1>. USE ReqPoolAssumption DEF PoolInv, Places, Locked, OneLeft, OneRequest, Exclusive, Own,
           Pcs, Threads, Goto
  <1>1. ASSUME NEW t \in Threads, CallAlloc(t) PROVE PoolInv'
    BY <1>1 DEF CallAlloc
  <1>2. ASSUME NEW t \in Threads, Serve(t) PROVE PoolInv'
    BY <1>2 DEF Serve
  <1>3. ASSUME NEW t \in Threads, Lock(t) PROVE PoolInv'
    BY <1>3 DEF Lock
  <1>4. ASSUME NEW t \in Threads, Sleep(t) PROVE PoolInv'
    BY <1>4 DEF Sleep, OneMoreSleeper
  <1>5. ASSUME NEW t \in Threads, Pop(t) PROVE PoolInv'
    <2>1. /\ Head(list) \in ToSet(list) /\ Head(list) \in Reqs
          /\ list' \in Seq(Reqs) /\ IsInjective(list')
          /\ ToSet(list') = ToSet(list) \ {Head(list)}
      BY <1>5, Popped DEF Pop, DropHead
    <2>. QED
      BY <1>5, <2>1 DEF Pop
  <1>6. ASSUME NEW t \in Threads, Push(t) PROVE PoolInv'
    <2>1. PICK r \in Reqs : req[t] = {r}
      BY <1>6 DEF Push
    <2>2. r \notin ToSet(list) /\ list' = <<r>> \o list
      BY <1>6, <2>1 DEF Push
    <2>3. list' \in Seq(Reqs) /\ IsInjective(list') /\ ToSet(list') = ToSet(list) \cup {r}
      BY <2>2, Pushed
    <2>4. /\ pc' \in [Threads -> Pcs] /\ pc'[t] = Resumed(t)
          /\ \A v \in Threads \ {t} : pc'[v] = pc[v] \/ (pc[v] = "asleep" /\ pc'[v] = "woken")
      <3>1. CASE pc' = [pc EXCEPT ![t] = Resumed(t)]
        BY <3>1 DEF Resumed
      <3>2. ASSUME NEW u \in Asleep, pc' = [pc EXCEPT ![t] = Resumed(t), ![u] = "woken"]
            PROVE  /\ pc' \in [Threads -> Pcs] /\ pc'[t] = Resumed(t)
                   /\ \A v \in Threads \ {t} :
                        pc'[v] = pc[v] \/ (pc[v] = "asleep" /\ pc'[v] = "woken")
        <4>1. u \in Threads /\ u # t /\ pc[u] = "asleep"
          BY <1>6, <3>2 DEF Push, Asleep
        <4>. QED
          BY <3>2, <4>1 DEF Resumed
      <3>. QED
        BY <1>6, <3>1, <3>2 DEF Push
    <2>5. Places'
      BY <1>6, <2>3, <2>4 DEF Push, Resumed
    <2>6. Locked'
      BY <1>6, <2>4 DEF Push, Resumed
    <2>7. OneLeft'
      BY <1>6, <2>4 DEF Push, Resumed
    <2>8. OneRequest'
      BY <1>6, <2>4 DEF Push, Resumed
    <2>9. Exclusive'
      <3>1. ASSUME NEW v \in Threads PROVE Own(v)' \subseteq Own(v)
        BY <1>6, <2>4 DEF Push, Resumed
      <3>2. r \notin Own(t)' /\ \A v \in Threads \ {t} : r \notin Own(v)
        <4>1. r \in Own(t) /\ (t \in RecvThreads => r \notin req0[t])
          BY <1>6, <2>1 DEF Push
        <4>. QED
          BY <1>6, <2>4, <4>1 DEF Push, Resumed
      <3>3. r \notin jobs /\ jobs' = jobs
        BY <1>6, <2>1 DEF Push
      <3>. QED
        BY <2>3, <3>1, <3>2, <3>3
    <2>. QED
      BY <2>5, <2>6, <2>7, <2>8, <2>9
  <1>7. ASSUME NEW t \in Threads, SpuriousWakeup(t) PROVE PoolInv'
    BY <1>7 DEF SpuriousWakeup
  <1>8. CASE AllStarted
    BY <1>8 DEF AllStarted
  <1>9. CASE StartJob
    BY <1>9 DEF StartJob
  <1>10. CASE FreeMount
    BY <1>10 DEF FreeMount
  <1>11. ASSUME NEW t \in Threads, FreeJob(t) PROVE PoolInv'
    BY <1>11 DEF FreeJob
  <1>12. CASE UNCHANGED vars
    BY <1>12 DEF vars
  <1>. QED
    BY <1>1, <1>2, <1>3, <1>4, <1>5, <1>6, <1>7, <1>8, <1>9, <1>10, <1>11, <1>12
    DEF Next, Step, Idle

(* No request is given to two of those that ask, and none is on the list   *)
(* while a job or a thread has it.                                         *)
THEOREM RequestsAreHandedOutOnce == Spec => []Exclusive
  <1>1. PoolInv => Exclusive
    BY DEF PoolInv
  <1>. QED
    BY <1>1, PoolInit, PoolNext, PTL DEF Spec

-----------------------------------------------------------------------------
(* The count of the waiters, and their wakeups.                            *)

Sleepers == Asleep \cup Woken
Waking == {t \in Threads : pc[t] \in {"woken", "test"}}

CountInv == WaitersCounted /\ NoLostWakeup

LEMMA FiniteThreads ==
  ASSUME NEW S \in SUBSET Threads
  PROVE  IsFiniteSet(S) /\ Cardinality(S) \in Nat
  <1>1. IsFiniteSet(Threads)
    BY ReqPoolAssumption, FS_AddElement DEF Threads
  <1>. QED
    BY <1>1, FS_Subset, FS_CardinalityType

LEMMA OneMore ==
  ASSUME NEW S, NEW x, IsFiniteSet(S)
  PROVE  /\ Cardinality(S) \in Nat /\ Cardinality(S \cup {x}) \in Nat
         /\ Cardinality(S) <= Cardinality(S \cup {x})
  <1>1. IsFiniteSet(S \cup {x}) /\ S \in SUBSET (S \cup {x})
    BY FS_AddElement
  <1>. QED
    BY <1>1, FS_Subset, FS_CardinalityType

(* A step that touches neither the list nor the place of a waiter.         *)
LEMMA CountQuiet ==
  ASSUME CountInv, UNCHANGED <<list, waiters>>,
         \A t \in Threads : pc'[t] = pc[t] \/ {pc[t], pc'[t]} \cap {"asleep", "woken", "test"} = {}
  PROVE  CountInv'
  <1>1. Asleep' = Asleep /\ Woken' = Woken /\ Waking' = Waking
    BY DEF Asleep, Woken, Waking
  <1>. QED
    BY <1>1 DEF CountInv, WaitersCounted, NoLostWakeup, Waking

LEMMA CountNext == PoolInv /\ PoolInv' /\ CountInv /\ [Next]_vars => CountInv'
  <1>. SUFFICES ASSUME PoolInv, PoolInv', CountInv, [Next]_vars PROVE CountInv'
    OBVIOUS
  <1>1. /\ Asleep \in SUBSET Threads /\ Woken \in SUBSET Threads
        /\ Sleepers \in SUBSET Threads /\ Waking \in SUBSET Threads
    BY DEF Asleep, Woken, Sleepers, Waking
  <1>2. /\ waiters = Cardinality(Sleepers)
        /\ Asleep # {} => Len(list) <= Cardinality(Waking)
    BY DEF CountInv, WaitersCounted, NoLostWakeup, Sleepers, Waking
  <1>3. IsFiniteSet(Sleepers) /\ Cardinality(Waking) \in Nat /\ IsFiniteSet(Waking)
    BY <1>1, FiniteThreads
  <1>4. ASSUME waiters' = Cardinality(Sleepers'),
               Asleep' # {} => Len(list') <= Cardinality(Waking')
        PROVE  CountInv'
    BY <1>4 DEF CountInv, WaitersCounted, NoLostWakeup, Sleepers, Waking
  <1>5. pc \in [Threads -> Pcs] /\ list \in Seq(Reqs) /\ Len(list) \in Nat /\ waiters \in Int
    BY DEF PoolInv, Places
  <1>6. ASSUME NEW t \in Threads, CallAlloc(t) \/ Serve(t) \/ FreeJob(t) PROVE CountInv'
    BY <1>5, <1>6, CountQuiet DEF CallAlloc, Serve, FreeJob, Goto
  <1>7. CASE AllStarted \/ StartJob \/ FreeMount
    BY <1>5, <1>7, CountQuiet DEF AllStarted, StartJob, FreeMount, Goto, Threads
  <1>8. ASSUME NEW t \in Threads, Lock(t) PROVE CountInv'
    <2>1. Asleep' = Asleep /\ list' = list
      BY <1>5, <1>8 DEF Lock, Goto, Asleep
    <2>2. CASE pc[t] = "flock"
      BY <1>5, <1>8, <2>2, CountQuiet DEF Lock, Goto
    <2>3. CASE pc[t] = "lock"
      <3>1. Sleepers' = Sleepers /\ waiters' = waiters /\ Waking' = Waking \cup {t}
        BY <1>5, <1>8, <2>3 DEF Lock, Goto, Sleepers, Asleep, Woken, Waking
      <3>2. Cardinality(Waking') \in Nat /\ Cardinality(Waking) <= Cardinality(Waking')
        BY <1>3, <3>1, OneMore
      <3>. QED
        BY <1>2, <1>3, <1>4, <1>5, <2>1, <3>1, <3>2
    <2>4. CASE pc[t] = "woken"
      <3>1. Sleepers' = Sleepers \ {t} /\ waiters' = waiters - 1 /\ Waking' = Waking
        BY <1>5, <1>8, <2>4 DEF Lock, Goto, Sleepers, Asleep, Woken, Waking
      <3>2. t \in Sleepers
        BY <2>4 DEF Sleepers, Woken
      <3>3. waiters' = Cardinality(Sleepers')
        BY <1>2, <1>3, <3>1, <3>2, FS_RemoveElement
      <3>. QED
        BY <1>2, <1>4, <2>1, <3>1, <3>3
    <2>. QED
      BY <1>8, <2>2, <2>3, <2>4 DEF Lock
  <1>9. ASSUME NEW t \in Threads, Sleep(t) PROVE CountInv'
    <2>1. Sleepers' = Sleepers \cup {t} /\ waiters' = waiters + 1 /\ Waking' = Waking \ {t}
      BY <1>5, <1>9 DEF Sleep, OneMoreSleeper, Goto, Sleepers, Asleep, Woken, Waking
    <2>2. t \notin Sleepers
      BY <1>9 DEF Sleep, Sleepers, Asleep, Woken
    <2>3. waiters' = Cardinality(Sleepers')
      BY <1>2, <1>3, <2>1, <2>2, FS_AddElement
    <2>4. Len(list') = 0 /\ Cardinality(Waking') \in Nat
      BY <1>3, <1>9, <2>1, FS_RemoveElement, FS_CardinalityType DEF Sleep
    <2>. QED
      BY <1>4, <2>3, <2>4
  <1>10. ASSUME NEW t \in Threads, Pop(t) PROVE CountInv'
    <2>1. /\ Sleepers' = Sleepers /\ Asleep' = Asleep /\ waiters' = waiters
          /\ Waking' = Waking \ {t} /\ t \in Waking
      BY <1>5, <1>10 DEF Pop, Goto, Sleepers, Asleep, Woken, Waking
    <2>2. Len(list') = Len(list) - 1
      BY <1>10, Popped DEF PoolInv, Places, Exclusive, Pop, DropHead
    <2>3. Cardinality(Waking') = Cardinality(Waking) - 1
      BY <1>3, <2>1, FS_RemoveElement
    <2>. QED
      BY <1>2, <1>3, <1>4, <1>5, <2>1, <2>2, <2>3
  <1>11. ASSUME NEW t \in Threads, Push(t) PROVE CountInv'
    <2>1. PICK r \in Reqs : req[t] = {r}
      BY <1>11 DEF Push, PoolInv, OneRequest
    <2>2. Len(list') = Len(list) + 1
      BY <1>5, <1>11, <2>1 DEF Push
    <2>3. waiters' = waiters /\ pc[t] = "push"
      BY <1>11 DEF Push
    <2>4. CASE Asleep = {}
      <3>1. Asleep' = {} /\ Sleepers' = Sleepers
        BY <1>5, <1>11, <2>4 DEF Push, Goto, Resumed, Sleepers, Asleep, Woken
      <3>. QED
        BY <1>2, <1>4, <2>3, <3>1
    <2>5. CASE Asleep # {}
      <3>1. Signals
        <4>1. Cardinality(Sleepers) # 0
          BY <1>3, <2>5, FS_EmptySet DEF Sleepers
        <4>. QED
          BY <1>1, <1>2, <4>1, FiniteThreads DEF Signals
      <3>2. PICK u \in Asleep : pc' = [pc EXCEPT ![t] = Resumed(t), ![u] = "woken"]
        BY <1>11, <2>5, <3>1 DEF Push
      <3>3. u \in Threads /\ u # t /\ pc[u] = "asleep"
        BY <2>3 DEF Asleep
      <3>4. /\ pc'[t] = Resumed(t) /\ pc'[u] = "woken"
            /\ \A v \in Threads \ {t, u} : pc'[v] = pc[v]
        BY <1>5, <3>2, <3>3
      <3>5. Sleepers' = Sleepers /\ Waking' = Waking \cup {u} /\ u \notin Waking
        BY <2>3, <3>3, <3>4 DEF Sleepers, Asleep, Woken, Waking, Resumed
      <3>6. Cardinality(Waking') = Cardinality(Waking) + 1
        BY <1>3, <3>5, FS_AddElement
      <3>. QED
        BY <1>2, <1>3, <1>4, <1>5, <2>2, <2>3, <2>5, <3>5, <3>6
    <2>. QED
      BY <2>4, <2>5
  <1>12. ASSUME NEW t \in Threads, SpuriousWakeup(t) PROVE CountInv'
    <2>1. /\ Sleepers' = Sleepers /\ waiters' = waiters /\ list' = list
          /\ Waking' = Waking \cup {t} /\ Asleep # {}
      BY <1>5, <1>12 DEF SpuriousWakeup, Goto, Sleepers, Asleep, Woken, Waking
    <2>2. Cardinality(Waking') \in Nat /\ Cardinality(Waking) <= Cardinality(Waking')
      BY <1>3, <2>1, OneMore
    <2>. QED
      BY <1>2, <1>3, <1>4, <1>5, <2>1, <2>2
  <1>13. CASE UNCHANGED vars
    BY <1>13, CountQuiet DEF vars
  <1>. QED
    BY <1>6, <1>7, <1>8, <1>9, <1>10, <1>11, <1>12, <1>13 DEF Next, Step, Idle

LEMMA CountInit == Init => CountInv
  <1>. SUFFICES ASSUME Init PROVE CountInv
    OBVIOUS
  <1>1. Asleep = {} /\ Woken = {} /\ waiters = 0
    BY DEF Init, Asleep, Woken
  <1>. QED
    BY <1>1, FS_EmptySet DEF CountInv, WaitersCounted, NoLostWakeup

LEMMA CountInvariance == Spec => [](PoolInv /\ CountInv)
  BY PoolInit, PoolNext, CountInit, CountNext, PTL DEF Spec

(* mnt_req_waiters is the number of threads in pthread_cond_wait.          *)
THEOREM WaitersAreCounted == Spec => []WaitersCounted
  <1>1. CountInv => WaitersCounted
    BY DEF CountInv
  <1>. QED
    BY <1>1, CountInvariance, PTL

(* While a thread sleeps, a thread is on its way to every free request.    *)
THEOREM NoWakeupIsLost == Spec => []NoLostWakeup
  <1>1. CountInv => NoLostWakeup
    BY DEF CountInv
  <1>. QED
    BY <1>1, CountInvariance, PTL

(* ReqPool never leaves its types; the count of waiters is not negative.   *)
THEOREM PoolTypeCorrect == Spec => []TypeOK
  <1>1. PoolInv /\ CountInv => TypeOK
    <2>1. CountInv => waiters \in Nat
      BY FiniteThreads DEF CountInv, WaitersCounted, Asleep, Woken
    <2>. QED
      BY <2>1 DEF PoolInv, Places, TypeOK
  <1>. QED
    BY <1>1, CountInvariance, PTL

-----------------------------------------------------------------------------
(* ReqPool implements FreePool.                                            *)

LEMMA PoolRefinesInit == Init => Pool!Init
  <1>1. ASSUME Init PROVE ToSet(list) = Reqs
    BY <1>1, FirstList DEF Init
  <1>2. ASSUME Init PROVE \A t \in Threads : pc[t] = "begin"
    BY <1>2 DEF Init
  <1>. QED
    BY <1>1, <1>2 DEF Pool!Init, Wanting

LEMMA PoolRefinesNext == PoolInv /\ [Next]_vars => [Pool!Next]_(Pool!vars)
  <1>. SUFFICES ASSUME PoolInv, [Next]_vars PROVE Pool!Next \/ UNCHANGED Pool!vars
    OBVIOUS
  <1> DEFINE given == [t \in Threads |-> IF pc[t] = "got" THEN req[t] ELSE {}]
  <1>1. pc \in [Threads -> Pcs] /\ req \in [Threads -> SUBSET Reqs] /\ list \in Seq(Reqs)
    BY DEF PoolInv, Places
  <1>2. ASSUME UNCHANGED list, UNCHANGED Wanting, UNCHANGED given PROVE UNCHANGED Pool!vars
    BY <1>2 DEF Pool!vars
  <1>3. ASSUME NEW t \in Threads, CallAlloc(t) PROVE Pool!Ask(t)
    <2>1. t \notin Wanting /\ Wanting' = Wanting \cup {t}
      BY <1>1, <1>3 DEF CallAlloc, Goto, Wanting
    <2>2. UNCHANGED given /\ UNCHANGED list
      BY <1>1, <1>3 DEF CallAlloc, Goto
    <2>. QED
      BY <2>1, <2>2 DEF Pool!Ask
  <1>4. ASSUME NEW t \in Threads, Serve(t) \/ (t = Main /\ (StartJob \/ FreeMount))
        PROVE  Pool!Use(t)
    <2>1. pc[t] = "got" /\ given[t] # {}
      BY <1>4 DEF Serve, StartJob, FreeMount, PoolInv, OneRequest
    <2>2. given' = [given EXCEPT ![t] = {}]
      <3>1. req' = req /\ pc'[t] # "got" /\ \A v \in Threads \ {t} : pc'[v] = pc[v]
        BY <1>1, <1>4 DEF Serve, StartJob, FreeMount, Goto
      <3>. QED
        BY <3>1
    <2>3. UNCHANGED Wanting /\ UNCHANGED list
      BY <1>1, <1>4 DEF Serve, StartJob, FreeMount, Goto, Wanting
    <2>. QED
      BY <2>1, <2>2, <2>3 DEF Pool!Use
  <1>5. ASSUME NEW t \in Threads, Pop(t) PROVE Pool!Grant(t, Head(list))
    <2>1. Head(list) \in ToSet(list) /\ ToSet(list') = ToSet(list) \ {Head(list)}
      BY <1>1, <1>5, Popped DEF Pop, DropHead, PoolInv, Exclusive
    <2>2. t \in Wanting /\ Wanting' = Wanting \ {t}
      BY <1>1, <1>5 DEF Pop, Goto, Wanting
    <2>3. given' = [given EXCEPT ![t] = {Head(list)}]
      BY <1>1, <1>5 DEF Pop, Goto
    <2>. QED
      BY <2>1, <2>2, <2>3 DEF Pool!Grant
  <1>6. ASSUME NEW t \in Threads, Push(t) PROVE \E r \in Reqs : Pool!Return(r)
    <2>1. PICK r \in Reqs : req[t] = {r}
      BY <1>6 DEF Push, PoolInv, OneRequest
    <2>2. r \notin ToSet(list) /\ ToSet(list') = ToSet(list) \cup {r}
      <3>1. r \notin ToSet(list)
        BY <1>6, <2>1 DEF Push, PoolInv, Exclusive, Own
      <3>2. list' = <<r>> \o list /\ IsInjective(list)
        BY <1>6, <2>1 DEF Push, PoolInv, Exclusive
      <3>. QED
        BY <1>1, <3>1, <3>2, Pushed
    <2>3. \A v \in Threads : /\ v \in Wanting <=> v \in Wanting'
                             /\ pc[v] = "got" <=> pc'[v] = "got"
      <3>1. CASE Goto(t, Resumed(t))
        BY <1>1, <1>6, <3>1 DEF Push, Goto, Resumed, Wanting
      <3>2. ASSUME NEW u \in Asleep, pc' = [pc EXCEPT ![t] = Resumed(t), ![u] = "woken"]
            PROVE  \A v \in Threads : /\ v \in Wanting <=> v \in Wanting'
                                      /\ pc[v] = "got" <=> pc'[v] = "got"
        <4>1. u \in Threads /\ u # t /\ pc[u] = "asleep" /\ pc[t] = "push"
          BY <1>6, <3>2 DEF Push, Asleep
        <4>2. /\ pc'[t] = Resumed(t) /\ pc'[u] = "woken"
              /\ \A v \in Threads \ {t, u} : pc'[v] = pc[v]
          BY <1>1, <3>2, <4>1
        <4>. QED
          BY <4>1, <4>2 DEF Resumed, Wanting
      <3>. QED
        BY <1>6, <3>1, <3>2 DEF Push
    <2>4. UNCHANGED Wanting
      BY <2>3 DEF Wanting
    <2>5. UNCHANGED given
      BY <1>6, <2>3 DEF Push
    <2>. QED
      BY <2>2, <2>4, <2>5 DEF Pool!Return
  <1>7. ASSUME NEW t \in Threads,
               Lock(t) \/ Sleep(t) \/ FreeJob(t) \/ SpuriousWakeup(t)
                 \/ (t = Main /\ AllStarted)
        PROVE  UNCHANGED Pool!vars
    <2>1. UNCHANGED list
      BY <1>7 DEF Lock, Sleep, FreeJob, SpuriousWakeup, AllStarted
    <2>2. UNCHANGED Wanting
      BY <1>1, <1>7 DEF Lock, Sleep, FreeJob, SpuriousWakeup, AllStarted, Goto, Wanting
    <2>3. UNCHANGED given
      BY <1>1, <1>7 DEF Lock, Sleep, FreeJob, SpuriousWakeup, AllStarted, Goto
    <2>. QED
      BY <1>2, <2>1, <2>2, <2>3
  <1>8. CASE UNCHANGED vars
    <2>1. UNCHANGED list /\ UNCHANGED Wanting /\ UNCHANGED given
      BY <1>8 DEF vars, Wanting
    <2>. QED
      BY <1>2, <2>1
  <1>9. ASSUME NEW t \in Threads, Pop(t) PROVE Pool!SomeGrant
    <2>1. Head(list) \in Reqs
      BY <1>1, <1>9 DEF Pop
    <2>2. Pool!Grant(t, Head(list))
      BY <1>5, <1>9
    <2>. QED
      BY <2>1, <2>2 DEF Pool!SomeGrant, Pool!Grant
  <1>. QED
    BY <1>3, <1>4, <1>6, <1>7, <1>8, <1>9 DEF Next, Step, Idle, Pool!Next, Threads

(* Every behaviour of the pool is one of FreePool: a thread that asks is   *)
(* given one request nobody has, in one step, and nothing else happens.    *)
THEOREM PoolIsFreePool == Spec => Pool!Spec
  BY PoolInit, PoolNext, PoolRefinesInit, PoolRefinesNext, PTL DEF Spec, Pool!Spec
=============================================================================
