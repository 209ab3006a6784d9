---------------------------- MODULE StatsProofs ----------------------------
(* Theorems about Stats, for any threads, replies, options and clocks.     *)
EXTENDS Stats, FiniteSetTheorems, Recursion

(* The records are at least two, and end behind the time of the test.      *)
LEMMA Sizes ==
  /\ SamplesPerSec \in Nat /\ SamplesPerSec > 1
  /\ Duration * SamplesPerSec \in Nat
  /\ statsc = Duration * SamplesPerSec + SamplesPerSec
  <1>1. SamplesPerSec \in Nat /\ SamplesPerSec > 1 /\ Duration \in Nat
    BY StatsAssumption
  <1>2. ASSUME NEW d \in Nat, NEW p \in Nat
        PROVE  d * p \in Nat /\ (d + 1) * p = d * p + p
    OBVIOUS
  <1>. HIDE DEF SamplesPerSec
  <1>. QED
    BY <1>1, <1>2 DEF statsc

(* The clock is a number, whatever the arithmetic does to it.              *)
LEMMA ClockTypes ==
  ASSUME TypeOK
  PROVE  /\ TscFreq \in Nat \ {0} /\ SamplePeriod \in Int /\ PrintPeriod \in Int
         /\ Nap \in Int
         /\ \A n \in Int : Wrapped(n) \in Int
         /\ \A n \in Int : (n * TscFreq) \div UsecPerSec \in Int
  <1>1. /\ opt \in Opts /\ opt.mark \in Nat /\ ahead \in Int
        /\ UsecPerSec \in Nat \ {0} /\ SamplePeriodUsec \in Nat \ {0}
        /\ TscHz \in Nat \ {0} /\ Word \in Nat \ {0} /\ UsecWord \in Nat \ {0} /\ Slack \in Nat
    BY StatsAssumption DEF TypeOK
  <1>2. ASSUME NEW a \in Int, NEW b \in Nat \ {0} PROVE a \div b \in Int /\ a % b \in Int
    OBVIOUS
  <1>3. ASSUME NEW a \in Int, NEW b \in Int PROVE a * b \in Int
    OBVIOUS
  <1>4. TscFreq \in Nat \ {0}
    BY <1>1 DEF TscFreq
  <1>5. SamplePeriod \in Int
    <2>1. SamplePeriodUsec * TscFreq \in Int
      BY <1>1, <1>3, <1>4
    <2>. QED
      BY <1>1, <1>2, <2>1 DEF SamplePeriod
  <1>6. PrintPeriod \in Int
    <2>1. opt.mark * TscFreq \in Int
      BY <1>1, <1>3, <1>4
    <2>2. SamplePeriod \div 2 \in Int
      BY <1>5
    <2>. QED
      BY <1>5, <2>1, <2>2 DEF PrintPeriod
  <1>7. Delta \in Int
    <2>1. ahead % Word \in Int
      BY <1>1, <1>2
    <2>2. (ahead % Word) * UsecPerSec \in Int
      BY <1>1, <1>3, <2>1
    <2>3. ((ahead % Word) * UsecPerSec) % Word \in Int
      BY <1>1, <1>2, <2>2
    <2>4. (((ahead % Word) * UsecPerSec) % Word) \div TscHz \in Int
      BY <1>1, <1>2, <2>3
    <2>. QED
      BY <1>1, <2>4 DEF Delta
  <1>8. Nap \in Int
    <2>1. Delta - Slack \in Int
      BY <1>1, <1>7
    <2>2. (Delta - Slack) % UsecWord \in Int
      BY <1>1, <1>2, <2>1
    <2>. QED
      BY <2>2 DEF Nap
  <1>9. ASSUME NEW n \in Int PROVE Wrapped(n) \in Int
    <2>1. Word \div 2 \in Int
      BY <1>1
    <2>2. (n + Word \div 2) % Word \in Int
      BY <1>1, <1>2, <2>1
    <2>. QED
      BY <2>1, <2>2 DEF Wrapped
  <1>10. ASSUME NEW n \in Int PROVE (n * TscFreq) \div UsecPerSec \in Int
    <2>1. n * TscFreq \in Int
      BY <1>3, <1>4
    <2>. QED
      BY <1>1, <1>2, <2>1
  <1>. QED
    BY <1>4, <1>5, <1>6, <1>8, <1>9, <1>10

-----------------------------------------------------------------------------
(* Types.                                                                  *)

LEMMA ThreadTypes ==
  ASSUME TypeOK, NEW t \in Threads, ThreadStep(t)
  PROVE  TypeOK'
  <1>. USE DEF TypeOK, Pcs, Sums, Record, threadVars, mainVars
  <1>1. ASSUME NEW r \in Replies, Receive(t, r) PROVE TypeOK'
    <2>1. Latency[r] \in Nat
      BY StatsAssumption
    <2>. QED
      BY <1>1, <2>1 DEF Receive, ThreadAt
  <1>2. CASE Callback(t)
    <2>1. PICK next \in {"recv", "load"} : pc' = [pc EXCEPT ![t] = next]
      BY <1>2 DEF Callback, ThreadAt
    <2>2. (flying' = flying \/ flying' = flying + 1) /\ (jobsCnt' = jobsCnt \/ jobsCnt' = jobsCnt - 1)
      BY <1>2 DEF Callback
    <2>3. UNCHANGED <<stats, spin, local, diff, reg, answered, resent, mainVars, opt, started, cleared, window, torn>>
      BY <1>2 DEF Callback
    <2>4. pc' \in [Threads -> Pcs] /\ flying' \in Int /\ jobsCnt' \in Int
      BY <2>1, <2>2
    <2>. QED
      BY <2>3, <2>4
  <1>3. CASE FlushLoad(t)
    <2>1. /\ Sum(stats.requests, local[t].requests) \in SUBSET Replies
          /\ Sum(stats.latency, local[t].latency) \in SUBSET (Replies \cup Resends)
      BY DEF Sum
    <2>. QED
      BY <1>3, <2>1 DEF FlushLoad, ThreadAt
  <1>4. CASE FlushLatency(t)
    <2>1. {Latency[r] : r \in local[t].requests} \subseteq Nat
      BY StatsAssumption
    <2>2. window' \in SUBSET Nat
      BY <1>4, <2>1 DEF FlushLatency
    <2>. QED
      BY <1>4, <2>2 DEF FlushLatency, ThreadAt
  <1>5. CASE FlushCounts(t)
    BY <1>5 DEF FlushCounts, ThreadAt, LocalErased, Empty, Erased
  <1>6. ASSUME NEW s \in Resends, ResendLoad(t, s) PROVE TypeOK'
    BY <1>6 DEF ResendLoad, ThreadAt, Erased
  <1>7. CASE ResendStore(t)
    BY <1>7 DEF ResendStore, ThreadAt, Erased
  <1>8. CASE Leave(t)
    BY <1>8 DEF Leave, ThreadAt
  <1>. QED
    BY <1>1, <1>2, <1>3, <1>4, <1>5, <1>6, <1>7, <1>8 DEF ThreadStep, Flush

LEMMA MainTypes ==
  ASSUME TypeOK, MainStep
  PROVE  TypeOK'
  <1>0. /\ SamplePeriod \in Int /\ PrintPeriod \in Int /\ Nap \in Int
        /\ \A n \in Int : Wrapped(n) \in Int
        /\ \A n \in Int : (n * TscFreq) \div UsecPerSec \in Int
        /\ statsc \in Nat /\ 0 \in 0 .. statsc - 1 /\ 1 \in 0 .. statsc - 1
    BY ClockTypes, Sizes
  <1>. USE DEF TypeOK, Pcs, Sums, Record, threadVars, mainVars, Move
  <1>1. CASE ClearStats
    BY <1>1 DEF ClearStats, Erased
  <1>2. CASE SetMin
    BY <1>2, StatsAssumption DEF SetMin
  <1>3. CASE EnterLoop
    <2>1. Empty \in Sums
      BY DEF Empty
    <2>2. cur' \in 0 .. statsc - 1 /\ statsv' \in [0 .. statsc - 1 -> Sums \cup {NotWritten}]
      <3>1. CASE opt.outdir
        BY <1>0, <1>3, <2>1, <3>1 DEF EnterLoop
      <3>2. CASE ~opt.outdir
        BY <1>0, <1>3, <3>2 DEF EnterLoop
      <3>. QED
        BY <3>1, <3>2
    <2>. QED
      BY <1>0, <1>3, <2>2 DEF EnterLoop
  <1>7. CASE StartJob
    <2>1. opt.jobs \in Nat
      BY StatsAssumption
    <2>2. started' \in 0 .. opt'.jobs /\ jobsCnt' \in Int /\ flying' \in Int
      BY <1>7, <2>1 DEF StartJob
    <2>. QED
      BY <1>7, <2>2 DEF StartJob
  <1>4. CASE TakeSample
    <2>1. PICK over \in 0 .. MaxOver :
            LET elapsed == (Nap * TscFreq) \div UsecPerSec + over
                next == ahead - elapsed + SamplePeriod
            IN  /\ ahead' = Wrapped(next)
                /\ since' = IF since + elapsed < PrintPeriod THEN since + elapsed ELSE PrintPeriod
      BY <1>4 DEF TakeSample
    <2>2. ahead' \in Int /\ since' \in Int
      <3> DEFINE elapsed == (Nap * TscFreq) \div UsecPerSec + over
      <3>1. over \in Int
        BY StatsAssumption
      <3>2. elapsed \in Int
        BY <1>0, <3>1
      <3>. HIDE DEF elapsed
      <3>3. ahead - elapsed + SamplePeriod \in Int
        BY <1>0, <3>2
      <3>4. /\ ahead' = Wrapped(ahead - elapsed + SamplePeriod)
            /\ since' = IF since + elapsed < PrintPeriod THEN since + elapsed ELSE PrintPeriod
        BY <2>1 DEF elapsed
      <3>. QED
        BY <1>0, <3>2, <3>3, <3>4
    <2>3. cur' \in 0 .. statsc - 1 /\ statsv' \in [0 .. statsc - 1 -> Sums \cup {NotWritten}]
      <3>1. CASE cur > 0
        <4>1. NextRecord(cur) \in 0 .. statsc - 1
          BY Sizes DEF NextRecord
        <4>. QED
          <5>1. [requests |-> stats.requests, latency |-> stats.latency] \in Sums
            OBVIOUS
          <5>2. /\ statsv' = [statsv EXCEPT ![cur] = [requests |-> stats.requests, latency |-> stats.latency]]
                /\ cur' = NextRecord(cur)
            BY <1>4, <3>1 DEF TakeSample
          <5>. QED
            BY <4>1, <5>1, <5>2
      <3>2. CASE ~(cur > 0)
        BY <1>4, <3>2 DEF TakeSample
      <3>. QED
        BY <3>1, <3>2
    <2>4. stats' \in Record
      BY <1>4, StatsAssumption DEF TakeSample, WindowReset
    <2>. QED
      BY <1>4, <2>2, <2>3, <2>4 DEF TakeSample
  <1>5. CASE NextSample \/ NotYet \/ NothingNew \/ Summary
    BY <1>5 DEF NextSample, NotYet, NothingNew, Summary
  <1>6. CASE PrintLine
    <2>1. reqs' = [reqs EXCEPT !.last = reqs.cur] /\ since' = 0
      BY <1>6 DEF PrintLine
    <2>2. reqs' \in [cur : SUBSET Replies, last : SUBSET Replies]
      BY <2>1
    <2>3. /\ UNCHANGED <<stats, threadVars, ahead, statsv, cur, report, opt, started, cleared, window, torn>>
          /\ main' = "asleep" /\ since' = 0
      BY <1>6 DEF PrintLine
    <2>. QED
      BY <2>2, <2>3
  <1>. QED
    BY <1>1, <1>2, <1>3, <1>4, <1>5, <1>6, <1>7 DEF MainStep, Loop

(* For any number of threads and replies, any options and clocks, the      *)
(* variables keep their types; in particular cur stays inside statsv when  *)
(* nct_stats_loop goes on after the time of the test.                      *)
THEOREM StatsTypeCorrect == Spec => []TypeOK
  <1>1. Init => TypeOK
    <2> SUFFICES ASSUME Init PROVE TypeOK
      OBVIOUS
    <2>1. 0 \in 0 .. statsc - 1
      BY Sizes
    <2>2. /\ Empty \in Sums /\ Erased \in Record /\ {} \in SUBSET Replies
          /\ [cur |-> {}, last |-> {}] \in [cur : SUBSET Replies, last : SUBSET Replies]
      BY DEF Sums, Record, Empty, Erased
    <2>3. /\ pc \in [Threads -> Pcs] /\ local \in [Threads -> Sums]
          /\ diff \in [Threads -> Nat] /\ reg \in [Threads -> Record]
      BY <2>2 DEF Init, Pcs
    <2>4. statsv \in [0 .. statsc - 1 -> Sums \cup {NotWritten}] /\ cur \in 0 .. statsc - 1
      BY <2>1 DEF Init
    <2>5. stats \in Record /\ cleared \in Sums
      BY <2>2 DEF Init
    <2>6. reqs \in [cur : SUBSET Replies, last : SUBSET Replies]
      BY <2>2 DEF Init
    <2>7. /\ spin \in Threads \cup {Nobody} /\ answered \in SUBSET Replies
          /\ flying \in Int /\ jobsCnt \in Int /\ main = "mount" /\ opt \in Opts
          /\ started \in 0 .. opt.jobs /\ ahead \in Int /\ since \in Int /\ resent \in SUBSET Resends
          /\ window \in SUBSET Nat /\ torn \in BOOLEAN
      <3>1. /\ spin = Nobody /\ answered = {} /\ flying = 1 /\ jobsCnt = 0 /\ main = "mount"
            /\ opt \in Opts /\ started = 0 /\ ahead = 0 /\ since = 0 /\ resent = {} /\ window = {} /\ torn = FALSE
        BY Zenon DEF Init
      <3>2. torn \in BOOLEAN
        BY Zenon, <3>1
      <3>3. opt.jobs \in Nat \ {0}
        BY <3>1, StatsAssumption
      <3>. QED
        BY <3>1, <3>2, <3>3
    <2>. QED
      BY <2>3, <2>4, <2>5, <2>6, <2>7 DEF TypeOK
  <1>2. TypeOK /\ [Next]_vars => TypeOK'
    <2>1. ASSUME TypeOK, UNCHANGED vars PROVE TypeOK'
      BY <2>1 DEF vars, threadVars, mainVars, TypeOK
    <2>. QED
      BY <2>1, ThreadTypes, MainTypes DEF Next, Terminated
  <1>. QED
    BY <1>1, <1>2, PTL DEF Spec

-----------------------------------------------------------------------------
(* What is counted where.                                                  *)

(* The spin lock is with the thread inside of a flush.                     *)
Locked == \A t \in Threads : pc[t] \in {"latency", "counts"} <=> spin = t

(* The time before the loop.                                               *)
Early == main \in {"mount", "setmin", "start"}

(* Until the first job starts there is one call, that of the mount.        *)
Opening ==
  /\ main \in {"mount", "setmin"} => started = 0
  /\ main = "mount" => cleared = Empty
  /\ started = 0 =>
       /\ Early
       /\ (answered = {} /\ flying = 1) \/ flying = 0
       /\ jobsCnt = 0 /\ resent = {}
       /\ \A t \in Threads : pc[t] \notin {"reply", "resend"}

(* A local record has the latency of each reply it counts.                 *)
Same == \A t \in Threads : local[t].latency = local[t].requests

(* What a flush is about to write back is still what it has to be.         *)
Flushing ==
  ~torn =>
    \A t \in Threads :
      /\ pc[t] \in {"latency", "counts"} => reg[t].requests = stats.requests \cup local[t].requests
      /\ pc[t] = "latency" => reg[t].latency = stats.latency \cup local[t].latency

(* A thread that adds the time of a call sent again adds one that nobody   *)
(* else has, to what is still there.                                       *)
Resending ==
  ~torn =>
    \A t \in Threads : pc[t] = "resend" =>
      \E s \in Resends :
        /\ s \in reg[t].latency /\ s \notin resent /\ s \notin stats.latency
        /\ reg[t].latency \subseteq stats.latency \cup {s}
        /\ \A u \in Threads \ {t} : s \notin reg[u].latency

CountInv == TypeOK /\ Locked /\ Opening /\ Same /\ Flushing /\ Resending /\ CountedOnce

(* One thread moves.                                                       *)
LEMMA Moves ==
  ASSUME TypeOK, NEW t \in Threads, NEW from, NEW to, ThreadAt(t, from, to)
  PROVE  /\ pc[t] = from /\ pc'[t] = to
         /\ \A u \in Threads \ {t} : pc'[u] = pc[u]
  BY DEF ThreadAt, TypeOK

LEMMA LockedSteps ==
  ASSUME TypeOK, Locked, Next
  PROVE  Locked'
  <1>. USE DEF Locked, threadVars, mainVars
  <1>1. ASSUME NEW t \in Threads, ThreadStep(t) PROVE Locked'
    <2>1. ASSUME NEW r \in Replies, Receive(t, r) PROVE Locked'
      <3>1. PICK to \in {"wake", "reply"} : ThreadAt(t, "recv", to)
        BY <2>1 DEF Receive
      <3>. QED
        BY <2>1, <3>1, Moves DEF Receive
    <2>2. CASE Callback(t)
      <3>1. PICK from \in {"wake", "reply"}, to \in {"recv", "load"} : ThreadAt(t, from, to)
        BY <2>2 DEF Callback
      <3>. QED
        BY <2>2, <3>1, Moves DEF Callback
    <2>3. CASE FlushLoad(t)
      BY <2>3, Moves, StatsAssumption DEF FlushLoad
    <2>4. CASE FlushLatency(t)
      BY <2>4, Moves DEF FlushLatency
    <2>5. CASE FlushCounts(t)
      BY <2>5, Moves, StatsAssumption DEF FlushCounts
    <2>6. ASSUME NEW s \in Resends, ResendLoad(t, s) PROVE Locked'
      BY <2>6, Moves DEF ResendLoad
    <2>7. CASE ResendStore(t)
      BY <2>7, Moves DEF ResendStore
    <2>8. CASE Leave(t)
      BY <2>8, Moves DEF Leave
    <2>. QED
      BY <1>1, <2>1, <2>2, <2>3, <2>4, <2>5, <2>6, <2>7, <2>8 DEF ThreadStep, Flush
  <1>2. CASE MainStep \/ Terminated
    <2>1. spin' = spin /\ pc' = pc
      BY <1>2 DEF MainStep, Loop, ClearStats, SetMin, StartJob, EnterLoop, TakeSample, NextSample, NotYet,
                  PrintLine, NothingNew, Summary, Terminated, vars
    <2>. QED
      BY <2>1
  <1>. QED
    BY <1>1, <1>2 DEF Next

LEMMA OpeningSteps ==
  ASSUME TypeOK, Opening, Next
  PROVE  Opening'
  <1>. USE DEF Opening, Early, threadVars, mainVars
  <1>1. ASSUME NEW t \in Threads, ThreadStep(t) PROVE Opening'
    <2>1. ASSUME NEW r \in Replies, Receive(t, r) PROVE Opening'
      <3>1. CASE started = 0
        <4>1. flying = 1 /\ answered = {} /\ r = MountReply
          BY <2>1, <3>1 DEF Receive
        <4>. QED
          BY <2>1, <4>1, Moves DEF Receive
      <3>2. CASE ~(started = 0)
        BY <2>1, <3>2 DEF Receive
      <3>. QED
        BY <3>1, <3>2
    <2>2. CASE Callback(t)
      <3>1. CASE started = 0
        <4>1. PICK to \in {"recv", "load"} : ThreadAt(t, "wake", to) /\ UNCHANGED <<flying, jobsCnt>>
          BY <2>2, <3>1 DEF Callback, ThreadAt
        <4>. QED
          BY <2>2, <4>1, Moves DEF Callback
      <3>2. CASE ~(started = 0)
        BY <2>2, <3>2 DEF Callback
      <3>. QED
        BY <3>1, <3>2
    <2>3. CASE FlushLoad(t)
      BY <2>3, Moves DEF FlushLoad
    <2>4. CASE FlushLatency(t)
      BY <2>4, Moves DEF FlushLatency
    <2>5. CASE FlushCounts(t)
      BY <2>5, Moves DEF FlushCounts
    <2>6. ASSUME NEW s \in Resends, ResendLoad(t, s) PROVE Opening'
      BY <2>6, Moves DEF ResendLoad
    <2>7. CASE ResendStore(t)
      BY <2>7, Moves DEF ResendStore, ThreadAt
    <2>8. CASE Leave(t)
      BY <2>8, Moves DEF Leave
    <2>. QED
      BY <1>1, <2>1, <2>2, <2>3, <2>4, <2>5, <2>6, <2>7, <2>8 DEF ThreadStep, Flush
  <1>2. CASE ClearStats
    BY <1>2 DEF ClearStats, Move
  <1>3. CASE SetMin
    BY <1>3 DEF SetMin, Move
  <1>4. CASE EnterLoop
    <2>1. opt.jobs \in Nat \ {0}
      BY StatsAssumption DEF TypeOK
    <2>. QED
      BY <1>4, <2>1 DEF EnterLoop, Move
  <1>7. CASE StartJob
    <2>1. main = "start" /\ main' = "start" /\ started \in Nat /\ started' = started + 1
      BY <1>7 DEF StartJob, TypeOK
    <2>. QED
      BY <2>1
  <1>5. CASE Loop
    BY <1>5 DEF Loop, TakeSample, NextSample, NotYet, PrintLine, NothingNew, Summary, Move
  <1>6. CASE Terminated
    BY <1>6 DEF Terminated, vars
  <1>. QED
    BY <1>1, <1>2, <1>3, <1>4, <1>5, <1>6, <1>7 DEF Next, MainStep

LEMMA SameSteps ==
  ASSUME TypeOK, Same, Next
  PROVE  Same'
  <1>. USE DEF Same, threadVars, mainVars
  <1>1. ASSUME NEW t \in Threads, NEW r \in Replies, Receive(t, r) PROVE Same'
    <2>1. local' = [local EXCEPT ![t] = [requests |-> @.requests \cup {r}, latency |-> @.latency \cup {r}]]
      BY <1>1 DEF Receive
    <2>. QED
      BY <2>1 DEF TypeOK
  <1>2. ASSUME NEW t \in Threads, FlushCounts(t) PROVE Same'
    BY <1>2 DEF FlushCounts, LocalErased, Empty, TypeOK
  <1>3. CASE UNCHANGED local
    BY <1>3
  <1>. QED
    BY <1>1, <1>2, <1>3 DEF Next, ThreadStep, Flush, Callback, FlushLoad, FlushLatency, ResendLoad,
         ResendStore, Leave, MainStep, Loop, ClearStats, SetMin, StartJob, EnterLoop, TakeSample, NextSample,
         NotYet, PrintLine, NothingNew, Summary, Terminated, vars

(* An access outside of the lock is remembered.                            *)
LEMMA TornStays ==
  ASSUME Next, ~torn'
  PROVE  ~torn
  <1>1. torn' = torn \/ torn' = (torn \/ spin # Nobody) \/ torn' = (torn \/ spin # Nobody \/ window # {})
        \/ \E t \in Threads : ResendStore(t)
    BY Zenon DEF Next, ThreadStep, Flush, Callback, Receive, FlushLoad, FlushLatency, FlushCounts,
         ResendLoad, Leave, MainStep, Loop, ClearStats, SetMin, StartJob, EnterLoop, TakeSample, NextSample,
         NotYet, PrintLine, NothingNew, Summary, Terminated, vars
  <1>. QED
    BY Zenon, <1>1 DEF ResendStore

LEMMA FlushingSteps ==
  ASSUME TypeOK, Locked, Opening, Flushing, Next
  PROVE  Flushing'
  <1> SUFFICES ASSUME ~torn' PROVE Flushing'
    BY DEF Flushing
  <1>0. /\ ~torn
        /\ \A u \in Threads :
             /\ pc[u] \in {"latency", "counts"} => reg[u].requests = stats.requests \cup local[u].requests
             /\ pc[u] = "latency" => reg[u].latency = stats.latency \cup local[u].latency
    BY TornStays DEF Flushing
  <1>. USE DEF threadVars, mainVars
  <1>1. ASSUME NEW t \in Threads, ThreadStep(t) PROVE Flushing'
    <2>1. ASSUME NEW r \in Replies, Receive(t, r) PROVE Flushing'
      <3>1. PICK to \in {"wake", "reply"} : ThreadAt(t, "recv", to)
        BY <2>1 DEF Receive
      <3>2. \A u \in Threads \ {t} : local'[u] = local[u]
        BY <2>1 DEF Receive, TypeOK
      <3>3. stats' = stats /\ reg' = reg
        BY <2>1 DEF Receive
      <3>. QED
        BY <1>0, <3>1, <3>2, <3>3, Moves DEF Flushing
    <2>2. CASE Callback(t)
      <3>1. PICK from \in {"wake", "reply"}, to \in {"recv", "load"} : ThreadAt(t, from, to)
        BY <2>2 DEF Callback
      <3>2. stats' = stats /\ reg' = reg /\ local' = local
        BY <2>2 DEF Callback
      <3>. QED
        BY <1>0, <3>1, <3>2, Moves DEF Flushing
    <2>3. CASE FlushLoad(t)
      <3>1. /\ reg'[t].requests = stats.requests \cup local[t].requests
            /\ reg'[t].latency = stats.latency \cup local[t].latency
            /\ \A u \in Threads \ {t} : reg'[u] = reg[u]
        BY <2>3 DEF FlushLoad, Sum, TypeOK
      <3>2. stats' = stats /\ local' = local /\ ThreadAt(t, "load", "latency")
        BY <2>3 DEF FlushLoad
      <3>. QED
        BY <1>0, <3>1, <3>2, Moves DEF Flushing
    <2>4. CASE FlushLatency(t)
      <3>1. ThreadAt(t, "latency", "counts") /\ reg' = reg /\ local' = local
        BY <2>4 DEF FlushLatency
      <3>2. stats'.requests = stats.requests
        BY <2>4 DEF FlushLatency, TypeOK, Record
      <3>3. \A u \in Threads \ {t} : pc[u] \notin {"latency", "counts"}
        BY <3>1, Moves DEF Locked
      <3>. QED
        BY <1>0, <3>1, <3>2, <3>3, Moves DEF Flushing
    <2>5. CASE FlushCounts(t)
      <3>1. ThreadAt(t, "counts", "recv")
        BY <2>5 DEF FlushCounts
      <3>2. \A u \in Threads \ {t} : pc[u] \notin {"latency", "counts"}
        BY <3>1, Moves DEF Locked
      <3>. QED
        BY <3>1, <3>2, Moves DEF Flushing
    <2>6. ASSUME NEW s \in Resends, ResendLoad(t, s) PROVE Flushing'
      <3>1. ThreadAt(t, "recv", "resend") /\ stats' = stats /\ local' = local
        BY <2>6 DEF ResendLoad
      <3>2. \A u \in Threads \ {t} : reg'[u] = reg[u]
        BY <2>6 DEF ResendLoad, TypeOK
      <3>. QED
        BY <1>0, <3>1, <3>2, Moves DEF Flushing
    <2>7. CASE ResendStore(t)
      <3>1. ThreadAt(t, "resend", "recv") /\ local' = local
        BY <2>7 DEF ResendStore
      <3>2. \A u \in Threads : pc[u] # "latency"
        BY <2>7 DEF ResendStore
      <3>3. stats'.requests = stats.requests
        BY <2>7 DEF ResendStore, TypeOK, Record
      <3>4. \A u \in Threads \ {t} : reg'[u] = reg[u]
        BY <2>7 DEF ResendStore, TypeOK
      <3>. QED
        BY <1>0, <3>1, <3>2, <3>3, <3>4, Moves DEF Flushing
    <2>8. CASE Leave(t)
      <3>1. ThreadAt(t, "recv", "gone") /\ stats' = stats /\ reg' = reg /\ local' = local
        BY <2>8 DEF Leave
      <3>. QED
        BY <1>0, <3>1, Moves DEF Flushing
    <2>. QED
      BY <1>1, <2>1, <2>2, <2>3, <2>4, <2>5, <2>6, <2>7, <2>8 DEF ThreadStep, Flush
  <1>2. CASE ClearStats \/ SetMin
    <2>1. pc' = pc /\ spin = Nobody
      BY <1>2 DEF ClearStats, SetMin
    <2>2. \A u \in Threads : pc[u] \notin {"latency", "counts"}
      BY <2>1, StatsAssumption DEF Locked
    <2>. QED
      BY <2>1, <2>2 DEF Flushing
  <1>3. CASE StartJob \/ EnterLoop \/ Loop \/ Terminated
    <2>1. /\ stats'.requests = stats.requests /\ stats'.latency = stats.latency
          /\ pc' = pc /\ reg' = reg /\ local' = local
      <3>1. CASE TakeSample
        BY <3>1 DEF TakeSample, WindowReset, TypeOK, Record
      <3>. QED
        BY <1>3, <3>1 DEF StartJob, EnterLoop, Loop, NextSample, NotYet, PrintLine, NothingNew, Summary, Terminated, vars
    <2>. QED
      BY <1>0, <2>1 DEF Flushing
  <1>. QED
    BY <1>1, <1>2, <1>3 DEF Next, MainStep

(* What CountedOnce says of the place of a resent call's time.             *)
LEMMA ResendsApart ==
  ASSUME TypeOK, CountedOnce, ~torn, NEW s \in Resends
  PROVE  /\ s \notin answered
         /\ s \in stats.latency \cup cleared.latency => s \in resent
         /\ \A t \in Threads : s \notin local[t].requests
  <1>1. s \notin answered
    BY StatsAssumption DEF TypeOK
  <1>2. answered \cup resent = stats.latency \cup cleared.latency \cup UNION {PendingLatency(t) : t \in Threads}
    BY DEF CountedOnce
  <1>3. \A t \in Threads : s \notin local[t].requests
    BY StatsAssumption DEF TypeOK, Sums
  <1>. QED
    BY <1>1, <1>2, <1>3

LEMMA ResendingSteps ==
  ASSUME TypeOK, Locked, Opening, Same, Flushing, Resending, CountedOnce, Next
  PROVE  Resending'
  <1> SUFFICES ASSUME ~torn' PROVE Resending'
    BY DEF Resending
  <1>0. ~torn
    BY TornStays
  <1> DEFINE Own(u, s) ==
               /\ s \in reg[u].latency /\ s \notin resent /\ s \notin stats.latency
               /\ reg[u].latency \subseteq stats.latency \cup {s}
               /\ \A v \in Threads \ {u} : s \notin reg[v].latency
  <1>1. SUFFICES ASSUME NEW u \in Threads, pc'[u] = "resend"
                 PROVE  \E s \in Resends : Own(u, s)'
    BY DEF Resending
  <1>. USE DEF threadVars, mainVars
  <1>2. ASSUME pc[u] = "resend", UNCHANGED <<reg, resent>>, stats'.latency = stats.latency
        PROVE  \E s \in Resends : Own(u, s)'
    BY <1>0, <1>2 DEF Resending
  <1>3. ASSUME NEW t \in Threads, ThreadStep(t) PROVE \E s \in Resends : Own(u, s)'
    <2>1. ASSUME NEW r \in Replies, Receive(t, r) PROVE \E s \in Resends : Own(u, s)'
      <3>1. PICK to \in {"wake", "reply"} : ThreadAt(t, "recv", to)
        BY <2>1 DEF Receive
      <3>. QED
        BY <1>1, <1>2, <2>1, <3>1, Moves DEF Receive
    <2>2. CASE Callback(t)
      <3>1. PICK from \in {"wake", "reply"}, to \in {"recv", "load"} : ThreadAt(t, from, to)
        BY <2>2 DEF Callback
      <3>. QED
        BY <1>1, <1>2, <2>2, <3>1, Moves DEF Callback
    <2>3. CASE FlushLoad(t)
      <3>1. /\ ThreadAt(t, "load", "latency") /\ stats' = stats /\ resent' = resent
            /\ reg'[t].latency = stats.latency \cup local[t].latency
            /\ \A v \in Threads \ {t} : reg'[v] = reg[v]
        BY <2>3 DEF FlushLoad, Sum, TypeOK
      <3>2. u # t /\ pc[u] = "resend"
        BY <1>1, <3>1, Moves
      <3>3. PICK s \in Resends : Own(u, s)
        BY <1>0, <3>2 DEF Resending
      <3>4. s \notin local[t].latency
        BY <1>0, ResendsApart DEF Same
      <3>. QED
        BY <3>1, <3>2, <3>3, <3>4
    <2>4. CASE FlushLatency(t)
      <3>1. ThreadAt(t, "latency", "counts") /\ reg' = reg /\ resent' = resent
        BY <2>4 DEF FlushLatency
      <3>2. stats'.latency = reg[t].latency
        BY <2>4 DEF FlushLatency, TypeOK, Record
      <3>3. u # t /\ pc[u] = "resend"
        BY <1>1, <3>1, Moves
      <3>4. PICK s \in Resends : Own(u, s)
        BY <1>0, <3>3 DEF Resending
      <3>5. stats.latency \subseteq reg[t].latency
        BY <1>0, <3>1, Moves DEF Flushing
      <3>. QED
        BY <3>1, <3>2, <3>3, <3>4, <3>5
    <2>5. CASE FlushCounts(t)
      <3>1. /\ ThreadAt(t, "counts", "recv") /\ resent' = resent
            /\ \A v \in Threads \ {t} : reg'[v] = reg[v]
            /\ reg'[t].latency = {} /\ stats'.latency = stats.latency
        BY <2>5 DEF FlushCounts, TypeOK, Record, Erased
      <3>2. u # t /\ pc[u] = "resend"
        BY <1>1, <3>1, Moves
      <3>3. PICK s \in Resends : Own(u, s)
        BY <1>0, <3>2 DEF Resending
      <3>. QED
        BY <3>1, <3>2, <3>3
    <2>6. ASSUME NEW s \in Resends, ResendLoad(t, s) PROVE \E r \in Resends : Own(u, r)'
      <3>1. /\ ThreadAt(t, "recv", "resend") /\ stats' = stats /\ resent' = resent
            /\ s \notin resent /\ \A v \in Threads : s \notin reg[v].latency
            /\ reg'[t].latency = stats.latency \cup {s}
            /\ \A v \in Threads \ {t} : reg'[v] = reg[v]
        BY <2>6 DEF ResendLoad, TypeOK, Erased
      <3>2. s \notin stats.latency
        BY <1>0, <3>1, ResendsApart
      <3>3. CASE u = t
        BY <3>1, <3>2, <3>3
      <3>4. CASE u # t
        <4>1. PICK r \in Resends : Own(u, r)
          BY <1>0, <1>1, <3>1, <3>4, Moves DEF Resending
        <4>. QED
          BY <3>1, <3>4, <4>1
      <3>. QED
        BY <3>3, <3>4
    <2>7. CASE ResendStore(t)
      <3>1. /\ ThreadAt(t, "resend", "recv")
            /\ \A v \in Threads \ {t} : reg'[v] = reg[v]
            /\ reg'[t].latency = {} /\ stats'.latency = reg[t].latency
            /\ resent' = resent \cup (reg[t].latency \cap Resends)
        BY <2>7 DEF ResendStore, TypeOK, Record, Erased
      <3>2. stats.latency \subseteq reg[t].latency
        BY <2>7 DEF ResendStore
      <3>3. u # t /\ pc[u] = "resend"
        BY <1>1, <3>1, Moves
      <3>4. PICK s \in Resends : Own(u, s)
        BY <1>0, <3>3 DEF Resending
      <3>. QED
        BY <3>1, <3>2, <3>3, <3>4
    <2>8. CASE Leave(t)
      <3>1. ThreadAt(t, "recv", "gone")
        BY <2>8 DEF Leave
      <3>. QED
        BY <1>1, <1>2, <2>8, <3>1, Moves DEF Leave
    <2>. QED
      BY <1>3, <2>1, <2>2, <2>3, <2>4, <2>5, <2>6, <2>7, <2>8 DEF ThreadStep, Flush
  <1>4. CASE ClearStats \/ SetMin
    <2>1. main \in {"mount", "setmin"} /\ pc' = pc
      BY <1>4 DEF ClearStats, SetMin, Move
    <2>. QED
      BY <1>1, <2>1 DEF Opening
  <1>5. CASE StartJob \/ EnterLoop \/ Loop \/ Terminated
    <2>1. stats'.latency = stats.latency /\ pc' = pc /\ UNCHANGED <<reg, resent>>
      <3>1. CASE TakeSample
        BY <3>1 DEF TakeSample, WindowReset, TypeOK, Record
      <3>. QED
        BY <1>5, <3>1 DEF StartJob, EnterLoop, Loop, NextSample, NotYet, PrintLine, NothingNew, Summary, Terminated, vars
    <2>. QED
      BY <1>1, <1>2, <2>1
  <1>. QED
    BY <1>3, <1>4, <1>5 DEF Next, MainStep

(* A step that moves nothing between the places where things are counted.  *)
LEMMA CountFrame ==
  ASSUME CountedOnce, ~torn,
         stats'.requests = stats.requests, stats'.latency = stats.latency,
         UNCHANGED <<local, cleared, answered, resent>>,
         \A u \in Threads : pc'[u] = "counts" <=> pc[u] = "counts"
  PROVE  CountedOnce'
  <1>1. \A u \in Threads : PendingLatency(u)' = PendingLatency(u) /\ local'[u] = local[u]
    BY DEF PendingLatency
  <1>2. /\ {local'[u].requests : u \in Threads} = {local[u].requests : u \in Threads}
        /\ {PendingLatency(u)' : u \in Threads} = {PendingLatency(u) : u \in Threads}
    BY <1>1
  <1>. QED
    BY <1>1, <1>2 DEF CountedOnce

LEMMA CountReceive ==
  ASSUME TypeOK, CountedOnce, Same, ~torn, NEW t \in Threads, NEW r \in Replies, Receive(t, r)
  PROVE  CountedOnce'
  <1>1. /\ pc[t] = "recv" /\ pc'[t] # "counts"
        /\ \A u \in Threads \ {t} : pc'[u] = pc[u] /\ local'[u] = local[u]
        /\ local'[t].requests = local[t].requests \cup {r}
        /\ local'[t].latency = local[t].latency \cup {r}
        /\ r \notin answered /\ answered' = answered \cup {r}
        /\ stats' = stats /\ cleared' = cleared /\ resent' = resent
    BY DEF Receive, ThreadAt, TypeOK, threadVars, mainVars
  <1>2. /\ PendingLatency(t)' = PendingLatency(t) \cup {r}
        /\ \A u \in Threads \ {t} : PendingLatency(u)' = PendingLatency(u)
    BY <1>1 DEF PendingLatency
  <1>3. r \notin resent
    BY StatsAssumption DEF TypeOK
  <1>4. ASSUME NEW x
        PROVE  /\ (\E u \in Threads : x \in local'[u].requests)
                    <=> (\E u \in Threads : x \in local[u].requests) \/ x = r
               /\ (\E u \in Threads : x \in PendingLatency(u)')
                    <=> (\E u \in Threads : x \in PendingLatency(u)) \/ x = r
    BY <1>1, <1>2
  <1>5. answered' = stats'.requests \cup cleared'.requests \cup UNION {local'[u].requests : u \in Threads}
    <2>1. \A x : x \in answered <=>
            x \in stats.requests \/ x \in cleared.requests \/ \E u \in Threads : x \in local[u].requests
      BY DEF CountedOnce
    <2>2. \A x : x \in answered' <=>
            x \in stats.requests \/ x \in cleared.requests \/ \E u \in Threads : x \in local'[u].requests
      BY <1>1, <1>4, <2>1
    <2>. QED
      BY <1>1, <2>2
  <1>6. answered' \cup resent' =
          stats'.latency \cup cleared'.latency \cup UNION {PendingLatency(u)' : u \in Threads}
    <2>1. \A x : x \in answered \/ x \in resent <=>
            x \in stats.latency \/ x \in cleared.latency \/ \E u \in Threads : x \in PendingLatency(u)
      BY DEF CountedOnce
    <2>2. \A x : x \in answered' \/ x \in resent' <=>
            x \in stats.latency \/ x \in cleared.latency \/ \E u \in Threads : x \in PendingLatency(u)'
      BY <1>1, <1>4, <2>1
    <2>. QED
      BY <1>1, <2>2
  <1>7. /\ r \notin stats.requests \cup cleared.requests \cup stats.latency \cup cleared.latency
        /\ \A u \in Threads : r \notin local[u].requests
    BY <1>1, <1>3 DEF CountedOnce
  <1>. QED
    BY <1>1, <1>2, <1>5, <1>6, <1>7 DEF CountedOnce

LEMMA CountFlushLatency ==
  ASSUME TypeOK, Same, Flushing, CountedOnce, ~torn, NEW t \in Threads, FlushLatency(t)
  PROVE  CountedOnce'
  <1>1. /\ pc[t] = "latency" /\ pc'[t] = "counts"
        /\ \A u \in Threads \ {t} : pc'[u] = pc[u]
        /\ local' = local /\ answered' = answered /\ cleared' = cleared /\ resent' = resent
        /\ stats'.requests = stats.requests
        /\ stats'.latency = stats.latency \cup local[t].latency
    BY DEF FlushLatency, ThreadAt, TypeOK, Record, Flushing, threadVars, mainVars
  <1>2. /\ PendingLatency(t) = local[t].latency /\ PendingLatency(t)' = {}
        /\ \A u \in Threads \ {t} : PendingLatency(u)' = PendingLatency(u)
    BY <1>1 DEF PendingLatency
  <1>3. \A u \in Threads \ {t} : PendingLatency(u) \cap PendingLatency(t) = {}
    BY DEF PendingLatency, Same, CountedOnce
  <1>4. /\ UNION {PendingLatency(u) : u \in Threads} =
             local[t].latency \cup UNION {PendingLatency(u)' : u \in Threads}
        /\ {local'[u].requests : u \in Threads} = {local[u].requests : u \in Threads}
    BY <1>1, <1>2
  <1>. QED
    BY <1>1, <1>2, <1>3, <1>4 DEF CountedOnce

LEMMA CountFlushCounts ==
  ASSUME TypeOK, Flushing, CountedOnce, ~torn, NEW t \in Threads, FlushCounts(t)
  PROVE  CountedOnce'
  <1>1. /\ pc[t] = "counts" /\ pc'[t] = "recv"
        /\ \A u \in Threads \ {t} : pc'[u] = pc[u] /\ local'[u] = local[u]
        /\ local'[t].requests = {} /\ local'[t].latency = {}
        /\ answered' = answered /\ cleared' = cleared /\ resent' = resent
        /\ stats'.requests = stats.requests \cup local[t].requests
        /\ stats'.latency = stats.latency
    BY DEF FlushCounts, ThreadAt, LocalErased, Empty, TypeOK, Record, Flushing, threadVars, mainVars
  <1>2. \A u \in Threads : PendingLatency(u)' = PendingLatency(u)
    BY <1>1 DEF PendingLatency
  <1>3. /\ UNION {local[u].requests : u \in Threads} =
             local[t].requests \cup UNION {local'[u].requests : u \in Threads}
        /\ {PendingLatency(u)' : u \in Threads} = {PendingLatency(u) : u \in Threads}
    BY <1>1, <1>2
  <1>. QED
    BY <1>1, <1>2, <1>3 DEF CountedOnce

LEMMA CountResendStore ==
  ASSUME TypeOK, Resending, CountedOnce, ~torn, ~torn', NEW t \in Threads, ResendStore(t)
  PROVE  CountedOnce'
  <1>1. PICK s \in Resends :
          /\ s \in reg[t].latency /\ s \notin resent /\ s \notin stats.latency
          /\ reg[t].latency \subseteq stats.latency \cup {s}
    BY DEF Resending, ResendStore, ThreadAt
  <1>2. stats.latency \subseteq reg[t].latency
    BY DEF ResendStore
  <1>3. /\ pc[t] = "resend" /\ pc'[t] = "recv"
        /\ \A u \in Threads \ {t} : pc'[u] = pc[u]
        /\ local' = local /\ answered' = answered /\ cleared' = cleared
        /\ stats'.requests = stats.requests
        /\ stats'.latency = stats.latency \cup {s}
    BY <1>1, <1>2 DEF ResendStore, ThreadAt, TypeOK, Record, threadVars, mainVars
  <1>4. resent' = resent \cup {s}
    <2>1. resent' = resent \cup (reg[t].latency \cap Resends)
      BY DEF ResendStore
    <2>2. \A x \in Resends : x \in stats.latency => x \in resent
      BY ResendsApart
    <2>. QED
      BY <1>1, <2>1, <2>2
  <1>5. s \notin cleared.latency /\ s \notin answered /\ \A u \in Threads : s \notin PendingLatency(u)
    <2>1. s \notin cleared.latency /\ s \notin answered
      BY <1>1, ResendsApart
    <2>2. s \notin UNION {PendingLatency(u) : u \in Threads}
      BY <1>1, <2>1 DEF CountedOnce
    <2>. QED
      BY <2>1, <2>2
  <1>6. \A u \in Threads : PendingLatency(u)' = PendingLatency(u)
    BY <1>3 DEF PendingLatency
  <1>7. /\ {PendingLatency(u)' : u \in Threads} = {PendingLatency(u) : u \in Threads}
        /\ {local'[u].requests : u \in Threads} = {local[u].requests : u \in Threads}
    BY <1>3, <1>6
  <1>. QED
    BY <1>3, <1>4, <1>5, <1>6, <1>7 DEF CountedOnce

LEMMA CountClear ==
  ASSUME TypeOK, Locked, Opening, CountedOnce, ~torn, ~torn', ClearStats
  PROVE  CountedOnce'
  <1>1. /\ cleared'.requests = stats.requests /\ cleared'.latency = stats.latency
        /\ stats'.requests = {} /\ stats'.latency = {}
        /\ UNCHANGED <<local, pc, answered, resent>>
        /\ cleared.requests = {} /\ cleared.latency = {}
    BY DEF ClearStats, Erased, Empty, Opening, Move, threadVars
  <1>2. \A u \in Threads : PendingLatency(u)' = PendingLatency(u)
    BY <1>1 DEF PendingLatency
  <1>3. /\ {PendingLatency(u)' : u \in Threads} = {PendingLatency(u) : u \in Threads}
        /\ {local'[u].requests : u \in Threads} = {local[u].requests : u \in Threads}
    BY <1>1, <1>2
  <1>. QED
    BY <1>1, <1>2, <1>3 DEF CountedOnce

LEMMA CountSteps ==
  ASSUME CountInv, Next
  PROVE  CountedOnce'
  <1> SUFFICES ASSUME ~torn' PROVE CountedOnce'
    BY DEF CountedOnce
  <1>0. ~torn /\ TypeOK /\ CountedOnce
    BY TornStays DEF CountInv
  <1>. USE DEF threadVars, mainVars
  <1>1. ASSUME NEW t \in Threads, ThreadStep(t) PROVE CountedOnce'
    <2>1. ASSUME NEW r \in Replies, Receive(t, r) PROVE CountedOnce'
      BY <1>0, <2>1, CountReceive DEF CountInv
    <2>2. CASE Callback(t)
      <3>1. PICK from \in {"wake", "reply"}, to \in {"recv", "load"} : ThreadAt(t, from, to)
        BY <2>2 DEF Callback
      <3>. QED
        BY <1>0, <2>2, <3>1, Moves, CountFrame DEF Callback
    <2>3. CASE FlushLoad(t)
      BY <1>0, <2>3, Moves, CountFrame DEF FlushLoad
    <2>4. CASE FlushLatency(t)
      BY <1>0, <2>4, CountFlushLatency DEF CountInv
    <2>5. CASE FlushCounts(t)
      BY <1>0, <2>5, CountFlushCounts DEF CountInv
    <2>6. ASSUME NEW s \in Resends, ResendLoad(t, s) PROVE CountedOnce'
      BY <1>0, <2>6, Moves, CountFrame DEF ResendLoad
    <2>7. CASE ResendStore(t)
      BY <1>0, <2>7, CountResendStore DEF CountInv
    <2>8. CASE Leave(t)
      BY <1>0, <2>8, Moves, CountFrame DEF Leave
    <2>. QED
      BY <1>1, <2>1, <2>2, <2>3, <2>4, <2>5, <2>6, <2>7, <2>8 DEF ThreadStep, Flush
  <1>2. CASE ClearStats
    BY <1>0, <1>2, CountClear DEF CountInv
  <1>3. CASE SetMin \/ StartJob \/ EnterLoop \/ Loop \/ Terminated
    <2>1. /\ stats'.latency = stats.latency /\ stats'.requests = stats.requests
          /\ UNCHANGED <<pc, local, cleared, answered, resent>>
      <3>1. CASE TakeSample
        BY <1>0, <3>1 DEF TakeSample, WindowReset, TypeOK, Record
      <3>2. CASE SetMin
        BY <1>0, <3>2 DEF SetMin, TypeOK, Record
      <3>. QED
        BY <1>3, <3>1, <3>2 DEF StartJob, EnterLoop, Loop, NextSample, NotYet, PrintLine, NothingNew, Summary, Terminated, vars
    <2>. QED
      BY <1>0, <2>1, CountFrame
  <1>. QED
    BY <1>1, <1>2, <1>3 DEF Next, MainStep

LEMMA CountInvHolds == Spec => []CountInv
  <1>1. Init => Locked /\ Opening /\ Same /\ Flushing /\ Resending /\ CountedOnce
    <2> SUFFICES ASSUME Init PROVE Locked /\ Opening /\ Same /\ Flushing /\ Resending /\ CountedOnce
      OBVIOUS
    <2>1. /\ spin = Nobody /\ pc = [t \in Threads |-> "recv"] /\ local = [t \in Threads |-> Empty]
          /\ stats = Erased /\ cleared = Empty /\ answered = {} /\ resent = {}
          /\ flying = 1 /\ jobsCnt = 0 /\ main = "mount" /\ started = 0
      BY Zenon DEF Init
    <2>2. \A t \in Threads : pc[t] = "recv" /\ local[t].requests = {} /\ local[t].latency = {}
      BY <2>1 DEF Empty
    <2>3. Locked /\ Opening /\ Same /\ Flushing /\ Resending
      BY <2>1, <2>2, StatsAssumption DEF Locked, Opening, Early, Same, Flushing, Resending
    <2>4. \A t \in Threads : PendingLatency(t) = {}
      BY <2>2 DEF PendingLatency
    <2>5. /\ stats.requests = {} /\ stats.latency = {} /\ cleared.requests = {} /\ cleared.latency = {}
      BY <2>1 DEF Erased, Empty
    <2>6. UNION {local[t].requests : t \in Threads} = {} /\ UNION {PendingLatency(t) : t \in Threads} = {}
      BY <2>2, <2>4
    <2>7. CountedOnce
      BY <2>1, <2>2, <2>4, <2>5, <2>6 DEF CountedOnce
    <2>. QED
      BY <2>3, <2>7
  <1>2. CountInv /\ Next => (Locked /\ Opening /\ Same /\ Flushing /\ Resending /\ CountedOnce)'
    BY LockedSteps, OpeningSteps, SameSteps, FlushingSteps, ResendingSteps, CountSteps DEF CountInv
  <1>3. CountInv /\ UNCHANGED vars => (Locked /\ Opening /\ Same /\ Flushing /\ Resending /\ CountedOnce)'
    BY DEF vars, threadVars, mainVars, CountInv, Locked, Opening, Early, Same, Flushing, Resending,
         CountedOnce, PendingLatency
  <1>. QED
    BY <1>1, <1>2, <1>3, StatsTypeCorrect, PTL DEF Spec, CountInv

(* However many threads flush and however their flushes meet the samples,  *)
(* no reply is lost from the statistics of nct_req_recv_loop and none is   *)
(* counted twice, as long as no access outside of mnt_stats_spin (the      *)
(* clearing by nct_mount, the reconnect) has met a flush.                  *)
THEOREM RepliesAreCountedOnce == Spec => []CountedOnce
  BY CountInvHolds, PTL DEF CountInv

-----------------------------------------------------------------------------
(* The least and the greatest latency.                                     *)

(* The latencies of the replies a thread has in its local record.          *)
Batch(t) == {Latency[r] : r \in local[t].requests}

(* What a flush compares is the latency of one reply of its batch.         *)
Compared == \A t \in Threads : pc[t] \in {"wake", "reply", "load", "latency"} => diff[t] \in Batch(t)

(* A flush is about to write the extremes of what is there and its own     *)
(* latency; between the two steps of the clearing there is no greatest.    *)
Extremes ==
  ~torn =>
    /\ \A t \in Threads : pc[t] = "latency" =>
         /\ reg[t].min = IF diff[t] < stats.min THEN diff[t] ELSE stats.min
         /\ reg[t].max = IF diff[t] > stats.max THEN diff[t] ELSE stats.max
    /\ main = "setmin" /\ window = {} => stats.max = 0

WindowInv == CountInv /\ Compared /\ Extremes /\ WindowExtremes

LEMMA ComparedSteps ==
  ASSUME TypeOK, Compared, Next
  PROVE  Compared'
  <1>. USE DEF threadVars, mainVars
  <1>1. ASSUME NEW t \in Threads, ThreadStep(t) PROVE Compared'
    <2>1. ASSUME NEW r \in Replies, Receive(t, r) PROVE Compared'
      <3>1. /\ diff'[t] = Latency[r] /\ r \in local'[t].requests
            /\ \A u \in Threads \ {t} : pc'[u] = pc[u] /\ diff'[u] = diff[u] /\ local'[u] = local[u]
        BY <2>1 DEF Receive, ThreadAt, TypeOK
      <3>2. diff'[t] \in {Latency[x] : x \in local'[t].requests}
        BY <3>1
      <3>. QED
        BY <3>1, <3>2 DEF Compared, Batch
    <2>2. CASE Callback(t)
      <3>1. PICK from \in {"wake", "reply"}, to \in {"recv", "load"} : ThreadAt(t, from, to)
        BY <2>2 DEF Callback
      <3>2. diff' = diff /\ local' = local
        BY <2>2 DEF Callback
      <3>. QED
        BY <3>1, <3>2, Moves DEF Compared, Batch
    <2>3. CASE FlushLoad(t)
      <3>1. ThreadAt(t, "load", "latency") /\ diff' = diff /\ local' = local
        BY <2>3 DEF FlushLoad
      <3>. QED
        BY <3>1, Moves DEF Compared, Batch
    <2>4. CASE FlushLatency(t)
      <3>1. ThreadAt(t, "latency", "counts") /\ diff' = diff /\ local' = local
        BY <2>4 DEF FlushLatency
      <3>. QED
        BY <3>1, Moves DEF Compared, Batch
    <2>5. CASE FlushCounts(t)
      <3>1. ThreadAt(t, "counts", "recv")
        BY <2>5 DEF FlushCounts
      <3>2. \A u \in Threads \ {t} : diff'[u] = diff[u] /\ local'[u] = local[u]
        BY <2>5 DEF FlushCounts, TypeOK
      <3>. QED
        BY <3>1, <3>2, Moves DEF Compared, Batch
    <2>6. ASSUME NEW s \in Resends, ResendLoad(t, s) PROVE Compared'
      <3>1. ThreadAt(t, "recv", "resend") /\ diff' = diff /\ local' = local
        BY <2>6 DEF ResendLoad
      <3>. QED
        BY <3>1, Moves DEF Compared, Batch
    <2>7. CASE ResendStore(t)
      <3>1. ThreadAt(t, "resend", "recv") /\ diff' = diff /\ local' = local
        BY <2>7 DEF ResendStore
      <3>. QED
        BY <3>1, Moves DEF Compared, Batch
    <2>8. CASE Leave(t)
      <3>1. ThreadAt(t, "recv", "gone") /\ diff' = diff /\ local' = local
        BY <2>8 DEF Leave
      <3>. QED
        BY <3>1, Moves DEF Compared, Batch
    <2>. QED
      BY <1>1, <2>1, <2>2, <2>3, <2>4, <2>5, <2>6, <2>7, <2>8 DEF ThreadStep, Flush
  <1>2. CASE MainStep \/ Terminated
    <2>1. pc' = pc /\ diff' = diff /\ local' = local
      BY <1>2 DEF MainStep, Loop, ClearStats, SetMin, StartJob, EnterLoop, TakeSample, NextSample,
         NotYet, PrintLine, NothingNew, Summary, Terminated, vars
    <2>. QED
      BY <2>1 DEF Compared, Batch
  <1>. QED
    BY <1>1, <1>2 DEF Next

(* A step that changes neither the extremes nor what is known of them.     *)
LEMMA WindowFrame ==
  ASSUME Extremes, WindowExtremes, ~torn,
         stats'.min = stats.min, stats'.max = stats.max, window' = window,
         main' \in {"mount", "setmin"} => main' = main,
         main \in {"mount", "setmin"} => main' = main,
         \A u \in Threads : pc'[u] = "latency" =>
           pc[u] = "latency" /\ reg'[u] = reg[u] /\ diff'[u] = diff[u]
  PROVE  Extremes' /\ WindowExtremes'
  BY DEF Extremes, WindowExtremes

LEMMA WindowSteps ==
  ASSUME WindowInv, Next
  PROVE  Extremes' /\ WindowExtremes'
  <1> SUFFICES ASSUME ~torn' PROVE Extremes' /\ WindowExtremes'
    BY DEF Extremes, WindowExtremes
  <1>0. ~torn /\ TypeOK /\ Locked /\ Compared /\ Extremes /\ WindowExtremes
    BY TornStays DEF WindowInv, CountInv
  <1>. USE DEF threadVars, mainVars
  <1>1. ASSUME NEW t \in Threads, ThreadStep(t) PROVE Extremes' /\ WindowExtremes'
    <2>1. ASSUME NEW r \in Replies, Receive(t, r) PROVE Extremes' /\ WindowExtremes'
      <3>1. PICK to \in {"wake", "reply"} : ThreadAt(t, "recv", to)
        BY <2>1 DEF Receive
      <3>2. \A u \in Threads \ {t} : diff'[u] = diff[u]
        BY <1>0, <2>1 DEF Receive, TypeOK
      <3>. QED
        BY <1>0, <2>1, <3>1, <3>2, Moves, WindowFrame DEF Receive
    <2>2. CASE Callback(t)
      <3>1. PICK from \in {"wake", "reply"}, to \in {"recv", "load"} : ThreadAt(t, from, to)
        BY <2>2 DEF Callback
      <3>. QED
        BY <1>0, <2>2, <3>1, Moves, WindowFrame DEF Callback
    <2>3. CASE FlushLoad(t)
      <3>1. /\ ThreadAt(t, "load", "latency") /\ UNCHANGED <<stats, diff, main, window>>
            /\ reg'[t].min = IF diff[t] < stats.min THEN diff[t] ELSE stats.min
            /\ reg'[t].max = IF diff[t] > stats.max THEN diff[t] ELSE stats.max
            /\ \A u \in Threads \ {t} : reg'[u] = reg[u]
        BY <1>0, <2>3 DEF FlushLoad, TypeOK
      <3>. QED
        BY <1>0, <3>1, Moves DEF Extremes, WindowExtremes
    <2>4. CASE FlushLatency(t)
      <3>1. /\ ThreadAt(t, "latency", "counts") /\ reg' = reg /\ diff' = diff /\ main' = main
            /\ window' = window \cup Batch(t)
        BY <2>4 DEF FlushLatency, Batch
      <3>2. stats'.min = reg[t].min /\ stats'.max = reg[t].max
        BY <1>0, <2>4 DEF FlushLatency, TypeOK, Record
      <3>3. \A u \in Threads \ {t} : pc[u] # "latency"
        BY <1>0, <3>1, Moves DEF Locked
      <3>4. /\ diff[t] \in Nat /\ stats.min \in Nat /\ stats.max \in Nat /\ window \subseteq Nat
        BY <1>0 DEF TypeOK, Record
      <3>5. /\ reg[t].min = IF diff[t] < stats.min THEN diff[t] ELSE stats.min
            /\ reg[t].max = IF diff[t] > stats.max THEN diff[t] ELSE stats.max
        BY <1>0, <3>1, Moves DEF Extremes
      <3>8. diff[t] \in Batch(t)
        BY <1>0, <3>1, Moves DEF Compared
      <3>9. diff[t] < NoLatency /\ NoLatency \in Nat
        <4>1. PICK r \in local[t].requests : diff[t] = Latency[r]
          BY <3>8 DEF Batch
        <4>2. r \in Replies
          BY <1>0 DEF TypeOK, Sums
        <4>. QED
          BY <4>1, <4>2, StatsAssumption
      <3>6. Extremes'
        <4>1. window' # {} /\ \A u \in Threads : pc'[u] # "latency"
          BY <1>0, <3>1, <3>3, <3>8, Moves
        <4>. QED
          BY <4>1 DEF Extremes
      <3>7. WindowExtremes'
        <4> SUFFICES ASSUME main \notin {"mount", "setmin"}
                     PROVE  stats'.min \in window' /\ stats'.max \in window' /\ stats'.min <= stats'.max
          BY <3>1, <3>8 DEF WindowExtremes
        <4>1. CASE window = {}
          <5>1. stats.min = NoLatency /\ stats.max = 0
            BY <1>0, <4>1 DEF WindowExtremes
          <5>2. stats'.min = diff[t] /\ stats'.max = diff[t]
            BY <3>2, <3>4, <3>5, <3>9, <5>1
          <5>. QED
            BY <3>1, <3>4, <3>8, <5>2
        <4>2. CASE window # {}
          <5>1. stats.min \in window /\ stats.max \in window /\ stats.min <= stats.max
            BY <1>0, <4>2 DEF WindowExtremes
          <5>2. stats'.min \in {stats.min, diff[t]} /\ stats'.max \in {stats.max, diff[t]}
            BY <3>2, <3>5
          <5>3. stats'.min \in window' /\ stats'.max \in window'
            BY <3>1, <3>8, <5>1, <5>2
          <5>4. stats'.min <= stats'.max
            BY <3>2, <3>4, <3>5, <5>1
          <5>. QED
            BY <5>3, <5>4
        <4>. QED
          BY <4>1, <4>2
      <3>. QED
        BY <3>6, <3>7
    <2>5. CASE FlushCounts(t)
      <3>1. /\ ThreadAt(t, "counts", "recv") /\ UNCHANGED <<main, window>>
            /\ stats'.min = stats.min /\ stats'.max = stats.max
            /\ \A u \in Threads \ {t} : reg'[u] = reg[u] /\ diff'[u] = diff[u]
        BY <1>0, <2>5 DEF FlushCounts, TypeOK, Record
      <3>. QED
        BY <1>0, <3>1, Moves, WindowFrame
    <2>6. ASSUME NEW s \in Resends, ResendLoad(t, s) PROVE Extremes' /\ WindowExtremes'
      <3>1. /\ ThreadAt(t, "recv", "resend") /\ UNCHANGED <<stats, diff, main, window>>
            /\ \A u \in Threads \ {t} : reg'[u] = reg[u]
        BY <1>0, <2>6 DEF ResendLoad, TypeOK
      <3>. QED
        BY <1>0, <3>1, Moves, WindowFrame
    <2>7. CASE ResendStore(t)
      <3>1. /\ ThreadAt(t, "resend", "recv") /\ UNCHANGED <<diff, main, window>>
            /\ stats'.min = stats.min /\ stats'.max = stats.max
            /\ \A u \in Threads \ {t} : reg'[u] = reg[u]
        BY <1>0, <2>7 DEF ResendStore, TypeOK, Record
      <3>. QED
        BY <1>0, <3>1, Moves, WindowFrame
    <2>8. CASE Leave(t)
      <3>1. ThreadAt(t, "recv", "gone") /\ UNCHANGED <<stats, reg, diff, main, window>>
        BY <2>8 DEF Leave
      <3>. QED
        BY <1>0, <3>1, Moves, WindowFrame
    <2>. QED
      BY <1>1, <2>1, <2>2, <2>3, <2>4, <2>5, <2>6, <2>7, <2>8 DEF ThreadStep, Flush
  <1>2. CASE ClearStats \/ SetMin \/ TakeSample
    <2>1. pc' = pc /\ spin = Nobody
      BY <1>2 DEF ClearStats, SetMin, TakeSample
    <2>2. \A u \in Threads : pc'[u] # "latency"
      BY <1>0, <2>1, StatsAssumption DEF Locked
    <2>3. CASE ClearStats
      <3>1. main' = "setmin" /\ stats'.max = 0
        BY <2>3 DEF ClearStats, Move, Erased
      <3>. QED
        BY <2>2, <3>1 DEF Extremes, WindowExtremes
    <2>4. CASE SetMin
      <3>1. /\ main = "setmin" /\ main' = "start" /\ window = {} /\ window' = {}
            /\ stats'.min = NoLatency /\ stats'.max = stats.max
        BY <1>0, <2>4 DEF SetMin, Move, TypeOK, Record
      <3>2. stats.max = 0
        BY <1>0, <3>1 DEF Extremes
      <3>. QED
        BY <2>2, <3>1, <3>2 DEF Extremes, WindowExtremes
    <2>5. CASE TakeSample
      <3>1. main' = "sampled" /\ window' = {} /\ stats'.min = NoLatency /\ stats'.max = 0
        BY <1>0, <2>5 DEF TakeSample, Move, WindowReset, TypeOK, Record
      <3>. QED
        BY <2>2, <3>1 DEF Extremes, WindowExtremes
    <2>. QED
      BY <1>2, <2>3, <2>4, <2>5
  <1>3. CASE StartJob \/ EnterLoop \/ NextSample \/ NotYet \/ PrintLine \/ NothingNew \/ Summary
    <2>1. /\ UNCHANGED <<stats, pc, reg, diff, window>>
          /\ main \notin {"mount", "setmin"} /\ main' \notin {"mount", "setmin"}
      BY <1>3 DEF StartJob, EnterLoop, NextSample, NotYet, PrintLine, NothingNew, Summary, Move
    <2>. QED
      BY <1>0, <2>1, WindowFrame
  <1>4. CASE Terminated
    BY <1>0, <1>4, WindowFrame DEF Terminated, vars
  <1>. QED
    BY <1>1, <1>2, <1>3, <1>4 DEF Next, MainStep, Loop

(* The extremes a sample of nct_stats_loop reports are latencies of        *)
(* replies flushed since the sample before it, never one left from before  *)
(* that, and as soon as a reply has been flushed there are both, as long   *)
(* as no access outside of mnt_stats_spin has met a flush.  Of each flush  *)
(* only the last reply is compared, so no more than that can be said.      *)
THEOREM ExtremesAreOfTheWindow == Spec => []WindowExtremes
  <1>1. Init => Compared /\ Extremes /\ WindowExtremes
    <2> SUFFICES ASSUME Init PROVE Compared /\ Extremes /\ WindowExtremes
      OBVIOUS
    <2>1. pc = [t \in Threads |-> "recv"] /\ main = "mount"
      BY Zenon DEF Init
    <2>. QED
      BY <2>1 DEF Compared, Extremes, WindowExtremes
  <1>2. CountInv /\ Compared /\ Extremes /\ WindowExtremes /\ [Next]_vars
          => (Compared /\ Extremes /\ WindowExtremes)'
    <2>1. ASSUME Compared, Extremes, WindowExtremes, UNCHANGED vars
          PROVE  (Compared /\ Extremes /\ WindowExtremes)'
      BY <2>1 DEF vars, threadVars, mainVars, Compared, Batch, Extremes, WindowExtremes
    <2>2. ASSUME CountInv, Compared, Extremes, WindowExtremes, Next
          PROVE  (Compared /\ Extremes /\ WindowExtremes)'
      BY <2>2, ComparedSteps, WindowSteps DEF WindowInv, CountInv
    <2>. QED
      BY <2>1, <2>2
  <1>. QED
    BY <1>1, <1>2, CountInvHolds, PTL DEF Spec

-----------------------------------------------------------------------------
(* The records.                                                            *)

(* Nobody takes requests back: a flush writes back at least what is there. *)
NeverLess ==
  \A t \in Threads : pc[t] \in {"latency", "counts"} => stats.requests \subseteq reg[t].requests

Indexes == 0 .. statsc - 1
Written(i) == statsv[i] # NotWritten

(* The records are written one after the other, none before the jobs start *)
(* and as many as cur says while there is a next one.                      *)
InOrder ==
  /\ Early => cur = 0 /\ \A i \in Indexes : ~Written(i)
  /\ cur > 0 => \A i \in Indexes : Written(i) <=> i < cur
  /\ \A i, j \in Indexes : i < j /\ Written(j) => Written(i)

(* No record counts more than the one after it, nor than mnt_stats.        *)
Ordered ==
  /\ \A i \in Indexes : Written(i) =>
       /\ statsv[i].requests \subseteq stats.requests
       /\ ~torn => statsv[i].latency \subseteq stats.latency
  /\ \A i, j \in Indexes : i < j /\ Written(j) =>
       /\ statsv[i].requests \subseteq statsv[j].requests
       /\ ~torn => statsv[i].latency \subseteq statsv[j].latency

RecordsInv == CountInv /\ NeverLess /\ InOrder /\ Ordered

(* Once the jobs have started the sums only grow.                          *)
LEMMA SumsGrow ==
  ASSUME CountInv, NeverLess, Next, ~Early
  PROVE  /\ stats.requests \subseteq stats'.requests
         /\ ~torn' => stats.latency \subseteq stats'.latency
  <1>0. TypeOK /\ Flushing /\ (~torn' => ~torn)
    BY TornStays DEF CountInv
  <1>. USE DEF threadVars, mainVars
  <1>1. ASSUME NEW t \in Threads, FlushLatency(t)
        PROVE  stats'.requests = stats.requests /\ (~torn' => stats.latency \subseteq stats'.latency)
    <2>1. /\ stats'.requests = stats.requests /\ stats'.latency = reg[t].latency
          /\ ThreadAt(t, "latency", "counts")
      BY <1>0, <1>1 DEF FlushLatency, TypeOK, Record
    <2>2. ~torn => stats.latency \subseteq reg[t].latency
      BY <1>0, <2>1, Moves DEF Flushing
    <2>. QED
      BY <1>0, <2>1, <2>2
  <1>2. ASSUME NEW t \in Threads, FlushCounts(t)
        PROVE  stats'.latency = stats.latency /\ stats.requests \subseteq stats'.requests
    <2>1. /\ stats'.latency = stats.latency /\ stats'.requests = reg[t].requests
          /\ ThreadAt(t, "counts", "recv")
      BY <1>0, <1>2 DEF FlushCounts, TypeOK, Record
    <2>. QED
      BY <1>0, <2>1, Moves DEF NeverLess
  <1>3. ASSUME NEW t \in Threads, ResendStore(t)
        PROVE  stats'.requests = stats.requests /\ (~torn' => stats.latency \subseteq stats'.latency)
    <2>1. stats'.requests = stats.requests /\ stats'.latency = reg[t].latency
      BY <1>0, <1>3 DEF ResendStore, TypeOK, Record
    <2>2. ~torn' => stats.latency \subseteq reg[t].latency
      BY <1>3 DEF ResendStore
    <2>. QED
      BY <2>1, <2>2
  <1>4. CASE TakeSample
    BY <1>0, <1>4 DEF TakeSample, WindowReset, TypeOK, Record
  <1>5. CASE UNCHANGED stats
    BY <1>5
  <1>6. ~ClearStats /\ ~SetMin
    BY DEF ClearStats, SetMin, Move, Early
  <1>. QED
    BY <1>1, <1>2, <1>3, <1>4, <1>5, <1>6 DEF Next, ThreadStep, Flush, Receive, Callback, FlushLoad,
       ResendLoad, Leave, MainStep, Loop, StartJob, EnterLoop, NextSample, NotYet, PrintLine, NothingNew, Summary,
       Terminated, vars

LEMMA NeverLessSteps ==
  ASSUME CountInv, NeverLess, Next
  PROVE  NeverLess'
  <1>0. TypeOK /\ Locked
    BY DEF CountInv
  <1>. USE DEF threadVars, mainVars
  <1>1. ASSUME NEW t \in Threads, FlushLoad(t) PROVE NeverLess'
    <2>1. /\ ThreadAt(t, "load", "latency") /\ stats' = stats
          /\ reg'[t].requests = stats.requests \cup local[t].requests
          /\ \A u \in Threads \ {t} : reg'[u] = reg[u]
      BY <1>0, <1>1 DEF FlushLoad, Sum, TypeOK
    <2>. QED
      BY <1>0, <2>1, Moves DEF NeverLess
  <1>2. ASSUME NEW t \in Threads, FlushLatency(t) PROVE NeverLess'
    <2>1. ThreadAt(t, "latency", "counts") /\ stats'.requests = stats.requests /\ reg' = reg
      BY <1>0, <1>2 DEF FlushLatency, TypeOK, Record
    <2>. QED
      BY <1>0, <2>1, Moves DEF NeverLess
  <1>3. ASSUME NEW t \in Threads, FlushCounts(t) PROVE NeverLess'
    <2>1. ThreadAt(t, "counts", "recv")
      BY <1>3 DEF FlushCounts
    <2>2. \A u \in Threads : pc'[u] \notin {"latency", "counts"}
      BY <1>0, <2>1, Moves DEF Locked
    <2>. QED
      BY <2>2 DEF NeverLess
  <1>4. ASSUME NEW t \in Threads, NEW s \in Resends, ResendLoad(t, s) PROVE NeverLess'
    <2>1. /\ ThreadAt(t, "recv", "resend") /\ stats' = stats
          /\ \A u \in Threads \ {t} : reg'[u] = reg[u]
      BY <1>0, <1>4 DEF ResendLoad, TypeOK
    <2>. QED
      BY <1>0, <2>1, Moves DEF NeverLess
  <1>5. ASSUME NEW t \in Threads, ResendStore(t) PROVE NeverLess'
    <2>1. /\ ThreadAt(t, "resend", "recv") /\ stats'.requests = stats.requests
          /\ \A u \in Threads \ {t} : reg'[u] = reg[u]
      BY <1>0, <1>5 DEF ResendStore, TypeOK, Record
    <2>. QED
      BY <1>0, <2>1, Moves DEF NeverLess
  <1>6. ASSUME NEW t \in Threads, NEW r \in Replies, Receive(t, r) PROVE NeverLess'
    <2>1. PICK to \in {"wake", "reply"} : ThreadAt(t, "recv", to)
      BY <1>6 DEF Receive
    <2>. QED
      BY <1>0, <1>6, <2>1, Moves DEF Receive, NeverLess
  <1>7. ASSUME NEW t \in Threads, Callback(t) PROVE NeverLess'
    <2>1. PICK from \in {"wake", "reply"}, to \in {"recv", "load"} : ThreadAt(t, from, to)
      BY <1>7 DEF Callback
    <2>. QED
      BY <1>0, <1>7, <2>1, Moves DEF Callback, NeverLess
  <1>8. ASSUME NEW t \in Threads, Leave(t) PROVE NeverLess'
    BY <1>0, <1>8, Moves DEF Leave, NeverLess
  <1>9. CASE MainStep \/ Terminated
    <2>1. /\ pc' = pc /\ reg' = reg
          /\ stats'.requests = stats.requests \/ stats'.requests = {}
      <3>1. CASE TakeSample
        BY <1>0, <3>1 DEF TakeSample, WindowReset, TypeOK, Record
      <3>2. CASE SetMin
        BY <1>0, <3>2 DEF SetMin, TypeOK, Record
      <3>3. CASE ClearStats
        BY <3>3 DEF ClearStats, Erased
      <3>. QED
        BY <1>9, <3>1, <3>2, <3>3 DEF MainStep, StartJob, EnterLoop, Loop, NextSample, NotYet, PrintLine, NothingNew,
           Summary, Terminated, vars
    <2>. QED
      BY <2>1 DEF NeverLess
  <1>. QED
    BY <1>1, <1>2, <1>3, <1>4, <1>5, <1>6, <1>7, <1>8, <1>9 DEF Next, ThreadStep, Flush

(* A step that writes no record.                                           *)
LEMMA NoRecord ==
  ASSUME RecordsInv, Next, UNCHANGED <<statsv, cur>>, Early' => Early
  PROVE  InOrder' /\ Ordered'
  <1>0. InOrder /\ Ordered /\ NeverLess /\ CountInv /\ (~torn' => ~torn)
    BY TornStays DEF RecordsInv
  <1>1. \A i \in Indexes : Written(i)' <=> Written(i)
    BY DEF Written
  <1>2. InOrder'
    BY <1>0, <1>1 DEF InOrder, Indexes, statsc, SamplesPerSec
  <1>3. CASE Early
    BY <1>0, <1>1, <1>3 DEF InOrder, Ordered, Indexes, statsc, SamplesPerSec
  <1>4. CASE ~Early
    <2>1. /\ stats.requests \subseteq stats'.requests
          /\ ~torn' => stats.latency \subseteq stats'.latency
      BY <1>0, <1>4, SumsGrow
    <2>. QED
      BY <1>0, <1>1, <1>2, <2>1 DEF Ordered, Indexes, statsc, SamplesPerSec
  <1>. QED
    BY <1>2, <1>3, <1>4

LEMMA RecordStart ==
  ASSUME RecordsInv, EnterLoop
  PROVE  InOrder' /\ Ordered'
  <1>0. TypeOK /\ InOrder /\ Early /\ ~Early'
    BY DEF RecordsInv, CountInv, EnterLoop, Move, Early
  <1>1. \A i \in Indexes : statsv[i] = NotWritten
    BY <1>0 DEF InOrder, Written
  <1>2. statsc \in Nat /\ 0 \in Indexes
    BY Sizes DEF Indexes
  <1>3. Empty # NotWritten /\ Empty.requests = {} /\ Empty.latency = {}
    <2>1. Empty \in Sums
      BY DEF Empty, Sums
    <2>. QED
      BY <2>1, StatsAssumption DEF Empty
  <1>4. CASE opt.outdir
    <2>1. cur' = 1 /\ statsv' = [statsv EXCEPT ![0] = Empty]
      BY <1>4 DEF EnterLoop
    <2>2. statsv'[0] = Empty /\ \A i \in Indexes \ {0} : statsv'[i] = NotWritten
      BY <1>0, <1>1, <1>2, <2>1 DEF TypeOK, Indexes
    <2>3. \A i \in Indexes : Written(i)' <=> i = 0
      BY <1>3, <2>2 DEF Written
    <2>4. InOrder'
      BY <1>0, <1>2, <2>1, <2>3 DEF InOrder, Indexes, statsc, SamplesPerSec
    <2>5. Ordered'
      BY <1>2, <1>3, <2>2, <2>3 DEF Ordered, Indexes, statsc, SamplesPerSec
    <2>. QED
      BY <2>4, <2>5
  <1>5. CASE ~opt.outdir
    <2>1. cur' = 0 /\ statsv' = statsv
      BY <1>5 DEF EnterLoop
    <2>2. \A i \in Indexes : ~Written(i)'
      BY <1>1, <2>1 DEF Written
    <2>. QED
      BY <1>0, <2>1, <2>2 DEF InOrder, Ordered, Indexes, statsc, SamplesPerSec
  <1>. QED
    BY <1>4, <1>5

LEMMA RecordSample ==
  ASSUME RecordsInv, TakeSample
  PROVE  InOrder' /\ Ordered'
  <1>0. /\ TypeOK /\ InOrder /\ Ordered /\ ~Early /\ ~Early' /\ torn' = torn
        /\ stats'.requests = stats.requests /\ stats'.latency = stats.latency
    BY DEF RecordsInv, CountInv, TakeSample, Move, Early, WindowReset, TypeOK, Record
  <1>1. CASE cur > 0
    <2> DEFINE new == [requests |-> stats.requests, latency |-> stats.latency]
    <2>1. cur' = NextRecord(cur) /\ statsv' = [statsv EXCEPT ![cur] = new]
      BY <1>1 DEF TakeSample
    <2>2. cur \in Indexes /\ statsc \in Nat
      BY <1>0, Sizes DEF TypeOK, Indexes
    <2>3. new # NotWritten /\ new.requests = stats.requests /\ new.latency = stats.latency
      <3>1. new \in Sums
        BY <1>0 DEF TypeOK, Record, Sums
      <3>. QED
        BY <3>1, StatsAssumption
    <2>4. statsv'[cur] = new /\ \A i \in Indexes \ {cur} : statsv'[i] = statsv[i]
      BY <1>0, <2>1, <2>2 DEF TypeOK, Indexes
    <2>. HIDE DEF new
    <2>5. \A i \in Indexes : (Written(i) <=> i < cur) /\ (Written(i)' <=> i < cur + 1)
      BY <1>0, <1>1, <2>2, <2>3, <2>4 DEF InOrder, Written, Indexes
    <2>6. cur' = 0 \/ cur' = cur + 1
      BY <2>1 DEF NextRecord
    <2>7. InOrder'
      BY <1>0, <2>2, <2>5, <2>6 DEF InOrder, Indexes, statsc, SamplesPerSec
    <2>8. \A i \in Indexes : Written(i)' =>
             /\ statsv'[i].requests \subseteq stats.requests
             /\ ~torn => statsv'[i].latency \subseteq stats.latency
      BY <1>0, <2>2, <2>3, <2>4, <2>5 DEF Ordered, Indexes
    <2>9. ASSUME NEW i \in Indexes, NEW j \in Indexes, i < j, Written(j)'
          PROVE  /\ statsv'[i].requests \subseteq statsv'[j].requests
                 /\ ~torn => statsv'[i].latency \subseteq statsv'[j].latency
      <3>1. i # cur /\ statsv'[i] = statsv[i] /\ Written(i)
        BY <2>2, <2>4, <2>5, <2>9 DEF Indexes
      <3>2. CASE j = cur
        BY <1>0, <2>3, <2>4, <3>1, <3>2 DEF Ordered
      <3>3. CASE j # cur
        BY <1>0, <2>2, <2>4, <2>5, <2>9, <3>1, <3>3 DEF Ordered, Indexes
      <3>. QED
        BY <3>2, <3>3
    <2>10. Ordered'
      BY <1>0, <2>8, <2>9 DEF Ordered, Indexes, statsc, SamplesPerSec
    <2>. QED
      BY <2>7, <2>10
  <1>2. CASE ~(cur > 0)
    <2>1. cur' = cur /\ statsv' = statsv
      BY <1>2 DEF TakeSample
    <2>2. \A i \in Indexes : Written(i)' <=> Written(i)
      BY <2>1 DEF Written
    <2>. QED
      BY <1>0, <2>1, <2>2 DEF InOrder, Ordered, Indexes, statsc, SamplesPerSec
  <1>. QED
    BY <1>1, <1>2

LEMMA RecordsAlways == Spec => []RecordsInv
  <1>1. Init => NeverLess /\ InOrder /\ Ordered
    <2> SUFFICES ASSUME Init PROVE NeverLess /\ InOrder /\ Ordered
      OBVIOUS
    <2>1. pc = [t \in Threads |-> "recv"] /\ cur = 0 /\ statsv = [i \in Indexes |-> NotWritten]
      BY Zenon DEF Init, Indexes
    <2>2. \A i \in Indexes : ~Written(i)
      BY <2>1 DEF Written
    <2>. QED
      BY <2>1, <2>2 DEF NeverLess, InOrder, Ordered
  <1>2. RecordsInv /\ [Next]_vars => (NeverLess /\ InOrder /\ Ordered)'
    <2> SUFFICES ASSUME RecordsInv, [Next]_vars PROVE (NeverLess /\ InOrder /\ Ordered)'
      OBVIOUS
    <2>1. CASE UNCHANGED vars
      BY <2>1 DEF vars, threadVars, mainVars, RecordsInv, NeverLess, InOrder, Ordered, Early, Written,
         Indexes, statsc, SamplesPerSec
    <2>2. CASE Next
      <3>1. NeverLess'
        BY <2>2, NeverLessSteps DEF RecordsInv
      <3>2. CASE EnterLoop
        BY <3>1, <3>2, RecordStart
      <3>3. CASE TakeSample
        BY <3>1, <3>3, RecordSample
      <3>4. CASE ~EnterLoop /\ ~TakeSample
        <4>1. UNCHANGED <<statsv, cur>>
          BY <2>2, <3>4 DEF Next, ThreadStep, Flush, Receive, Callback, FlushLoad, FlushLatency,
             FlushCounts, ResendLoad, ResendStore, Leave, MainStep, Loop, ClearStats, SetMin, StartJob,
             NextSample, NotYet, PrintLine, NothingNew, Summary, Terminated, vars, mainVars
        <4>2. Early' => Early
          BY <2>2, <3>4 DEF Next, ThreadStep, Flush, Receive, Callback, FlushLoad, FlushLatency,
             FlushCounts, ResendLoad, ResendStore, Leave, MainStep, Loop, ClearStats, SetMin, StartJob,
             NextSample, NotYet, PrintLine, NothingNew, Summary, Terminated, vars, mainVars, Move, Early
        <4>. QED
          BY <2>2, <3>1, <4>1, <4>2, NoRecord
      <3>. QED
        BY <3>2, <3>3, <3>4
    <2>. QED
      BY <2>1, <2>2
  <1>. QED
    BY <1>1, <1>2, CountInvHolds, PTL DEF Spec, RecordsInv

(* The records nct_stats_loop writes for the report follow each other      *)
(* inside the array, also after the time of the test, and none counts less *)
(* than the one before: no difference of two of them wraps around.  For    *)
(* the latencies no access outside of mnt_stats_spin may meet a flush.     *)
THEOREM RecordsOnlyGrow == Spec => []RecordsGrow
  <1>1. RecordsInv => RecordsGrow
    <2> SUFFICES ASSUME RecordsInv PROVE RecordsGrow
      OBVIOUS
    <2>1. InOrder /\ Ordered /\ cur \in Indexes
      BY DEF RecordsInv, CountInv, TypeOK, Indexes
    <2>2. cur > 0 => statsv[cur] = NotWritten
      BY <2>1 DEF InOrder, Written, Indexes
    <2>. QED
      BY <2>1, <2>2 DEF RecordsGrow, InOrder, Ordered, Written, Indexes
  <1>. QED
    BY <1>1, RecordsAlways, PTL

-----------------------------------------------------------------------------
(* The summary.                                                            *)

(* The first record is the empty one of the start, and once the records    *)
(* have ended there is one for every sample in the time of the test.       *)
Complete ==
  opt.outdir /\ ~Early =>
    /\ Written(0) /\ statsv[0].requests = {}
    /\ cur = 0 => \A i \in Indexes : i < Duration * SamplesPerSec => Written(i)

AddsUpInv == RecordsInv /\ Complete /\ SummaryAddsUp

(* A record that has been written counts finitely many requests.           *)
LEMMA FiniteRecords ==
  ASSUME TypeOK, IsFiniteSet(TestReplies), NEW i \in Indexes, Written(i)
  PROVE  Cardinality(statsv[i].requests) \in Nat
  <1>1. statsv[i] \in Sums
    BY DEF TypeOK, Indexes, Written
  <1>2. statsv[i].requests \subseteq Replies
    BY <1>1 DEF Sums
  <1>3. IsFiniteSet(Replies)
    <2>1. IsFiniteSet({MountReply})
      BY FS_Singleton
    <2>. QED
      BY <2>1, FS_Union DEF Replies
  <1>4. IsFiniteSet(statsv[i].requests)
    BY <1>2, <1>3, FS_Subset
  <1>. QED
    BY <1>4, FS_CardinalityType

(* The differences of the records up to n add up to what the n-th counts.  *)
LEMMA DifferencesAddUp ==
  ASSUME NEW n \in Nat, \A i \in 0 .. n : Cardinality(statsv[i].requests) \in Nat,
         Cardinality(statsv[0].requests) = 0
  PROVE  RequestsTot(n) = Cardinality(statsv[n].requests)
  <1> DEFINE Def(g) == [i \in 0 .. n |-> IF i = 0 THEN 0 ELSE g[i - 1] + Growth(i)]
             f == [i \in 0 .. n |-> Cardinality(statsv[i].requests)]
             tot == CHOOSE g : g = Def(g)
             S == {i \in 0 .. n : tot[i] = Cardinality(statsv[i].requests)}
  <1>1. f = Def(f)
    <2>1. ASSUME NEW i \in 0 .. n
          PROVE  Cardinality(statsv[i].requests) = IF i = 0 THEN 0 ELSE f[i - 1] + Growth(i)
      <3>1. CASE i = 0
        BY <3>1
      <3>2. CASE i # 0
        <4>1. i - 1 \in 0 .. n
          BY <3>2
        <4>. QED
          BY <3>2, <4>1 DEF Growth
      <3>. QED
        BY <3>1, <3>2
    <2>. QED
      BY <2>1
  <1>2. tot = Def(tot)
    BY <1>1
  <1>3. RequestsTot(n) = tot[n]
    BY DEF RequestsTot
  <1>. HIDE DEF tot
  <1>4. \A i \in 0 .. n : tot[i] = IF i = 0 THEN 0 ELSE tot[i - 1] + Growth(i)
    BY <1>2
  <1>5. 0 \in S
    BY <1>4
  <1>6. ASSUME NEW i \in 0 .. n - 1, i \in S PROVE i + 1 \in S
    <2>1. i + 1 \in 0 .. n /\ i + 1 # 0 /\ (i + 1) - 1 = i /\ i \in 0 .. n
      OBVIOUS
    <2>2. tot[i + 1] = tot[i] + Growth(i + 1)
      BY <1>4, <2>1
    <2>. QED
      BY <1>6, <2>1, <2>2 DEF Growth
  <1>7. 0 .. n \subseteq S
    <2>1. \A i \in 0 .. n - 1 : i \in S => i + 1 \in S
      BY <1>6
    <2>. HIDE DEF S
    <2>. QED
      BY <1>5, <2>1, IntervalInduction
  <1>. QED
    BY <1>3, <1>7

(* Every step but the start, the samples and the summary leaves the        *)
(* records and the report alone.                                           *)
LEMMA NoReport ==
  ASSUME Next, ~EnterLoop, ~TakeSample, ~Summary
  PROVE  /\ UNCHANGED <<statsv, cur, report, opt>>
         /\ main' = "done" => main = "done"
         /\ Early' <=> Early
  BY DEF Next, ThreadStep, Flush, Receive, Callback, FlushLoad, FlushLatency,
     FlushCounts, ResendLoad, ResendStore, Leave, MainStep, Loop, ClearStats, SetMin, StartJob,
     NextSample, NotYet, PrintLine, NothingNew, Summary, Terminated, vars, mainVars, Move, Early

LEMMA CompleteSteps ==
  ASSUME RecordsInv, Complete, Next
  PROVE  Complete'
  <1>0. TypeOK /\ InOrder /\ statsc \in Nat /\ 0 \in Indexes /\ 1 \in Indexes
    BY Sizes DEF RecordsInv, CountInv, Indexes
  <1>i. Indexes' = Indexes
    BY DEF Indexes, statsc, SamplesPerSec
  <1>1. CASE EnterLoop
    <2>1. Empty # NotWritten /\ Empty.requests = {}
      <3>1. Empty \in Sums
        BY DEF Empty, Sums
      <3>. QED
        BY <3>1, StatsAssumption DEF Empty
    <2>2. SUFFICES ASSUME opt.outdir PROVE Complete'
      BY <1>1 DEF Complete, EnterLoop
    <2>3. cur' = 1 /\ statsv' = [statsv EXCEPT ![0] = Empty]
      BY <1>1, <2>2 DEF EnterLoop
    <2>4. statsv'[0] = Empty
      BY <1>0, <2>3 DEF TypeOK, Indexes
    <2>. QED
      BY <2>1, <2>3, <2>4 DEF Complete, Written
  <1>2. CASE TakeSample
    <2>1. ~Early /\ opt' = opt
      BY <1>2 DEF TakeSample, Move, Early
    <2>2. SUFFICES ASSUME opt.outdir PROVE Complete'
      BY <2>1 DEF Complete
    <2>3. /\ Written(0) /\ statsv[0].requests = {}
          /\ cur = 0 => \A i \in Indexes : i < Duration * SamplesPerSec => Written(i)
      BY <2>1, <2>2 DEF Complete
    <2>4. CASE cur > 0
      <3> DEFINE new == [requests |-> stats.requests, latency |-> stats.latency]
      <3>1. cur' = NextRecord(cur) /\ statsv' = [statsv EXCEPT ![cur] = new]
        BY <1>2, <2>4 DEF TakeSample
      <3>2. cur \in Indexes
        BY <1>0 DEF TypeOK, Indexes
      <3>3. new # NotWritten
        <4>1. new \in Sums
          BY <1>0 DEF TypeOK, Record, Sums
        <4>. QED
          BY <4>1, StatsAssumption
      <3>4. statsv'[cur] = new /\ \A i \in Indexes \ {cur} : statsv'[i] = statsv[i]
        BY <1>0, <3>1, <3>2 DEF TypeOK, Indexes
      <3>. HIDE DEF new
      <3>5. Written(0)' /\ statsv'[0].requests = {}
        BY <1>0, <2>3, <2>4, <3>4 DEF Written
      <3>6. \A i \in Indexes : i < cur + 1 => Written(i)'
        BY <1>0, <2>4, <3>2, <3>3, <3>4 DEF InOrder, Written, Indexes
      <3>7. cur' = 0 => \A i \in Indexes : i < Duration * SamplesPerSec => i < cur + 1
        <4>1. cur' = 0 => cur + 1 >= Duration * SamplesPerSec
          <5>1. cur + 1 # 0
            BY <2>4, <3>2 DEF Indexes
          <5>. QED
            BY <3>1, <5>1 DEF NextRecord
        <4>. QED
          BY <3>2, <4>1, Sizes DEF Indexes
      <3>8. cur' = 0 => \A i \in Indexes : i < Duration * SamplesPerSec => Written(i)'
        BY <3>6, <3>7
      <3>. QED
        BY <1>i, <3>5, <3>8 DEF Complete, SamplesPerSec
    <2>5. CASE ~(cur > 0)
      <3>1. cur' = cur /\ statsv' = statsv
        BY <1>2, <2>5 DEF TakeSample
      <3>. QED
        BY <1>i, <2>3, <3>1 DEF Complete, Written, SamplesPerSec
    <2>. QED
      BY <2>4, <2>5
  <1>3. CASE ~EnterLoop /\ ~TakeSample
    <2>1. UNCHANGED <<statsv, cur, opt>> /\ (Early' <=> Early)
      <3>1. CASE Summary
        BY <3>1 DEF Summary, Move, Early
      <3>2. CASE ~Summary
        BY <1>3, <3>2, NoReport
      <3>. QED
        BY <3>1, <3>2
    <2>. QED
      BY <1>i, <2>1 DEF Complete, Written, SamplesPerSec
  <1>. QED
    BY <1>1, <1>2, <1>3

(* What the summary reports.                                               *)
LEMMA SummaryStep ==
  ASSUME RecordsInv, Complete, IsFiniteSet(TestReplies), Summary
  PROVE  SummaryAddsUp'
  <1>0. TypeOK /\ InOrder /\ Ordered /\ ~Early
    BY DEF RecordsInv, CountInv, Summary, Move, Early
  <1>1. SUFFICES ASSUME opt.outdir PROVE SummaryAddsUp'
    BY DEF Summary, SummaryAddsUp
  <1> DEFINE used == IF End > 1 THEN End - 1 ELSE 0
  <1>2. /\ report'.used = used
        /\ report'.requests = RequestsTot(used)
        /\ report'.total = stats.requests
        /\ UNCHANGED <<statsv, opt>>
    BY <1>1 DEF Summary
  <1>3. /\ Written(0) /\ statsv[0].requests = {}
        /\ cur = 0 => \A i \in Indexes : i < Duration * SamplesPerSec => Written(i)
    BY <1>0, <1>1 DEF Complete
  <1>4. cur \in Indexes /\ Duration * SamplesPerSec \in Nat /\ SamplesPerSec \in Nat /\ SamplesPerSec > 1
        /\ statsc = Duration * SamplesPerSec + SamplesPerSec
    BY <1>0, Sizes DEF TypeOK, Indexes
  <1>5. used \in Indexes /\ used \in Nat /\ \A i \in 0 .. used : i \in Indexes /\ Written(i)
    <2>1. CASE cur > 0
      <3>1. End = cur - 1
        BY <2>1 DEF End
      <3>2. used \in Nat /\ used < cur
        BY <1>4, <2>1, <3>1 DEF Indexes
      <3>3. \A i \in 0 .. used : i \in Indexes /\ i < cur
        BY <1>4, <3>2 DEF Indexes
      <3>. QED
        BY <1>0, <1>4, <2>1, <3>2, <3>3 DEF InOrder, Indexes
    <2>2. CASE ~(cur > 0)
      <3>1. End = Duration * SamplesPerSec /\ cur = 0
        BY <1>4, <2>2 DEF End, Indexes
      <3>2. used \in Nat /\ (used = 0 \/ used < Duration * SamplesPerSec)
        BY <1>4, <3>1
      <3>3. \A i \in 0 .. used : i \in Indexes /\ (i = 0 \/ i < Duration * SamplesPerSec)
        BY <1>4, <3>2 DEF Indexes
      <3>. QED
        BY <1>3, <3>1, <3>2, <3>3
    <2>. QED
      BY <2>1, <2>2
  <1>. HIDE DEF used
  <1>6. \A i \in 0 .. used : Cardinality(statsv[i].requests) \in Nat
    BY <1>0, <1>5, FiniteRecords
  <1>7. Cardinality(statsv[0].requests) = 0
    BY <1>3, FS_EmptySet
  <1>8. RequestsTot(used) = Cardinality(statsv[used].requests)
    BY <1>5, <1>6, <1>7, DifferencesAddUp
  <1>9. statsv[used].requests \subseteq stats.requests
    BY <1>0, <1>5 DEF Ordered
  <1>. QED
    BY <1>2, <1>5, <1>8, <1>9 DEF SummaryAddsUp, Written

(* The requests the summary of nct_stats_loop adds up from the differences *)
(* of its records are those its last record counts, every record it reads  *)
(* has been written, and the total printed with it is never less.          *)
THEOREM SummaryIsOfTheRecords ==
  ASSUME IsFiniteSet(TestReplies)
  PROVE  Spec => []SummaryAddsUp
  <1>1. Init => Complete /\ SummaryAddsUp
    BY DEF Init, Complete, SummaryAddsUp, Early
  <1>2. RecordsInv /\ Complete /\ SummaryAddsUp /\ [Next]_vars => (Complete /\ SummaryAddsUp)'
    <2> SUFFICES ASSUME RecordsInv, Complete, SummaryAddsUp, [Next]_vars
                 PROVE  (Complete /\ SummaryAddsUp)'
      OBVIOUS
    <2>1. CASE UNCHANGED vars
      BY <2>1 DEF vars, mainVars, Complete, SummaryAddsUp, Early, Written, Indexes, statsc, SamplesPerSec
    <2>2. CASE Next
      <3>1. Complete'
        BY <2>2, CompleteSteps
      <3>2. CASE Summary
        BY <3>1, <3>2, SummaryStep
      <3>3. CASE EnterLoop \/ TakeSample
        BY <3>1, <3>3 DEF EnterLoop, TakeSample, Move, SummaryAddsUp
      <3>4. CASE ~EnterLoop /\ ~TakeSample /\ ~Summary
        <4>1. UNCHANGED <<statsv, report, opt>> /\ (main' = "done" => main = "done")
          BY <2>2, <3>4, NoReport
        <4>. QED
          BY <3>1, <4>1 DEF SummaryAddsUp
      <3>. QED
        BY <3>2, <3>3, <3>4
    <2>. QED
      BY <2>1, <2>2
  <1>. QED
    BY <1>1, <1>2, RecordsAlways, PTL DEF Spec
=============================================================================
