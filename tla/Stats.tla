------------------------------- MODULE Stats -------------------------------
(***************************************************************************)
(* The statistics: every receive thread gathers the replies it has seen in *)
(* a record of its own and adds it to mnt_stats from time to time, under   *)
(* mnt_stats_spin; nct_mount clears mnt_stats before the jobs start and    *)
(* the reconnect path adds to it, both without the lock; nct_stats_loop    *)
(* takes samples of it until the jobs have gone and adds them up.          *)
(*                                                                         *)
(* A sum is the set of the replies added to it, so that what is lost or    *)
(* counted twice can be told.  Time is what nct_stats_loop sees of it: how *)
(* far it is ahead of the time of the next sample.                         *)
(***************************************************************************)
EXTENDS Integers, FiniteSets

CONSTANTS
  Threads,           \* the threads of nct_req_recv_loop
  Nobody,            \* the spin lock is free
  NotWritten,        \* a record malloc has returned, or no summary
  MountReply,        \* the reply to the getattr of nct_mount
  TestReplies,       \* the replies to the calls of the test
  Resends,           \* bound: the calls sent again after a reconnect
  Latency,           \* the latency of each reply
  NoLatency,         \* UINT64_MAX
  Duration,          \* option -d, seconds
  Opts,              \* whether there is a cycle counter, the options -j, -m and -o
  UsecPerSec,        \* 1000000 usecs are a second
  SamplePeriodUsec,  \* sample_period of main
  TscHz,             \* the frequency of the cycle counter
  Slack,             \* 999 usecs: the loop wakes up that much early
  Word,              \* 2^64
  UsecWord,          \* 2^32, the width of the argument of usleep
  MaxOver,           \* bound: ticks by which a sleep may take too long
  MaxLate            \* bound: ticks by which such sleeps may put a sample behind

Replies == {MountReply} \cup TestReplies
Sums == [requests : SUBSET Replies, latency : SUBSET (Replies \cup Resends)]
SamplesPerSec == UsecPerSec \div SamplePeriodUsec
statsc == (Duration + 1) * SamplesPerSec

ASSUME StatsAssumption ==
  /\ Nobody \notin Threads /\ NotWritten \notin Sums /\ MountReply \notin TestReplies
  /\ Replies \cap Resends = {}
  /\ Duration \in Nat
  /\ Opts \subseteq [haveTsc : BOOLEAN, jobs : Nat \ {0}, mark : Nat, outdir : BOOLEAN]
  /\ Latency \in [Replies -> Nat] /\ NoLatency \in Nat
  /\ \A r \in Replies : Latency[r] < NoLatency
  /\ UsecPerSec \in Nat \ {0} /\ SamplePeriodUsec \in Nat \ {0}
  /\ SamplesPerSec \in Nat /\ SamplesPerSec > 1       \* 10
  /\ TscHz \in Nat \ {0} /\ Word \in Nat \ {0} /\ UsecWord \in Nat \ {0}
  /\ Slack \in Nat /\ MaxOver \in Nat /\ MaxLate \in Nat

VARIABLES
  stats,     \* mnt_stats
  spin,      \* who holds mnt_stats_spin
  pc,        \* where each receive thread is
  local,     \* its local variable stats
  diff,      \* its tsc_diff, the latency of the last reply
  reg,       \* what it has read of mnt_stats and is about to write back
  answered,  \* the replies received so far
  flying,    \* calls that wait for their reply
  jobsCnt,   \* mnt_jobs_cnt
  main,      \* where the main thread is
  opt,       \* have_tsc, jobs_max, mark, and whether outdir is set
  started,   \* i of main, the jobs it has started
  ahead,     \* tgt - tsc_cur in ticks
  since,     \* tsc_cur - tsc_last, as far as it matters
  reqs,      \* reqs_cur and reqs_last
  statsv,    \* the records of the samples
  cur,       \* the index of cur in statsv, 0 if it is NULL
  report,    \* the summary
  cleared,   \* history: what nct_mount has erased
  resent,    \* history: the time of these was added by the reconnect path
  window,    \* history: latencies of all replies flushed since the last sample
  torn       \* history: an access without the lock has met a flush

threadVars == <<spin, pc, local, diff, reg, answered, flying, jobsCnt, resent>>
mainVars == <<main, ahead, since, reqs, statsv, cur, report>>
vars == <<stats, threadVars, mainVars, opt, started, cleared, window, torn>>

Empty == [requests |-> {}, latency |-> {}]
Erased == [requests |-> {}, latency |-> {}, min |-> 0, max |-> 0]

TscFreq == IF opt.haveTsc THEN TscHz ELSE UsecPerSec
SamplePeriod == (SamplePeriodUsec * TscFreq) \div UsecPerSec
PrintPeriod ==
  LET p == opt.mark * TscFreq
  IN  IF p >= SamplePeriod THEN p - SamplePeriod \div 2 ELSE p

Init ==
  /\ stats = Erased /\ spin = Nobody
  /\ pc = [t \in Threads |-> "recv"]
  /\ local = [t \in Threads |-> Empty]
  /\ diff = [t \in Threads |-> 0]
  /\ reg = [t \in Threads |-> Erased]
  /\ answered = {} /\ flying = 1 /\ jobsCnt = 0
  /\ main = "mount"
  /\ opt \in Opts /\ started = 0
  /\ ahead = 0 /\ since = 0 /\ reqs = [cur |-> {}, last |-> {}]
  /\ statsv = [i \in 0 .. statsc - 1 |-> NotWritten] /\ cur = 0
  /\ report = NotWritten
  /\ cleared = Empty /\ resent = {} /\ window = {} /\ torn = FALSE

-----------------------------------------------------------------------------
(* A receive thread.                                                       *)
ThreadAt(t, from, to) ==
  /\ pc[t] = from
  /\ pc' = [pc EXCEPT ![t] = to]

(* From recv to req_done: the reply is added to the local record.          *)
Receive(t, r) ==
  /\ ThreadAt(t, "recv", IF r = MountReply THEN "wake" ELSE "reply")
  /\ r \notin answered /\ flying > 0
  /\ r = MountReply <=> answered = {}
  /\ answered' = answered \cup {r}
  /\ flying' = flying - 1
  /\ local' = [local EXCEPT ![t] = [requests |-> @.requests \cup {r},
                                    latency |-> @.latency \cup {r}]]
  /\ diff' = [diff EXCEPT ![t] = Latency[r]]
  /\ UNCHANGED <<stats, spin, reg, jobsCnt, resent, mainVars, opt, started, cleared, window, torn>>

(* req_cb sends the next call of the job or ends the job; the reply of the *)
(* mount has none.  Then the thread updates mnt_stats or not, as the       *)
(* clock is behind tsc_stats or not.  Bound: replies are left for the jobs *)
(* that have not been started.                                             *)
Callback(t) ==
  /\ \E next \in {"recv", "load"} :
       \/ /\ ThreadAt(t, "wake", next)
          /\ UNCHANGED <<flying, jobsCnt>>
       \/ /\ ThreadAt(t, "reply", next)
          /\ Cardinality(answered) + flying + (opt.jobs - started) <= Cardinality(TestReplies)
          /\ flying' = flying + 1
          /\ UNCHANGED jobsCnt
       \/ /\ ThreadAt(t, "reply", next)
          /\ jobsCnt' = jobsCnt - 1
          /\ UNCHANGED flying
  /\ UNCHANGED <<stats, spin, local, diff, reg, answered, resent, mainVars, opt, started, cleared, window, torn>>

(* What += leaves of two sums, and bzero of the local ones.                *)
SumReplaced(old, new) == new
Sum(old, new) == old \cup new
LocalKept(l) == l
LocalErased(l) == Empty

(* The three parts of a flush: under the lock, mnt_stats is read, and its  *)
(* latencies and its counts are written back.                              *)
FlushLoad(t) ==
  /\ ThreadAt(t, "load", "latency")
  /\ spin = Nobody
  /\ spin' = t
  /\ reg' = [reg EXCEPT ![t] =
       [requests |-> Sum(stats.requests, local[t].requests),
        latency |-> Sum(stats.latency, local[t].latency),
        min |-> IF diff[t] < stats.min THEN diff[t] ELSE stats.min,
        max |-> IF diff[t] > stats.max THEN diff[t] ELSE stats.max]]
  /\ UNCHANGED <<stats, local, diff, answered, flying, jobsCnt, resent, mainVars, opt, started, cleared, window, torn>>

FlushLatency(t) ==
  /\ ThreadAt(t, "latency", "counts")
  /\ stats' = [reg[t] EXCEPT !.requests = stats.requests]
  /\ window' = window \cup {Latency[r] : r \in local[t].requests}
  /\ UNCHANGED <<spin, local, diff, reg, answered, flying, jobsCnt, resent, mainVars, opt, started, cleared, torn>>

FlushCounts(t) ==
  /\ ThreadAt(t, "counts", "recv")
  /\ stats' = [stats EXCEPT !.requests = reg[t].requests]
  /\ spin' = Nobody
  /\ local' = [local EXCEPT ![t] = LocalErased(@)]
  /\ diff' = [diff EXCEPT ![t] = 0]
  /\ reg' = [reg EXCEPT ![t] = Erased]
  /\ UNCHANGED <<answered, flying, jobsCnt, resent, mainVars, opt, started, cleared, window, torn>>

(* Reconnect: the time a call has waited is added to the latency, and the  *)
(* call is sent again.  The sum is read, then written, without the lock.   *)
ResendLoad(t, s) ==
  /\ ThreadAt(t, "recv", "resend")
  /\ flying > 0 /\ jobsCnt > 0
  /\ s \notin resent /\ \A u \in Threads : s \notin reg[u].latency
  /\ reg' = [reg EXCEPT ![t] = [Erased EXCEPT !.latency = stats.latency \cup {s}]]
  /\ UNCHANGED <<stats, spin, local, diff, answered, flying, jobsCnt, resent, mainVars, opt, started, cleared, window, torn>>

ResendStore(t) ==
  /\ ThreadAt(t, "resend", "recv")
  /\ stats' = [stats EXCEPT !.latency = reg[t].latency]
  /\ resent' = resent \cup (reg[t].latency \cap Resends)
  /\ torn' = \/ torn
             \/ ~(stats.latency \subseteq reg[t].latency)     \* lost here,
             \/ \E u \in Threads : pc[u] = "latency"          \* or by that flush
  /\ reg' = [reg EXCEPT ![t] = Erased]
  /\ UNCHANGED <<spin, local, diff, answered, flying, jobsCnt, mainVars, opt, started, cleared, window>>

(* The last job has shut the connection: end of file.  (That the count can *)
(* fall to zero before all jobs have been started is left to NctEngine.)   *)
Leave(t) ==
  /\ ThreadAt(t, "recv", "gone")
  /\ jobsCnt = 0 /\ flying = 0 /\ started = opt.jobs
  /\ UNCHANGED <<stats, spin, local, diff, reg, answered, flying, jobsCnt, resent, mainVars, opt, started, cleared, window, torn>>

-----------------------------------------------------------------------------
(* The main thread.                                                        *)
Move(from, to) ==
  /\ main = from
  /\ main' = to

(* nct_mount: the getattr is answered, then mnt_stats is cleared.          *)
ClearStats ==
  /\ Move("mount", "setmin")
  /\ answered # {}
  /\ stats' = Erased
  /\ cleared' = [requests |-> stats.requests, latency |-> stats.latency]
  /\ window' = {}
  /\ torn' = (torn \/ spin # Nobody)
  /\ UNCHANGED <<threadVars, ahead, since, reqs, statsv, cur, report, opt, started>>

SetMin ==
  /\ Move("setmin", "start")
  /\ stats' = [stats EXCEPT !.min = NoLatency]
  /\ torn' = (torn \/ spin # Nobody \/ window # {})
  /\ UNCHANGED <<threadVars, ahead, since, reqs, statsv, cur, report, opt, started, cleared, window>>

(* main starts the jobs one by one, while those it has started go on, and  *)
(* calls nct_stats_loop.                                                   *)
StartJob ==
  /\ main = "start" /\ started < opt.jobs
  /\ started' = started + 1
  /\ jobsCnt' = jobsCnt + 1 /\ flying' = flying + 1
  /\ UNCHANGED <<stats, spin, pc, local, diff, reg, answered, resent, mainVars, opt, cleared, window, torn>>

EnterLoop ==
  /\ Move("start", "asleep")
  /\ started = opt.jobs
  /\ ahead' = SamplePeriod
  /\ cur' = IF opt.outdir THEN 1 ELSE 0
  /\ statsv' = IF opt.outdir THEN [statsv EXCEPT ![0] = Empty] ELSE statsv
  /\ UNCHANGED <<stats, threadVars, since, reqs, report, opt, started, cleared, window, torn>>

(* The time to sleep.  With a cycle counter it is computed unsigned: if    *)
(* the sample is late, the loop oversleeps.                                *)
Delta == IF opt.haveTsc THEN (((ahead % Word) * UsecPerSec) % Word) \div TscHz
                        ELSE ahead

Nap == IF Delta > Slack THEN (Delta - Slack) % UsecWord ELSE 0

Wrapped(x) == ((x + Word \div 2) % Word) - Word \div 2

WindowMaxReset(s) == [s EXCEPT !.max = 0]
WindowReset(s) == [s EXCEPT !.min = NoLatency, !.max = 0]

(* Records are written up to the time of the test, then no more.           *)
RecordAlways(i) == i + 1
NextRecord(i) == IF i + 1 >= Duration * SamplesPerSec THEN 0 ELSE i + 1

(* The sample, under the lock, and its record.                             *)
TakeSample ==
  /\ Move("asleep", "sampled")
  /\ spin = Nobody
  /\ \E over \in 0 .. MaxOver :
       LET elapsed == (Nap * TscFreq) \div UsecPerSec + over
           next == ahead - elapsed + SamplePeriod
       IN  /\ over > 0 => next >= -MaxLate
           /\ ahead' = Wrapped(next)
           /\ since' = IF since + elapsed < PrintPeriod THEN since + elapsed ELSE PrintPeriod
  /\ stats' = WindowReset(stats)
  /\ window' = {}
  /\ reqs' = [reqs EXCEPT !.cur = stats.requests]
  /\ IF cur > 0
     THEN /\ statsv' = [statsv EXCEPT ![cur] = [requests |-> stats.requests, latency |-> stats.latency]]
          /\ cur' = NextRecord(cur)
     ELSE UNCHANGED <<statsv, cur>>
  /\ UNCHANGED <<threadVars, report, opt, started, cleared, torn>>

JobsBelowZero == jobsCnt < 0
JobsGone == jobsCnt < 1

(* Without -m: go on as long as there are jobs.                            *)
NextSample ==
  /\ Move("sampled", IF JobsGone THEN "summary" ELSE "asleep")
  /\ opt.mark = 0
  /\ UNCHANGED <<stats, threadVars, ahead, since, reqs, statsv, cur, report, opt, started, cleared, window, torn>>

(* With -m: not time to print yet; time to print; nothing new to print.    *)
NotYet ==
  /\ Move("sampled", "asleep")
  /\ opt.mark > 0 /\ since < PrintPeriod
  /\ UNCHANGED <<stats, threadVars, ahead, since, reqs, statsv, cur, report, opt, started, cleared, window, torn>>

NewRequests == Cardinality(reqs.cur) > Cardinality(reqs.last)

PrintLine ==
  /\ Move("sampled", "asleep")
  /\ opt.mark > 0 /\ since >= PrintPeriod
  /\ NewRequests \/ ~JobsGone
  /\ reqs' = [reqs EXCEPT !.last = reqs.cur]
  /\ since' = 0
  /\ UNCHANGED <<stats, threadVars, ahead, statsv, cur, report, opt, started, cleared, window, torn>>

NothingNew ==
  /\ Move("sampled", "summary")
  /\ opt.mark > 0 /\ since >= PrintPeriod
  /\ ~NewRequests /\ JobsGone
  /\ UNCHANGED <<stats, threadVars, ahead, since, reqs, statsv, cur, report, opt, started, cleared, window, torn>>

(* The end of the records the summary adds up: all of them, or all but the *)
(* last if there is room for more.                                         *)
End == IF cur > 0 THEN cur - 1 ELSE Duration * SamplesPerSec

GrowthSinceStart(i) == Cardinality(statsv[i].requests)
Growth(i) == Cardinality(statsv[i].requests) - Cardinality(statsv[i - 1].requests)

(* requests_tot after the records up to n.                                 *)
RequestsTot(n) ==
  LET tot[i \in 0 .. n] == IF i = 0 THEN 0 ELSE tot[i - 1] + Growth(i)
  IN tot[n]

Summary ==
  /\ Move("summary", "done")
  /\ report' = IF opt.outdir
               THEN LET used == IF End > 1 THEN End - 1 ELSE 0
                    IN  [used |-> used,
                         requests |-> RequestsTot(used),
                         average |-> (RequestsTot(used) * SamplesPerSec) \div (used + 1),
                         total |-> stats.requests]
               ELSE NotWritten
  /\ UNCHANGED <<stats, threadVars, ahead, since, reqs, statsv, cur, opt, started, cleared, window, torn>>

(* nct_umount waits for the receive threads, and the program has ended.    *)
Terminated ==
  /\ main = "done" /\ \A t \in Threads : pc[t] = "gone"
  /\ UNCHANGED vars

-----------------------------------------------------------------------------
Flush(t) == FlushLoad(t) \/ FlushLatency(t) \/ FlushCounts(t)

ThreadStep(t) ==
  \/ \E r \in Replies : Receive(t, r)
  \/ Callback(t) \/ Flush(t)
  \/ \E s \in Resends : ResendLoad(t, s)
  \/ ResendStore(t)
  \/ Leave(t)

Loop == TakeSample \/ NextSample \/ NotYet \/ PrintLine \/ NothingNew \/ Summary
MainStep == ClearStats \/ SetMin \/ StartJob \/ EnterLoop \/ Loop

Next == (\E t \in Threads : ThreadStep(t)) \/ MainStep \/ Terminated

Spec == Init /\ [][Next]_vars

(* The main thread is scheduled, and so is a thread inside a flush.        *)
FairSpec == Spec /\ WF_vars(MainStep) /\ \A t \in Threads : WF_vars(Flush(t) \/ ResendStore(t))

-----------------------------------------------------------------------------
Pcs == {"recv", "wake", "reply", "load", "latency", "counts", "resend", "gone"}
Record == [requests : SUBSET Replies, latency : SUBSET (Replies \cup Resends),
           min : Nat, max : Nat]

TypeOK ==
  /\ stats \in Record /\ spin \in Threads \cup {Nobody}
  /\ pc \in [Threads -> Pcs] /\ local \in [Threads -> Sums]
  /\ diff \in [Threads -> Nat] /\ reg \in [Threads -> Record]
  /\ answered \in SUBSET Replies /\ flying \in Int /\ jobsCnt \in Int
  /\ main \in {"mount", "setmin", "start", "asleep", "sampled", "summary", "done"}
  /\ opt \in Opts /\ started \in 0 .. opt.jobs
  /\ ahead \in Int /\ since \in Int
  /\ reqs \in [cur : SUBSET Replies, last : SUBSET Replies]
  /\ statsv \in [0 .. statsc - 1 -> Sums \cup {NotWritten}]
  /\ cur \in 0 .. statsc - 1
  /\ cleared \in Sums /\ resent \in SUBSET Resends
  /\ window \in SUBSET Nat /\ torn \in BOOLEAN

(* What a thread has not added to mnt_stats yet.                           *)
PendingLatency(t) == IF pc[t] = "counts" THEN {} ELSE local[t].latency

(* Every reply is counted in exactly one place: in mnt_stats, in the local *)
(* record of one thread, or among what the mount has erased; and so is its *)
(* latency.  Only the accesses of nct_mount and of the reconnect path      *)
(* outside of mnt_stats_spin can change that.                              *)
CountedOnce ==
  ~torn =>
    /\ answered = stats.requests \cup cleared.requests \cup UNION {local[t].requests : t \in Threads}
    /\ answered \cup resent = stats.latency \cup cleared.latency \cup UNION {PendingLatency(t) : t \in Threads}
    /\ stats.requests \cap cleared.requests = {} /\ stats.latency \cap cleared.latency = {}
    /\ \A t \in Threads :
         /\ local[t].requests \cap (stats.requests \cup cleared.requests) = {}
         /\ PendingLatency(t) \cap (stats.latency \cup cleared.latency) = {}
         /\ \A u \in Threads \ {t} : local[t].requests \cap local[u].requests = {}

(* The extremes a sample reports are latencies of replies that have been   *)
(* flushed since the sample before it, of none earlier, and there are both *)
(* as soon as one reply has been flushed.  (They need not be the least and *)
(* the greatest of them: a flush compares only the latency of the last     *)
(* reply of its batch.)                                                    *)
WindowExtremes ==
  ~torn /\ main \notin {"mount", "setmin"} =>
    IF window = {}
    THEN stats.min = NoLatency /\ stats.max = 0
    ELSE stats.min \in window /\ stats.max \in window /\ stats.min <= stats.max

(* The records are written one after the other inside the array, also when *)
(* the samples go on after the time of the test, and each counts at least  *)
(* what the one before it counts, so that no difference wraps around; for  *)
(* the latencies that takes the lock.                                      *)
RecordsGrow ==
  /\ cur > 0 => statsv[cur] = NotWritten
  /\ \A i, j \in 0 .. statsc - 1 :
       i < j /\ statsv[j] # NotWritten =>
         /\ statsv[i] # NotWritten
         /\ statsv[i].requests \subseteq statsv[j].requests
         /\ ~torn => statsv[i].latency \subseteq statsv[j].latency

(* The summary reads records that have been written, and its sum is what   *)
(* the last of them counts, never more than the total printed next to it,  *)
(* which is read later and without the lock.                               *)
SummaryAddsUp ==
  main = "done" /\ opt.outdir =>
    /\ \A i \in 0 .. report.used : statsv[i] # NotWritten
    /\ report.requests = Cardinality(statsv[report.used].requests)
    /\ statsv[report.used].requests \subseteq report.total

(* nct_stats_loop ends after the last job has ended, with -m and without.  *)
SamplerEnds == (main = "asleep" /\ jobsCnt = 0) ~> (main = "done")

=============================================================================
