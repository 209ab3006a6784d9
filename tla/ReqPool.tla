------------------------------ MODULE ReqPool ------------------------------
(***************************************************************************)
(* The pool of request objects: nct_req_alloc and nct_req_free with the    *)
(* mutex mnt_req_mtx, the condition variable mnt_req_cv and the count      *)
(* mnt_req_waiters.  It is used as the program uses it: the main thread    *)
(* takes a request to mount with, then one for every job; a receive thread *)
(* takes one when it starts and never gives it back, but returns those of  *)
(* the jobs that end.                                                      *)
(***************************************************************************)
EXTENDS Integers, Sequences, FiniteSets, SequencesExt

CONSTANTS RecvThreads,  \* the threads of nct_req_recv_loop
          Main,         \* the main thread
          Reqs,         \* the request objects
          NoThread,     \* nobody holds the mutex
          JobsMax,      \* mnt_jobs_max
          MaxSpurious   \* bound: wakeups without a signal

Threads == RecvThreads \cup {Main}

ASSUME ReqPoolAssumption ==
  /\ Main \notin RecvThreads /\ NoThread \notin Threads
  /\ RecvThreads # {} /\ IsFiniteSet(RecvThreads) /\ IsFiniteSet(Reqs)
  /\ Cardinality(RecvThreads) < Cardinality(Reqs)  \* at most 128, and 1024
  /\ JobsMax \in Nat /\ MaxSpurious \in Nat

VARIABLES
  list,     \* the list mnt_req_head
  mutex,    \* who holds mnt_req_mtx
  waiters,  \* mnt_req_waiters
  pc,       \* where each thread is
  req,      \* its local variable req, {} before it has one
  mounted,  \* nct_mount has returned
  jobs,     \* the requests of the jobs that run
  started,  \* jobs started so far
  req0,     \* the request a receive thread started with
  spurious  \* wakeups without a signal so far (only for MaxSpurious)

vars == <<list, mutex, waiters, pc, req, mounted, jobs, started, req0, spurious>>

(* "lock", "test", "asleep" and "woken" are in nct_req_alloc, "flock" and  *)
(* "push" in nct_req_free.                                                 *)
Pcs == {"begin", "lock", "test", "asleep", "woken", "got", "flock", "push", "run", "done"}
Wanting == {t \in Threads : pc[t] \in {"lock", "test", "asleep", "woken"}}
Asleep == {t \in Threads : pc[t] = "asleep"}
Woken == {t \in Threads : pc[t] = "woken"}

Init ==
  /\ list = SetToSeq(Reqs)                       \* nct_req_create
  /\ mutex = NoThread /\ waiters = 0
  /\ pc = [t \in Threads |-> "begin"]
  /\ req = [t \in Threads |-> {}]
  /\ mounted = FALSE /\ jobs = {} /\ started = 0
  /\ req0 = [t \in RecvThreads |-> {}] /\ spurious = 0

Goto(t, l) == pc' = [pc EXCEPT ![t] = l]

-----------------------------------------------------------------------------
(* Calls.                                                                  *)
CallAlloc(t) ==
  /\ pc[t] = "begin"
  /\ t = Main /\ mounted => started < JobsMax
  /\ Goto(t, "lock")
  /\ UNCHANGED <<list, mutex, waiters, req, mounted, jobs, started, req0, spurious>>

(* main: all jobs run.                                                     *)
AllStarted ==
  /\ pc[Main] = "begin" /\ mounted /\ started = JobsMax
  /\ Goto(Main, "done")
  /\ UNCHANGED <<list, mutex, waiters, req, mounted, jobs, started, req0, spurious>>

(* A receive thread enters its loop with its request.                      *)
Serve(t) ==
  /\ t \in RecvThreads /\ pc[t] = "got"
  /\ req0' = [req0 EXCEPT ![t] = req[t]]
  /\ Goto(t, "run")
  /\ UNCHANGED <<list, mutex, waiters, req, mounted, jobs, started, spurious>>

(* main starts a job with its request; one that some receive thread has to *)
(* end.                                                                    *)
StartJob ==
  /\ pc[Main] = "got" /\ mounted
  /\ jobs' = jobs \cup req[Main]
  /\ started' = started + 1
  /\ Goto(Main, "begin")
  /\ UNCHANGED <<list, mutex, waiters, req, mounted, req0, spurious>>

(* nct_mount: a receive thread has answered the getattr, its request goes  *)
(* back.                                                                   *)
FreeMount ==
  /\ pc[Main] = "got" /\ ~mounted
  /\ \E t \in RecvThreads : pc[t] = "run"
  /\ mounted' = TRUE
  /\ Goto(Main, "flock")
  /\ UNCHANGED <<list, mutex, waiters, req, jobs, started, req0, spurious>>

(* The callback of a job that ends, in a receive thread: the request it    *)
(* has found is the one it returns.                                        *)
FreeJob(t) ==
  /\ t \in RecvThreads /\ pc[t] = "run"
  /\ \E r \in jobs :
       /\ jobs' = jobs \ {r}
       /\ req' = [req EXCEPT ![t] = {r}]
  /\ Goto(t, "flock")
  /\ UNCHANGED <<list, mutex, waiters, mounted, started, req0, spurious>>

-----------------------------------------------------------------------------
(* nct_req_alloc and nct_req_free.                                         *)

(* pthread_mutex_lock returns, and so does pthread_cond_wait once it has   *)
(* the mutex again.                                                        *)
Lock(t) ==
  /\ mutex = NoThread /\ pc[t] \in {"lock", "woken", "flock"}
  /\ mutex' = t
  /\ waiters' = IF pc[t] = "woken" THEN waiters - 1 ELSE waiters
  /\ Goto(t, IF pc[t] = "flock" THEN "push" ELSE "test")
  /\ UNCHANGED <<list, req, mounted, jobs, started, req0, spurious>>

(* A variant for testing the properties: a sleeper is not counted.         *)
UncountedSleeper == waiters

(* ++mnt_req_waiters                                                       *)
OneMoreSleeper == waiters + 1

(* pthread_cond_wait releases the mutex.                                   *)
Sleep(t) ==
  /\ pc[t] = "test" /\ list = <<>>
  /\ waiters' = OneMoreSleeper
  /\ mutex' = NoThread
  /\ Goto(t, "asleep")
  /\ UNCHANGED <<list, req, mounted, jobs, started, req0, spurious>>

(* A variant for testing the properties: the head stays on the list.       *)
KeepHead == list

(* mnt_req_head = req->req_next                                            *)
DropHead == Tail(list)

Pop(t) ==
  /\ pc[t] = "test" /\ list # <<>>
  /\ req' = [req EXCEPT ![t] = {Head(list)}]
  /\ list' = DropHead
  /\ mutex' = NoThread
  /\ Goto(t, "got")
  /\ UNCHANGED <<waiters, mounted, jobs, started, req0, spurious>>

(* Variants for testing the properties: a signal only when the list was    *)
(* empty, or never to the last of the waiters.                             *)
SignalsFirst == waiters > 0 /\ list = <<>>
SignalsMore == waiters > 1

(* mnt_req_waiters > 0                                                     *)
Signals == waiters > 0

(* Where a thread is once it has returned a request.                       *)
Resumed(t) == IF t = Main THEN "begin" ELSE "run"

(* Back on the list; one of those asleep, if there is any, is signalled.   *)
Push(t) ==
  /\ pc[t] = "push"
  /\ \E r \in req[t] : list' = <<r>> \o list
  /\ IF Signals /\ Asleep # {}
       THEN \E u \in Asleep : pc' = [pc EXCEPT ![t] = Resumed(t), ![u] = "woken"]
       ELSE Goto(t, Resumed(t))
  /\ mutex' = NoThread
  /\ UNCHANGED <<waiters, req, mounted, jobs, started, req0, spurious>>

(* pthread_cond_wait may return for no reason.                             *)
SpuriousWakeup(t) ==
  /\ pc[t] = "asleep" /\ spurious < MaxSpurious
  /\ spurious' = spurious + 1
  /\ Goto(t, "woken")
  /\ UNCHANGED <<list, mutex, waiters, req, mounted, jobs, started, req0>>

-----------------------------------------------------------------------------
(* A step that a thread takes of itself.                                   *)
Step(t) ==
  \/ CallAlloc(t) \/ Serve(t) \/ Lock(t) \/ Sleep(t) \/ Pop(t) \/ Push(t)
  \/ t = Main /\ (AllStarted \/ StartJob \/ FreeMount)
  \/ FreeJob(t)

(* The jobs are done: the pool is not used any more.                       *)
Idle ==
  /\ pc[Main] = "done" /\ jobs = {}
  /\ UNCHANGED vars

Next ==
  \/ \E t \in Threads : Step(t) \/ SpuriousWakeup(t)
  \/ Idle

Spec == Init /\ [][Next]_vars

(* The scheduler runs every thread, a mutex that stays free is taken by    *)
(* one that asks for it, and every job ends.                               *)
FairSpec == Spec /\ \A t \in Threads : WF_vars(Step(t))

-----------------------------------------------------------------------------
(* Properties.                                                             *)

TypeOK ==
  /\ list \in Seq(Reqs) /\ mutex \in Threads \cup {NoThread}
  /\ waiters \in Nat
  /\ pc \in [Threads -> Pcs]
  /\ req \in [Threads -> SUBSET Reqs]
  /\ mounted \in BOOLEAN /\ jobs \subseteq Reqs /\ started \in 0..JobsMax
  /\ req0 \in [RecvThreads -> SUBSET Reqs] /\ spurious \in 0..MaxSpurious

(* The requests a thread has to itself.                                    *)
Own(t) ==
  (IF pc[t] \in {"got", "flock", "push"} THEN req[t] ELSE {})
    \cup (IF t \in RecvThreads THEN req0[t] ELSE {})

(* No request is on the list twice, on the list while a job or a thread    *)
(* has it, or with two of them (nct_req_alloc, nct_req_free).              *)
Exclusive ==
  /\ IsInjective(list)
  /\ ToSet(list) \cap jobs = {}
  /\ \A t \in Threads : Own(t) \cap (ToSet(list) \cup jobs) = {}
  /\ \A t, u \in Threads : t # u => Own(t) \cap Own(u) = {}

(* mnt_req_waiters counts the threads in pthread_cond_wait, those that are *)
(* signalled and have not run yet among them.                              *)
WaitersCounted == waiters = Cardinality(Asleep \cup Woken)

(* No wakeup is lost: while a thread sleeps, there is a thread on its way  *)
(* to every request on the list (nct_req_free signals under the mutex,     *)
(* one thread for each request, and a signalled thread that is overtaken   *)
(* finds the list empty and sleeps again).                                 *)
NoLostWakeup ==
  Asleep # {} => Len(list) <= Cardinality({t \in Threads : pc[t] \in {"woken", "test"}})

(* The main thread gets a request for every job, even if there are fewer   *)
(* requests than jobs.                                                     *)
AllJobsStart == <>(pc[Main] = "done")

(* The pool implements FreePool, its promise of progress included.         *)
Pool == INSTANCE FreePool WITH
          free <- ToSet(list), want <- Wanting,
          got <- [t \in Threads |-> IF pc[t] = "got" THEN req[t] ELSE {}]
PoolSpec == Pool!FairSpec
=============================================================================
