------------------------------ MODULE NctEngine ------------------------------
(***************************************************************************)
(* The request engine of nct: the threads of nct_req_recv_loop, the main   *)
(* thread that mounts, starts the jobs, samples and unmounts, the test     *)
(* callbacks that keep every job going, and the table mnt_req_tbl through  *)
(* which a reply finds its request.                                        *)
(*                                                                         *)
(* Each critical section (send_mtx, recv_mtx, wait_mtx, req_mtx) is one    *)
(* action; every access to shared memory outside of one is an action of    *)
(* its own.  Memory is sequentially consistent.                            *)
(***************************************************************************)
EXTENDS Integers, FiniteSets

CONSTANTS RecvThreads,  \* the threads that run nct_req_recv_loop (option -t)
          Main,         \* the thread of main()
          Req,          \* the pool of request objects
          NULL,         \* a null request pointer
          ReqMax,       \* NCT_REQ_MAX: requests in the pool, slots in the table
          XidStep,      \* 11: the distance between two xids
          UMod,         \* 2^32: the range of a uint32_t or a u_int
          JobsMax,      \* mnt_jobs_max (option -j)
          MaxSends,     \* bound: sends of a run, past it every job has expired
          Tests,        \* the tests that may be chosen, of "null", "getattr", "read"
          Faults        \* what may go wrong outside of the program, see below

Actors == RecvThreads \cup {Main}
Slots == 0..(ReqMax - 1)
Xids == 0..(UMod - 1)

(* What a reply carries.  "ok"; "rpcerr": an RPC error status; "nfserr": an *)
(* NFS error status; "torn": RPC_SUCCESS over a body that does not decode.  *)
Status == {"ok", "rpcerr", "nfserr", "torn"}

(* "eof": the server closes the connection; "reset": recv() fails; "denied": *)
(* a rejected call, whose reply is shorter than rpcmin; "short": the file is *)
(* smaller than what the jobs of the read test start with.                   *)
FaultKinds == (Status \ {"ok"}) \cup {"eof", "reset", "denied", "short"}

Fates == {"run", "abort_xid", "abort_send", "abort_decode", "abort_connect",
          "abort_mount", "segv", "sigpipe", "corrupt"}

Mishaps == {"overrun", "stalecb", "denied", "badrc", "nostart"}

RecvPcs == {"alloc", "recv", "lookup", "match", "answered", "called", "wake",
            "cb", "check", "rc", "dec", "shut", "reconn", "scan", "rescan",
            "exited"}
MainPcs == {"m_alloc", "m_send", "m_check", "m_wait", "m_sleep", "m_woken",
            "m_attr", "j_next", "j_alloc", "j_start", "j_send", "j_check",
            "stats", "umount", "join", "done"}

ASSUME EngineAssumption ==
  /\ Main \notin RecvThreads
  /\ NULL \notin Req
  /\ ReqMax \in Nat \ {0}
  /\ XidStep \in Nat \ {0}
  /\ UMod \in Nat \ {0}
  /\ UMod % ReqMax = 0
  /\ JobsMax \in Nat \ {0}
  /\ MaxSends \in Nat
  /\ Tests \subseteq {"null", "getattr", "read"}
  /\ Faults \subseteq FaultKinds

(* What counting the jobs takes besides.                                   *)
ASSUME CountingAssumption ==
  /\ IsFiniteSet(RecvThreads) /\ IsFiniteSet(Req)
  /\ JobsMax < UMod

VARIABLES
  test,      \* the test on the command line; it never changes
  fate,      \* "run", or how the process was killed
  mishap,    \* history: the races and faults that have happened so far
  sendXid,   \* mnt_send_xid
  sends,     \* calls sent so far (only for MaxSends)
  tbl,       \* mnt_req_tbl
  reqXid,    \* req_xid
  reqDone,   \* req_done
  reqCb,     \* req_cb # NULL
  reqOut,    \* req_tsc_start > req_tsc_stop
  expired,   \* the requests whose req_tsc_finish has passed
  msgLen,    \* req_msg->msg_len: the length of a call "tx" or of a reply "rx"
  msgStat,   \* req_msg->msg_stat, and the body of the reply that set it
  free,      \* the requests on the list mnt_req_head
  calls,     \* the xids of the calls the server has not answered
  wr,        \* the write side of mnt_fd is open
  eof,       \* the server has closed, or the read side was shut down
  pc,        \* where each thread is
  hold,      \* each thread's local variable req
  req0,      \* the request whose buffer a receive thread started with
  rxid,      \* msg->msg_rpc.rm_xid of the reply a receive thread looks at
  rstat,     \* stat of that reply
  scanI,     \* i, the slot a thread that reconnected looks at
  jobsCnt,   \* mnt_jobs_cnt
  started,   \* jobs whose start() has been called
  waiters    \* mnt_wait_waiters

jobs == <<jobsCnt, started>>
conn == <<calls, wr, eof>>
locals == <<hold, req0, rxid, rstat, scanI>>
reqs == <<reqXid, reqDone, reqCb, reqOut, expired, msgLen, msgStat>>
table == <<sendXid, sends, tbl>>
vars == <<test, fate, mishap, table, reqs, free, conn, pc, locals, jobs, waiters>>

(* nct_mount up to the creation of the receive threads, which start in any *)
(* order against the main thread.                                          *)
Init ==
  /\ test \in Tests
  /\ fate = "run" /\ mishap = {}
  /\ sendXid = 0 /\ sends = 0
  /\ tbl = [i \in Slots |-> NULL]
  /\ reqXid = [r \in Req |-> 0]
  /\ reqDone = [r \in Req |-> FALSE]
  /\ reqCb = [r \in Req |-> FALSE]
  /\ reqOut = [r \in Req |-> FALSE]
  /\ expired = {}
  /\ msgLen = [r \in Req |-> "rx"]
  /\ msgStat = [r \in Req |-> "ok"]
  /\ free = Req
  /\ calls = {} /\ wr = TRUE /\ eof = FALSE
  /\ pc = [a \in Actors |-> IF a = Main THEN "m_alloc" ELSE "alloc"]
  /\ hold = [a \in Actors |-> NULL]
  /\ req0 = [t \in RecvThreads |-> NULL]
  /\ rxid = [t \in RecvThreads |-> 0]
  /\ rstat = [t \in RecvThreads |-> "ok"]
  /\ scanI = [t \in RecvThreads |-> 0]
  /\ jobsCnt = 0 /\ started = 0 /\ waiters = 0

At(a, l) == fate = "run" /\ pc[a] = l
Goto(a, l) == pc' = [pc EXCEPT ![a] = l]
Hold(a, r) == hold' = [hold EXCEPT ![a] = r]
Slot(x) == x % ReqMax

-----------------------------------------------------------------------------
(* nct_req_alloc: blocks until the pool has a request, resets it.          *)
Take(r) ==
  /\ r \in free
  /\ free' = free \ {r}
  /\ reqCb' = [reqCb EXCEPT ![r] = FALSE]
  /\ reqDone' = [reqDone EXCEPT ![r] = FALSE]
  /\ UNCHANGED <<reqXid, reqOut, expired, msgLen, msgStat>>

(* nct_req_free.  A request freed twice ties the list into a knot: the     *)
(* model stops there.                                                      *)
Release(r) ==
  /\ free' = free \cup {r}
  /\ fate' = IF r \in free THEN "corrupt" ELSE fate

(* A variant for testing the properties: req_xid keeps its old value.      *)
StampForgotten(r, x) == UNCHANGED reqXid

(* req->req_xid = xid                                                      *)
Stamp(r, x) == reqXid' = [reqXid EXCEPT ![r] = x]

(* The caller's encoding of a call, then nct_req_send up to the unlock.    *)
(* fresh: the caller has set req_tsc_start.  A send on a connection whose  *)
(* write side is shut raises SIGPIPE, one on a connection the server has   *)
(* closed may.                                                             *)
Transmit(r, fresh) ==
  LET x == sendXid
      i == Slot(x)
  IN /\ sendXid' = (x + XidStep) % UMod
     /\ sends' = sends + 1
     /\ tbl' = [tbl EXCEPT ![i] = r]
     /\ Stamp(r, x)
     /\ reqDone' = [reqDone EXCEPT ![r] = FALSE]
     /\ msgLen' = [msgLen EXCEPT ![r] = "tx"]
     /\ reqOut' = [reqOut EXCEPT ![r] = fresh]
     /\ calls' = IF wr /\ ~eof THEN calls \cup {x} ELSE calls
     /\ \/ wr /\ fate' = fate
        \/ (~wr \/ eof) /\ fate' = "sigpipe"
     /\ UNCHANGED <<reqCb, expired, msgStat, wr, eof>>

(* A slot that still holds a request is about to be overwritten.           *)
Overruns == IF tbl[Slot(sendXid)] = NULL THEN {} ELSE {"overrun"}

(* nct_req_send after the unlock: the length sent is compared with the     *)
(* length of whatever buffer the request has by now.                       *)
LengthCheck(a, from, to) ==
  /\ At(a, from)
  /\ IF msgLen[hold[a]] = "tx"
       THEN Goto(a, to) /\ UNCHANGED fate
       ELSE fate' = "abort_send" /\ UNCHANGED pc
  /\ UNCHANGED <<mishap, table, reqs, free, conn, jobs, waiters>>

-----------------------------------------------------------------------------
(* The receive loop.                                                       *)

RecvAlloc(t) ==
  /\ At(t, "alloc")
  /\ \E r \in Req : Take(r) /\ req0' = [req0 EXCEPT ![t] = r]
  /\ Goto(t, "recv")
  /\ UNCHANGED <<fate, mishap, table, conn, hold, rxid, rstat, scanI, jobs, waiters>>

(* nct_rpc_recv and nct_rpc_decode of a whole reply.  The server answers   *)
(* the calls in any order.                                                 *)
Receive(t) ==
  /\ At(t, "recv")
  /\ \E x \in calls, s \in {"ok"} \cup (Faults \cap Status) :
        /\ calls' = calls \ {x}
        /\ rxid' = [rxid EXCEPT ![t] = x]
        /\ rstat' = [rstat EXCEPT ![t] = s]
  /\ Goto(t, "lookup")
  /\ UNCHANGED <<fate, mishap, table, reqs, free, wr, eof, hold, req0, scanI, jobs, waiters>>

(* nct_rpc_recv returns 0: the thread leaves the loop.                     *)
ReceiveEof(t) ==
  /\ At(t, "recv")
  /\ eof /\ calls = {}
  /\ Goto(t, "exited")
  /\ UNCHANGED <<fate, mishap, table, reqs, free, conn, locals, jobs, waiters>>

(* A reply of less than rpcmin bytes: the call is answered, the reply is   *)
(* dropped, the thread reconnects.                                         *)
ReceiveDenied(t) ==
  /\ At(t, "recv") /\ "denied" \in Faults
  /\ \E x \in calls : calls' = calls \ {x}
  /\ mishap' = mishap \cup {"denied"}
  /\ Goto(t, "reconn")
  /\ UNCHANGED <<fate, table, reqs, free, wr, eof, locals, jobs, waiters>>

(* nct_rpc_recv returns -1, which is not below rpcmin once converted to    *)
(* size_t: the loop decodes the buffer, a call, and aborts; or the start   *)
(* of a reply that had arrived before the error, and carries on.           *)
ReceiveError(t) ==
  /\ At(t, "recv") /\ "reset" \in Faults /\ ~eof
  /\ eof' = TRUE
  /\ \/ /\ fate' = "abort_decode"
        /\ UNCHANGED <<calls, rxid, pc>>
     \/ /\ \E x \in calls : rxid' = [rxid EXCEPT ![t] = x]
        /\ calls' = {}
        /\ Goto(t, "lookup")
        /\ UNCHANGED fate
  /\ UNCHANGED <<mishap, table, reqs, free, wr, hold, req0, rstat, scanI, jobs, waiters>>

(* A variant for testing the properties: the slot after the right one.     *)
FindNext(x) == tbl[Slot(x + 1)]

(* mnt_req_tbl[rm_xid % NCT_REQ_MAX]                                       *)
Find(x) == tbl[Slot(x)]

(* req = mnt_req_tbl[idx]                                                  *)
Lookup(t) ==
  /\ At(t, "lookup")
  /\ Hold(t, Find(rxid[t]))
  /\ Goto(t, "match")
  /\ UNCHANGED <<fate, mishap, table, reqs, free, conn, req0, rxid, rstat, scanI, jobs, waiters>>

(* A variant for testing the properties: the slot keeps its request.       *)
KeepSlot(x) == UNCHANGED tbl

(* mnt_req_tbl[idx] = NULL                                                 *)
ClearSlot(x) == tbl' = [tbl EXCEPT ![Slot(x)] = NULL]

(* The slot is cleared, the xid checked, the buffers exchanged and         *)
(* req_done set.  "answered" and "called" are the same place in the code:  *)
(* they remember whether the request had a callback when it was answered.  *)
Match(t) ==
  LET r == hold[t]
  IN /\ At(t, "match")
     /\ ClearSlot(rxid[t])
     /\ \/ /\ r = NULL /\ fate' = "segv"
           /\ UNCHANGED <<reqs, pc>>
        \/ /\ r # NULL /\ reqXid[r] # rxid[t] /\ fate' = "abort_xid"
           /\ UNCHANGED <<reqs, pc>>
        \/ /\ r # NULL /\ reqXid[r] = rxid[t]
           /\ reqDone' = [reqDone EXCEPT ![r] = TRUE]
           /\ reqOut' = [reqOut EXCEPT ![r] = FALSE]
           /\ msgLen' = [msgLen EXCEPT ![r] = "rx"]
           /\ msgStat' = [msgStat EXCEPT ![r] = rstat[t]]
           /\ Goto(t, IF reqCb[r] THEN "called" ELSE "answered")
           /\ UNCHANGED <<fate, reqXid, reqCb, expired>>
     /\ rxid' = [rxid EXCEPT ![t] = 0]
     /\ rstat' = [rstat EXCEPT ![t] = "ok"]
     /\ UNCHANGED <<mishap, sendXid, sends, free, conn, hold, req0, scanI, jobs, waiters>>

(* if (req->req_cb), read after req_done told the waiter that the request  *)
(* is its own again.                                                       *)
Branch(t) ==
  LET r == hold[t]
  IN /\ At(t, "answered") \/ At(t, "called")
     /\ Goto(t, IF reqCb[r] THEN "cb" ELSE "wake")
     /\ mishap' = mishap \cup (IF reqCb[r] = (pc[t] = "called") THEN {} ELSE {"stalecb"})
     /\ UNCHANGED <<fate, table, reqs, free, conn, locals, jobs, waiters>>

(* A variant for testing the properties: one waiter is not enough.         *)
SomeoneWaitsMore == waiters > 1

(* if (mnt_wait_waiters > 0)                                               *)
SomeoneWaits == waiters > 0

(* Under wait_mtx: broadcast if somebody waits.                            *)
Wake(t) ==
  /\ At(t, "wake")
  /\ pc' = [pc EXCEPT ![t] = "recv",
                      ![Main] = IF SomeoneWaits /\ @ = "m_sleep" THEN "m_woken" ELSE @]
  /\ Hold(t, NULL)
  /\ UNCHANGED <<fate, mishap, table, reqs, free, conn, req0, rxid, rstat, scanI, jobs, waiters>>

-----------------------------------------------------------------------------
(* The callbacks test_null_cb, test_getattr_cb and test_read_cb, up to the *)
(* point where they send again or return what tells the loop that the job  *)
(* is over.                                                                *)

Fails(s) == s = "rpcerr" \/ (test = "getattr" /\ s \in {"nfserr", "torn"})

(* A failed call frees the request and returns its status: for the read    *)
(* test read from the freed request, for the getattr test whatever the     *)
(* decoder left in res.status, which after a torn body may be zero.        *)
CallbackFails(t) ==
  LET r == hold[t]
  IN /\ At(t, "cb") /\ Fails(msgStat[r])
     /\ Release(r)
     /\ \/ /\ test = "read" /\ Goto(t, "rc")
           /\ UNCHANGED <<hold, mishap>>
        \/ /\ test # "read" /\ Goto(t, "dec") /\ Hold(t, NULL)
           /\ UNCHANGED mishap
        \/ /\ test = "getattr" /\ msgStat[r] = "torn"
           /\ Goto(t, "recv") /\ Hold(t, NULL)
           /\ mishap' = mishap \cup {"badrc"}
     /\ UNCHANGED <<table, reqs, conn, req0, rxid, rstat, scanI, jobs, waiters>>

(* test_read_cb: return req->req_msg->msg_stat, after the free.            *)
ReadFreedStatus(t) ==
  LET over == msgStat[hold[t]] = "rpcerr"
  IN /\ At(t, "rc")
     /\ Goto(t, IF over THEN "dec" ELSE "recv")
     /\ mishap' = mishap \cup (IF over THEN {} ELSE {"badrc"})
     /\ Hold(t, NULL)
     /\ UNCHANGED <<fate, table, reqs, free, conn, req0, rxid, rstat, scanI, jobs, waiters>>

(* The job's time is over: ETIMEDOUT.                                      *)
CallbackExpires(t) ==
  LET r == hold[t]
  IN /\ At(t, "cb") /\ ~Fails(msgStat[r]) /\ r \in expired
     /\ Release(r)
     /\ Goto(t, "dec") /\ Hold(t, NULL)
     /\ UNCHANGED <<mishap, table, reqs, conn, req0, rxid, rstat, scanI, jobs, waiters>>

(* The job calls again.  MaxSends bounds the calls of a run, less those    *)
(* the jobs to come start with.                                            *)
CallbackSends(t) ==
  LET r == hold[t]
  IN /\ At(t, "cb") /\ ~Fails(msgStat[r]) /\ r \notin expired
     /\ sends + (JobsMax - started) < MaxSends
     /\ Transmit(r, TRUE)
     /\ mishap' = mishap \cup Overruns
     /\ Goto(t, "check")
     /\ UNCHANGED <<free, locals, jobs, waiters>>

(* The callback's send is complete; it returns zero.                       *)
CallbackReturns(t) ==
  /\ LengthCheck(t, "check", "recv")
  /\ Hold(t, NULL)
  /\ UNCHANGED <<req0, rxid, rstat, scanI>>

(* Variants for testing the properties: a signed count; no count at all.   *)
OneJobLessSigned == jobsCnt - 1
OneJobLessForgotten == jobsCnt

(* __atomic_sub_fetch on a u_int.                                          *)
OneJobLess == (jobsCnt + UMod - 1) % UMod

(* if (rc): one job less.                                                  *)
EndJob(t) ==
  /\ At(t, "dec")
  /\ jobsCnt' = OneJobLess
  /\ Goto(t, IF jobsCnt' = 0 THEN "shut" ELSE "recv")
  /\ UNCHANGED <<fate, mishap, table, reqs, free, conn, locals, started, waiters>>

(* No job left: shutdown(mnt_fd, SHUT_WR).                                 *)
ShutWrite(t) ==
  /\ At(t, "shut")
  /\ wr' = FALSE
  /\ Goto(t, "recv")
  /\ UNCHANGED <<fate, mishap, table, reqs, free, calls, eof, locals, jobs, waiters>>

-----------------------------------------------------------------------------
(* Reconnecting after a runt.                                              *)

(* nct_connect closes the connection and opens another.  A thread that is  *)
(* inside recv() may still get a reply from the old one.                   *)
Reconnect(t) ==
  /\ At(t, "reconn")
  /\ \/ /\ fate' = "abort_connect"
        /\ UNCHANGED <<conn, pc>>
     \/ /\ calls' \in SUBSET calls
        /\ wr' = TRUE /\ eof' = FALSE
        /\ Goto(t, "scan")
        /\ UNCHANGED fate
  /\ scanI' = [scanI EXCEPT ![t] = 0]
  /\ UNCHANGED <<mishap, table, reqs, free, hold, req0, rxid, rstat, jobs, waiters>>

(* for (i = 0; i < NCT_REQ_MAX; ++i): an empty slot is dereferenced.       *)
Scan(t) ==
  LET i == scanI[t]
      r == tbl[i]
  IN /\ At(t, "scan")
     /\ \/ /\ r = NULL /\ fate' = "segv"
           /\ UNCHANGED <<mishap, table, reqs, calls, wr, eof, pc, hold>>
        \/ /\ r # NULL /\ reqOut[r] /\ sends < MaxSends
           /\ Transmit(r, FALSE)
           /\ mishap' = mishap \cup Overruns
           /\ Goto(t, "rescan") /\ Hold(t, r)
        \/ /\ r # NULL /\ ~reqOut[r]
           /\ Goto(t, "rescan") /\ Hold(t, NULL)
           /\ UNCHANGED <<fate, mishap, table, reqs, calls, wr, eof>>
     /\ UNCHANGED <<free, req0, rxid, rstat, scanI, jobs, waiters>>

(* The check of a send, if there was one; the next slot.                   *)
Rescan(t) ==
  LET i == scanI[t]
      cut == hold[t] # NULL /\ msgLen[hold[t]] = "rx"
  IN /\ At(t, "rescan")
     /\ \/ cut /\ fate' = "abort_send" /\ UNCHANGED <<pc, scanI>>
        \/ ~cut /\ i + 1 < ReqMax /\ Goto(t, "scan")
           /\ scanI' = [scanI EXCEPT ![t] = i + 1] /\ UNCHANGED fate
        \/ ~cut /\ i + 1 = ReqMax /\ Goto(t, "recv")
           /\ scanI' = [scanI EXCEPT ![t] = 0] /\ UNCHANGED fate
     /\ Hold(t, NULL)
     /\ UNCHANGED <<mishap, table, reqs, free, conn, req0, rxid, rstat, jobs, waiters>>

-----------------------------------------------------------------------------
(* The main thread: the getattr of nct_mount.                              *)

MountAlloc ==
  /\ At(Main, "m_alloc")
  /\ \E r \in Req : Take(r) /\ Hold(Main, r)
  /\ Goto(Main, "m_send")
  /\ UNCHANGED <<fate, mishap, table, conn, req0, rxid, rstat, scanI, jobs, waiters>>

MountSend ==
  /\ At(Main, "m_send")
  /\ Transmit(hold[Main], TRUE)
  /\ mishap' = mishap \cup Overruns
  /\ Goto(Main, "m_check")
  /\ UNCHANGED <<free, locals, jobs, waiters>>

MountCheck == LengthCheck(Main, "m_check", "m_wait") /\ UNCHANGED locals

(* A variant for testing the properties: if (!req_done) instead of while.  *)
AnsweredOrWoken(r) == reqDone[r] \/ pc[Main] = "m_woken"

(* The condition the loop of nct_req_wait ends on.                         *)
Answered(r) == reqDone[r]

(* nct_req_wait.                                                           *)
WaitReply ==
  /\ At(Main, "m_wait")
  /\ IF Answered(hold[Main])
       THEN Goto(Main, "m_attr") /\ UNCHANGED waiters
       ELSE Goto(Main, "m_sleep") /\ waiters' = waiters + 1
  /\ UNCHANGED <<fate, mishap, table, reqs, free, conn, locals, jobs>>

(* pthread_cond_wait may return without a broadcast.                       *)
SpuriousWakeup ==
  /\ At(Main, "m_sleep")
  /\ Goto(Main, "m_woken")
  /\ UNCHANGED <<test, fate, mishap, table, reqs, free, conn, locals, jobs, waiters>>

WaitAgain ==
  /\ At(Main, "m_woken")
  /\ IF Answered(hold[Main])
       THEN Goto(Main, "m_attr") /\ waiters' = waiters - 1
       ELSE Goto(Main, "m_sleep") /\ UNCHANGED waiters
  /\ UNCHANGED <<fate, mishap, table, reqs, free, conn, locals, jobs>>

(* The rest of nct_mount: without attributes the program aborts.           *)
MountAttr ==
  LET r == hold[Main]
  IN /\ At(Main, "m_attr")
     /\ \/ /\ msgStat[r] # "ok" /\ fate' = "abort_mount"
           /\ UNCHANGED <<free, pc>>
        \/ /\ msgStat[r] = "ok"
           /\ Release(r)
           /\ Goto(Main, "j_next")
     /\ Hold(Main, NULL)
     /\ UNCHANGED <<mishap, table, reqs, conn, req0, rxid, rstat, scanI, jobs, waiters>>

-----------------------------------------------------------------------------
(* The main thread: the loop of main() that starts the jobs.               *)

NextJob ==
  /\ At(Main, "j_next")
  /\ IF started < JobsMax
       THEN Goto(Main, "j_alloc") /\ jobsCnt' = (jobsCnt + 1) % UMod
       ELSE Goto(Main, "stats") /\ UNCHANGED jobsCnt
  /\ UNCHANGED <<fate, mishap, table, reqs, free, conn, locals, started, waiters>>

JobAlloc ==
  /\ At(Main, "j_alloc")
  /\ \E r \in Req : Take(r) /\ Hold(Main, r)
  /\ Goto(Main, "j_start")
  /\ UNCHANGED <<fate, mishap, table, conn, req0, rxid, rstat, scanI, jobs, waiters>>

(* start(): the callback and the deadline are set; the read test gives up  *)
(* when the file is too small, and main() does not look at what it returns.*)
JobStart ==
  LET r == hold[Main]
  IN /\ At(Main, "j_start")
     /\ reqCb' = [reqCb EXCEPT ![r] = TRUE]
     /\ expired' = expired \ {r}
     /\ \/ /\ Goto(Main, "j_send")
           /\ UNCHANGED <<mishap, hold, started>>
        \/ /\ test = "read" /\ "short" \in Faults
           /\ Goto(Main, "j_next") /\ Hold(Main, NULL)
           /\ started' = started + 1
           /\ mishap' = mishap \cup {"nostart"}
     /\ UNCHANGED <<fate, table, reqXid, reqDone, reqOut, msgLen, msgStat, free,
                    conn, req0, rxid, rstat, scanI, jobsCnt, waiters>>

JobSend ==
  /\ At(Main, "j_send")
  /\ Transmit(hold[Main], TRUE)
  /\ mishap' = mishap \cup Overruns
  /\ started' = started + 1
  /\ Goto(Main, "j_check")
  /\ UNCHANGED <<free, locals, jobsCnt, waiters>>

JobCheck ==
  /\ LengthCheck(Main, "j_check", "j_next")
  /\ Hold(Main, NULL)
  /\ UNCHANGED <<req0, rxid, rstat, scanI>>

-----------------------------------------------------------------------------
(* The main thread: the exit of nct_stats_loop, then nct_umount.           *)

(* A variant for testing the properties: one job may be left.              *)
JobsAllButGone == jobsCnt <= 1

(* mnt_jobs_cnt < 1                                                        *)
JobsGone == jobsCnt < 1

StatsExit ==
  /\ At(Main, "stats") /\ JobsGone
  /\ Goto(Main, "umount")
  /\ UNCHANGED <<fate, mishap, table, reqs, free, conn, locals, jobs, waiters>>

(* shutdown(mnt_fd, SHUT_RDWR): replies that have arrived can still be read.*)
Umount ==
  /\ At(Main, "umount")
  /\ wr' = FALSE /\ eof' = TRUE
  /\ calls' \in SUBSET calls
  /\ Goto(Main, "join")
  /\ UNCHANGED <<fate, mishap, table, reqs, free, locals, jobs, waiters>>

Join ==
  /\ At(Main, "join")
  /\ \A t \in RecvThreads : pc[t] = "exited"
  /\ Goto(Main, "done")
  /\ UNCHANGED <<fate, mishap, table, reqs, free, conn, locals, jobs, waiters>>

-----------------------------------------------------------------------------
(* The world outside.                                                      *)

(* The clock passes the deadline of a job.                                 *)
Expire(r) ==
  /\ fate = "run" /\ reqCb[r] /\ r \notin expired
  /\ expired' = expired \cup {r}
  /\ UNCHANGED <<test, fate, mishap, table, reqXid, reqDone, reqCb, reqOut, msgLen,
                 msgStat, free, conn, pc, locals, jobs, waiters>>

(* The server closes: once the client has shut its write side and has all  *)
(* its answers, or, as a fault, at any time; the replies on their way are  *)
(* still delivered.                                                        *)
ServerCloses ==
  /\ fate = "run" /\ ~eof
  /\ \/ ~wr /\ calls = {} /\ UNCHANGED calls
     \/ "eof" \in Faults /\ calls' \in SUBSET calls
  /\ eof' = TRUE
  /\ UNCHANGED <<test, fate, mishap, table, reqs, free, wr, pc, locals, jobs, waiters>>

RecvStep(t) ==
  /\ UNCHANGED test
  /\ \/ RecvAlloc(t) \/ Receive(t) \/ ReceiveEof(t) \/ ReceiveDenied(t) \/ ReceiveError(t)
     \/ Lookup(t) \/ Match(t) \/ Branch(t) \/ Wake(t)
     \/ CallbackFails(t) \/ ReadFreedStatus(t) \/ CallbackExpires(t) \/ CallbackSends(t)
     \/ CallbackReturns(t) \/ EndJob(t) \/ ShutWrite(t)
     \/ Reconnect(t) \/ Scan(t) \/ Rescan(t)

MainStep ==
  /\ UNCHANGED test
  /\ \/ MountAlloc \/ MountSend \/ MountCheck \/ WaitReply \/ WaitAgain \/ MountAttr
     \/ NextJob \/ JobAlloc \/ JobStart \/ JobSend \/ JobCheck
     \/ StatsExit \/ Umount \/ Join

Next ==
  \/ \E t \in RecvThreads : RecvStep(t)
  \/ MainStep
  \/ SpuriousWakeup
  \/ \E r \in Req : Expire(r)
  \/ ServerCloses

Spec == Init /\ [][Next]_vars

(* Every thread keeps running, the server answers as long as calls are     *)
(* outstanding, and time passes.                                           *)
Fairness ==
  /\ \A t \in RecvThreads : WF_vars(RecvStep(t))
  /\ WF_vars(MainStep)
  /\ \A r \in Req : WF_vars(Expire(r))

FairSpec == Spec /\ Fairness

-----------------------------------------------------------------------------
(* Properties.                                                             *)

TypeOK ==
  /\ test \in Tests
  /\ fate \in Fates /\ mishap \subseteq Mishaps
  /\ sendXid \in Xids /\ sends \in Nat
  /\ tbl \in [Slots -> Req \cup {NULL}]
  /\ reqXid \in [Req -> Xids]
  /\ reqDone \in [Req -> BOOLEAN]
  /\ reqCb \in [Req -> BOOLEAN]
  /\ reqOut \in [Req -> BOOLEAN]
  /\ expired \subseteq Req
  /\ msgLen \in [Req -> {"tx", "rx"}]
  /\ msgStat \in [Req -> Status]
  /\ free \subseteq Req
  /\ calls \subseteq Xids /\ wr \in BOOLEAN /\ eof \in BOOLEAN
  /\ pc \in [Actors -> RecvPcs \cup MainPcs]
  /\ hold \in [Actors -> Req \cup {NULL}]
  /\ req0 \in [RecvThreads -> Req \cup {NULL}]
  /\ rxid \in [RecvThreads -> Xids]
  /\ rstat \in [RecvThreads -> Status]
  /\ scanI \in [RecvThreads -> Slots]
  /\ jobsCnt \in Xids /\ started \in Nat /\ waiters \in Int

(* The calls whose reply has not yet been looked up in the table.          *)
Unmatched == calls \cup {rxid[t] : t \in {u \in RecvThreads : pc[u] = "lookup"}}

(* A thread works on a request nobody else may touch.  The main thread     *)
(* gets the request of the mount back when req_done is set.                *)
OwningPcs == {"called", "cb", "m_send", "m_attr", "j_start", "j_send"}
WaitingPcs == {"m_check", "m_wait", "m_sleep", "m_woken"}
Owns(a, r) ==
  /\ hold[a] = r
  /\ pc[a] \in OwningPcs \/ (pc[a] \in WaitingPcs /\ reqDone[r])

(* Requests parked in the table.                                           *)
Parked(r) == \E i \in Slots : tbl[i] = r

(* As long as none of the races and faults in mishap has happened, every   *)
(* unanswered call finds, in the slot of its xid, the request that sent it *)
(* (nct_req_send against the lookup of nct_req_recv_loop).                 *)
ReplyFindsRequest ==
  mishap = {} => \A x \in Unmatched : tbl[Slot(x)] # NULL /\ reqXid[tbl[Slot(x)]] = x

(* A request is in one place at a time: on the free list, set aside with   *)
(* the first buffer of a receive thread, in one slot of the table, or with *)
(* one thread that works on it.                                            *)
ExclusiveRequest ==
  mishap = {} => \A r \in Req :
    /\ \A i, j \in Slots : tbl[i] = r /\ tbl[j] = r => i = j
    /\ \A a, b \in Actors : Owns(a, r) /\ Owns(b, r) => a = b
    /\ \A t, u \in RecvThreads : req0[t] = r /\ req0[u] = r => t = u
    /\ r \in free => ~Parked(r) /\ \A a \in Actors : ~Owns(a, r)
    /\ Parked(r) => \A a \in Actors : ~Owns(a, r)
    /\ (\E t \in RecvThreads : req0[t] = r)
         => r \notin free /\ ~Parked(r) /\ \A a \in Actors : ~Owns(a, r)

(* A null slot, a foreign xid or a request freed twice is only ever met    *)
(* after an overrun of the table, a stale callback or a reconnect.         *)
CrashNeedsMishap == fate \in {"segv", "abort_xid", "corrupt"} => mishap # {}

(* mnt_jobs_cnt counts the jobs main() has begun to start, less those a    *)
(* receive thread has taken off: each of them is a request with a callback,*)
(* one that is about to get it, or one freed a moment ago.                 *)
LiveJobs == {r \in Req \ free : reqCb[r]}
JobsCounted ==
  mishap = {} =>
    jobsCnt = Cardinality(LiveJobs)
              + Cardinality({t \in RecvThreads : pc[t] \in {"rc", "dec"}})
              + (IF pc[Main] \in {"j_alloc", "j_start"} THEN 1 ELSE 0)

(* No more calls than jobs are outstanding (README: option -j tells "how   *)
(* many requests it can have in flight at any given moment").  The first   *)
(* form is refuted, the second holds as long as nothing in mishap has      *)
(* happened.                                                               *)
InFlightAtMostJobs == Cardinality(calls) <= JobsMax
InFlightUnlessMishap == mishap = {} => InFlightAtMostJobs

(* When main() unmounts, no call is outstanding and no receive thread has  *)
(* a reply to match, a callback to run or a job to end; one may still be   *)
(* about to compare the length of a call already answered.                 *)
TeardownQuiet ==
  mishap = {} /\ pc[Main] \in {"umount", "join", "done"} =>
    /\ calls = {}
    /\ \A t \in RecvThreads :
         pc[t] \in {"alloc", "recv", "answered", "wake", "check", "shut", "exited"}

(* The main thread never sleeps on a reply that has arrived, unless the    *)
(* thread that brought it is still going to wake it.                       *)
NoLostWakeup ==
  pc[Main] = "m_sleep" /\ reqDone[hold[Main]] =>
    \E t \in RecvThreads : pc[t] \in {"answered", "wake"} /\ hold[t] = hold[Main]

(* The program returns from main() once the test duration has elapsed,     *)
(* unless it is killed.  The first form is refuted when the server closes  *)
(* early, the second asks for it as long as nothing in mishap has happened.*)
Ends == <>(fate # "run" \/ pc[Main] = "done")
EndsUnlessMishap == <>(fate # "run" \/ pc[Main] = "done" \/ mishap # {})

(* Up to the first of the races and faults in mishap the engine implements *)
(* Exchange: whichever way send, lookup, match, callback and free of all   *)
(* the threads interleave, a request has one owner and each reply is       *)
(* handed, once, to the request that sent the call.  A request waits while *)
(* it is in the table; a call is on the wire until a thread has matched    *)
(* the reply.                                                              *)
Exch == INSTANCE Exchange WITH
          NoCall <- -1,
          idle <- free,
          call <- [r \in Req |-> IF Parked(r) THEN reqXid[r] ELSE -1],
          wire <- calls \cup {rxid[t] : t \in {u \in RecvThreads : pc[u] \in {"lookup", "match"}}},
          broken <- mishap # {}
ExchangeSpec == Exch!Spec
=============================================================================
