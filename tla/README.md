# A verification of nct

*nct* drives an NFS server with a fixed number of identical calls in flight and
measures how it answers. This directory holds TLA+ models of its concurrent
core, of its statistics and of everything it does before the first call, the TLC
configurations that check them, and proofs checked by TLAPS.

## 1. Inventory

### The components

| Component | Source | State | Operations |
|---|---|---|---|
| request engine | `nct_req.c`, `nct_req.h` | table `mnt_req_tbl`, free list, `mnt_send_xid`, per request `req_xid`, `req_done`, `req_cb`, message buffer | `nct_req_recv_loop`, `nct_req_send`, `nct_req_wait`, `nct_req_alloc`, `nct_req_free`, `nct_req_create` |
| tests | `nct_null.c`, `nct_getattr.c`, `nct_read.c` | the deadline `req_tsc_finish`; `pr_offset`, shared by all read jobs | start functions, callbacks |
| mount | `nct_mount.c` | the connection `mnt_fd`, the receive threads | `nct_connect`, `nct_mount`, `nct_umount` |
| main | `main.c` | `mnt_jobs_cnt` | options, the loop that starts the jobs |
| record framing | `nct_rpc.c` | `mnt_recv_mark`, the mark read ahead | `nct_rpc_send`, `nct_rpc_recv`, encode, decode |
| statistics | `nct.c`, end of `nct_req_recv_loop` | `mnt_stats`, per-thread `stats`, the samples | flush, `nct_stats_loop` |
| mount protocol, encoders | `nct_nfs.c` | none | blocking calls, encoders |
| XDR codecs | `nct_xdr.c` | none | straight-line conversions |
| options | `clp.c` | the fields the parser keeps in the tables of options and parameters, the variables the values go to | `clp_parsev`, `clp_parsel`, `clp_breakargs` |
| shell | `nct_shell.c` | `errbuf`, the variables of the mount options | command lookup, `mount`; the other commands are not implemented |
| vnode | `nct_vnode.c` | none after the mount | one allocation, one free |

### How they interact

`main()` mounts: it connects, creates the pool and the receive threads, sends one
getattr and waits for it on `mnt_wait_cv`. Then it takes a request for each job
and calls the test's start function, which sets the callback and sends. From
there on the *receive threads* carry the jobs: each reads a reply under
`mnt_recv_mtx`, looks up the request in the slot `xid % 1024` **without a
lock**, exchanges buffers, sets `req_done` and calls `req_cb`, which sends the next call
on the same request or frees it and returns non-zero. A non-zero return takes
one off `mnt_jobs_cnt`; the thread that brings it to zero shuts the write side,
the server closes, and all receive threads leave. `main()` meanwhile samples in
`nct_stats_loop` until `mnt_jobs_cnt` is zero, and then unmounts and joins.

There are four mutexes (send, receive, wait, request) and a spin lock, and five
things used outside of them: the table, `req_done`, `req_cb`, a request's buffer
and its length, and `pr_offset`. The hard behaviours are the interleavings of
these, the ends of the program (deadline, end of file, error, a job that never
started), the places where TCP cuts the stream, and the limits of the table, the
pool and the file. `PROJECT.json` lists them, each at its line, as hazards.

### What makes each component correct

- *request engine*: a reply finds the request that sent the call; a request has
  one owner at a time; no wakeup is lost; a request is handed out once; the
  program is not killed by its own checks.
- *jobs*: `mnt_jobs_cnt` counts the jobs that are alive, at most `-j` calls are
  in flight, and the program ends when the time is over.
- *framing*: each call returns one whole record and leaves the stream at a mark;
  it never waits for anything behind the record and never writes behind the
  buffer.
- *read test*: the file is read block by block from its start.
- *statistics*: every reply is counted once, whatever the order of flushes and
  samples; the extremes are latencies of the time since the last sample; the summary
  adds up records that were written; sampling ends after the last job.
- *options*: the words of a line are those the comment describes and fit into
  their buffer; an accepted line has no two options that exclude each other; each
  argument goes to a parameter and each required parameter gets one.
- *startup*: what is mounted is what the command line or its defaults name.

## 2. Plan

| Module | Models | State |
|---|---|---|
| `NctEngine` | receive loop, send, wait, callbacks, job start, teardown, reconnect | done |
| `NctEngineProofs` | types, routing, ownership, crashes | done |
| `NctEngineJobsProofs` | wakeups, the count of jobs, calls in flight, teardown | done |
| `ReqPool`, `FreePool` | pool with mutex and condition variable; the abstract pool it implements | done |
| `ReqPoolProofs` | types, exclusion, waiters, wakeups, the refinement of `FreePool` | done |
| `RpcRecv`, `RpcRecvProofs` | framing; types, the place in the stream, the buffer, what each call returns | done |
| `ReadOffsets`, `ReadOffsetsProofs` | the shared file offset; types and the first pass | done |
| `Stats`, `StatsProofs` | flush, clearing, sampling loop, summary; types, counts, extremes, records, the summary | done |
| `ArgSplit`, `SplitDoc` | `clp_breakargs`, its comment as a reference definition | done |
| `Options` | `clp_parsev` | done |
| `Startup` | `main()` up to the first job, the mount, the shell: composes `SplitDoc` and `Options` | done |
| `StartupProofs` | the buffer and the words of the splitter; types, exclusion and distribution in the parser; what is mounted | done |
| `Recursion` | induction over data and recursive definitions, for the proofs | done |
| `Exchange` | what the engine promises whoever has a request: its own, and the one reply to its call; `NctEngineProofs` has the refinement | done |

Every invariant a passing run checks is a theorem.

## 3. The modules

### NctEngine

State: the table `tbl`, `sendXid`, for each request `reqXid`, `reqDone`, `reqCb`
(whether a callback is set), `reqOut` (start time later than stop time),
`msgLen` and `msgStat` (the buffer: a call, or a reply and its status), `test` (the
test of the command line: null, getattr or read), the list
`free`, the connection (`calls` the server has not answered, `wr`, `eof`), each
thread's place `pc` and locals, `jobsCnt` and `waiters`. `fate` is `"run"`, or how
the process was killed. `mishap` is a history variable, see below.

Each critical section is one action and each access to shared memory outside of
one is its own:

| Action | Code |
|---|---|
| `RecvAlloc` | a receive thread takes the request whose buffer it begins with |
| `Receive`, `ReceiveEof`, `ReceiveDenied`, `ReceiveError` | `nct_rpc_recv` and `nct_rpc_decode`: a reply, 0, a short record, -1 |
| `Lookup`, `Match`, `Branch` | reading the slot; clearing it, checking the xid, exchanging buffers, `req_done`; reading `req_cb` |
| `Wake` | the broadcast to `nct_req_wait` |
| `CallbackFails`, `ReadFreedStatus`, `CallbackExpires`, `CallbackSends`, `CallbackReturns` | the paths of the callbacks |
| `EndJob`, `ShutWrite` | the count of jobs and the shutdown at zero |
| `Reconnect`, `Scan`, `Rescan` | `nct_connect` and the loop that sends again |
| `MountAlloc` ... `MountAttr` | the getattr of `nct_mount`, with `nct_req_wait` as `WaitReply`, `WaitAgain`, `SpuriousWakeup` |
| `NextJob`, `JobAlloc`, `JobStart`, `JobSend`, `JobCheck` | the loop of `main()` and the start functions |
| `StatsExit`, `Umount`, `Join` | the end of `nct_stats_loop`, `nct_umount` |
| `Expire`, `ServerCloses` | the clock and the server |

Abstractions. Memory is sequentially consistent. A buffer is its content and
moves with its request. The free list is a set, since the order in which
requests are taken matters to no property (`ReqPool` has the list); a request
freed twice ends the model as `"corrupt"`. The lengths of a call and of a reply
are taken to differ. The server answers in any order. After a reconnect a reply
of the old connection may still be delivered to a thread inside `recv()`.

*Mishaps.* The code has races and fault paths after which nothing can be said of
it. Properties that hold until then name them: `overrun` (a send overwrites a
slot in use), `stalecb` (`req_cb` read after `req_done` gave the request away),
`denied` (a short record: reconnect), `badrc` (a callback that freed its request
returns zero), `nostart` (`start()` failed). `mishap` collects them as they happen;
no guard reads it.

*The abstract engine.* `Exchange` says what all this is for. A request is idle or
somebody's; its owner sends a call under a name no open call has, and is handed the
reply to that call, once; calls can be lost; the promise ends when it breaks. The
mapping: `idle` is the free list; a request waits for `reqXid` while it is in the
table, for nothing otherwise; a call is on the wire until a thread has matched its
reply, so the reply in hand between `Receive` and `Match` still is; broken is a
mishap that has happened. `Take` maps to `Acquire`, `Release` to `Return`, `Transmit` to
`Call`, `Match` to `Reply`, a close to `Lose`; the steps in between are invisible.

*Ends.* The model also reaches, and no property excludes, the ends the code has
of its own: `"abort_send"`, with no fault at all, when the reply is there before
`nct_req_send` compares the length it sent with that of the request's buffer;
`"sigpipe"`, when the count of jobs touches zero while `main()` is still starting
jobs; `"abort_decode"`, when `nct_rpc_recv` returns -1, which is not below the
unsigned `rpcmin`; `"segv"` after a reconnect, where the loop that sends again
dereferences an empty slot. They are listed as hazards.

### ReqPool and FreePool

`FreePool` is the promise: a thread that asks is granted one free request, and
while a request is free and somebody asks, somebody is granted one. `ReqPool`
has the mutex, the list, `mnt_req_waiters`, and the place of every thread inside
`nct_req_alloc` (`lock`, `test`, `asleep`, `woken`) and `nct_req_free` (`flock`,
`push`). It is used as the program uses it. The refinement maps `free` to the
elements of the list and `want` to the threads inside `nct_req_alloc`.

### RpcRecv

A byte is its position in the stream. A mark's value is the fragment that
follows. `Arrive` lets any number of bytes come in, each `ReadBody(cc)` is one
`recv()`. `nextMark` is `*markp`, and what is left of the buffer, `bufsz`, is `BufSz`
less what has been written of it. `TooLarge` is the abort for a mark that announces
more than there is room for, `RecvFails` a `recv()` that returns -1, at any time. When
the code would take other bytes for a mark, the model stops at `"lost"`.

### ReadOffsets

Each atomic operation on `pr_offset` and the plain load in the operand of
`__sync_fetch_and_sub` are actions. `sent` is the history of the offsets.

### Stats

| Action | Code |
|---|---|
| `Receive` | from the answer to `req_done`: the reply is added to the thread's own record |
| `Callback` | the next call, or the end of the job; then a flush or, while the clock is behind `tsc_stats`, none |
| `FlushLoad`, `FlushLatency`, `FlushCounts` | the critical section under `mnt_stats_spin` in three parts |
| `ResendLoad`, `ResendStore` | `mnt_stats.latency_cum += ...` of the reconnect path, without the lock |
| `Leave` | the end of file |
| `ClearStats`, `SetMin` | `nct_mount` clears the statistics, without the lock |
| `StartJob` | `main()` starts one more job, while those started go on |
| `EnterLoop` | `nct_stats_loop` begins |
| `TakeSample` | the sleep, the sample under the lock, its record |
| `NextSample`, `NotYet`, `PrintLine`, `NothingNew` | whether to go on, without and with `-m` |
| `Summary` | the sums over the records |

A sum is not a number but the set of the replies added to it: addition is union,
clearing is the empty set, and what is lost or counted twice shows. The sum of the
latencies also holds the calls sent again by the reconnect path, whose waiting time is
added a second time when they are answered. `window` has the latencies of *all* replies
flushed since the last sample; of a batch the code compares only the last one with the
extremes, so that `WindowExtremes` says they are in the window and in order, and no
more. Throughput and marks go the way of
the requests and are left out. The critical section is split so that the accesses
*without* the lock can fall into it; `torn` records that one did, and the
properties about sums hold until then. Time is the distance `ahead` of the clock from the next
sample, which is all the loop computes with; it may be negative, and is then taken
for a huge number, modulo `Word`, and by `usleep` modulo `UsecWord`. `Opts` has the
combinations of `-j`, `-m`, `-o` and a cycle counter to run with. That the count of jobs
can touch zero while `main()` is still starting them is in `NctEngine`; here the threads
leave only when all have been started.

### ArgSplit and SplitDoc

`ArgSplit` is `clp_breakargs`, one action per kind of character. `buf` is what has
been written to the buffer, `argv` where the words start in it; room for both was
allocated from the length of the line. `SplitDoc` says what the comment above the
function says, of the line as a whole: which characters are escaped, which quote is
open where, where the cuts are, what becomes of each character, and which texts
between cuts are words (`TextBehind`, `WordEnds`). An octal number is its value, which
`strtoul` caps at `MaxUlong` and the assignment cuts down to a byte: `\400` writes a
NUL (`OctalChar`). Two things the
comment does not speak of are kept out of the comparison (`Described`): `\8`, which
writes a NUL and then the 8, and a backslash at the end.

### Options

`clp_parsev`: `BadOption`, `GivenOption` (one round of the `getopt_long` loop with
exclusion, the list of `after()` and the conversion), `OptionsEnd` (the count of the
other arguments), `RunAfter`, `Distribute` (the greedy distribution),
`ConvertArgument`, `ParseEnd`. A word is a sequence of characters, where a run of
ordinary characters is one. `getopt_long` is external: it takes clusters
of letters, `--`, long options and arguments in the same or the next word; the
abbreviation of long options and their `=` are left out. A number has at most one
suffix; it is kept inside its domain and then refused. `inf` and `nan` skip the
domain and their cast is undefined: either end of the domain may come out.

### Startup

Composes both with what is around them: `pgm` is where the program is.

| Actions | Code |
|---|---|
| `MainParse`, `MainEnds`, `MainRuns`, `MainShell` | `main()`: its line, the choice of the command |
| `TestEnds`, `Mount` | the `test_*_init` functions, `nct_mount` takes the path apart |
| `MountFails`, `Connected` | the name lookup, the credentials, `nct_connect` |
| `MountCall`, `MountReply`, `GetattrReply` | `nct_nfs_mount` and the first getattr, with the decoding of their replies |
| `ShellEnds`, `OtherLine`, `MountLine`, `MountSplit`, `MountNotSplit`, `MountLineEnds` | the shell; its `mount` splits and parses its line |
| `ParseLine`, `ParseWords`, `LineParsed` | `clp_parsel`, as a program with delimiters of its own would call it |

The tables of options and parameters of `main()`, the tests and the shell are those of
the code; `library` is a table with an optional parameter between two required
ones, so that the distribution has something to decide. The variables of the
program outlive a line: a second `mount` in the shell finds the values of the first. The
name of a command may be abbreviated and in capitals (`Lookup`, with `Lower` for
`tolower`).

The remote path is cut at the first `@` and at the first colon behind it. The comment of
`nct_mount` and the help of the shell say `[user@]host[:/export...]`, in which an `@` in the
directory could be read otherwise. `MountsWhatWasAsked` says of every path what both
readings share: the parts spell the path, and no separator is left in the user or in the
server where there is only one; section 7 says where they differ.

## 4. Runs

| Run | Question | Bounds |
|---|---|---|
| `engine_safety` | the refinement of `Exchange`; ownership, crashes, count, flight, teardown, wakeups | 2 threads, 4 requests and slots, 2 jobs, 6 sends, xids modulo 32 |
| `engine_faults` | routing, ownership, count and teardown along every error path of the getattr and the read test, reconnects, small files | 1 thread, 3 requests, 2 jobs, 5 sends, xids modulo 36, every fault |
| `engine_ends` | the program ends | 2 threads, 3 requests, 1 job, 4 sends, fairness |
| `recv_mark` | framing with the mark read ahead | 3 records of 1, 4, 6 or 7 bytes, marks of 4, a buffer of 10 |
| `pool` | the pool, its refinement and progress | 2 receive threads, 3 requests, 5 jobs, 2 spurious wakeups |
| `offsets` | the first pass through the file | 2 receive threads, 3 jobs, 6 reads, a file of 3.5 reads |
| `stats` | counts, extremes, records, summary, the end of sampling | 2 threads, the mount's reply and 2 more, 1 or 2 jobs, 1 call sent again, 3 samples a second for a second, sleeps up to 2 ticks too long |
| `startup` | splitting, parsing, mounting | some 3000 command lines of up to two options, two lines typed into the shell, the first a `mount` with up to 4 characters, library calls with lines of up to 4 characters or 6 words |

Why the bounds are enough. Two receive threads and the main thread are all the
roles there are; two threads already make every pair of unlocked accesses
meet. With 4 slots and 6 sends the table is gone round; with xids modulo 32 (11
each) they wrap after three sends. `UMod` has to be a multiple of `ReqMax`, as 2^32 is
of 1024, and prime to the step so that xids do not repeat too early. Five jobs
on three requests put the main thread and a late receive thread to sleep in
the pool at the same time. Records below, at and above the size of a mark
are the cases the early return tells apart; with a mark behind it the one of six bytes
just fits the buffer and that of seven does not. In `stats` two threads, of which one has
the reply of the mount while the main thread clears, make every access without the
lock meet every part of a flush; a test of one second has as many records as
samples, and the loop runs past its end. Sleeps two ticks too long put the loop behind
its next sample, where the difference is negative; lateness is bounded by `MaxLate`.
Four characters are enough for a backslash before
each kind of character inside quotes, and for two words. Numbers are scaled below
TLC's limit on integers; the domain of `uint16_t` is the real one. Deadlock checking is off in the
engine, framing and offset runs: there the program is killed, has lost a job or
has used up the bound on sends, and stops. In `pool`, `stats` and `startup` it is on.

The runs that expect a violation each check one statement of the repository's
own comments, checks or README against the code; `findings` in `PROJECT.json`
quotes it.

| Run | What it shows |
|---|---|
| `engine_in_flight` | two calls in flight with `-j1`, after a callback was read too late |
| `engine_eof_hang` | the server closes early, a job stays counted for ever and the program does not end |
| `recv_nomark` | a record returned without its last four bytes |
| `offsets_past_end` | the read that goes back to the start of the file is sent behind its end |

### Fairness

`NctEngine`: weak fairness for each receive thread, for the main thread and for
the clock. A receive thread's step includes the arrival of a reply, so this
assumes a server that answers something as long as calls are outstanding, which
is what a test tool's run presupposes; when the server has closed, the step is
the end of file. No fairness is assumed of spurious wakeups, nor of a server
that closes early. `ReqPool`: weak fairness for each thread; spurious
wakeups are bounded, so a mutex that is asked for becomes free for good sooner
or later. `RpcRecv`: weak fairness for the caller. `Stats`: weak fairness for the
main thread, which only ever waits for the spin lock, and for a thread inside a
flush or the reconnect path; nothing is assumed of the server, since `SamplerEnds` starts
from the moment the last job has ended.

## 5. Proofs

`NctEngineProofs` proves, for any sets of threads and requests, any table size,
xid step and width with `UMod % ReqMax = 0`, any number of jobs, every test and
any faults:

- `TypeCorrect`: `Spec => []TypeOK`;
- `RepliesAreRouted`: `Spec => []ReplyFindsRequest`;
- `RequestsAreExclusive`: `Spec => []ExclusiveRequest`;
- `CrashesNeedMishaps`: `Spec => []CrashNeedsMishap`.

Neither routing nor ownership is inductive: that a reply finds its request
depends on the request not being sent again before, which depends on nobody else
having it. The inductive invariant `IInv` says, as long as there is no mishap,
that each slot in use holds a request whose xid belongs there (`SlotsHold`),
that outstanding calls and replies being looked up are found and distinct
(`CallsFound`, `RepliesFound`, `RepliesDistinct`), that a thread between lookup
and match holds what the slot holds (`MatchHolds`), that requests claimed by
threads or set aside are distinct and neither free nor parked (`ClaimsDistinct`,
`ClaimsOut`, `AsideDistinct`, `AsideOut`, `ParkedOut`), that the request of the
mount has no callback (`MountPlain`), and that nobody reconnects and nothing has
crashed (`NoReconnect`, `NoCrash`). `QuietStep` and `QuietMove` dispose of the
actions that leave routing alone; `TakeStep`, `SendStep`, `ReceiveStep`,
`LookupStep`, `MatchStep` and `ReleaseStep` treat one kind of transfer each, and
`RecvRoute` and `MainRoute` put the actions together. Mishaps never go away
(`MishapGrows`).

These proofs use `EngineAssumption` only.

`NctEngineJobsProofs` continues them, for finite sets of threads and requests
and fewer jobs than the counters can count (`CountingAssumption`):

- `WakeupIsNotLost`: `Spec => []NoLostWakeup`, whatever has gone wrong;
- `JobsAreCounted`: `Spec => []JobsCounted`;
- `CallsInFlight`: `Spec => []InFlightUnlessMishap`;
- `TeardownIsQuiet`: `Spec => []TeardownQuiet`.

`WakeInv` adds to the types that `mnt_waiters` is one exactly while the main
thread waits, and that the request it waits for has no callback. The count of
jobs is not inductive: that a job ends once depends on one thread having its
request, which is `IInv`. `CountInv` adds to `IInv`, as long as there is no
mishap, that the count is that of the live jobs, of the threads about to take
one off and of the job being started (`Counted`), who has a request with a
callback and who one without (`CallbackHeld`, `MainHolds`, `ParkedLive`), and
how the count stands to the jobs begun (`Bounded`, `NoneYet`, `NoneLeft`). The
calls in flight then map injectively to live jobs, or to the request of the
mount (`FewCalls`).

`NctEngineProofs` proves, too, `EngineIsExchange`: `Spec => ExchangeSpec`, from
`IInv`. As long as there is no mishap each action is one of `Exchange`: what a
thread works on is neither free nor parked (`ReleaseReturns`), the slot of a
call about to be sent is empty, while that of every call on the wire is in use,
so its name is new (`SendCalls`), and the request a reply is handed to is the
one in the slot, which carries its xid (`MatchReplies`). What is left loses
calls at most (`QuietLoses`).

`ReqPoolProofs` proves, for any finite sets of threads and requests with fewer
receive threads than requests (`ReqPoolAssumption`), and any number of jobs:

- `PoolTypeCorrect`: `Spec => []TypeOK`;
- `RequestsAreHandedOutOnce`: `Spec => []Exclusive`;
- `WaitersAreCounted`: `Spec => []WaitersCounted`;
- `NoWakeupIsLost`: `Spec => []NoLostWakeup`;
- `PoolIsFreePool`: `Spec => Pool!Spec`, the refinement without its fairness.

`PoolInv` adds to exclusion that whoever is between lock and unlock has the
mutex (`Locked`), that a thread has exactly one request where it has any and
never returns the one it set aside (`OneRequest`), and that jobs are started one
by one (`OneLeft`). The lemmas `FirstList`, `Popped` and `Pushed` say what the
operations on the list do to its elements. `CountInv` is inductive on top of it:
a push finds `waiters > 0` whenever somebody sleeps, because the sleepers are
counted, and so adds one waking thread for the request it adds; a thread that
goes to sleep has seen an empty list. In the refinement `Pop` grants, `Push`
returns, what uses a request clears `got`, and the lock and the condition
variable are invisible.

`ReadOffsetsProofs` proves, for any finite set of threads, any number of jobs,
any length of a read and size of the file, provided `OffMod` leaves room for
every thread and job to go past the end once (`RoomAssumption`; with 64 bits it
does):

- `OffsetsTypeCorrect`: `Spec => []TypeOK`;
- `FirstPassHasNoGap`: `Spec => []FirstPass`.

`PassInv` says that every block below `pr_offset` has been sent or is held by a
thread (`Covered`), none by two (`NoneTwice`), and that the offsets in use are
below `pr_offset` (`HeldBefore`, `SentBefore`). That the comparison with the
size is that of the numbers (`PastEndExact`) needs a bound on `pr_offset`:
`Room` counts the threads that are past the end, each of which has added one
length, and the jobs that were given up there.

`StartupProofs` is about the whole of `Startup`, the splitter and the parser in
it: for any command lines, lines of the shell and lines given to `clp_parsel`,
and with the tables of the program. It proves

- `WritesInsideBuffer`: `SplitSpec => []BufferBound`, for the splitter alone,
  and `StartupStaysInBuffer`: `Spec => []BufferBound`, for the program;
- `StartupTypesHold`: `Spec => []StartupTypeOK`;
- `AcceptedLinesAreSound`: `Spec => []AcceptedLine`;
- `EveryArgumentIsHandedOut`: `Spec => []ArgumentsHandedOut`;
- `MountsItsArgument`: `Spec => []MountsWhatWasAsked`;
- `SplitsAsDescribed`: `Spec => []SplitAsDescribed`, if no call of `clp_parsel`
  has a quote, a backslash or an octal digit among its delimiters.

The assumptions say what the declarations of the C code say: the classes of
characters are classes of characters, a NUL is no delimiter, digit, letter or
quote, and spaces, digits and the backslash and quotes have none in common
(`SplitAssumption`); the tables are made of options and parameters
whose fields have their types, the domains of numbers contain zero, a variable
starts inside its domain and no two options convert to one variable differently
(`OptionsAssumption`); the tables are those of `main()`, the tests, the shell
and the library call, `argv[0]` is there, and a line has no NUL before its end
(`StartupAssumption`). The theorems are about the program's own tables; the lemmas
about the parser itself use `OptionsAssumption` only.

*The splitter.* In `SplitInv` the buffer is behind the line, by one more after a
backslash (`KeepsUp`), and every word has a NUL of its own in it (`WordsEnd`).
An octal number ends somewhere by the well-foundedness of the natural numbers
(`FirstExists`). That the words handed to the parser are sequences of characters
is `WordsOK`.

*The words.* `SplitDoc` speaks of the whole line: whether a character is escaped
is a matter of how many backslashes stand before it, the quote that is open and
the text behind the last delimiter are recursive functions over the line, and
the place of a word is the number of word ends before its own. The proof brings
that to the step the loop makes. `EscapedNext` says of one position from the one
before whether it is escaped, `QuotesInTurn` and `TextsInTurn` do so for the
functions, by the lemmas of `Recursion`; `ReadsEscaped`, `ReadsNumber`,
`ReadsBackslash`, `ReadsQuote`, `ReadsDelimiter` and `ReadsOther` say it for each
kind of character, and `RankOfNext`, `RankStays` and `RanksDiffer` for the
places. `DocInv` is what holds between two characters: the flags are those of
the quote that is open (`Opened`), the end of the buffer is the text behind the
last delimiter (`Stands`), no number goes on here, and the words that have ended
are in the buffer, in order (`StoredTo`). Each action keeps it by a lemma of its
own (`NumberReads`, `EscapedReads`, `EscapeReads`, `QuoteReads`,
`DelimiterReads`, `CopyReads`), and behind the Nul it makes the words those of
`DocWords` (`DocWordsStored`). The condition on delimiters is needed: the comment
does not say what a delimiter that is a quote, too, would mean, and the code
takes it for the quote.

*The parser.* `ParseInv` has three parts. `ParseTypes` contains that `optind`
stays inside `argv` and that a number is inside its domain. `OptionsInv` says,
for each moment of the `getopt` loop, that the letters counted are those seen,
that no two of them exclude each other, which option's parameters are in force,
and that the callbacks run and left are the options in the order of their first
appearance. `PositionsInv` says when the number of the arguments is known to be
inside the limits and the distribution to be that of `Shares`. The distribution
itself is arithmetic: as long as it runs, the parameters behind the current one
need at most what is left and allow at least that (`Kept`, by `NextShareKeeps`,
along the vector in `SharesAddUp`), so nothing is over at the end, and the pairs
of parameters and arguments come out in order, each required parameter with one
(`HandedOut`, `DistributedWell`). All of it holds for a vector of any length.

*The mount.* `EndedInv` says, until the conversions are over, how many arguments
are converted, and that the first of them is in `str["rhostpath"]`; `RemoteInv`
follows that string from the line of `main()` through the line of the test to
the request to mount. That `ParsePath` spells what it was given is
`PathSpelled`, by the cuts at the first `@` and at the first colon behind it
(`StrchrFinds`, `CutInTwo`); there is no condition on the path.

`RpcRecvProofs` proves, for any number of fragments, any lengths, any size of a
mark and any pieces:

- `TypesHold`: `Spec => []TypeOK`, with and without the read-ahead;
- `NeverWaitsForMark`: `Spec => []NoWaitForMark`, if no fragment is empty;
- `NeverOverrunsBuffer`: `Spec => []BufferBound`, with and without the read-ahead;
- `StaysInStep`: `Spec => []InStep`, if the mark is read ahead and none but that
  of a last fragment is zero;
- `BufferAlwaysHasRecord`: after each call the buffer holds the fragments of the
  next record, joined, and nothing else, on the same conditions;
- `ReturnsWholeRecords`: `Spec => []ReturnsRecord`, if the mark is read ahead,
  for records of one fragment.

The hypotheses are the conditions of the code. The mark is read ahead with more
than three jobs; without it `recv_nomark` shows that records are cut short. A
mark of zero, an empty fragment that is not its record's last, is what the code
uses for "no mark" (`NoZeroMarks`). And of a record of several fragments only
the last one's length is returned, while the buffer has them all.
`NeverWaitsForMark` needs fragments that are not empty since a call for an empty
record asks for nothing but the next mark, and does wait for it. `FrameInv` says
where in the stream a call is, with `nleft` and the mark it keeps (`InBody`,
`KeptMark`, `NotAtEnd`); `RoomInv` that what is left to read fits what is left of the
buffer; `RecordInv` adds what has been read of the current
record (`Waits`, `Fills`) and what a call has returned (`Gives`). The ends of
fragments and the numbers of records are functions defined by recursion over the
stream, which exist, have their types and grow by the lemmas of `Recursion`
(`EndsAreSums`, `RecordsAreCounts`).

`Recursion` has what those proofs rest on, for any set and any step:
`NatSetInduction` and `IntervalInduction`, induction where the property is a set
of numbers, from the well-foundedness of `Nat`; `RecursiveFunctionExists`, that
a recursive definition over `0 .. n` has a solution; `RecursiveFunctionType`,
that its values stay in a set its step stays in.

`StatsProofs` proves, for any threads, replies, latencies, options, rates and
durations (`StatsAssumption`):

- `StatsTypeCorrect`: `Spec => []TypeOK`;
- `RepliesAreCountedOnce`: `Spec => []CountedOnce`;
- `ExtremesAreOfTheWindow`: `Spec => []WindowExtremes`;
- `RecordsOnlyGrow`: `Spec => []RecordsGrow`;
- `SummaryIsOfTheRecords`: `Spec => []SummaryAddsUp`, for finitely many replies.

`CountInv` there adds that the lock is with the thread inside a flush
(`Locked`), that before the jobs start there is one call (`Opening`), that a
local record has the latencies of its replies (`Same`), and that what a flush or
a reconnect is about to write back is still what it has to be (`Flushing`,
`Resending`). `WindowInv` adds the same for the extremes (`Extremes`), with the latency a
thread compares being one of its batch (`Compared`).
`RecordsInv` adds that no flush takes requests back (`NeverLess`), which the
records are written (`InOrder`) and that they are ordered among each other and
below `mnt_stats` (`Ordered`).

`Complete` says for the summary that the records are written from the first on
without a gap, until the loop leaves; the sum of the differences then
telescopes, by `IntervalInduction`.

What stays with TLC: what the runs that expect a violation check, and liveness
(`EndsUnlessMishap`, `Delivers`, `AllJobsStart`, `SamplerEnds`, the fairness of
`PoolSpec`), which is out of the prover's reach.

## 6. Not modelled

The deadlines of the tests: an expiry is an event. How often statistics are
flushed (`tsc_stats`), the calibration of the clock, the averages and extremes
of the summary other than the sum and the average of the requests, the files and
graphs. The memory mapping of the pool. The encoders of calls and the values
decoded from replies, which are straight-line conversions; the opaque
credentials. Of the command line parser: help and usage texts, which change no
state a later line sees; the conversions to `bool` and to open files; lists of
numbers; subcommands, which no table of the program has; the freeing of the
strings of earlier values. Of the shell: the help text and line editing. The
vnode, which is never changed once the jobs run. Records of more than one
fragment are in `RpcRecv` and its proofs; no run has them, since the code
returns only the last fragment's length and no NFS server is expected to send
them. A descriptor closed by `nct_connect` and opened again by someone else
while a thread is inside `recv()`.

## 7. What the models show beside their properties

These are behaviours the models have to reproduce. The first three contradict what the
repository says of them. No run of their own expects them: the properties of the runs
hold in spite of them, and each property says what the code does give.

- *Extremes.* `nct_mount.h:34-35` calls `latency_min` and `latency_max` "Min latency of
  completed requests" and "Max latency of completed requests". A flush adds all replies a
  thread has gathered, but compares only the latency of the last of them
  (`nct_req.c:198-201`): the extremes of a batch may be lost (`FlushLoad` in `Stats`).
- *Late samples.* `nct.c:151` says that samples are collected "every 100ms",
  `src/README.md:150` speaks of a "fixed interval of 100ms". A sample that is late makes the
  difference to its time negative; with a cycle counter it is taken for a huge one
  (`nct.c:210`), and the loop sleeps for what is left of it after the division and in the 32
  bits of `usleep` (`Delta`, `Nap`). `stats` runs with such sleeps; no property bounds them.
- *An `@` in the directory.* `nct_mount.c:93` says "Where path is:
  [user@]host[:/export...]", and the shell's help `[user@]rhost:path`
  (`nct_shell.c:112`). `host:/dir@x` has that form, without a user, and is
  taken apart into the user `host:/dir` and the server `x` (`ParsePath`).
- The latency of a call that is sent again after a reconnect is added twice,
  once by the reconnect path and once by its reply (`Resends` in `Stats`).
- The average number of requests in the summary divides by one period more than the
  records span (`average` in `Summary`, `nct.c:407`).
- `\8` and `\9` write a NUL, since `strtoul` finds no digit and the digit is read again; so
  does an octal number whose last eight bits are zero.
- The shell prints `errbuf` as an earlier command left it, when `mount` fails in its parser.
- `inf` and `nan` as the value of a number skip the check of its domain.

*What the conditions leave out.* `JobsCounted`, `CrashNeedsMishap`, `EndsUnlessMishap` and
the other properties of the engine hold until a mishap, `CountedOnce` and
`WindowExtremes` until `torn`. They show that nothing else goes wrong. Of the mishaps and
the unlocked accesses themselves they show nothing, and the hazards of those lines name no
property.
