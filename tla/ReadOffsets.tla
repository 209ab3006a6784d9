---------------------------- MODULE ReadOffsets ----------------------------
(***************************************************************************)
(* The read test: how its jobs share pr_offset, the place in the file from *)
(* which the next read is done.  The main thread starts the jobs with      *)
(* test_read_start, the receive threads keep them going with test_read_cb. *)
(* Each __sync operation and each plain load is an action.                 *)
(***************************************************************************)
EXTENDS Integers, Sequences, FiniteSets, SequencesExt

CONSTANTS RecvThreads,  \* the threads that call test_read_cb
          Main,         \* the thread that calls test_read_start
          JobsMax,      \* the jobs to start (option -j)
          Length,       \* pr_length
          Size,         \* xvn_fattr.size
          OffMod,       \* 2^64: offset + pr_length is compared as a size_t
          MaxReads      \* bound: reads sent, past it every job has expired

Actors == RecvThreads \cup {Main}

ASSUME ReadOffsetsAssumption ==
  /\ Main \notin RecvThreads
  /\ JobsMax \in Nat /\ MaxReads \in Nat
  /\ Length \in Nat \ {0} /\ Size \in Nat
  /\ OffMod \in Nat /\ OffMod > Size + Length

(* However far the threads run past the end of the file, adding the length *)
(* of a read does not wrap around.                                         *)
ASSUME RoomAssumption ==
  /\ IsFiniteSet(RecvThreads)
  /\ OffMod > Size + (Cardinality(RecvThreads) + JobsMax + 1) * Length

VARIABLES
  prOffset,  \* priv->pr_offset
  pc,        \* where each thread is
  offset,    \* its local variable
  loaded,    \* what it has loaded of pr_offset to subtract
  calls,     \* reads the server has not answered
  starts,    \* jobs that have not been started yet
  sent,      \* history: the offsets of the reads sent, in order
  wrapped    \* history: somebody has gone back to the start of the file

vars == <<prOffset, pc, offset, loaded, calls, starts, sent, wrapped>>

Init ==
  /\ prOffset = 0 /\ wrapped = FALSE
  /\ pc = [a \in Actors |-> "idle"]
  /\ offset = [a \in Actors |-> 0]
  /\ loaded = [a \in Actors |-> 0]
  /\ calls = 0 /\ starts = JobsMax /\ sent = <<>>

Goto(a, l) == pc' = [pc EXCEPT ![a] = l]

-----------------------------------------------------------------------------
(* main calls test_read_start for the next job.                            *)
Start ==
  /\ pc[Main] = "idle" /\ starts > 0
  /\ starts' = starts - 1
  /\ Goto(Main, "add")
  /\ UNCHANGED <<prOffset, offset, loaded, calls, sent, wrapped>>

(* A reply arrives whose job has not expired: test_read_cb.                *)
Reply(t) ==
  /\ pc[t] = "idle" /\ calls > 0 /\ Len(sent) < MaxReads
  /\ calls' = calls - 1
  /\ Goto(t, "add")
  /\ UNCHANGED <<prOffset, offset, loaded, starts, sent, wrapped>>

(* Variants for testing the properties: the offset is only loaded; it is   *)
(* that of the last byte read.                                             *)
NotAdvanced == prOffset
AdvancedToLast == prOffset + Length - 1

(* __sync_fetch_and_add(&priv->pr_offset, priv->pr_length)                 *)
Advanced == prOffset + Length

Add(a) ==
  /\ pc[a] = "add"
  /\ offset' = [offset EXCEPT ![a] = prOffset]
  /\ prOffset' = Advanced
  /\ Goto(a, "check")
  /\ UNCHANGED <<loaded, calls, starts, sent, wrapped>>

(* offset + priv->pr_length > vn->xvn_fattr.size, in unsigned arithmetic   *)
PastEnd(o) == (o + Length) % OffMod > Size

(* Past the end of the file the callback goes back to its start, the start *)
(* function gives up and the job is never started.                         *)
Check(a) ==
  /\ pc[a] = "check"
  /\ Goto(a, CASE ~PastEnd(offset[a]) -> "send"
               [] PastEnd(offset[a]) /\ a # Main -> "load"
               [] PastEnd(offset[a]) /\ a = Main -> "idle")
  /\ UNCHANGED <<prOffset, offset, loaded, calls, starts, sent, wrapped>>

(* The operand of the subtraction.                                         *)
Load(t) ==
  /\ pc[t] = "load"
  /\ loaded' = [loaded EXCEPT ![t] = prOffset]
  /\ Goto(t, "sub")
  /\ UNCHANGED <<prOffset, offset, calls, starts, sent, wrapped>>

(* What the subtraction leaves.                                            *)
Back(t) == prOffset - loaded[t]

(* __sync_fetch_and_sub: returns the value from before.                    *)
Sub(t) ==
  /\ pc[t] = "sub"
  /\ offset' = [offset EXCEPT ![t] = prOffset]
  /\ prOffset' = Back(t)
  /\ wrapped' = TRUE
  /\ Goto(t, "send")
  /\ UNCHANGED <<loaded, calls, starts, sent>>

(* nct_nfs_read3_encode and nct_req_send.                                  *)
Send(a) ==
  /\ pc[a] = "send"
  /\ sent' = Append(sent, offset[a])
  /\ calls' = calls + 1
  /\ Goto(a, "idle")
  /\ UNCHANGED <<prOffset, offset, loaded, starts, wrapped>>

Next ==
  \/ Start
  \/ \E t \in RecvThreads : Reply(t) \/ Load(t) \/ Sub(t)
  \/ \E a \in Actors : Add(a) \/ Check(a) \/ Send(a)

Spec == Init /\ [][Next]_vars

-----------------------------------------------------------------------------
(* Properties.                                                             *)

Pcs == {"idle", "add", "check", "load", "sub", "send"}

(* The offsets are multiples of the length, even those that are negative.  *)
Blocks == {o \in Int : o % Length = 0}

TypeOK ==
  /\ prOffset \in Blocks
  /\ pc \in [Actors -> Pcs]
  /\ offset \in [Actors -> Blocks] /\ loaded \in [Actors -> Blocks]
  /\ calls \in Nat /\ starts \in 0..JobsMax
  /\ sent \in Seq(Blocks) /\ wrapped \in BOOLEAN

(* The threads that have an offset and have not used it yet.               *)
Holding == {a \in Actors : pc[a] \in {"check", "load", "sub", "send"}}

(* Until somebody goes back to the start of the file, the threads read it  *)
(* from its start without a gap, no block twice and none past its end,     *)
(* whichever way they interleave (test_read_start, test_read_cb).          *)
FirstPass ==
  ~wrapped =>
    /\ IsInjective(sent)
    /\ \A a, b \in Holding : a # b => offset[a] # offset[b]
    /\ \A a \in Holding : offset[a] \notin ToSet(sent)
    /\ \A o \in ToSet(sent) : o >= 0 /\ o + Length <= Size
    /\ \A k \in 0..(prOffset - 1) :
         k % Length = 0 /\ k + Length <= Size =>
           k \in ToSet(sent) \cup {offset[a] : a \in Holding}

(* Refuted: every read is of a part of the file (README: "read             *)
(* sequentially through the file until the test duration has elapsed").    *)
ReadsInFile == \A i \in DOMAIN sent : sent[i] >= 0 /\ sent[i] + Length <= Size
=============================================================================
