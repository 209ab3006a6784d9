------------------------------ MODULE RpcRecv ------------------------------
(***************************************************************************)
(* nct_rpc_recv: the framing of RPC records out of a TCP byte stream.  A   *)
(* record is a series of fragments, each behind a mark of MarkSz bytes     *)
(* that has its length and says whether it is the last of its record.  TCP *)
(* delivers the bytes in pieces of any size.  A byte is its position in    *)
(* the stream, the value of a mark is the fragment it stands before.       *)
(***************************************************************************)
EXTENDS Integers, Sequences

CONSTANTS MarkSz,     \* sizeof(uint32_t): 4
          Lengths,    \* the lengths a fragment may have
          LastBits,   \* {TRUE}: every record is one fragment
          Fragments,  \* bound: the fragments the server sends
          BufSz,      \* bufsz: the size of the caller's buffer
          UseMark     \* markp # NULL: more than 3 jobs

ASSUME RpcRecvAssumption ==
  /\ MarkSz \in Nat \ {0}
  /\ Lengths \subseteq Nat
  /\ LastBits \subseteq BOOLEAN
  /\ Fragments \in Nat \ {0}
  /\ BufSz \in Nat
  /\ UseMark \in BOOLEAN

None == 0                         \* *markp = 0
Frags == 1..Fragments

VARIABLES
  stream,   \* the fragments the server sends
  arrived,  \* bytes the socket has received
  closed,   \* the server sends no more
  pos,      \* bytes recv() has returned
  pc,       \* "again", "body", "returned", or how the call failed
  mark,     \* the local mark, a fragment
  nextMark, \* *markp, a fragment or None
  nleft,    \* bytes to read
  buf,      \* the caller's buffer up to the local pointer buf: bufsz is what
            \* is left of it
  ret,      \* what the call returned
  calls     \* calls that have returned a record

vars == <<stream, arrived, closed, pos, pc, mark, nextMark, nleft, buf, ret, calls>>

(* Where the first k fragments of a stream end.                            *)
Ends(s) ==
  LET end[k \in 0..Fragments] == IF k = 0 THEN 0 ELSE end[k - 1] + (MarkSz + s[k].len)
  IN end

(* Where the mark of the k-th fragment starts.                             *)
Start(k) == Ends(stream)[k - 1]
Total == Ends(stream)[Fragments]

(* The n bytes behind position p.                                          *)
Bytes(p, n) == [i \in 1..n |-> p + i]

(* The fragments whose mark is at position p: one, or none at all.         *)
MarkAt(p) == {k \in Frags : Start(k) = p}

(* No mark is kept.  A kept mark of zero, an empty fragment that is not    *)
(* the last, is taken for none.                                            *)
NoNextMark == nextMark \in {None} \cup {k \in Frags : stream[k].len = 0 /\ ~stream[k].last}

Init ==
  /\ stream \in [Frags -> [len : Lengths, last : LastBits]]
  /\ stream[Fragments].last
  /\ arrived = 0 /\ closed = FALSE
  /\ pos = 0 /\ pc = "again" /\ mark = 1 /\ nextMark = None
  /\ nleft = 0 /\ buf = <<>> /\ ret = 0 /\ calls = 0

-----------------------------------------------------------------------------
(* The network.                                                            *)
Arrive(n) ==
  /\ ~closed /\ arrived + n <= Total
  /\ arrived' = arrived + n
  /\ UNCHANGED <<stream, closed, pos, pc, mark, nextMark, nleft, buf, ret, calls>>

Close ==
  /\ ~closed /\ closed' = TRUE
  /\ UNCHANGED <<stream, arrived, pos, pc, mark, nextMark, nleft, buf, ret, calls>>

-----------------------------------------------------------------------------
(* Variants for testing the properties: the mark behind the body is not    *)
(* asked for; the length is taken to include the fragment's own mark.      *)
WantBodyOnly(k) == stream[k].len
WantLessMark(k) == stream[k].len - (IF UseMark THEN MarkSz ELSE 0)

(* What is left to read once the mark is known.                            *)
Want(k) == stream[k].len + (IF UseMark THEN MarkSz ELSE 0)

(* Variant for testing the properties: room for the record alone.          *)
FitsAlone(k) == stream[k].len <= BufSz - Len(buf)

(* ~(recsz + marksz > bufsz): the record and the mark behind it fit.       *)
Fits(k) == stream[k].len + MarkSz <= BufSz - Len(buf)

(* The mark was read by an earlier pass.                                   *)
UseNextMark ==
  /\ pc = "again" /\ ~NoNextMark /\ Fits(nextMark)
  /\ mark' = nextMark
  /\ nleft' = Want(nextMark)
  /\ pc' = "body"
  /\ UNCHANGED <<stream, arrived, closed, pos, nextMark, buf, ret, calls>>

(* recv(&mark, MSG_WAITALL).  Behind "lost" the program takes other bytes  *)
(* for a mark, and the model stops.                                        *)
ReadMark ==
  /\ pc = "again" /\ NoNextMark
  /\ arrived - pos >= MarkSz
  /\ pos' = pos + MarkSz
  /\ \/ /\ MarkAt(pos) = {} /\ pc' = "lost"
        /\ UNCHANGED <<mark, nleft>>
     \/ \E k \in MarkAt(pos) :
          /\ Fits(k)
          /\ mark' = k /\ nleft' = Want(k) /\ pc' = "body"
  /\ UNCHANGED <<stream, arrived, closed, nextMark, buf, ret, calls>>

(* abort(): what the mark announces does not fit.                          *)
TooLarge ==
  /\ pc = "again"
  /\ \/ ~NoNextMark /\ ~Fits(nextMark) /\ UNCHANGED pos
     \/ /\ NoNextMark /\ arrived - pos >= MarkSz
        /\ \E k \in MarkAt(pos) : ~Fits(k)
        /\ pos' = pos + MarkSz
  /\ pc' = "aborted"
  /\ UNCHANGED <<stream, arrived, closed, mark, nextMark, nleft, buf, ret, calls>>

(* recv() returns 0, or less than a mark.                                  *)
ReadEof ==
  /\ closed
  /\ \/ pc = "again" /\ NoNextMark /\ arrived - pos < MarkSz
     \/ pc = "body" /\ nleft > 0 /\ arrived = pos
  /\ pc' = "eof"
  /\ UNCHANGED <<stream, arrived, closed, pos, mark, nextMark, nleft, buf, ret, calls>>

(* recv() returns -1, and so does the call.                                *)
RecvFails ==
  /\ \/ pc = "again" /\ NoNextMark
     \/ pc = "body" /\ nleft > 0
  /\ pc' = "failed"
  /\ UNCHANGED <<stream, arrived, closed, pos, mark, nextMark, nleft, buf, ret, calls>>

(* Variants for testing the properties: the early return is left out; it   *)
(* is taken inside the mark too.                                           *)
NeverStops(left) == FALSE
StopsInside(left) == stream[mark].last /\ left <= MarkSz

(* last && nleft == marksz                                                 *)
StopsAt(left) == stream[mark].last /\ left = MarkSz

(* One recv() of the loop, and the return where only the next mark is      *)
(* missing, or seems to be.                                                *)
ReadBody(cc) ==
  /\ pc = "body" /\ cc \in 1..nleft /\ cc <= arrived - pos
  /\ pos' = pos + cc
  /\ nleft' = nleft - cc
  /\ buf' = buf \o Bytes(pos, cc)
  /\ IF StopsAt(nleft')
       THEN /\ pc' = "returned" /\ ret' = stream[mark].len
            /\ nextMark' = None
       ELSE UNCHANGED <<pc, ret, nextMark>>
  /\ UNCHANGED <<stream, arrived, closed, mark, calls>>

(* buf -= marksz                                                           *)
DropMark(s) == SubSeq(s, 1, Len(s) - MarkSz)

(* The loop has ended: the last bytes read are the next mark.              *)
EndOfBody ==
  /\ pc = "body" /\ nleft = 0
  /\ \/ /\ UseMark
        /\ nextMark' \in MarkAt(pos - MarkSz)
        /\ buf' = DropMark(buf)
     \/ ~UseMark /\ UNCHANGED <<nextMark, buf>>
  /\ IF stream[mark].last
       THEN pc' = "returned" /\ ret' = stream[mark].len
       ELSE pc' = "again" /\ UNCHANGED ret
  /\ UNCHANGED <<stream, arrived, closed, pos, mark, nleft, calls>>

(* The caller has processed the record and calls again.                    *)
CallAgain ==
  /\ pc = "returned"
  /\ pc' = "again" /\ buf' = <<>>
  /\ calls' = calls + 1
  /\ UNCHANGED <<stream, arrived, closed, pos, mark, nextMark, nleft, ret>>

Receive ==
  \/ UseNextMark \/ ReadMark \/ TooLarge \/ ReadEof \/ EndOfBody \/ CallAgain
  \/ \E cc \in 1..nleft : ReadBody(cc)

Next ==
  \/ \E n \in 1..Total : Arrive(n)
  \/ Close
  \/ RecvFails
  \/ Receive

Spec == Init /\ [][Next]_vars
FairSpec == Spec /\ WF_vars(Receive)

-----------------------------------------------------------------------------
(* Properties.                                                             *)

TypeOK ==
  /\ arrived \in 0..Total /\ pos \in 0..arrived
  /\ pc \in {"again", "body", "returned", "eof", "failed", "aborted", "lost"}
  /\ mark \in Frags /\ nextMark \in Frags \cup {None}
  /\ nleft \in Nat /\ ret \in Nat /\ calls \in Nat

(* How many records end in the first k fragments.                          *)
RecordsTo(s) ==
  LET records[k \in 0..Fragments] ==
        IF k = 0 THEN 0 ELSE records[k - 1] + (IF s[k].last THEN 1 ELSE 0)
  IN records

(* What the k-th fragment is joined to: the fragments before it of the     *)
(* same record, given what the fragments up to the one before it join to.  *)
OpensRecord(s, k) == k = 1 \/ s[k - 1].last
Joined(s) ==
  LET joined[k \in 0..Fragments] ==
        IF k = 0 THEN <<>>
        ELSE (IF OpensRecord(s, k) THEN <<>> ELSE joined[k - 1])
               \o Bytes(Ends(s)[k - 1] + MarkSz, s[k].len)
  IN joined

(* The k-th fragment is the last of the n-th record.                       *)
EndsRecord(k, n) == stream[k].last /\ RecordsTo(stream)[k] = n

(* Each call returns the whole of the next record and nothing else, and    *)
(* says how long it is (nct_rpc_recv, its early return and its last one).  *)
ReturnsRecord ==
  pc = "returned" =>
    \E k \in Frags :
      /\ EndsRecord(k, calls + 1)
      /\ buf = Joined(stream)[k] /\ ret = Len(buf)

(* Between two calls the stream is at a mark, or a mark is kept behind     *)
(* which the stream is: no byte is skipped and none is read twice.         *)
InStep ==
  /\ pc # "lost"
  /\ pc = "returned" =>
       IF nextMark = None THEN pos = Total \/ MarkAt(pos) # {}
                          ELSE pos = Start(nextMark) + MarkSz

(* Neither a record, nor the mark read ahead behind it, is written behind  *)
(* the end of the caller's buffer, whatever lengths the marks announce and *)
(* however many fragments are joined (nct_rpc_recv, recsz + marksz against *)
(* bufsz, with bufsz and buf moved on and back).                           *)
BufferBound == Len(buf) <= BufSz

(* A record that has arrived in full is not held back for the sake of the  *)
(* mark behind it, unless a part of that mark has arrived too.             *)
NoWaitForMark ==
  pc = "body" /\ stream[mark].last /\ nleft > 0 =>
    pos < Start(mark) + MarkSz + stream[mark].len \/ pos > Start(mark) + MarkSz + stream[mark].len

(* Every record that has arrived in full is returned, whether or not       *)
(* anything follows it and even if the connection is closed behind it,     *)
(* unless recv() fails, or it or one before it does not fit the buffer.    *)
Returned == calls + (IF pc = "returned" THEN 1 ELSE 0)
AllFit(s, k) == \A j \in 1..k : Len(Joined(s)[j]) + MarkSz <= BufSz
Delivers ==
  \A k \in Frags :
    stream[k].last /\ AllFit(stream, k) /\ arrived = Ends(stream)[k]
      ~> \/ Returned >= RecordsTo(stream)[k]
         \/ arrived > Ends(stream)[k]
         \/ pc = "failed"
=============================================================================
