--------------------------- MODULE RpcRecvProofs ---------------------------
(* nct_rpc_recv stays in step with the marks of the stream and returns the *)
(* records the server sent, for streams of any length.                     *)
EXTENDS RpcRecv, Recursion, SequenceTheorems

Streams == [Frags -> [len : Lengths, last : LastBits]]

-----------------------------------------------------------------------------
(* The functions that describe a stream.                                   *)

(* Every fragment ends a mark and its own length behind the one before.    *)
LEMMA EndsAreSums ==
  ASSUME NEW s \in Streams
  PROVE  /\ Ends(s) \in [0 .. Fragments -> Nat]
         /\ Ends(s)[0] = 0
         /\ \A k \in Frags : Ends(s)[k] = Ends(s)[k - 1] + (MarkSz + s[k].len)
  <1> DEFINE step == [p \in (Nat) \X (1 .. Fragments) |-> p[1] + (MarkSz + s[p[2]].len)]
             Def(g) == [k \in 0 .. Fragments |-> IF k = 0 THEN 0 ELSE g[k - 1] + (MarkSz + s[k].len)]
  <1>1. Fragments \in Nat /\ MarkSz \in Nat /\ \A k \in 1 .. Fragments : s[k].len \in Nat
    BY RpcRecvAssumption DEF Streams, Frags
  <1>2. step \in Steps(Fragments, Nat)
    BY <1>1 DEF Steps
  <1>3. 0 \in Nat
    OBVIOUS
  <1>4. PICK f : Solution(f, Fragments, Nat, 0, step)
    <2>. HIDE DEF step
    <2>. QED
      BY <1>1, <1>2, <1>3, RecursiveFunctionExists
  <1>5. /\ f \in [0 .. Fragments -> Nat]
        /\ f = [i \in 0 .. Fragments |-> IF i = 0 THEN 0 ELSE step[<<f[i - 1], i>>]]
    <2>. HIDE DEF step
    <2>. QED
      BY <1>4 DEF Solution
  <1>6. ASSUME NEW x \in Nat, NEW i \in 1 .. Fragments
        PROVE  step[<<x, i>>] = x + (MarkSz + s[i].len)
    OBVIOUS
  <1>7. f = Def(f)
    <2>. HIDE DEF step
    <2>1. \A i \in 0 .. Fragments : i # 0 => i \in 1 .. Fragments /\ i - 1 \in 0 .. Fragments
      BY <1>1
    <2>2. \A i \in 0 .. Fragments : f[i] \in Nat
      BY <1>5
    <2>. QED
      BY <1>5, <1>6, <2>1, <2>2
  <1>8. Ends(s) = Def(Ends(s))
    <2>1. Ends(s) = CHOOSE g : g = Def(g)
      BY DEF Ends
    <2>. QED
      BY <1>7, <2>1
  <1>9. \A i \in 0 .. Fragments : Ends(s)[i] = IF i = 0 THEN 0 ELSE Ends(s)[i - 1] + (MarkSz + s[i].len)
    BY <1>8
  <1>10. Ends(s)[0] = 0 /\ \A i \in 1 .. Fragments : Ends(s)[i] = Ends(s)[i - 1] + (MarkSz + s[i].len)
    <2>1. 0 \in 0 .. Fragments /\ \A i \in 1 .. Fragments : i \in 0 .. Fragments /\ i # 0
      BY <1>1
    <2>. QED
      BY <1>9, <2>1
  <1>11. Follows(Ends(s), Fragments, Nat, 0, step)
    <2>1. Ends(s) = [i \in 0 .. Fragments |-> Ends(s)[i]]
      BY <1>8
    <2>. HIDE DEF step
    <2>. QED
      BY <1>6, <1>10, <2>1 DEF Follows
  <1>12. Ends(s) \in [0 .. Fragments -> Nat]
    <2>. HIDE DEF step
    <2>. QED
      BY <1>1, <1>2, <1>3, <1>11, RecursiveFunctionType
  <1>. QED
    BY <1>10, <1>12 DEF Frags

(* A record is counted at its last fragment.                               *)
LEMMA RecordsAreCounts ==
  ASSUME NEW s \in Streams
  PROVE  /\ RecordsTo(s) \in [0 .. Fragments -> Nat]
         /\ RecordsTo(s)[0] = 0
         /\ \A k \in Frags :
              RecordsTo(s)[k] = RecordsTo(s)[k - 1] + (IF s[k].last THEN 1 ELSE 0)
  <1> DEFINE step == [p \in (Nat) \X (1 .. Fragments) |-> p[1] + (IF s[p[2]].last THEN 1 ELSE 0)]
             Def(g) == [k \in 0 .. Fragments |-> IF k = 0 THEN 0 ELSE g[k - 1] + (IF s[k].last THEN 1 ELSE 0)]
  <1>1. Fragments \in Nat
    BY RpcRecvAssumption
  <1>2. step \in Steps(Fragments, Nat)
    BY DEF Steps
  <1>3. 0 \in Nat
    OBVIOUS
  <1>4. PICK f : Solution(f, Fragments, Nat, 0, step)
    <2>. HIDE DEF step
    <2>. QED
      BY <1>1, <1>2, <1>3, RecursiveFunctionExists
  <1>5. /\ f \in [0 .. Fragments -> Nat]
        /\ f = [i \in 0 .. Fragments |-> IF i = 0 THEN 0 ELSE step[<<f[i - 1], i>>]]
    <2>. HIDE DEF step
    <2>. QED
      BY <1>4 DEF Solution
  <1>6. ASSUME NEW x \in Nat, NEW i \in 1 .. Fragments
        PROVE  step[<<x, i>>] = x + (IF s[i].last THEN 1 ELSE 0)
    OBVIOUS
  <1>7. f = Def(f)
    <2>. HIDE DEF step
    <2>1. \A i \in 0 .. Fragments : i # 0 => i \in 1 .. Fragments /\ i - 1 \in 0 .. Fragments
      BY <1>1
    <2>2. \A i \in 0 .. Fragments : f[i] \in Nat
      BY <1>5
    <2>. QED
      BY <1>5, <1>6, <2>1, <2>2
  <1>8. RecordsTo(s) = Def(RecordsTo(s))
    <2>1. RecordsTo(s) = CHOOSE g : g = Def(g)
      BY DEF RecordsTo
    <2>. QED
      BY <1>7, <2>1
  <1>9. \A i \in 0 .. Fragments : RecordsTo(s)[i] = IF i = 0 THEN 0 ELSE RecordsTo(s)[i - 1] + (IF s[i].last THEN 1 ELSE 0)
    BY <1>8
  <1>10. RecordsTo(s)[0] = 0 /\ \A i \in 1 .. Fragments : RecordsTo(s)[i] = RecordsTo(s)[i - 1] + (IF s[i].last THEN 1 ELSE 0)
    <2>1. 0 \in 0 .. Fragments /\ \A i \in 1 .. Fragments : i \in 0 .. Fragments /\ i # 0
      BY <1>1
    <2>. QED
      BY <1>9, <2>1
  <1>11. Follows(RecordsTo(s), Fragments, Nat, 0, step)
    <2>1. RecordsTo(s) = [i \in 0 .. Fragments |-> RecordsTo(s)[i]]
      BY <1>8
    <2>. HIDE DEF step
    <2>. QED
      BY <1>6, <1>10, <2>1 DEF Follows
  <1>12. RecordsTo(s) \in [0 .. Fragments -> Nat]
    <2>. HIDE DEF step
    <2>. QED
      BY <1>1, <1>2, <1>3, <1>11, RecursiveFunctionType
  <1>. QED
    BY <1>10, <1>12 DEF Frags

(* What fragment k is joined to.                                           *)
Before(s, k) == IF OpensRecord(s, k) THEN <<>> ELSE Joined(s)[k - 1]

LEMMA BytesType ==
  ASSUME NEW p \in Nat, NEW n \in Nat
  PROVE  Bytes(p, n) \in Seq(Nat) /\ Len(Bytes(p, n)) = n
  BY DEF Bytes

LEMMA JoinedBytes ==
  ASSUME NEW s \in Streams
  PROVE  /\ Joined(s) \in [0 .. Fragments -> Seq(Nat)]
         /\ \A k \in Frags :
              Joined(s)[k] = Before(s, k) \o Bytes(Ends(s)[k - 1] + MarkSz, s[k].len)
  <1> DEFINE step == [p \in (Seq(Nat)) \X (1 .. Fragments) |-> (IF OpensRecord(s, p[2]) THEN <<>> ELSE p[1]) \o Bytes(Ends(s)[p[2] - 1] + MarkSz, s[p[2]].len)]
             Def(g) == [k \in 0 .. Fragments |-> IF k = 0 THEN <<>> ELSE (IF OpensRecord(s, k) THEN <<>> ELSE g[k - 1]) \o Bytes(Ends(s)[k - 1] + MarkSz, s[k].len)]
  <1>1. Fragments \in Nat /\ MarkSz \in Nat
    BY RpcRecvAssumption
  <1>2. step \in Steps(Fragments, Seq(Nat))
    <2>1. ASSUME NEW i \in 1 .. Fragments
          PROVE  Bytes(Ends(s)[i - 1] + MarkSz, s[i].len) \in Seq(Nat)
      <3>1. Ends(s)[i - 1] + MarkSz \in Nat /\ s[i].len \in Nat
        <4>1. Ends(s) \in [0 .. Fragments -> Nat] /\ i - 1 \in 0 .. Fragments
          BY <1>1, EndsAreSums
        <4>2. s[i].len \in Nat
          BY RpcRecvAssumption DEF Streams, Frags
        <4>. HIDE DEF step
        <4>. QED
          BY <1>1, <4>1, <4>2
      <3>. QED
        BY <3>1, BytesType
    <2>2. ASSUME NEW x \in Seq(Nat), NEW i \in 1 .. Fragments
          PROVE  (IF OpensRecord(s, i) THEN <<>> ELSE x)
                   \o Bytes(Ends(s)[i - 1] + MarkSz, s[i].len) \in Seq(Nat)
      BY <2>1
    <2>. QED
      BY <2>2 DEF Steps
  <1>3. <<>> \in Seq(Nat)
    OBVIOUS
  <1>4. PICK f : Solution(f, Fragments, Seq(Nat), <<>>, step)
    <2>. HIDE DEF step
    <2>. QED
      BY <1>1, <1>2, <1>3, RecursiveFunctionExists
  <1>5. /\ f \in [0 .. Fragments -> Seq(Nat)]
        /\ f = [i \in 0 .. Fragments |-> IF i = 0 THEN <<>> ELSE step[<<f[i - 1], i>>]]
    <2>. HIDE DEF step
    <2>. QED
      BY <1>4 DEF Solution
  <1>6. ASSUME NEW x \in Seq(Nat), NEW i \in 1 .. Fragments
        PROVE  step[<<x, i>>] = (IF OpensRecord(s, i) THEN <<>> ELSE x) \o Bytes(Ends(s)[i - 1] + MarkSz, s[i].len)
    OBVIOUS
  <1>7. f = Def(f)
    <2>. HIDE DEF step
    <2>1. \A i \in 0 .. Fragments : i # 0 => i \in 1 .. Fragments /\ i - 1 \in 0 .. Fragments
      BY <1>1
    <2>2. \A i \in 0 .. Fragments : f[i] \in Seq(Nat)
      BY <1>5
    <2>. QED
      BY <1>5, <1>6, <2>1, <2>2
  <1>8. Joined(s) = Def(Joined(s))
    <2>1. Joined(s) = CHOOSE g : g = Def(g)
      BY DEF Joined
    <2>. QED
      BY <1>7, <2>1
  <1>9. \A i \in 0 .. Fragments : Joined(s)[i] = IF i = 0 THEN <<>> ELSE (IF OpensRecord(s, i) THEN <<>> ELSE Joined(s)[i - 1]) \o Bytes(Ends(s)[i - 1] + MarkSz, s[i].len)
    BY <1>8
  <1>10. Joined(s)[0] = <<>> /\ \A i \in 1 .. Fragments : Joined(s)[i] = (IF OpensRecord(s, i) THEN <<>> ELSE Joined(s)[i - 1]) \o Bytes(Ends(s)[i - 1] + MarkSz, s[i].len)
    <2>1. 0 \in 0 .. Fragments /\ \A i \in 1 .. Fragments : i \in 0 .. Fragments /\ i # 0
      BY <1>1
    <2>. QED
      BY <1>9, <2>1
  <1>11. Follows(Joined(s), Fragments, Seq(Nat), <<>>, step)
    <2>1. Joined(s) = [i \in 0 .. Fragments |-> Joined(s)[i]]
      BY <1>8
    <2>. HIDE DEF step
    <2>. QED
      BY <1>6, <1>10, <2>1 DEF Follows
  <1>12. Joined(s) \in [0 .. Fragments -> Seq(Nat)]
    <2>. HIDE DEF step
    <2>. QED
      BY <1>1, <1>2, <1>3, <1>11, RecursiveFunctionType
  <1>. QED
    BY <1>10, <1>12 DEF Frags, Before

-----------------------------------------------------------------------------
(* Boundaries.                                                             *)

LEMMA EndsGrow ==
  ASSUME NEW s \in Streams, NEW j \in 0 .. Fragments, NEW k \in 0 .. Fragments, j < k
  PROVE  Ends(s)[j] + MarkSz <= Ends(s)[k]
  <1> DEFINE S == {i \in j + 1 .. Fragments : Ends(s)[j] + MarkSz <= Ends(s)[i]}
  <1>1. /\ Fragments \in Nat /\ MarkSz \in Nat
        /\ Ends(s) \in [0 .. Fragments -> Nat]
        /\ \A i \in 1 .. Fragments : s[i].len \in Nat /\ Ends(s)[i] = Ends(s)[i - 1] + (MarkSz + s[i].len)
    BY EndsAreSums, RpcRecvAssumption DEF Streams, Frags
  <1>2. j + 1 \in S
    <2>1. j + 1 \in 1 .. Fragments /\ (j + 1) - 1 = j /\ j + 1 \in 0 .. Fragments
      BY <1>1
    <2>2. Ends(s)[j + 1] = Ends(s)[j] + (MarkSz + s[j + 1].len)
      BY <1>1, <2>1
    <2>. QED
      BY <1>1, <2>1, <2>2
  <1>3. ASSUME NEW i \in j + 1 .. Fragments - 1, i \in S PROVE i + 1 \in S
    <2>1. i + 1 \in 1 .. Fragments /\ (i + 1) - 1 = i /\ i \in 0 .. Fragments /\ i + 1 \in 0 .. Fragments
      BY <1>1
    <2>2. Ends(s)[i + 1] = Ends(s)[i] + (MarkSz + s[i + 1].len)
      BY <1>1, <2>1
    <2>. QED
      BY <1>1, <1>3, <2>1, <2>2
  <1>4. j + 1 .. Fragments \subseteq S
    <2>1. \A i \in j + 1 .. Fragments - 1 : i \in S => i + 1 \in S
      BY <1>3
    <2>2. j + 1 \in Int /\ Fragments \in Int
      BY <1>1
    <2>. HIDE DEF S
    <2>. QED
      BY <1>2, <2>1, <2>2, IntervalInduction
  <1>. QED
    BY <1>1, <1>4

(* What the state's own stream looks like.                                 *)
LEMMA Positions ==
  ASSUME stream \in Streams
  PROVE  /\ Fragments \in Nat /\ MarkSz \in Nat /\ MarkSz > 0
         /\ Total \in Nat
         /\ \A k \in Frags : /\ k \in 1 .. Fragments
                             /\ Start(k) \in Nat /\ stream[k].len \in Nat
                             /\ stream[k].last \in BOOLEAN
                             /\ Ends(stream)[k] = Start(k) + MarkSz + stream[k].len
                             /\ Ends(stream)[k] <= Total
  <1>1. /\ Fragments \in Nat /\ MarkSz \in Nat /\ MarkSz > 0
        /\ Ends(stream) \in [0 .. Fragments -> Nat]
        /\ \A k \in Frags : /\ stream[k].len \in Nat /\ stream[k].last \in BOOLEAN
                            /\ Ends(stream)[k] = Ends(stream)[k - 1] + (MarkSz + stream[k].len)
    <2>1. ASSUME NEW k \in Frags PROVE stream[k].len \in Nat /\ stream[k].last \in BOOLEAN
      <3>1. stream[k] \in [len : Lengths, last : LastBits]
        BY DEF Streams
      <3>. QED
        BY <3>1, RpcRecvAssumption
    <2>2. Fragments \in Nat /\ MarkSz \in Nat /\ MarkSz > 0
      BY RpcRecvAssumption
    <2>. QED
      BY <2>1, <2>2, EndsAreSums
  <1>2. ASSUME NEW k \in Frags PROVE Ends(stream)[k] <= Total
    <2>1. k \in 0 .. Fragments /\ Fragments \in 0 .. Fragments /\ (k < Fragments \/ k = Fragments)
      BY <1>1 DEF Frags
    <2>2. CASE k < Fragments
      <3>1. Ends(stream)[k] + MarkSz <= Ends(stream)[Fragments]
        BY <2>1, <2>2, EndsGrow
      <3>. QED
        BY <1>1, <2>1, <3>1 DEF Total
    <2>. QED
      BY <1>1, <2>1, <2>2 DEF Total
  <1>3. ASSUME NEW k \in Frags PROVE k \in 1 .. Fragments /\ Start(k) \in Nat
    <2>1. k - 1 \in 0 .. Fragments /\ k \in 1 .. Fragments
      BY <1>1 DEF Frags
    <2>. QED
      BY <1>1, <2>1 DEF Start
  <1>4. Total \in Nat
    BY <1>1 DEF Total
  <1>5. \A k \in Frags : Ends(stream)[k] = Start(k) + MarkSz + stream[k].len
    BY <1>1, <1>3 DEF Start
  <1>. QED
    BY <1>1, <1>2, <1>3, <1>4, <1>5

(* Behind the j-th fragment stands the mark of the next one, and no other. *)
LEMMA MarkBehind ==
  ASSUME stream \in Streams, NEW j \in 0 .. Fragments
  PROVE  /\ \A k \in MarkAt(Ends(stream)[j]) : k = j + 1
         /\ j < Fragments => j + 1 \in MarkAt(Ends(stream)[j])
  <1>1. Fragments \in Nat /\ MarkSz \in Nat /\ MarkSz > 0 /\ Ends(stream) \in [0 .. Fragments -> Nat]
    BY EndsAreSums, RpcRecvAssumption
  <1>2. ASSUME NEW k \in MarkAt(Ends(stream)[j]) PROVE k = j + 1
    <2>1. k - 1 \in 0 .. Fragments /\ k \in Int /\ Ends(stream)[k - 1] = Ends(stream)[j]
      BY <1>1, <1>2 DEF MarkAt, Frags, Start
    <2>2. ~(k - 1 < j)
      <3>1. k - 1 < j => Ends(stream)[k - 1] + MarkSz <= Ends(stream)[j]
        BY <2>1, EndsGrow
      <3>. QED
        BY <1>1, <2>1, <3>1
    <2>3. ~(j < k - 1)
      <3>1. j < k - 1 => Ends(stream)[j] + MarkSz <= Ends(stream)[k - 1]
        BY <2>1, EndsGrow
      <3>. QED
        BY <1>1, <2>1, <3>1
    <2>. QED
      BY <2>1, <2>2, <2>3
  <1>3. j < Fragments => j + 1 \in MarkAt(Ends(stream)[j])
    BY <1>1 DEF MarkAt, Frags, Start
  <1>. QED
    BY <1>2, <1>3

-----------------------------------------------------------------------------
(* Where the stream is, with and without the read-ahead.                   *)

(* A mark that is kept is the one before the position.                     *)
KeptMark ==
  nextMark # None =>
    /\ UseMark
    /\ pc \in {"again", "returned"} => pos = Start(nextMark) + MarkSz

(* In the loop nleft says how far the position is from where the loop ends. *)
InBody ==
  pc = "body" =>
    /\ pos >= Start(mark) + MarkSz
    /\ pos + nleft = Start(mark) + MarkSz + Want(mark)

(* The end of a record is only passed by inside of a single recv().        *)
NotAtEnd ==
  pc = "body" /\ nleft > 0 /\ stream[mark].last /\ stream[mark].len > 0 =>
    pos # Start(mark) + MarkSz + stream[mark].len

FrameInv == stream \in Streams /\ TypeOK /\ KeptMark /\ InBody /\ NotAtEnd

LEMMA WantType ==
  ASSUME stream \in Streams, NEW k \in Frags
  PROVE  /\ Want(k) \in Nat
         /\ UseMark => Want(k) = stream[k].len + MarkSz
         /\ ~UseMark => Want(k) = stream[k].len
  BY Positions DEF Want

LEMMA FrameInit == Init => FrameInv
  <1>1. SUFFICES ASSUME Init PROVE FrameInv
    OBVIOUS
  <1>2. stream \in Streams
    BY <1>1 DEF Init, Streams
  <1>3. Total \in Nat /\ 1 \in Frags
    BY <1>2, Positions, RpcRecvAssumption DEF Frags
  <1>. QED
    BY <1>1, <1>2, <1>3 DEF Init, FrameInv, TypeOK, KeptMark, InBody, NotAtEnd, None

(* The stream stays as it is, and so does what is said of it alone.        *)
LEMMA SameStream ==
  ASSUME stream' = stream
  PROVE  /\ Total' = Total
         /\ \A k \in Frags : Start(k)' = Start(k) /\ Want(k)' = Want(k)
  BY DEF Total, Start, Want

LEMMA ArriveFrame ==
  ASSUME FrameInv, NEW n \in 1 .. Total, Arrive(n)
  PROVE  FrameInv'
  <1>1. Total' = Total /\ Total \in Nat
    BY Positions, SameStream DEF FrameInv, Arrive
  <1>. QED
    BY <1>1, SameStream DEF FrameInv, Arrive, TypeOK, KeptMark, InBody, NotAtEnd, Start, Want

LEMMA QuietFrame ==
  ASSUME FrameInv, Close \/ ReadEof \/ RecvFails \/ CallAgain \/ UNCHANGED vars
  PROVE  FrameInv'
  <1>1. Total' = Total /\ Total \in Nat /\ stream' = stream
    BY Positions, SameStream DEF FrameInv, Close, ReadEof, RecvFails, CallAgain, vars
  <1>2. CASE Close
    BY <1>1, <1>2 DEF FrameInv, Close, TypeOK, KeptMark, InBody, NotAtEnd, Start, Want
  <1>3. CASE ReadEof
    BY <1>1, <1>3 DEF FrameInv, ReadEof, TypeOK, KeptMark, InBody, NotAtEnd, Start, Want
  <1>4. CASE CallAgain
    BY <1>1, <1>4 DEF FrameInv, CallAgain, TypeOK, KeptMark, InBody, NotAtEnd, Start, Want
  <1>5. CASE UNCHANGED vars
    BY <1>1, <1>5 DEF FrameInv, vars, TypeOK, KeptMark, InBody, NotAtEnd, Start, Want
  <1>6. CASE RecvFails
    BY <1>1, <1>6 DEF FrameInv, RecvFails, TypeOK, KeptMark, InBody, NotAtEnd, Start, Want
  <1>. QED
    BY <1>2, <1>3, <1>4, <1>5, <1>6

LEMMA TooLargeFrame ==
  ASSUME FrameInv, TooLarge
  PROVE  FrameInv'
  <1>1. /\ stream' = stream /\ arrived' = arrived /\ mark' = mark /\ nextMark' = nextMark
        /\ nleft' = nleft /\ ret' = ret /\ calls' = calls /\ pc' = "aborted"
        /\ pos' = pos \/ (pos' = pos + MarkSz /\ arrived - pos >= MarkSz)
    BY DEF TooLarge
  <1>2. Total' = Total /\ Total \in Nat /\ MarkSz \in Nat
    BY <1>1, Positions, SameStream DEF FrameInv
  <1>3. arrived \in 0 .. Total /\ pos \in 0 .. arrived
    BY DEF FrameInv, TypeOK
  <1>4. pos' \in 0 .. arrived'
    BY <1>1, <1>2, <1>3
  <1>5. TypeOK'
    BY <1>1, <1>2, <1>4 DEF FrameInv, TypeOK
  <1>6. KeptMark' /\ InBody' /\ NotAtEnd'
    BY <1>1 DEF FrameInv, KeptMark, InBody, NotAtEnd
  <1>. QED
    BY <1>1, <1>5, <1>6 DEF FrameInv

LEMMA UseNextMarkFrame ==
  ASSUME FrameInv, UseNextMark
  PROVE  FrameInv'
  <1>1. nextMark \in Frags /\ nextMark # None
    BY DEF FrameInv, TypeOK, UseNextMark, NoNextMark
  <1>2. /\ Total' = Total /\ Total \in Nat /\ Start(nextMark) \in Nat /\ MarkSz \in Nat
        /\ Start(nextMark)' = Start(nextMark) /\ Want(nextMark)' = Want(nextMark)
        /\ Want(nextMark) \in Nat /\ stream[nextMark].len \in Nat
    BY <1>1, Positions, SameStream, WantType DEF FrameInv, UseNextMark
  <1>3. /\ pc = "again" /\ pc' = "body" /\ mark' = nextMark /\ nleft' = Want(nextMark)
        /\ pos' = pos /\ stream' = stream /\ arrived' = arrived
        /\ nextMark' = nextMark /\ ret' = ret /\ calls' = calls
    BY DEF UseNextMark
  <1>4. pos = Start(nextMark) + MarkSz
    BY <1>1, <1>3 DEF FrameInv, KeptMark
  <1>5. TypeOK'
    BY <1>1, <1>2, <1>3 DEF FrameInv, TypeOK
  <1>6. KeptMark'
    BY <1>3 DEF KeptMark, FrameInv
  <1>7. InBody'
    <2>1. Start(mark)' = Start(nextMark) /\ Want(mark)' = Want(nextMark)
      BY <1>3 DEF Start, Want
    <2>. QED
      BY <1>2, <1>3, <1>4, <2>1 DEF InBody
  <1>8. NotAtEnd'
    <2>1. Start(mark)' = Start(nextMark)
      BY <1>3 DEF Start
    <2>. QED
      BY <1>2, <1>3, <1>4, <2>1 DEF NotAtEnd
  <1>. QED
    BY <1>3, <1>5, <1>6, <1>7, <1>8 DEF FrameInv

LEMMA ReadMarkFrame ==
  ASSUME FrameInv, ReadMark
  PROVE  FrameInv'
  <1>1. /\ pc = "again" /\ pos' = pos + MarkSz /\ stream' = stream /\ arrived' = arrived
        /\ nextMark' = nextMark /\ ret' = ret /\ calls' = calls
        /\ arrived - pos >= MarkSz
    BY DEF ReadMark
  <1>2. Total' = Total /\ Total \in Nat /\ MarkSz \in Nat
    BY <1>1, Positions, SameStream DEF FrameInv
  <1>3. pos' \in 0 .. arrived'
    BY <1>1, <1>2 DEF FrameInv, TypeOK
  <1>4. CASE pc' = "lost" /\ UNCHANGED <<mark, nleft>>
    BY <1>1, <1>2, <1>3, <1>4 DEF FrameInv, TypeOK, KeptMark, InBody, NotAtEnd
  <1>5. CASE \E k \in MarkAt(pos) : mark' = k /\ nleft' = Want(k) /\ pc' = "body"
    <2>1. PICK k \in MarkAt(pos) : mark' = k /\ nleft' = Want(k) /\ pc' = "body"
      BY <1>5
    <2>2. k \in Frags /\ Start(k) = pos
      BY DEF MarkAt
    <2>3. /\ Start(k)' = Start(k) /\ Want(k)' = Want(k)
          /\ Want(k) \in Nat /\ stream[k].len \in Nat /\ Start(k) \in Nat
      BY <1>1, <2>2, Positions, SameStream, WantType DEF FrameInv
    <2>4. Start(mark)' = Start(k) /\ Want(mark)' = Want(k)
      BY <1>1, <2>1 DEF Start, Want
    <2>5. TypeOK'
      BY <1>1, <1>2, <1>3, <2>1, <2>2, <2>3 DEF FrameInv, TypeOK
    <2>6. KeptMark' /\ InBody' /\ NotAtEnd'
      BY <1>1, <1>2, <2>1, <2>2, <2>3, <2>4 DEF FrameInv, KeptMark, InBody, NotAtEnd
    <2>. QED
      BY <1>1, <2>5, <2>6 DEF FrameInv
  <1>. QED
    BY <1>4, <1>5 DEF ReadMark

LEMMA ReadBodyFrame ==
  ASSUME FrameInv, NEW cc \in 1 .. nleft, ReadBody(cc)
  PROVE  FrameInv'
  <1>1. /\ pc = "body" /\ pos' = pos + cc /\ nleft' = nleft - cc /\ cc <= arrived - pos
        /\ stream' = stream /\ arrived' = arrived /\ mark' = mark /\ calls' = calls
    BY DEF ReadBody
  <1>2. /\ mark \in Frags /\ nleft \in Nat /\ arrived \in Nat /\ pos \in 0 .. arrived /\ cc \in Nat
    BY Positions DEF FrameInv, TypeOK
  <1>3. /\ Total' = Total /\ Total \in Nat /\ MarkSz \in Nat
        /\ Start(mark) \in Nat /\ Want(mark) \in Nat /\ stream[mark].len \in Nat
        /\ UseMark => Want(mark) = stream[mark].len + MarkSz
        /\ ~UseMark => Want(mark) = stream[mark].len
        /\ stream[mark].last \in BOOLEAN
    BY <1>1, <1>2, Positions, SameStream, WantType DEF FrameInv
  <1>4. Start(mark)' = Start(mark) /\ Want(mark)' = Want(mark)
    BY <1>1 DEF Start, Want
  <1>5. pos' \in 0 .. arrived' /\ nleft' \in Nat
    BY <1>1, <1>2
  <1>6. CASE StopsAt(nleft') /\ pc' = "returned" /\ ret' = stream[mark].len /\ nextMark' = None
    BY <1>1, <1>2, <1>3, <1>5, <1>6 DEF FrameInv, TypeOK, KeptMark, InBody, NotAtEnd
  <1>7. CASE ~StopsAt(nleft') /\ UNCHANGED <<pc, ret, nextMark>>
    <2>1. TypeOK' /\ KeptMark'
      BY <1>1, <1>2, <1>3, <1>5, <1>7 DEF FrameInv, TypeOK, KeptMark
    <2>2. InBody'
      BY <1>1, <1>2, <1>3, <1>4, <1>5 DEF FrameInv, InBody
    <2>3. NotAtEnd'
      <3>1. SUFFICES ASSUME stream[mark].last, nleft' > 0,
                            pos' = Start(mark) + MarkSz + stream[mark].len
                     PROVE  FALSE
        BY <1>1, <1>4 DEF NotAtEnd
      <3>2. pos' + nleft' = Start(mark) + MarkSz + Want(mark)
        BY <1>1, <1>2, <1>3 DEF FrameInv, InBody
      <3>3. nleft' = MarkSz
        BY <1>3, <1>5, <3>1, <3>2
      <3>. QED
        BY <1>7, <3>1, <3>3 DEF StopsAt
    <2>. QED
      BY <1>1, <2>1, <2>2, <2>3 DEF FrameInv
  <1>. QED
    BY <1>6, <1>7 DEF ReadBody

LEMMA EndOfBodyFrame ==
  ASSUME FrameInv, EndOfBody
  PROVE  FrameInv'
  <1>1. /\ pc = "body" /\ nleft = 0 /\ stream' = stream /\ arrived' = arrived /\ pos' = pos
        /\ mark' = mark /\ nleft' = nleft /\ calls' = calls
    BY DEF EndOfBody
  <1>2. /\ Total' = Total /\ Total \in Nat /\ MarkSz \in Nat /\ mark \in Frags
        /\ stream[mark].len \in Nat
    BY <1>1, Positions, SameStream DEF FrameInv, TypeOK
  <1>3. /\ nextMark' \in Frags \cup {None}
        /\ nextMark' # None => UseMark /\ pos = Start(nextMark') + MarkSz
    <2>1. CASE UseMark /\ nextMark' \in MarkAt(pos - MarkSz)
      <3>1. nextMark' \in Frags /\ Start(nextMark') = pos - MarkSz
        BY <2>1 DEF MarkAt
      <3>. QED
        BY <1>2, <2>1, <3>1 DEF FrameInv, TypeOK
    <2>2. CASE ~UseMark /\ nextMark' = nextMark
      BY <2>2 DEF FrameInv, TypeOK, KeptMark
    <2>. QED
      BY <2>1, <2>2 DEF EndOfBody
  <1>4. pc' \in {"returned", "again"} /\ ret' \in Nat
    BY <1>2 DEF EndOfBody, FrameInv, TypeOK
  <1>5. TypeOK'
    BY <1>1, <1>2, <1>3, <1>4 DEF FrameInv, TypeOK
  <1>6. KeptMark'
    BY <1>1, <1>3 DEF KeptMark, Start
  <1>7. InBody' /\ NotAtEnd'
    BY <1>4 DEF InBody, NotAtEnd
  <1>. QED
    BY <1>1, <1>5, <1>6, <1>7 DEF FrameInv

LEMMA FrameNext == FrameInv /\ [Next]_vars => FrameInv'
  <1>1. SUFFICES ASSUME FrameInv, [Next]_vars PROVE FrameInv'
    OBVIOUS
  <1>2. CASE \E n \in 1 .. Total : Arrive(n)
    BY <1>1, <1>2, ArriveFrame
  <1>3. CASE Close \/ ReadEof \/ RecvFails \/ CallAgain \/ UNCHANGED vars
    BY <1>1, <1>3, QuietFrame
  <1>8. CASE TooLarge
    BY <1>1, <1>8, TooLargeFrame
  <1>4. CASE UseNextMark
    BY <1>1, <1>4, UseNextMarkFrame
  <1>5. CASE ReadMark
    BY <1>1, <1>5, ReadMarkFrame
  <1>6. CASE EndOfBody
    BY <1>1, <1>6, EndOfBodyFrame
  <1>7. CASE \E cc \in 1 .. nleft : ReadBody(cc)
    BY <1>1, <1>7, ReadBodyFrame
  <1>. QED
    BY <1>1, <1>2, <1>3, <1>4, <1>5, <1>6, <1>7, <1>8 DEF Next, Receive

LEMMA FrameAlways == Spec => []FrameInv
  BY FrameInit, FrameNext, PTL DEF Spec

(* The position is never ahead of what has arrived, nleft never runs below *)
(* zero, a kept mark is the mark of a fragment (nct_rpc_recv), with and    *)
(* without the read-ahead.                                                 *)
THEOREM TypesHold == Spec => []TypeOK
  <1>1. FrameInv => TypeOK
    BY DEF FrameInv
  <1>. QED
    BY <1>1, FrameAlways, PTL

(* A record that has arrived is not held back for the mark behind it, for  *)
(* fragments that are not empty: the loop of nct_rpc_recv never waits at   *)
(* the end of a record, whatever the pieces TCP delivers.                  *)
THEOREM NeverWaitsForMark ==
  ASSUME 0 \notin Lengths
  PROVE  Spec => []NoWaitForMark
  <1>1. FrameInv => NoWaitForMark
    <2>1. SUFFICES ASSUME FrameInv, pc = "body", stream[mark].last, nleft > 0
                   PROVE  \/ pos < Start(mark) + MarkSz + stream[mark].len
                          \/ pos > Start(mark) + MarkSz + stream[mark].len
      BY DEF NoWaitForMark
    <2>2. mark \in Frags /\ pos \in Int
      BY <2>1, Positions DEF FrameInv, TypeOK
    <2>3. stream[mark].len \in Nat /\ Start(mark) \in Nat /\ MarkSz \in Nat
      BY <2>1, <2>2, Positions DEF FrameInv
    <2>4. stream[mark].len # 0
      <3>1. stream[mark] \in [len : Lengths, last : LastBits]
        BY <2>1, <2>2 DEF FrameInv, Streams
      <3>. QED
        BY <3>1
    <2>5. pos # Start(mark) + MarkSz + stream[mark].len
      BY <2>1, <2>3, <2>4 DEF FrameInv, NotAtEnd
    <2>. QED
      BY <2>2, <2>3, <2>5
  <1>. QED
    BY <1>1, FrameAlways, PTL

-----------------------------------------------------------------------------
(* How much of the buffer is written.                                      *)

(* What is left to read fits what is left of the buffer.                   *)
RoomInv ==
  /\ FrameInv
  /\ buf \in Seq(Nat) /\ Len(buf) <= BufSz
  /\ pc = "body" => Len(buf) + nleft <= BufSz

(* A mark that fits announces no more than the buffer has room for.        *)
LEMMA FitsRoom ==
  ASSUME stream \in Streams, NEW k \in Frags, Fits(k), Len(buf) \in Nat
  PROVE  Len(buf) + Want(k) <= BufSz
  <1>1. stream[k].len \in Nat /\ MarkSz \in Nat /\ BufSz \in Nat
    BY Positions, RpcRecvAssumption
  <1>2. Want(k) <= stream[k].len + MarkSz /\ Want(k) \in Nat
    BY <1>1, WantType
  <1>3. stream[k].len + MarkSz <= BufSz - Len(buf)
    BY DEF Fits
  <1>. QED
    BY <1>1, <1>2, <1>3

(* A body begins only behind a mark that fits.                             *)
LEMMA BodyRoom ==
  ASSUME RoomInv, FrameInv', UseNextMark \/ ReadMark
  PROVE  RoomInv'
  <1>1. stream \in Streams /\ Len(buf) \in Nat /\ buf' = buf
    BY DEF RoomInv, FrameInv, UseNextMark, ReadMark
  <1>2. CASE UseNextMark
    <2>1. nextMark \in Frags
      BY <1>2 DEF RoomInv, FrameInv, TypeOK, UseNextMark, NoNextMark
    <2>2. Fits(nextMark) /\ nleft' = Want(nextMark)
      BY <1>2 DEF UseNextMark
    <2>3. Len(buf) + nleft' <= BufSz
      BY <1>1, <2>1, <2>2, FitsRoom
    <2>. QED
      BY <1>1, <2>3 DEF RoomInv
  <1>3. CASE ReadMark
    <2>1. CASE pc' = "lost"
      BY <1>1, <2>1 DEF RoomInv
    <2>2. CASE pc' # "lost"
      <3>1. PICK k \in MarkAt(pos) : Fits(k) /\ nleft' = Want(k)
        BY <1>3, <2>2 DEF ReadMark
      <3>2. k \in Frags
        BY DEF MarkAt
      <3>3. Len(buf) + nleft' <= BufSz
        BY <1>1, <3>1, <3>2, FitsRoom
      <3>. QED
        BY <1>1, <3>3 DEF RoomInv
    <2>. QED
      BY <2>1, <2>2
  <1>. QED
    BY <1>2, <1>3

LEMMA ReadBodyRoom ==
  ASSUME RoomInv, FrameInv', NEW cc \in 1 .. nleft, ReadBody(cc)
  PROVE  RoomInv'
  <1>1. /\ pc = "body" /\ nleft' = nleft - cc /\ buf' = buf \o Bytes(pos, cc)
    BY DEF ReadBody
  <1>2. nleft \in Nat /\ pos \in Nat /\ BufSz \in Nat /\ buf \in Seq(Nat)
    BY Positions, RpcRecvAssumption DEF RoomInv, FrameInv, TypeOK
  <1>3. cc \in Nat /\ cc <= nleft
    BY <1>2
  <1>4. Bytes(pos, cc) \in Seq(Nat) /\ Len(Bytes(pos, cc)) = cc
    BY <1>2, <1>3, BytesType
  <1>5. buf' \in Seq(Nat) /\ Len(buf') = Len(buf) + cc
    BY <1>1, <1>2, <1>4, ConcatProperties
  <1>6. Len(buf) + nleft <= BufSz /\ Len(buf) \in Nat
    BY <1>1, <1>2 DEF RoomInv
  <1>7. Len(buf') <= BufSz /\ Len(buf') + nleft' <= BufSz
    BY <1>1, <1>2, <1>3, <1>5, <1>6
  <1>. QED
    BY <1>5, <1>7 DEF RoomInv

LEMMA EndOfBodyRoom ==
  ASSUME RoomInv, FrameInv', EndOfBody
  PROVE  RoomInv'
  <1>1. pc' # "body" /\ (buf' = buf \/ buf' = DropMark(buf))
    BY DEF EndOfBody
  <1>2. buf \in Seq(Nat) /\ Len(buf) \in Nat /\ Len(buf) <= BufSz
    BY DEF RoomInv
  <1>3. MarkSz \in Nat /\ BufSz \in Nat
    BY RpcRecvAssumption
  <1>4. DropMark(buf) \in Seq(Nat) /\ Len(DropMark(buf)) <= Len(buf) /\ Len(DropMark(buf)) \in Nat
    <2>1. CASE Len(buf) - MarkSz >= 1
      BY <1>2, <1>3, <2>1, SubSeqProperties DEF DropMark
    <2>2. CASE Len(buf) - MarkSz < 1
      <3>1. Len(buf) - MarkSz \in Int
        BY <1>2, <1>3
      <3>2. SubSeq(buf, 1, Len(buf) - MarkSz) = <<>>
        BY <1>2, <2>2, <3>1, SubSeqEmpty
      <3>3. <<>> \in Seq(Nat) /\ Len(<<>>) = 0
        OBVIOUS
      <3>4. DropMark(buf) = <<>>
        BY <3>2 DEF DropMark
      <3>5. 0 <= Len(buf)
        BY <1>2
      <3>. QED
        BY <3>3, <3>4, <3>5
    <2>. QED
      BY <1>2, <1>3, <2>1, <2>2
  <1>5. buf' \in Seq(Nat) /\ Len(buf') <= BufSz
    <2>1. CASE buf' = buf
      BY <1>2, <2>1
    <2>2. CASE buf' = DropMark(buf)
      BY <1>2, <1>3, <1>4, <2>2
    <2>. QED
      BY <1>1, <2>1, <2>2
  <1>. QED
    BY <1>1, <1>5 DEF RoomInv

LEMMA RoomNext == RoomInv /\ [Next]_vars => RoomInv'
  <1>1. SUFFICES ASSUME RoomInv, [Next]_vars PROVE RoomInv'
    OBVIOUS
  <1>2. FrameInv'
    BY <1>1, FrameNext DEF RoomInv
  <1>3. CASE UNCHANGED <<pc, buf, nleft>>
    BY <1>1, <1>2, <1>3 DEF RoomInv
  <1>4. CASE TooLarge \/ ReadEof \/ RecvFails
    <2>1. buf' = buf /\ pc' # "body"
      BY <1>4 DEF TooLarge, ReadEof, RecvFails
    <2>. QED
      BY <1>1, <1>2, <2>1 DEF RoomInv
  <1>5. CASE UseNextMark \/ ReadMark
    BY <1>1, <1>2, <1>5, BodyRoom
  <1>6. CASE \E cc \in 1 .. nleft : ReadBody(cc)
    BY <1>1, <1>2, <1>6, ReadBodyRoom
  <1>7. CASE EndOfBody
    BY <1>1, <1>2, <1>7, EndOfBodyRoom
  <1>8. CASE CallAgain
    <2>1. buf' = <<>> /\ pc' # "body"
      BY <1>8 DEF CallAgain
    <2>2. <<>> \in Seq(Nat) /\ Len(<<>>) = 0 /\ 0 <= BufSz
      BY RpcRecvAssumption
    <2>. QED
      BY <1>2, <2>1, <2>2 DEF RoomInv
  <1>9. CASE Close \/ UNCHANGED vars \/ \E n \in 1 .. Total : Arrive(n)
    <2>1. UNCHANGED <<pc, buf, nleft>>
      BY <1>9 DEF Close, vars, Arrive
    <2>. QED
      BY <1>3, <2>1
  <1>. QED
    BY <1>1, <1>4, <1>5, <1>6, <1>7, <1>8, <1>9 DEF Next, Receive

(* nct_rpc_recv does not write behind the end of the caller's buffer: for  *)
(* any size of the buffer, any lengths in the marks, any number of         *)
(* fragments joined, and with and without the read-ahead of a mark.        *)
THEOREM NeverOverrunsBuffer == Spec => []BufferBound
  <1>1. Init => RoomInv
    <2>1. SUFFICES ASSUME Init PROVE RoomInv
      OBVIOUS
    <2>2. buf = <<>> /\ pc = "again" /\ FrameInv
      BY <2>1, FrameInit DEF Init
    <2>3. <<>> \in Seq(Nat) /\ Len(<<>>) = 0 /\ 0 <= BufSz
      BY RpcRecvAssumption
    <2>. QED
      BY <2>2, <2>3 DEF RoomInv
  <1>2. RoomInv => BufferBound
    BY DEF RoomInv, BufferBound
  <1>. QED
    BY <1>1, <1>2, RoomNext, PTL DEF Spec

-----------------------------------------------------------------------------
(* What the buffer holds, with the read-ahead.                             *)

(* The mark of a fragment with an empty body that is not its record's last *)
(* is a mark of zero, which the program takes for none.                    *)
NoZeroMarks == 0 \in Lengths => FALSE \notin LastBits

(* The records before fragment k have been returned, and the fragments     *)
(* before it in its own record are in the buffer.                          *)
At(k) == RecordsTo(stream)[k - 1] = calls

Waits ==
  pc = "again" =>
    IF nextMark = None
      THEN /\ buf = <<>>
           /\ \E j \in 0 .. Fragments :
                /\ pos = Ends(stream)[j]
                /\ RecordsTo(stream)[j] = calls
                /\ j > 0 => stream[j].last
      ELSE At(nextMark) /\ buf = Before(stream, nextMark)

Fills ==
  pc = "body" =>
    /\ At(mark)
    /\ buf = Before(stream, mark) \o Bytes(Start(mark) + MarkSz, pos - (Start(mark) + MarkSz))

Gives ==
  pc = "returned" =>
    /\ EndsRecord(mark, calls + 1)
    /\ buf = Joined(stream)[mark] /\ ret = stream[mark].len
    /\ IF nextMark = None THEN pos = Ends(stream)[mark] ELSE nextMark = mark + 1

RecordInv == FrameInv /\ pc # "lost" /\ Waits /\ Fills /\ Gives

LEMMA RecordInit == Init => RecordInv
  <1>1. SUFFICES ASSUME Init PROVE RecordInv
    OBVIOUS
  <1>2. FrameInv
    BY <1>1, FrameInit
  <1>3. RecordsTo(stream)[0] = 0 /\ Ends(stream)[0] = 0 /\ 0 \in 0 .. Fragments
    BY <1>2, RecordsAreCounts, EndsAreSums, RpcRecvAssumption DEF FrameInv
  <1>. QED
    BY <1>1, <1>2, <1>3 DEF Init, RecordInv, Waits, Fills, Gives, None

(* A mark that is kept is taken for one.                                   *)
LEMMA KeptMarkCounts ==
  ASSUME FrameInv, NoZeroMarks, nextMark # None
  PROVE  ~NoNextMark
  <1>1. nextMark \in Frags
    BY DEF FrameInv, TypeOK
  <1>2. stream[nextMark] \in [len : Lengths, last : LastBits]
    BY <1>1 DEF FrameInv, Streams
  <1>3. stream[nextMark].len \in Lengths /\ stream[nextMark].last \in LastBits
        /\ stream[nextMark].last \in BOOLEAN
    BY <1>2, RpcRecvAssumption
  <1>. QED
    BY <1>1, <1>3 DEF NoZeroMarks, NoNextMark

LEMMA EmptyBytes ==
  ASSUME NEW p \in Nat, NEW s \in Seq(Nat)
  PROVE  s \o Bytes(p, 0) = s
  <1>1. Bytes(p, 0) = <<>>
    BY DEF Bytes
  <1>. QED
    BY <1>1, ConcatEmptySeq

LEMMA JoiningIsAssociative ==
  ASSUME NEW x \in Seq(Nat), NEW y \in Seq(Nat), NEW z \in Seq(Nat)
  PROVE  (x \o y) \o z = x \o (y \o z)
  BY ConcatAssociative

(* Bytes read in two pieces are the bytes of one.                          *)
LEMMA MoreBytes ==
  ASSUME NEW p \in Nat, NEW m \in Nat, NEW n \in Nat, NEW s \in Seq(Nat)
  PROVE  (s \o Bytes(p, m)) \o Bytes(p + m, n) = s \o Bytes(p, m + n)
  <1> DEFINE t == Bytes(p, m)
             u == Bytes(p + m, n)
             v == Bytes(p, m + n)
  <1>0. p + m \in Nat /\ m + n \in Nat
    OBVIOUS
  <1>1. /\ t \in Seq(Nat) /\ Len(t) = m
        /\ u \in Seq(Nat) /\ Len(u) = n
        /\ v \in Seq(Nat) /\ Len(v) = m + n
    BY <1>0, BytesType
  <1>2. /\ \A i \in 1 .. m : t[i] = p + i
        /\ \A i \in 1 .. n : u[i] = (p + m) + i
        /\ \A i \in 1 .. m + n : v[i] = p + i
    BY DEF Bytes
  <1>3. t \o u = v
    <2>. HIDE DEF t, u, v
    <2>1. /\ t \o u \in Seq(Nat) /\ Len(t \o u) = m + n
          /\ \A i \in 1 .. m + n : (t \o u)[i] = IF i <= m THEN t[i] ELSE u[i - m]
      BY <1>1, ConcatProperties
    <2>2. \A i \in 1 .. m + n : (t \o u)[i] = v[i]
      <3>1. SUFFICES ASSUME NEW i \in 1 .. m + n PROVE (t \o u)[i] = v[i]
        OBVIOUS
      <3>2. CASE i <= m
        BY <1>2, <2>1, <3>2
      <3>3. CASE ~(i <= m)
        <4>1. i - m \in 1 .. n /\ (p + m) + (i - m) = p + i
          BY <3>3
        <4>. QED
          BY <1>2, <2>1, <3>3, <4>1
      <3>. QED
        BY <3>2, <3>3
    <2>. QED
      BY <1>1, <2>1, <2>2, SeqEqual
  <1>4. (s \o t) \o u = s \o (t \o u)
    <2>1. t \in Seq(Nat)
      BY <1>1
    <2>2. u \in Seq(Nat)
      BY <1>1
    <2>. HIDE DEF t, u
    <2>. QED
      BY <2>1, <2>2, JoiningIsAssociative
  <1>. QED
    BY <1>3, <1>4

(* buf -= marksz leaves what was there before the last MarkSz bytes.       *)
LEMMA DropsMark ==
  ASSUME NEW p \in Nat, NEW n \in Nat, NEW s \in Seq(Nat)
  PROVE  DropMark(s \o Bytes(p, n + MarkSz)) = s \o Bytes(p, n)
  <1> DEFINE u == s \o Bytes(p, n)
             v == Bytes(p + n, MarkSz)
             t == u \o v
  <1>0. MarkSz \in Nat /\ p + n \in Nat
    BY RpcRecvAssumption
  <1>1. Bytes(p, n) \in Seq(Nat) /\ v \in Seq(Nat) /\ Len(v) = MarkSz
    BY <1>0, BytesType
  <1>2. u \in Seq(Nat) /\ Len(u) \in Nat
    BY <1>1, ConcatProperties
  <1>3. t = s \o Bytes(p, n + MarkSz)
    BY <1>0, MoreBytes
  <1>. HIDE DEF u, v
  <1>4. /\ t \in Seq(Nat) /\ Len(t) = Len(u) + MarkSz
        /\ \A i \in 1 .. Len(u) + MarkSz : t[i] = IF i <= Len(u) THEN u[i] ELSE v[i - Len(u)]
    BY <1>1, <1>2, ConcatProperties
  <1>5. DropMark(t) = SubSeq(t, 1, Len(u))
    <2>1. Len(t) - MarkSz = Len(u)
      BY <1>0, <1>2, <1>4
    <2>. QED
      BY <2>1 DEF DropMark
  <1>. HIDE DEF t
  <1>6. \A i \in 1 .. Len(u) : i \in 1 .. Len(u) + MarkSz /\ t[i] = u[i] /\ t[i] \in Nat
    <2>1. \A i \in 1 .. Len(u) : u[i] \in Nat
      BY <1>2, ElementOfSeq
    <2>. QED
      BY <1>0, <1>2, <1>4, <2>1
  <1>7. SubSeq(t, 1, Len(u)) = u
    <2>1. 1 \in Int /\ Len(u) \in Int
      BY <1>2
    <2>2. /\ SubSeq(t, 1, Len(u)) \in Seq(Nat)
          /\ Len(SubSeq(t, 1, Len(u))) = IF 1 <= Len(u) THEN Len(u) - 1 + 1 ELSE 0
          /\ \A i \in 1 .. Len(u) - 1 + 1 : SubSeq(t, 1, Len(u))[i] = t[1 + i - 1]
      BY <1>6, <2>1, SubSeqProperties
    <2>3. Len(SubSeq(t, 1, Len(u))) = Len(u)
      BY <1>2, <2>2
    <2>4. \A i \in 1 .. Len(u) : SubSeq(t, 1, Len(u))[i] = u[i]
      <3>1. \A i \in 1 .. Len(u) : i \in 1 .. Len(u) - 1 + 1 /\ 1 + i - 1 = i
        BY <1>2
      <3>. QED
        BY <1>6, <2>2, <3>1
    <2>. QED
      BY <1>2, <2>2, <2>3, <2>4, SeqEqual
  <1>. QED
    BY <1>3, <1>5, <1>7 DEF t, u

-----------------------------------------------------------------------------
(* RecordInv is kept.                                                      *)

(* The bytes of the records are sequences of positions.                    *)
LEMMA BeforeType ==
  ASSUME stream \in Streams, NEW k \in Frags
  PROVE  Before(stream, k) \in Seq(Nat) /\ Joined(stream)[k] \in Seq(Nat)
  <1>1. k - 1 \in 0 .. Fragments /\ k \in 0 .. Fragments
    BY RpcRecvAssumption DEF Frags
  <1>2. Joined(stream) \in [0 .. Fragments -> Seq(Nat)]
    BY JoinedBytes
  <1>3. Joined(stream)[k - 1] \in Seq(Nat) /\ Joined(stream)[k] \in Seq(Nat)
    BY <1>1, <1>2
  <1>. QED
    BY <1>3 DEF Before

LEMMA QuietRecord ==
  ASSUME RecordInv, FrameInv',
         \/ Close \/ ReadEof \/ RecvFails \/ UNCHANGED vars
         \/ \E n \in 1 .. Total : Arrive(n)
  PROVE  RecordInv'
  <1>1. /\ stream' = stream /\ buf' = buf /\ nextMark' = nextMark /\ pos' = pos /\ mark' = mark
        /\ calls' = calls /\ ret' = ret /\ (pc' = pc \/ pc' = "eof" \/ pc' = "failed")
    BY DEF Close, ReadEof, RecvFails, vars, Arrive
  <1>. QED
    BY <1>1 DEF RecordInv, Waits, Fills, Gives, At, Before, EndsRecord, Start, OpensRecord

LEMMA TooLargeRecord ==
  ASSUME RecordInv, FrameInv', TooLarge
  PROVE  RecordInv'
  <1>1. pc' = "aborted"
    BY DEF TooLarge
  <1>. QED
    BY <1>1 DEF RecordInv, Waits, Fills, Gives

LEMMA UseNextMarkRecord ==
  ASSUME RecordInv, FrameInv', UseNextMark
  PROVE  RecordInv'
  <1>1. nextMark \in Frags /\ nextMark # None
    BY DEF RecordInv, FrameInv, TypeOK, UseNextMark, NoNextMark
  <1>2. /\ pc = "again" /\ pc' = "body" /\ mark' = nextMark /\ pos' = pos /\ stream' = stream
        /\ buf' = buf /\ calls' = calls
    BY DEF UseNextMark
  <1>3. At(nextMark) /\ buf = Before(stream, nextMark)
    BY <1>1, <1>2 DEF RecordInv, Waits
  <1>4. pos = Start(nextMark) + MarkSz
    BY <1>1, <1>2 DEF RecordInv, FrameInv, KeptMark
  <1>5. Start(nextMark) + MarkSz \in Nat
    BY <1>1, Positions DEF RecordInv, FrameInv
  <1>6. buf = Before(stream, nextMark) \o Bytes(Start(nextMark) + MarkSz, 0)
    BY <1>1, <1>3, <1>5, BeforeType, EmptyBytes DEF RecordInv, FrameInv
  <1>7. pos - (Start(nextMark) + MarkSz) = 0
    BY <1>4, <1>5
  <1>8. Fills'
    <2>1. /\ Start(mark)' = Start(nextMark) /\ Before(stream, mark)' = Before(stream, nextMark)
          /\ At(mark)' = At(nextMark)
      BY <1>2 DEF Start, Before, At, OpensRecord
    <2>. QED
      BY <1>2, <1>3, <1>6, <1>7, <2>1 DEF Fills
  <1>. QED
    BY <1>2, <1>8 DEF RecordInv, Waits, Gives

LEMMA ReadMarkRecord ==
  ASSUME RecordInv, FrameInv', NoZeroMarks, ReadMark
  PROVE  RecordInv'
  <1>1. nextMark = None
    BY KeptMarkCounts DEF RecordInv, ReadMark
  <1>2. /\ pc = "again" /\ pos' = pos + MarkSz /\ stream' = stream /\ arrived - pos >= MarkSz
        /\ buf' = buf /\ calls' = calls
    BY DEF ReadMark
  <1>3. PICK j \in 0 .. Fragments :
          /\ pos = Ends(stream)[j]
          /\ RecordsTo(stream)[j] = calls
          /\ j > 0 => stream[j].last
    BY <1>1, <1>2 DEF RecordInv, Waits
  <1>4. buf = <<>>
    BY <1>1, <1>2 DEF RecordInv, Waits
  <1>5. /\ Fragments \in Nat /\ MarkSz \in Nat /\ MarkSz > 0 /\ Total \in Nat
        /\ arrived \in 0 .. Total /\ pos \in 0 .. arrived
    BY Positions DEF RecordInv, FrameInv, TypeOK
  <1>p. pos = Ends(stream)[j]
    BY <1>3
  <1>6. j < Fragments
    <2>1. j # Fragments
      BY <1>2, <1>5, <1>p DEF Total
    <2>. QED
      BY <1>5, <2>1
  <1>7. j + 1 \in MarkAt(pos) /\ \A k \in MarkAt(pos) : k = j + 1
    BY <1>6, <1>p, MarkBehind DEF RecordInv, FrameInv
  <1>8. mark' = j + 1 /\ pc' = "body"
    BY <1>7 DEF ReadMark
  <1>9. /\ j + 1 \in Frags /\ Start(j + 1) = pos /\ (j + 1) - 1 = j
    BY <1>5, <1>7 DEF MarkAt
  <1>10. Before(stream, j + 1) = <<>>
    <2>1. j + 1 = 1 \/ j > 0
      BY <1>5
    <2>. QED
      BY <1>3, <1>9, <2>1 DEF Before, OpensRecord
  <1>11. Start(j + 1) + MarkSz \in Nat /\ pos + MarkSz = Start(j + 1) + MarkSz
    BY <1>5, <1>9
  <1>12. buf = Before(stream, j + 1) \o Bytes(Start(j + 1) + MarkSz, 0)
    <2>1. <<>> \in Seq(Nat)
      OBVIOUS
    <2>. QED
      BY <1>4, <1>10, <1>11, <2>1, EmptyBytes
  <1>13. Fills'
    <2>1. /\ Start(mark)' = Start(j + 1) /\ Before(stream, mark)' = Before(stream, j + 1)
          /\ At(mark)' = (RecordsTo(stream)[j] = calls)
      BY <1>2, <1>8, <1>9 DEF Start, Before, At, OpensRecord
    <2>2. pos' - (Start(j + 1) + MarkSz) = 0
      BY <1>2, <1>11
    <2>3. At(mark)'
      BY <1>3, <2>1
    <2>4. (buf = Before(stream, mark) \o Bytes(Start(mark) + MarkSz, pos - (Start(mark) + MarkSz)))'
      BY <1>2, <1>12, <2>1, <2>2
    <2>. QED
      BY <2>3, <2>4 DEF Fills
  <1>. QED
    BY <1>8, <1>13 DEF RecordInv, Waits, Gives

(* At the end of the body of fragment k the buffer holds what it joins to. *)
LEMMA BodyIsJoined ==
  ASSUME stream \in Streams, NEW k \in Frags
  PROVE  Before(stream, k) \o Bytes(Start(k) + MarkSz, stream[k].len) = Joined(stream)[k]
  BY JoinedBytes DEF Start

(* The last fragment of a record adds one to the records, another none.    *)
LEMMA CountsAt ==
  ASSUME stream \in Streams, NEW k \in Frags, At(k), calls \in Nat
  PROVE  /\ stream[k].last => RecordsTo(stream)[k] = calls + 1
         /\ ~stream[k].last => RecordsTo(stream)[k] = calls
  BY RecordsAreCounts DEF At

LEMMA ReadBodyRecord ==
  ASSUME RecordInv, FrameInv', UseMark, NEW cc \in 1 .. nleft, ReadBody(cc)
  PROVE  RecordInv'
  <1>1. /\ pc = "body" /\ pos' = pos + cc /\ nleft' = nleft - cc
        /\ buf' = buf \o Bytes(pos, cc)
        /\ stream' = stream /\ mark' = mark /\ calls' = calls
    BY DEF ReadBody
  <1>2. /\ mark \in Frags /\ nleft \in Nat /\ pos \in Nat /\ cc \in Nat /\ calls \in Nat
    BY Positions DEF RecordInv, FrameInv, TypeOK
  <1> DEFINE base == Start(mark) + MarkSz
  <1>3. /\ base \in Nat /\ MarkSz \in Nat /\ stream[mark].len \in Nat
        /\ Want(mark) = stream[mark].len + MarkSz
        /\ Ends(stream)[mark] = base + stream[mark].len
    BY <1>2, Positions, WantType DEF RecordInv, FrameInv
  <1>4. pos >= base /\ pos + nleft = base + Want(mark)
    BY <1>1 DEF RecordInv, FrameInv, InBody
  <1>5. At(mark) /\ buf = Before(stream, mark) \o Bytes(base, pos - base)
    BY <1>1 DEF RecordInv, Fills
  <1>6. Before(stream, mark) \in Seq(Nat)
    BY <1>2, BeforeType DEF RecordInv, FrameInv
  <1>. HIDE DEF base
  <1>7. buf' = Before(stream, mark) \o Bytes(base, pos' - base)
    <2>1. pos - base \in Nat /\ base + (pos - base) = pos /\ (pos - base) + cc = pos' - base
      BY <1>1, <1>2, <1>3, <1>4
    <2>2. (Before(stream, mark) \o Bytes(base, pos - base)) \o Bytes(base + (pos - base), cc)
            = Before(stream, mark) \o Bytes(base, (pos - base) + cc)
      <3>1. PICK b \in Nat, m \in Nat, s \in Seq(Nat) :
              b = base /\ m = pos - base /\ s = Before(stream, mark)
        BY <1>3, <1>6, <2>1
      <3>2. cc \in Nat
        BY <1>2
      <3>3. (s \o Bytes(b, m)) \o Bytes(b + m, cc) = s \o Bytes(b, m + cc)
        BY <3>2, MoreBytes
      <3>. QED
        BY <3>1, <3>3
    <2>. QED
      BY <1>1, <1>5, <2>1, <2>2
  <1>8. /\ base' = base /\ Before(stream, mark)' = Before(stream, mark)
        /\ At(mark)' = At(mark) /\ Joined(stream)' = Joined(stream) /\ Ends(stream)' = Ends(stream)
    BY <1>1 DEF base, Start, Before, At, OpensRecord
  <1>9. CASE StopsAt(nleft') /\ pc' = "returned" /\ ret' = stream[mark].len /\ nextMark' = None
    <2>1. stream[mark].last /\ nleft' = MarkSz
      BY <1>9 DEF StopsAt
    <2>2. pos' = base + stream[mark].len /\ pos' - base = stream[mark].len
      <3>1. pos' = pos + cc /\ nleft' = nleft - cc
        BY <1>1
      <3>2. pos + nleft = base + stream[mark].len + MarkSz
        BY <1>3, <1>4
      <3>. QED
        BY <1>2, <1>3, <2>1, <3>1, <3>2
    <2>3. buf' = Joined(stream)[mark]
      BY <1>2, <1>7, <2>2, BodyIsJoined DEF RecordInv, FrameInv, base
    <2>4. EndsRecord(mark, calls + 1)
      BY <1>2, <1>5, <2>1, CountsAt DEF EndsRecord, RecordInv, FrameInv
    <2>5. Gives'
      <3>1. EndsRecord(mark, calls + 1)' = EndsRecord(mark, calls + 1)
        BY <1>1 DEF EndsRecord
      <3>. QED
        BY <1>1, <1>3, <1>8, <1>9, <2>2, <2>3, <2>4, <3>1 DEF Gives
    <2>. QED
      BY <1>9, <2>5 DEF RecordInv, Waits, Fills
  <1>10. CASE UNCHANGED <<pc, ret, nextMark>>
    <2>1. Fills'
      BY <1>5, <1>7, <1>8 DEF Fills, base
    <2>. QED
      BY <1>1, <1>10, <2>1 DEF RecordInv, Waits, Gives
  <1>. QED
    BY <1>9, <1>10 DEF ReadBody

LEMMA EndOfBodyRecord ==
  ASSUME RecordInv, FrameInv', UseMark, EndOfBody
  PROVE  RecordInv'
  <1>1. /\ pc = "body" /\ nleft = 0 /\ pos' = pos /\ stream' = stream /\ mark' = mark /\ calls' = calls
        /\ nextMark' \in MarkAt(pos - MarkSz) /\ buf' = DropMark(buf)
    BY DEF EndOfBody
  <1>2. mark \in Frags /\ pos \in Nat /\ calls \in Nat
    BY Positions DEF RecordInv, FrameInv, TypeOK
  <1> DEFINE base == Start(mark) + MarkSz
  <1>3. /\ base \in Nat /\ MarkSz \in Nat /\ stream[mark].len \in Nat
        /\ Want(mark) = stream[mark].len + MarkSz
        /\ Ends(stream)[mark] = base + stream[mark].len
        /\ Fragments \in Nat /\ stream[mark].last \in BOOLEAN
    BY <1>2, Positions, WantType DEF RecordInv, FrameInv
  <1>4. pos = base + Want(mark)
    BY <1>1, <1>2, <1>3 DEF RecordInv, FrameInv, InBody
  <1>5. At(mark) /\ buf = Before(stream, mark) \o Bytes(base, pos - base)
    BY <1>1 DEF RecordInv, Fills
  <1>6. Before(stream, mark) \in Seq(Nat)
    BY <1>2, BeforeType DEF RecordInv, FrameInv
  <1>7. buf' = Joined(stream)[mark]
    <2>. HIDE DEF base
    <2>1. pos - base = stream[mark].len + MarkSz
      BY <1>3, <1>4
    <2>2. buf' = Before(stream, mark) \o Bytes(base, stream[mark].len)
      BY <1>1, <1>3, <1>5, <1>6, <2>1, DropsMark
    <2>. QED
      BY <1>2, <2>2, BodyIsJoined DEF RecordInv, FrameInv, base
  <1>8. nextMark' = mark + 1 /\ nextMark' \in Frags /\ nextMark' # None
    <2>1. pos - MarkSz = Ends(stream)[mark]
      BY <1>3, <1>4
    <2>2. mark \in 0 .. Fragments
      BY <1>2, <1>3 DEF Frags
    <2>3. nextMark' = mark + 1
      BY <1>1, <2>1, <2>2, MarkBehind DEF RecordInv, FrameInv
    <2>. QED
      BY <1>1, <1>2, <2>3 DEF MarkAt, None, Frags
  <1>9. (mark + 1) - 1 = mark /\ mark + 1 # 1
    BY <1>2 DEF Frags
  <1>10. CASE stream[mark].last /\ pc' = "returned" /\ ret' = stream[mark].len
    <2>1. EndsRecord(mark, calls + 1)
      BY <1>2, <1>5, <1>10, CountsAt DEF EndsRecord, RecordInv, FrameInv
    <2>2. EndsRecord(mark, calls + 1)' /\ Joined(stream)' = Joined(stream)
      BY <1>1, <2>1 DEF EndsRecord
    <2>3. Gives'
      BY <1>1, <1>7, <1>8, <1>10, <2>2 DEF Gives
    <2>. QED
      BY <1>10, <2>3 DEF RecordInv, Waits, Fills
  <1>11. CASE ~stream[mark].last /\ pc' = "again"
    <2>1. RecordsTo(stream)[mark] = calls
      BY <1>2, <1>5, <1>11, CountsAt DEF RecordInv, FrameInv
    <2>2. At(nextMark)'
      BY <1>1, <1>8, <1>9, <2>1 DEF At
    <2>3. Before(stream, mark + 1) = Joined(stream)[mark]
      BY <1>9, <1>11 DEF Before, OpensRecord
    <2>4. Before(stream, nextMark)' = Before(stream, mark + 1)
      BY <1>1, <1>8 DEF Before, OpensRecord
    <2>5. Waits'
      BY <1>7, <1>8, <2>2, <2>3, <2>4 DEF Waits
    <2>. QED
      BY <1>11, <2>5 DEF RecordInv, Fills, Gives
  <1>. QED
    BY <1>10, <1>11 DEF EndOfBody

LEMMA CallAgainRecord ==
  ASSUME RecordInv, FrameInv', CallAgain
  PROVE  RecordInv'
  <1>1. /\ pc = "returned" /\ pc' = "again" /\ buf' = <<>> /\ calls' = calls + 1
        /\ stream' = stream /\ pos' = pos /\ nextMark' = nextMark
    BY DEF CallAgain
  <1>2. /\ EndsRecord(mark, calls + 1)
        /\ IF nextMark = None THEN pos = Ends(stream)[mark] ELSE nextMark = mark + 1
    BY <1>1 DEF RecordInv, Gives
  <1>3. mark \in Frags /\ mark \in 0 .. Fragments /\ (mark + 1) - 1 = mark /\ mark + 1 # 1
    BY RpcRecvAssumption DEF RecordInv, FrameInv, TypeOK, Frags
  <1>4. RecordsTo(stream)[mark] = calls + 1 /\ stream[mark].last
    BY <1>2 DEF EndsRecord
  <1>5. CASE nextMark = None
    <2>1. pos' = Ends(stream')[mark] /\ RecordsTo(stream')[mark] = calls' /\ stream'[mark].last
      BY <1>1, <1>2, <1>4, <1>5
    <2>2. Waits'
      BY <1>1, <1>3, <1>5, <2>1 DEF Waits
    <2>. QED
      BY <1>1, <2>2 DEF RecordInv, Fills, Gives
  <1>6. CASE nextMark # None
    <2>1. nextMark = mark + 1
      BY <1>2, <1>6
    <2>2. At(nextMark)'
      BY <1>1, <1>3, <1>4, <2>1 DEF At
    <2>3. Before(stream, nextMark) = <<>>
      BY <1>3, <1>4, <2>1 DEF Before, OpensRecord
    <2>4. Before(stream, nextMark)' = Before(stream, nextMark)
      BY <1>1 DEF Before, OpensRecord
    <2>5. Waits'
      BY <1>1, <1>6, <2>2, <2>3, <2>4 DEF Waits
    <2>. QED
      BY <1>1, <2>5 DEF RecordInv, Fills, Gives
  <1>. QED
    BY <1>5, <1>6

LEMMA RecordNext ==
  ASSUME UseMark, NoZeroMarks
  PROVE  RecordInv /\ [Next]_vars => RecordInv'
  <1>1. SUFFICES ASSUME RecordInv, [Next]_vars PROVE RecordInv'
    OBVIOUS
  <1>2. FrameInv'
    BY <1>1, FrameNext DEF RecordInv
  <1>3. CASE \/ Close \/ ReadEof \/ RecvFails \/ UNCHANGED vars
             \/ \E n \in 1 .. Total : Arrive(n)
    BY <1>1, <1>2, <1>3, QuietRecord
  <1>9. CASE TooLarge
    BY <1>1, <1>2, <1>9, TooLargeRecord
  <1>4. CASE UseNextMark
    BY <1>1, <1>2, <1>4, UseNextMarkRecord
  <1>5. CASE ReadMark
    BY <1>1, <1>2, <1>5, ReadMarkRecord
  <1>6. CASE EndOfBody
    BY <1>1, <1>2, <1>6, EndOfBodyRecord
  <1>7. CASE CallAgain
    BY <1>1, <1>2, <1>7, CallAgainRecord
  <1>8. CASE \E cc \in 1 .. nleft : ReadBody(cc)
    BY <1>1, <1>2, <1>8, ReadBodyRecord
  <1>. QED
    BY <1>1, <1>3, <1>4, <1>5, <1>6, <1>7, <1>8, <1>9 DEF Next, Receive

LEMMA RecordAlways ==
  ASSUME UseMark, NoZeroMarks
  PROVE  Spec => []RecordInv
  <1>1. RecordInv /\ [Next]_vars => RecordInv'
    BY RecordNext
  <1>. QED
    BY <1>1, RecordInit, PTL DEF Spec

(* With the read-ahead no byte is skipped and none is read twice: between  *)
(* two calls of nct_rpc_recv the stream is at a mark, or behind the one    *)
(* that is kept.  A mark of zero is the exception the hypothesis leaves    *)
(* out.                                                                    *)
THEOREM StaysInStep ==
  ASSUME UseMark, NoZeroMarks
  PROVE  Spec => []InStep
  <1>1. RecordInv => InStep
    <2>1. SUFFICES ASSUME RecordInv, pc = "returned"
                   PROVE  IF nextMark = None THEN pos = Total \/ MarkAt(pos) # {}
                                             ELSE pos = Start(nextMark) + MarkSz
      BY DEF InStep, RecordInv
    <2>2. CASE nextMark = None
      <3>1. mark \in Frags /\ pos = Ends(stream)[mark]
        BY <2>1, <2>2 DEF RecordInv, Gives, FrameInv, TypeOK
      <3>2. mark \in 0 .. Fragments /\ (mark = Fragments \/ mark < Fragments)
        BY <3>1, RpcRecvAssumption DEF Frags
      <3>3. CASE mark = Fragments
        BY <2>2, <3>1, <3>3 DEF Total
      <3>4. CASE mark < Fragments
        BY <2>1, <2>2, <3>1, <3>2, <3>4, MarkBehind DEF RecordInv, FrameInv
      <3>. QED
        BY <3>2, <3>3, <3>4
    <2>3. CASE nextMark # None
      BY <2>1, <2>3 DEF RecordInv, FrameInv, KeptMark
    <2>. QED
      BY <2>2, <2>3
  <1>2. Spec => []RecordInv
    BY RecordAlways
  <1>. QED
    BY <1>1, <1>2, PTL

(* With the read-ahead each call of nct_rpc_recv leaves the fragments of   *)
(* the next record in the buffer, joined, and nothing behind them, however *)
(* many fragments it has.                                                  *)
BufferHasRecord ==
  pc = "returned" =>
    \E k \in Frags : EndsRecord(k, calls + 1) /\ buf = Joined(stream)[k]

THEOREM BufferAlwaysHasRecord ==
  ASSUME UseMark, NoZeroMarks
  PROVE  Spec => []BufferHasRecord
  <1>1. RecordInv => BufferHasRecord
    BY DEF RecordInv, Gives, BufferHasRecord, FrameInv, TypeOK
  <1>2. Spec => []RecordInv
    BY RecordAlways
  <1>. QED
    BY <1>1, <1>2, PTL

(* And says how long it is, for records of one fragment, which are the     *)
(* ones NFS servers send: what it returns is the length of the last        *)
(* fragment.                                                               *)
THEOREM ReturnsWholeRecords ==
  ASSUME UseMark, LastBits = {TRUE}
  PROVE  Spec => []ReturnsRecord
  <1>1. NoZeroMarks
    BY DEF NoZeroMarks
  <1>2. RecordInv => ReturnsRecord
    <2>1. SUFFICES ASSUME RecordInv, pc = "returned"
                   PROVE  /\ mark \in Frags /\ EndsRecord(mark, calls + 1)
                          /\ buf = Joined(stream)[mark] /\ ret = Len(buf)
      BY DEF ReturnsRecord
    <2>2. /\ mark \in Frags /\ EndsRecord(mark, calls + 1)
          /\ buf = Joined(stream)[mark] /\ ret = stream[mark].len
      BY <2>1 DEF RecordInv, Gives, FrameInv, TypeOK
    <2>3. Before(stream, mark) = <<>>
      <3>1. mark # 1 => mark - 1 \in Frags
        BY <2>2, RpcRecvAssumption DEF Frags
      <3>2. mark # 1 => stream[mark - 1] \in [len : Lengths, last : {TRUE}]
        BY <2>1, <3>1 DEF RecordInv, FrameInv, Streams
      <3>. QED
        BY <3>2 DEF Before, OpensRecord
    <2>4. Start(mark) + MarkSz \in Nat /\ stream[mark].len \in Nat
      BY <2>1, <2>2, Positions DEF RecordInv, FrameInv
    <2>5. Len(Bytes(Start(mark) + MarkSz, stream[mark].len)) = stream[mark].len
          /\ Bytes(Start(mark) + MarkSz, stream[mark].len) \in Seq(Nat)
      BY <2>4, BytesType
    <2>6. Joined(stream)[mark] = <<>> \o Bytes(Start(mark) + MarkSz, stream[mark].len)
      BY <2>1, <2>2, <2>3, BodyIsJoined DEF RecordInv, FrameInv
    <2>7. Joined(stream)[mark] = Bytes(Start(mark) + MarkSz, stream[mark].len)
      BY <2>5, <2>6
    <2>. QED
      BY <2>2, <2>5, <2>7
  <1>3. Spec => []RecordInv
    BY <1>1, RecordAlways
  <1>. QED
    BY <1>2, <1>3, PTL
=============================================================================
