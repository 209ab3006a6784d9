------------------------- MODULE ReadOffsetsProofs -------------------------
(* The first pass of the read test through the file, for every number of   *)
(* threads and jobs and every size of file and of read.                    *)
EXTENDS ReadOffsets, FiniteSetTheorems, SequenceTheorems, TLAPS

-----------------------------------------------------------------------------
(* Multiples of the length of a read.                                      *)
LEMMA ScaleOne == \A n \in Int : (n + 1) * Length = n * Length + Length
  BY ReadOffsetsAssumption

LEMMA ScaleMonotonic == \A m, n \in Nat : m <= n => m * Length <= n * Length
  <1>. SUFFICES ASSUME NEW m \in Nat, NEW n \in Nat, m <= n PROVE m * Length <= n * Length
    OBVIOUS
  <1>1. (n - m) * Length >= 0
    BY ReadOffsetsAssumption
  <1>2. (n - m) * Length = n * Length - m * Length
    BY ReadOffsetsAssumption
  <1>. QED
    BY <1>1, <1>2, ReadOffsetsAssumption

LEMMA IsMultiple == \A o \in Int : o \in Blocks <=> \E q \in Int : o = q * Length
  <1>1. ASSUME NEW o \in Int, o % Length = 0 PROVE \E q \in Int : o = q * Length
    <2>. DEFINE q == o \div Length
    <2>1. o = q * Length + (o % Length) /\ q \in Int
      BY ReadOffsetsAssumption
    <2>2. q * Length \in Int
      BY <2>1, ReadOffsetsAssumption
    <2>3. o = q * Length
      BY <1>1, <2>1, <2>2
    <2>. QED
      BY <2>1, <2>3
  <1>2. ASSUME NEW q \in Int PROVE (q * Length) % Length = 0
    BY ReadOffsetsAssumption
  <1>. QED
    BY <1>1, <1>2 DEF Blocks

LEMMA BlocksClosed ==
  /\ 0 \in Blocks
  /\ \A o \in Blocks : o + Length \in Blocks
  /\ \A o, p \in Blocks : o - p \in Blocks
  <1>1. 0 \in Blocks
    BY ReadOffsetsAssumption DEF Blocks
  <1>2. ASSUME NEW o \in Blocks PROVE o + Length \in Blocks
    <2>1. PICK q \in Int : o = q * Length
      BY IsMultiple DEF Blocks
    <2>2. o + Length = (q + 1) * Length /\ q + 1 \in Int
      BY <2>1, ScaleOne
    <2>3. o + Length \in Int
      BY ReadOffsetsAssumption DEF Blocks
    <2>. QED
      BY <2>2, <2>3, IsMultiple
  <1>3. ASSUME NEW o \in Blocks, NEW p \in Blocks PROVE o - p \in Blocks
    <2>1. PICK q \in Int, r \in Int : o = q * Length /\ p = r * Length
      BY IsMultiple DEF Blocks
    <2>2. o - p = (q - r) * Length
      BY <2>1, ReadOffsetsAssumption
    <2>. QED
      BY <2>2, IsMultiple, ReadOffsetsAssumption DEF Blocks
  <1>. QED
    BY <1>1, <1>2, <1>3

(* There is one multiple in a range as long as a read.                     *)
LEMMA OneMultiple ==
  ASSUME NEW o \in Blocks, NEW k \in Blocks, o <= k, k < o + Length
  PROVE  k = o
  <1>1. PICK q \in Int : k - o = q * Length
    BY BlocksClosed, IsMultiple DEF Blocks
  <1>2. k - o \in 0 .. Length - 1
    BY ReadOffsetsAssumption DEF Blocks
  <1>3. CASE q >= 1
    <2>1. (q - 1) * Length >= 0 /\ q * Length = (q - 1) * Length + Length
      BY <1>3, ReadOffsetsAssumption, ScaleOne
    <2>. QED
      BY <1>1, <1>2, <2>1, ReadOffsetsAssumption
  <1>4. CASE q <= -1
    <2>1. (-1 - q) * Length >= 0 /\ q * Length = -((-1 - q) * Length) - Length
      BY <1>4, ReadOffsetsAssumption
    <2>. QED
      BY <1>1, <1>2, <2>1, ReadOffsetsAssumption
  <1>5. CASE q = 0
    BY <1>1, <1>5, ReadOffsetsAssumption DEF Blocks
  <1>. QED
    BY <1>3, <1>4, <1>5

-----------------------------------------------------------------------------
LEMMA OffsetTypes == TypeOK /\ [Next]_vars => TypeOK'
  <1>. SUFFICES ASSUME TypeOK, [Next]_vars PROVE TypeOK'
    OBVIOUS
  <1>. USE ReadOffsetsAssumption DEF TypeOK, Pcs, Goto, Actors
  <1>1. CASE Start
    BY <1>1 DEF Start
  <1>2. ASSUME NEW t \in RecvThreads, Reply(t) \/ Load(t) PROVE TypeOK'
    BY <1>2 DEF Reply, Load
  <1>3. ASSUME NEW t \in RecvThreads, Sub(t) PROVE TypeOK'
    <2>1. prOffset' \in Blocks
      BY <1>3, BlocksClosed DEF Sub, Back
    <2>. QED
      BY <1>3, <2>1 DEF Sub
  <1>4. ASSUME NEW a \in Actors, Add(a) PROVE TypeOK'
    <2>1. prOffset' \in Blocks
      BY <1>4, BlocksClosed DEF Add, Advanced
    <2>. QED
      BY <1>4, <2>1 DEF Add
  <1>5. ASSUME NEW a \in Actors, Check(a) PROVE TypeOK'
    <2>1. pc' \in [Actors -> Pcs]
      BY <1>5 DEF Check
    <2>. QED
      BY <1>5, <2>1 DEF Check
  <1>6. ASSUME NEW a \in Actors, Send(a) PROVE TypeOK'
    BY <1>6 DEF Send
  <1>7. CASE UNCHANGED vars
    BY <1>7 DEF vars
  <1>. QED
    BY <1>1, <1>2, <1>3, <1>4, <1>5, <1>6, <1>7 DEF Next

(* ReadOffsets never leaves its types: every offset is a multiple of the   *)
(* length of a read.                                                       *)
THEOREM OffsetsTypeCorrect == Spec => []TypeOK
  <1>1. Init => TypeOK
    <2>. SUFFICES ASSUME Init PROVE TypeOK
      OBVIOUS
    <2>1. wrapped \in BOOLEAN
      BY DEF Init
    <2>2. sent \in Seq(Blocks)
      BY EmptySeq DEF Init
    <2>. QED
      BY <2>1, <2>2, ReadOffsetsAssumption, BlocksClosed DEF Init, TypeOK, Pcs
  <1>. QED
    BY <1>1, OffsetTypes, PTL DEF Spec

-----------------------------------------------------------------------------
(* Until somebody goes back: what is sent or held lies before prOffset,    *)
(* what is sent or about to be lies in the file, nothing twice, and every  *)
(* block before prOffset is one of these.  The threads that have run past  *)
(* the end of the file and the jobs started bound how far prOffset is      *)
(* behind it, and so the sum that is compared does not wrap around.        *)
Past == {t \in RecvThreads : pc[t] \in {"check", "load", "sub", "send"} /\ offset[t] + Length > Size}
Jobs == JobsMax - starts - (IF pc[Main] = "add" THEN 1 ELSE 0)

Room == Jobs \in Nat /\ prOffset <= Size + (Cardinality(Past) + Jobs) * Length
HeldBefore == \A a \in Holding : 0 <= offset[a] /\ offset[a] < prOffset
SentBefore == \A i \in DOMAIN sent : 0 <= sent[i] /\ sent[i] < prOffset /\ sent[i] + Length <= Size
AboutToSend == \A a \in Actors : pc[a] = "send" => offset[a] + Length <= Size
NoneTwice ==
  /\ \A i, j \in DOMAIN sent : sent[i] = sent[j] => i = j
  /\ \A a, b \in Holding : offset[a] = offset[b] => a = b
  /\ \A a \in Holding, i \in DOMAIN sent : offset[a] # sent[i]
Covered ==
  \A k \in Blocks : 0 <= k /\ k < prOffset /\ k + Length <= Size =>
    (\E i \in DOMAIN sent : sent[i] = k) \/ (\E a \in Holding : offset[a] = k)

PassInv ==
  prOffset >= 0 /\ Room /\ HeldBefore /\ SentBefore /\ AboutToSend /\ NoneTwice /\ Covered

FirstInv == TypeOK /\ (~wrapped => PassInv)

LEMMA FewPast == IsFiniteSet(Past) /\ Cardinality(Past) \in Nat /\ Cardinality(Past) <= Cardinality(RecvThreads)
  BY RoomAssumption, FS_Subset, FS_CardinalityType DEF Past

(* The comparison with the size of the file is that of the numbers.        *)
LEMMA PastEndExact ==
  ASSUME TypeOK, PassInv, NEW a \in Holding
  PROVE  PastEnd(offset[a]) <=> offset[a] + Length > Size
  <1>. DEFINE n == Cardinality(Past) + Jobs
              m == Cardinality(RecvThreads) + JobsMax
  <1>1. n \in Nat /\ m \in Nat /\ n <= m
    BY FewPast, RoomAssumption, ReadOffsetsAssumption, FS_CardinalityType
    DEF PassInv, Room, Jobs, TypeOK
  <1>2. n * Length <= m * Length /\ (m + 1) * Length = m * Length + Length
    BY <1>1, ScaleMonotonic, ScaleOne
  <1>3. offset[a] \in Int /\ 0 <= offset[a] /\ offset[a] < prOffset /\ prOffset \in Int
    BY DEF PassInv, HeldBefore, TypeOK, Holding, Blocks
  <1>4. n * Length \in Int /\ m * Length \in Int
    BY <1>1, ReadOffsetsAssumption
  <1>5. prOffset <= Size + n * Length
    BY DEF PassInv, Room
  <1>6. OffMod > Size + (m + 1) * Length
    BY RoomAssumption
  <1>. HIDE DEF n, m
  <1>7. offset[a] + Length \in 0 .. OffMod - 1
    BY <1>2, <1>3, <1>4, <1>5, <1>6, ReadOffsetsAssumption
  <1>8. (offset[a] + Length) % OffMod = offset[a] + Length
    BY <1>7, ReadOffsetsAssumption
  <1>. QED
    BY <1>8 DEF PastEnd

(* A step that takes no offset and sends nothing.                          *)
LEMMA QuietPass ==
  ASSUME TypeOK, PassInv,
         UNCHANGED <<prOffset, offset, sent>>,
         Holding' = Holding \ {Main} \/ Holding' = Holding,
         \A a \in Holding \ Holding' : offset[a] + Length > Size,
         \A a \in Actors : pc'[a] = "send" => pc[a] = "send" \/ offset[a] + Length <= Size,
         Past' = Past, Jobs' = Jobs
  PROVE  PassInv'
  <1>1. Room' /\ prOffset' >= 0
    BY DEF PassInv, Room
  <1>2. HeldBefore' /\ SentBefore'
    BY DEF PassInv, HeldBefore, SentBefore
  <1>3. AboutToSend'
    BY DEF PassInv, AboutToSend
  <1>4. NoneTwice'
    BY DEF PassInv, NoneTwice
  <1>5. Covered'
    <2>1. ASSUME NEW a \in Holding, NEW k \in Blocks, k + Length <= Size, offset[a] = k
          PROVE  a \in Holding'
      BY <2>1, ReadOffsetsAssumption DEF Blocks
    <2>. QED
      BY <2>1 DEF PassInv, Covered
  <1>. QED
    BY <1>1, <1>2, <1>3, <1>4, <1>5 DEF PassInv

LEMMA PassNext ==
  ASSUME TypeOK, TypeOK', PassInv, ~wrapped', [Next]_vars
  PROVE  PassInv'
  <1>1. /\ Main \in Actors /\ \A t \in RecvThreads : t \in Actors /\ t # Main
        /\ pc \in [Actors -> Pcs] /\ offset \in [Actors -> Blocks]
    BY ReadOffsetsAssumption DEF Actors, TypeOK
  <1>. USE <1>1 DEF Goto
  <1>2. CASE Start
    <2>1. /\ UNCHANGED <<prOffset, offset, sent>> /\ pc[Main] = "idle" /\ pc'[Main] = "add"
          /\ \A a \in Actors \ {Main} : pc'[a] = pc[a]
          /\ starts' = starts - 1
      BY <1>2 DEF Start
    <2>2. Past' = Past /\ Holding' = Holding
      BY <2>1 DEF Past, Holding
    <2>3. Jobs' = Jobs
      BY <2>1, ReadOffsetsAssumption DEF Jobs, TypeOK
    <2>. QED
      BY <2>1, <2>2, <2>3, QuietPass
  <1>3. ASSUME NEW t \in RecvThreads, Reply(t) \/ Load(t) PROVE PassInv'
    <2>1. /\ UNCHANGED <<prOffset, offset, sent, starts>>
          /\ \/ pc[t] = "idle" /\ pc'[t] = "add"
             \/ pc[t] = "load" /\ pc'[t] = "sub"
          /\ \A a \in Actors \ {t} : pc'[a] = pc[a]
      BY <1>3 DEF Reply, Load
    <2>2. Past' = Past /\ Holding' = Holding
      BY <2>1 DEF Past, Holding
    <2>3. Jobs' = Jobs
      BY <2>1 DEF Jobs
    <2>. QED
      BY <2>1, <2>2, <2>3, QuietPass
  <1>4. ASSUME NEW t \in RecvThreads, Sub(t) PROVE PassInv'
    BY <1>4 DEF Sub
  <1>5. ASSUME NEW a \in Actors, Add(a) PROVE PassInv'
    <2>1. /\ pc[a] = "add" /\ pc'[a] = "check" /\ offset'[a] = prOffset
          /\ prOffset' = prOffset + Length
          /\ \A b \in Actors \ {a} : pc'[b] = pc[b] /\ offset'[b] = offset[b]
          /\ UNCHANGED <<sent, starts>>
      BY <1>5 DEF Add, Advanced
    <2>2. prOffset \in Int /\ prOffset >= 0 /\ Length \in Nat \ {0} /\ Size \in Nat
          /\ prOffset \in Blocks
      BY ReadOffsetsAssumption DEF TypeOK, Blocks, PassInv
    <2>3. /\ Holding' = Holding \cup {a} /\ a \notin Holding
          /\ \A b \in Holding : b # a /\ b \in Actors /\ offset'[b] = offset[b] /\ offset[b] \in Int
      BY <2>1 DEF Holding, Blocks
    <2>4. HeldBefore'
      BY <2>1, <2>2, <2>3 DEF PassInv, HeldBefore
    <2>5. SentBefore'
      <3>1. \A i \in DOMAIN sent : sent[i] \in Int
        <4>1. sent \in Seq(Blocks)
          BY DEF TypeOK
        <4>. QED
          BY <4>1 DEF Blocks
      <3>2. SentBefore
        BY DEF PassInv
      <3>. QED
        BY <2>1, <2>2, <3>1, <3>2 DEF SentBefore
    <2>6. AboutToSend'
      BY <2>1 DEF PassInv, AboutToSend
    <2>7. NoneTwice'
      <3>1. \A b \in Holding : offset[b] # prOffset
        BY <2>2, <2>3 DEF PassInv, HeldBefore
      <3>2. \A i \in DOMAIN sent : sent[i] # prOffset
        BY <2>2 DEF PassInv, SentBefore
      <3>. QED
        BY <2>1, <2>3, <3>1, <3>2 DEF PassInv, NoneTwice
    <2>8. Covered'
      <3>. SUFFICES ASSUME NEW k \in Blocks, 0 <= k, k < prOffset', k + Length <= Size
                    PROVE  (\E i \in DOMAIN sent' : sent'[i] = k) \/ (\E b \in Holding' : offset'[b] = k)
        BY DEF Covered
      <3>1. CASE k < prOffset
        BY <2>1, <2>3, <3>1 DEF PassInv, Covered
      <3>2. CASE prOffset <= k
        BY <2>1, <2>2, <2>3, <3>2, OneMultiple
      <3>. QED
        BY <2>2, <3>1, <3>2 DEF Blocks
    <2>9. Room'
      <3>1. /\ IsFiniteSet(Past) /\ Cardinality(Past) \in Nat /\ Jobs \in Nat
            /\ JobsMax \in Nat /\ starts \in Int
        BY FewPast, ReadOffsetsAssumption DEF PassInv, Room, TypeOK
      <3>2. /\ Past' = IF a \in RecvThreads /\ prOffset + Length > Size THEN Past \cup {a} ELSE Past
            /\ a \notin Past
        BY <2>1 DEF Past
      <3>3. Jobs' = IF a = Main THEN Jobs + 1 ELSE Jobs
        BY <2>1, <3>1 DEF Jobs
      <3>4. Cardinality(Past') = IF a \in RecvThreads /\ prOffset + Length > Size
                                 THEN Cardinality(Past) + 1 ELSE Cardinality(Past)
        BY <3>1, <3>2, FS_AddElement
      <3>5. Jobs' \in Nat /\ Cardinality(Past') \in Nat
        BY <3>1, <3>3, <3>4
      <3>. DEFINE n == Cardinality(Past) + Jobs
                  np == Cardinality(Past') + Jobs'
      <3>6. n \in Nat /\ np \in Nat
        BY <3>1, <3>5
      <3>7. CASE prOffset + Length > Size
        <4>1. np = n + 1
          BY <3>1, <3>3, <3>4, <3>7 DEF Actors
        <4>2. prOffset <= Size + n * Length
          BY DEF PassInv, Room
        <4>3. np * Length = n * Length + Length /\ n * Length \in Int
          BY <3>6, <4>1, <2>2, ScaleOne
        <4>. HIDE DEF n, np
        <4>4. prOffset' <= Size + np * Length
          BY <2>1, <2>2, <4>2, <4>3
        <4>. USE DEF np
        <4>. QED
          BY <3>5, <4>4 DEF Room
      <3>8. CASE prOffset + Length <= Size
        <4>1. np * Length >= 0
          BY <3>6, <2>2
        <4>2. np * Length \in Int
          BY <3>6, <2>2
        <4>. HIDE DEF np
        <4>3. prOffset' <= Size + np * Length
          BY <2>1, <2>2, <3>8, <4>1, <4>2
        <4>. USE DEF np
        <4>. QED
          BY <3>5, <4>3 DEF Room
      <3>. QED
        BY <2>2, <3>7, <3>8
    <2>. QED
      BY <2>1, <2>2, <2>4, <2>5, <2>6, <2>7, <2>8, <2>9 DEF PassInv
  <1>6. ASSUME NEW a \in Actors, Check(a) PROVE PassInv'
    <2>1. /\ pc[a] = "check"
          /\ \A b \in Actors \ {a} : pc'[b] = pc[b]
          /\ UNCHANGED <<prOffset, offset, sent, starts>>
          /\ \/ ~PastEnd(offset[a]) /\ pc'[a] = "send"
             \/ PastEnd(offset[a]) /\ a # Main /\ pc'[a] = "load"
             \/ PastEnd(offset[a]) /\ a = Main /\ pc'[a] = "idle"
      BY <1>6 DEF Check
    <2>2. /\ a \in Holding /\ (PastEnd(offset[a]) <=> offset[a] + Length > Size)
          /\ offset[a] \in Int
      BY <2>1, PastEndExact DEF Holding, Blocks
    <2>3. Past' = Past
      BY <2>1 DEF Past
    <2>4. Jobs' = Jobs
      BY <2>1 DEF Jobs
    <2>5. Holding' = IF pc'[a] = "idle" THEN Holding \ {Main} ELSE Holding
      BY <2>1 DEF Holding
    <2>6. \A b \in Holding \ Holding' : offset[b] + Length > Size
      BY <2>1, <2>2, <2>5
    <2>7. \A b \in Actors : pc'[b] = "send" => pc[b] = "send" \/ offset[b] + Length <= Size
      BY <2>1, <2>2, ReadOffsetsAssumption
    <2>. QED
      BY <2>1, <2>3, <2>4, <2>5, <2>6, <2>7, QuietPass
  <1>7. ASSUME NEW a \in Actors, Send(a) PROVE PassInv'
    <2>1. /\ pc[a] = "send" /\ pc'[a] = "idle" /\ sent' = Append(sent, offset[a])
          /\ \A b \in Actors \ {a} : pc'[b] = pc[b]
          /\ UNCHANGED <<prOffset, offset, starts>>
      BY <1>7 DEF Send
    <2>2. /\ a \in Holding /\ Holding' = Holding \ {a} /\ offset[a] + Length <= Size
          /\ offset[a] \in Int
      BY <2>1 DEF Holding, PassInv, AboutToSend, Blocks
    <2>3. /\ sent \in Seq(Blocks) /\ Len(sent) \in Nat
          /\ DOMAIN sent = 1 .. Len(sent) /\ DOMAIN sent' = 1 .. Len(sent) + 1
          /\ \A i \in 1 .. Len(sent) : sent'[i] = sent[i]
          /\ sent'[Len(sent) + 1] = offset[a]
      BY <2>1 DEF TypeOK
    <2>4. Past' = Past
      BY <2>1, <2>2, ReadOffsetsAssumption DEF Past
    <2>5. Jobs' = Jobs
      BY <2>1 DEF Jobs
    <2>6. Room' /\ prOffset' >= 0
      BY <2>1, <2>4, <2>5 DEF PassInv, Room
    <2>7. HeldBefore' /\ AboutToSend'
      BY <2>1, <2>2 DEF PassInv, HeldBefore, AboutToSend
    <2>8. SentBefore'
      BY <2>1, <2>2, <2>3 DEF PassInv, HeldBefore, SentBefore
    <2>9. NoneTwice'
      <3>1. \A i \in 1 .. Len(sent) : sent[i] # offset[a]
        BY <2>2, <2>3 DEF PassInv, NoneTwice
      <3>2. \A i, j \in DOMAIN sent' : sent'[i] = sent'[j] => i = j
        BY <2>3, <3>1 DEF PassInv, NoneTwice
      <3>3. \A b \in Holding', i \in DOMAIN sent' : offset'[b] # sent'[i]
        BY <2>1, <2>2, <2>3 DEF PassInv, NoneTwice
      <3>. QED
        BY <2>1, <2>2, <3>2, <3>3 DEF PassInv, NoneTwice
    <2>10. Covered'
      <3>. SUFFICES ASSUME NEW k \in Blocks, 0 <= k, k < prOffset', k + Length <= Size
                    PROVE  (\E i \in DOMAIN sent' : sent'[i] = k) \/ (\E b \in Holding' : offset'[b] = k)
        BY DEF Covered
      <3>1. (\E i \in DOMAIN sent : sent[i] = k) \/ (\E b \in Holding : offset[b] = k)
        BY <2>1 DEF PassInv, Covered
      <3>. QED
        BY <2>1, <2>2, <2>3, <3>1
    <2>. QED
      BY <2>6, <2>7, <2>8, <2>9, <2>10 DEF PassInv
  <1>8. CASE UNCHANGED vars
    <2>1. UNCHANGED <<prOffset, offset, sent, pc, starts>>
      BY <1>8 DEF vars
    <2>2. Past' = Past /\ Holding' = Holding /\ Jobs' = Jobs
      BY <2>1 DEF Past, Holding, Jobs
    <2>. QED
      BY <2>1, <2>2, QuietPass
  <1>. QED
    BY <1>2, <1>3, <1>4, <1>5, <1>6, <1>7, <1>8 DEF Next

LEMMA PassInit == Init => PassInv
  <1>. SUFFICES ASSUME Init PROVE PassInv
    OBVIOUS
  <1>1. pc[Main] = "idle" /\ \A a \in Actors : pc[a] = "idle"
    BY DEF Init, Actors
  <1>2. Holding = {} /\ Past = {} /\ Jobs = 0 /\ DOMAIN sent = {}
    <2>1. Holding = {}
      BY <1>1 DEF Holding
    <2>2. Past = {}
      BY <1>1 DEF Past, Actors
    <2>3. Jobs = 0
      <3>1. Jobs = JobsMax - starts - 0
        BY <1>1 DEF Jobs
      <3>2. starts = JobsMax /\ JobsMax \in Int
        BY ReadOffsetsAssumption DEF Init
      <3>. QED
        BY <3>1, <3>2
    <2>4. DOMAIN sent = {}
      BY DEF Init
    <2>. QED
      BY <2>1, <2>2, <2>3, <2>4
  <1>3. Room /\ prOffset >= 0
    BY <1>2, FS_EmptySet, ReadOffsetsAssumption DEF Init, Room
  <1>4. HeldBefore /\ SentBefore /\ NoneTwice
    BY <1>2 DEF HeldBefore, SentBefore, NoneTwice
  <1>5. AboutToSend
    BY <1>1 DEF AboutToSend
  <1>6. Covered
    BY DEF Init, Covered, Blocks
  <1>. QED
    BY <1>3, <1>4, <1>5, <1>6 DEF PassInv

LEMMA FirstNext == FirstInv /\ [Next]_vars => FirstInv'
  <1>. SUFFICES ASSUME FirstInv, [Next]_vars PROVE FirstInv'
    OBVIOUS
  <1>1. TypeOK /\ TypeOK'
    BY OffsetTypes DEF FirstInv
  <1>2. ~wrapped' => ~wrapped
    BY <1>1 DEF Next, Start, Reply, Load, Sub, Add, Check, Send, vars
  <1>. QED
    BY <1>1, <1>2, PassNext DEF FirstInv

(* Until a thread goes back to the start of the file, the reads cover it   *)
(* from its start without a gap, none twice and none past its end,         *)
(* whichever way the threads interleave on pr_offset.                      *)
THEOREM FirstPassHasNoGap == Spec => []FirstPass
  <1>1. ASSUME FirstInv PROVE FirstPass
    <2>. SUFFICES ASSUME ~wrapped PROVE FirstPass
      BY DEF FirstPass
    <2>1. PassInv /\ TypeOK
      BY <1>1 DEF FirstInv
    <2>2. IsInjective(sent)
      BY <2>1 DEF PassInv, NoneTwice, IsInjective
    <2>3. /\ \A a, b \in Holding : a # b => offset[a] # offset[b]
          /\ \A a \in Holding : offset[a] \notin ToSet(sent)
      BY <2>1 DEF PassInv, NoneTwice, ToSet
    <2>4. \A o \in ToSet(sent) : o >= 0 /\ o + Length <= Size
      BY <2>1, ReadOffsetsAssumption DEF PassInv, SentBefore, ToSet, TypeOK, Blocks
    <2>5. ASSUME NEW k \in 0..(prOffset - 1), k % Length = 0, k + Length <= Size
          PROVE  k \in ToSet(sent) \cup {offset[a] : a \in Holding}
      <3>1. k \in Blocks /\ 0 <= k /\ k < prOffset
        BY <2>1, <2>5 DEF Blocks, TypeOK
      <3>. QED
        BY <2>1, <2>5, <3>1 DEF PassInv, Covered, ToSet
    <2>. QED
      BY <2>2, <2>3, <2>4, <2>5 DEF FirstPass
  <1>2. Init => FirstInv
    <2>1. Init => TypeOK
      <3>. SUFFICES ASSUME Init PROVE TypeOK
        OBVIOUS
      <3>1. sent \in Seq(Blocks)
        BY EmptySeq DEF Init
      <3>2. wrapped \in BOOLEAN
        BY DEF Init
      <3>. QED
        BY <3>1, <3>2, ReadOffsetsAssumption, BlocksClosed DEF Init, TypeOK, Pcs
    <2>. QED
      BY <2>1, PassInit DEF FirstInv
  <1>3. Spec => []FirstInv
    BY <1>2, FirstNext, PTL DEF Spec
  <1>4. FirstInv => FirstPass
    BY <1>1
  <1>. QED
    BY <1>3, <1>4, PTL
=============================================================================
