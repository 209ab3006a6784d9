--------------------------- MODULE StartupProofs ---------------------------
(* Theorems about Startup and the two parsers in it: for every line, every *)
(* command line and every variable of the program.                         *)
EXTENDS Startup, Recursion, SequenceTheorems, FiniteSetTheorems

-----------------------------------------------------------------------------
(* clp_breakargs.                                                          *)

Modes == [backslash : BOOLEAN, dquote : BOOLEAN, squote : BOOLEAN]

Types ==
  /\ src \in Seq(Char \ {Nul}) /\ delim \in {NoDelim} \cup SUBSET Char
  /\ at \in Nat /\ buf \in Seq(Char) /\ prev \in Nat /\ argv \in Seq(Nat)
  /\ mode \in Modes
  /\ split \in {"idle", "scan", "close", "done", "error", "nomem"}

(* A backslash that has been read and stands for nothing yet.              *)
Held(m) == IF m.backslash THEN 1 ELSE 0

(* The buffer is behind the line by the backslash that has been read and   *)
(* not written; once the Nul is read it is as long as the line and its Nul *)
(* only if that Nul has ended the last word.                               *)
KeepsUp ==
  /\ split = "scan" =>
       /\ at \in 1 .. Len(src) + 1
       /\ Len(buf) + Held(mode) <= at - 1
  /\ split = "close" => Len(buf) <= Len(src) \/ Len(buf) = prev \/ Quoted

(* Every word ends in a Nul of its own.                                    *)
WordsEnd == Len(argv) <= prev /\ prev <= Len(buf)

SplitInv == Types /\ KeepsUp /\ WordsEnd /\ Len(buf) <= Len(src) + 1

-----------------------------------------------------------------------------
(* The first place from k on, at most behind the end, where a sequence has *)
(* no element of S.                                                        *)
LEMMA FirstExists ==
  ASSUME NEW X, NEW s \in Seq(X), NEW k \in 1 .. Len(s) + 1, NEW S
  PROVE  \E e \in k .. Len(s) + 1 :
           /\ \A i \in k .. e - 1 : s[i] \in S
           /\ e <= Len(s) => s[e] \notin S
  <1> DEFINE Stop == {e \in Nat : e >= k /\ e <= Len(s) + 1 /\ (e <= Len(s) => s[e] \notin S)}
  <1>1. Len(s) + 1 \in Stop
    OBVIOUS
  <1>2. PICK e \in Stop : \A y \in Stop : ~(<<y, e>> \in OpToRel(<, Nat))
    <2>1. Stop \subseteq Nat /\ Stop # {}
      BY <1>1
    <2>. HIDE DEF Stop
    <2>. QED
      BY <2>1, NatLessThanWellFounded, WFMin
  <1>3. \A y \in Stop : ~(y < e)
    BY <1>2 DEF OpToRel
  <1>4. \A i \in k .. e - 1 : s[i] \in S
    BY <1>3
  <1>. QED
    BY <1>4

LEMMA Initially == SplitInit => SplitInv
  BY DEF SplitInit, SplitInv, Types, KeepsUp, WordsEnd, Modes, NoMode

(* Each step of the loop.                                                  *)
(* What the modes become.                                                  *)
LEMMA ModeSteps ==
  ASSUME mode \in Modes
  PROVE  /\ mode.backslash = TRUE \/ mode.backslash = FALSE
         /\ [mode EXCEPT !.backslash = FALSE] \in Modes
         /\ [mode EXCEPT !.backslash = FALSE].backslash = FALSE
         /\ [mode EXCEPT !.backslash = TRUE] \in Modes
         /\ [mode EXCEPT !.backslash = TRUE].backslash = TRUE
         /\ [mode EXCEPT !.dquote = ~@] \in Modes
         /\ [mode EXCEPT !.dquote = ~@].backslash = mode.backslash
         /\ [mode EXCEPT !.squote = ~@] \in Modes
         /\ [mode EXCEPT !.squote = ~@].backslash = mode.backslash
  BY DEF Modes

(* A step that reads one character and writes at most one, and none for a  *)
(* backslash it begins to hold.                                            *)
LEMMA OneChar ==
  ASSUME SplitInv, split = "scan", Advance,
         mode' \in Modes, buf' \in Seq(Char),
         Len(buf') = Len(buf) \/ Len(buf') = Len(buf) + 1,
         Len(buf') + Held(mode') <= Len(buf) + Held(mode) + 1,
         \/ argv' = argv /\ prev' = prev
         \/ argv' = Append(argv, prev) /\ prev' = Len(buf) + 1 /\ Len(buf') = prev',
         Current = Nul =>
           Len(buf') = Len(buf) \/ Held(mode) = 1 \/ Len(buf') = prev' \/ Quoted'
  PROVE  SplitInv'
  <1>1. /\ at \in 1 .. Len(src) + 1 /\ Len(src) \in Nat /\ Len(buf) \in Nat
        /\ Len(argv) \in Nat /\ argv \in Seq(Nat)
        /\ Len(buf) + Held(mode) <= at - 1
        /\ Len(argv) <= prev /\ prev <= Len(buf) /\ prev \in Nat
    BY DEF SplitInv, Types, KeepsUp, WordsEnd
  <1>2. /\ src' = src /\ delim' = delim /\ at' = at + 1
        /\ \/ split' = "scan" /\ at' <= Len(src) + 1
           \/ split' = "close" /\ at = Len(src) + 1 /\ Current = Nul
    <2>1. Current = Nul <=> at = Len(src) + 1
      BY <1>1 DEF SplitInv, Types, Current
    <2>. QED
      BY <1>1, <2>1 DEF Advance
  <1>3. /\ argv' \in Seq(Nat) /\ prev' \in Nat
        /\ Len(argv') <= prev' /\ prev' <= Len(buf')
    <2>1. CASE argv' = argv /\ prev' = prev
      BY <1>1, <2>1
    <2>2. CASE argv' = Append(argv, prev) /\ prev' = Len(buf) + 1 /\ Len(buf') = prev'
      <3>1. argv' \in Seq(Nat) /\ Len(argv') = Len(argv) + 1
        BY <1>1, <2>2
      <3>. QED
        BY <1>1, <2>2, <3>1
    <2>. QED
      BY <2>1, <2>2
  <1>4. Types' /\ WordsEnd'
    BY <1>1, <1>2, <1>3 DEF SplitInv, Types, WordsEnd
  <1>5. Held(mode) \in {0, 1} /\ Held(mode') \in {0, 1}
    BY DEF Held
  <1>6. KeepsUp' /\ Len(buf') <= Len(src') + 1
    <2>1. CASE split' = "scan"
      BY <1>1, <1>2, <1>5, <2>1 DEF KeepsUp
    <2>2. CASE split' = "close"
      BY <1>1, <1>2, <1>5, <2>2 DEF KeepsUp
    <2>. QED
      BY <1>2, <2>1, <2>2
  <1>. QED
    BY <1>4, <1>6 DEF SplitInv

(* The number behind a backslash gives a character, whatever it is.        *)
LEMMA OctalTyped ==
  ASSUME NEW s, NEW i
  PROVE  OctalChar(s, i) \in Char
  <1>1. OctalChar(s, i) \in {Nul, OctalCode}
    BY DEF OctalChar
  <1>. QED
    BY <1>1, SplitAssumption

(* Each step of the loop is one of these, but for a number.                *)
LEMMA ScanStep ==
  ASSUME SplitInv,
         EscapedNumber \/ EscapedChar \/ Escape \/ Quote \/ Delimiter \/ CopyChar
  PROVE  SplitInv'
  <1>1. /\ split = "scan" /\ at \in 1 .. Len(src) + 1
        /\ Len(src) \in Nat /\ Len(buf) \in Nat /\ mode \in Modes
        /\ src \in Seq(Char) /\ buf \in Seq(Char)
    BY DEF SplitInv, Types, KeepsUp, EscapedNumber, EscapedChar, Escape, Quote, Delimiter, CopyChar
  <1>2. (Current = Nul <=> at = Len(src) + 1) /\ Current \in Char
    BY <1>1, SplitAssumption DEF SplitInv, Types, Current
  <1>3. ASSUME NEW c \in Char
        PROVE  Append(buf, c) \in Seq(Char) /\ Len(Append(buf, c)) = Len(buf) + 1
    BY <1>1
  <1>4. CASE EscapedNumber
    <2>1. OctalEnd(src, at) \in at .. Len(src) + 1
      BY <1>1, FirstExists DEF OctalEnd
    <2>2. PICK c \in Char : buf' = Append(buf, c)
      BY <1>4, OctalTyped DEF EscapedNumber, Put
    <2>3. /\ Held(mode) = 1 /\ mode' \in Modes /\ Held(mode') = 0
          /\ src' = src /\ delim' = delim /\ split' = "scan" /\ at' = OctalEnd(src, at)
          /\ argv' = argv /\ prev' = prev
      BY <1>1, <1>4, ModeSteps DEF EscapedNumber, Put, Held
    <2>4. Len(buf') = Len(buf) + 1 /\ buf' \in Seq(Char)
      BY <1>3, <2>2
    <2>5. Len(buf) + 1 <= at - 1
      BY <1>1, <2>3 DEF SplitInv, KeepsUp
    <2>6. Len(buf') <= at' - 1 /\ at' \in 1 .. Len(src') + 1
      BY <1>1, <2>1, <2>3, <2>4, <2>5
    <2>7. Types' /\ WordsEnd' /\ Len(buf') <= Len(src') + 1
      BY <1>1, <2>3, <2>4, <2>6 DEF SplitInv, Types, WordsEnd
    <2>8. KeepsUp'
      BY <1>1, <2>3, <2>4, <2>6 DEF KeepsUp
    <2>. QED
      BY <2>7, <2>8 DEF SplitInv
  <1>5. CASE EscapedChar
    <2>1. Meaning(Current) \in Char
      BY <1>2, SplitAssumption DEF Meaning
    <2>2. /\ Held(mode) = 1 /\ mode' \in Modes /\ Held(mode') = 0 /\ Advance
          /\ buf' = Append(buf, Meaning(Current)) /\ argv' = argv /\ prev' = prev
      BY <1>1, <1>5, ModeSteps DEF EscapedChar, Put, Held
    <2>3. buf' \in Seq(Char) /\ Len(buf') = Len(buf) + 1
      BY <1>3, <2>1, <2>2
    <2>. QED
      BY <1>1, <2>2, <2>3, OneChar
  <1>6. CASE Escape
    <2>1. /\ Held(mode) = 0 /\ mode' \in Modes /\ Held(mode') = 1 /\ Advance
          /\ buf' = buf /\ argv' = argv /\ prev' = prev
      BY <1>1, <1>6, ModeSteps DEF Escape, Held
    <2>. QED
      BY <1>1, <2>1, OneChar
  <1>7. CASE Quote
    <2>1. /\ mode' \in Modes /\ mode'.backslash = mode.backslash /\ Advance
          /\ buf' = buf /\ argv' = argv /\ prev' = prev
      BY <1>1, <1>7, ModeSteps DEF Quote
    <2>2. Held(mode') = Held(mode) /\ Held(mode) \in {0, 1}
      BY <2>1 DEF Held
    <2>. QED
      BY <1>1, <2>1, <2>2, OneChar
  <1>8. CASE Delimiter
    <2>1. mode' = mode /\ Advance
      BY <1>8 DEF Delimiter
    <2>2. Held(mode') = Held(mode) /\ Held(mode) \in {0, 1}
      BY <2>1 DEF Held
    <2>3. CASE buf' = buf /\ prev' = prev /\ argv' = argv
      BY <1>1, <2>1, <2>2, <2>3, OneChar
    <2>4. CASE EndWord
      <3>1. /\ buf' = Append(buf, Nul) /\ argv' = Append(argv, prev)
            /\ prev' = Len(buf) + 1
        BY <2>4 DEF EndWord
      <3>2. buf' \in Seq(Char) /\ Len(buf') = Len(buf) + 1
        BY <1>3, <3>1, SplitAssumption
      <3>. QED
        BY <1>1, <2>1, <2>2, <3>1, <3>2, OneChar
    <2>. QED
      BY <1>8, <2>3, <2>4 DEF Delimiter
  <1>9. CASE CopyChar
    <2>1. /\ mode' = mode /\ Advance
          /\ buf' = Append(buf, Current) /\ argv' = argv /\ prev' = prev
      BY <1>9 DEF CopyChar, Put
    <2>2. Held(mode') = Held(mode) /\ Held(mode) \in {0, 1}
      BY <2>1 DEF Held
    <2>3. Current = Nul => Quoted'
      BY <1>9, <2>1 DEF CopyChar, Delimits, Quoted
    <2>4. buf' \in Seq(Char) /\ Len(buf') = Len(buf) + 1
      BY <1>2, <1>3, <2>1
    <2>. QED
      BY <1>1, <2>1, <2>2, <2>3, <2>4, OneChar
  <1>. QED
    BY <1>4, <1>5, <1>6, <1>7, <1>8, <1>9

LEMMA Inductive == SplitInv /\ [SplitNext]_splitVars => SplitInv'
  <1> SUFFICES ASSUME SplitInv, [SplitNext]_splitVars PROVE SplitInv'
    OBVIOUS
  <1>. USE SplitAssumption DEF SplitInv, Types, KeepsUp, WordsEnd, Modes
  <1>1. ASSUME NEW line \in Seq(Char \ {Nul}), NEW d \in {NoDelim} \cup SUBSET Char, BreakArgs(line, d)
        PROVE  SplitInv'
    <2>1. NoMode \in Modes /\ Held(NoMode) = 0
      BY DEF NoMode, Held
    <2>2. Len(line) \in Nat /\ Len(<<>>) = 0 /\ <<>> \in Seq(Char) /\ <<>> \in Seq(Nat)
      OBVIOUS
    <2>. QED
      BY <1>1, <2>1, <2>2 DEF BreakArgs
  <1>2. CASE FreeArgs
    BY <1>2 DEF FreeArgs, NoMode
  <1>3. CASE NoMemory
    BY <1>3 DEF NoMemory
  <1>4. CASE Unbalanced
    BY <1>4 DEF Unbalanced
  <1>5. CASE Finish
    <2>1. /\ Len(buf) \in Nat /\ Len(argv) \in Nat /\ prev \in Nat /\ prev <= Len(buf)
          /\ Len(argv) <= prev /\ buf \in Seq(Char) /\ argv \in Seq(Nat)
          /\ Len(buf) <= Len(src) \/ Len(buf) = prev
      BY <1>5 DEF Finish
    <2>2. CASE EmptyWord
      BY <1>5, <2>2 DEF Finish
    <2>3. CASE EndWord /\ ~EmptyWord
      <3>1. /\ buf' = Append(buf, Nul) /\ argv' = Append(argv, prev)
            /\ prev' = Len(buf) + 1 /\ Len(buf) <= Len(src)
        BY <2>1, <2>3 DEF EndWord, EmptyWord
      <3>2. /\ buf' \in Seq(Char) /\ Len(buf') = Len(buf) + 1
            /\ argv' \in Seq(Nat) /\ Len(argv') = Len(argv) + 1
        BY <2>1, <3>1
      <3>. QED
        BY <1>5, <2>1, <3>1, <3>2 DEF Finish
    <2>. QED
      BY <1>5, <2>2, <2>3 DEF Finish
  <1>6. CASE UNCHANGED splitVars
    BY <1>6 DEF splitVars, Quoted
  <1>. QED
    BY <1>1, <1>2, <1>3, <1>4, <1>5, <1>6, ScanStep DEF SplitNext, SplitStep

LEMMA InvHolds == SplitSpec => []SplitInv
  BY Initially, Inductive, PTL DEF SplitSpec

(* Whatever the line, the delimiters and the meanings of escaped letters,  *)
(* clp_breakargs writes at most strlen(src) + 1 characters and as many     *)
(* pointers and a NULL: what it asks malloc() for is enough.               *)
THEOREM WritesInsideBuffer == SplitSpec => []BufferBound
  <1>1. SplitInv => BufferBound
    BY DEF SplitInv, Types, WordsEnd, BufferBound
  <1>. QED
    BY <1>1, InvHolds, PTL

-----------------------------------------------------------------------------
(* The words of clp_breakargs.                                             *)

(* Each word has a Nul behind it, inside of what has been written.         *)
WordsOK ==
  /\ at \in 1 .. Len(src) + 2
  /\ \A i \in DOMAIN argv :
       argv[i] \in Nat /\ \E e \in argv[i] + 1 .. Len(buf) : buf[e] = Nul

(* Characters are appended, and words that end with what is appended.      *)
LEMMA WordsGrow ==
  ASSUME SplitInv, WordsOK, at' \in 1 .. Len(src') + 2,
         \/ buf' = buf /\ argv' = argv
         \/ \E c \in Char : buf' = Append(buf, c) /\ argv' = argv
         \/ EndWord
  PROVE  WordsOK'
  <1>1. buf \in Seq(Char) /\ argv \in Seq(Nat) /\ prev \in Nat /\ prev <= Len(buf)
        /\ Nul \in Char
    BY SplitAssumption DEF SplitInv, Types, WordsEnd
  <1>2. CASE buf' = buf /\ argv' = argv
    BY <1>2 DEF WordsOK
  <1>3. ASSUME NEW c \in Char, buf' = Append(buf, c), NEW p \in Nat,
               \E e \in p + 1 .. Len(buf) : buf[e] = Nul
        PROVE  \E e \in p + 1 .. Len(buf') : buf'[e] = Nul
    <2>1. PICK e \in p + 1 .. Len(buf) : buf[e] = Nul
      BY <1>3
    <2>2. Len(buf') = Len(buf) + 1 /\ buf'[e] = buf[e]
      BY <1>1, <1>3, <2>1
    <2>. QED
      BY <1>1, <2>1, <2>2
  <1>4. ASSUME NEW c \in Char, buf' = Append(buf, c), argv' = argv PROVE WordsOK'
    BY <1>3, <1>4 DEF WordsOK
  <1>5. CASE EndWord
    <2>1. buf' = Append(buf, Nul) /\ argv' = Append(argv, prev)
      BY <1>5 DEF EndWord
    <2>2. Len(buf') = Len(buf) + 1 /\ buf'[Len(buf) + 1] = Nul
      BY <1>1, <2>1
    <2>3. ASSUME NEW i \in DOMAIN argv'
          PROVE  argv'[i] \in Nat /\ \E e \in argv'[i] + 1 .. Len(buf') : buf'[e] = Nul
      <3>1. Len(argv') = Len(argv) + 1 /\ i \in 1 .. Len(argv) + 1
        BY <1>1, <2>1
      <3>2. CASE i = Len(argv) + 1
        <4>1. argv'[i] = prev
          BY <1>1, <2>1, <3>2
        <4>2. Len(buf) + 1 \in prev + 1 .. Len(buf')
          BY <1>1, <2>2
        <4>. QED
          BY <1>1, <2>2, <4>1, <4>2
      <3>3. CASE i # Len(argv) + 1
        <4>1. i \in DOMAIN argv /\ argv'[i] = argv[i]
          BY <1>1, <2>1, <3>1, <3>3
        <4>. QED
          BY <1>1, <1>3, <2>1, <4>1 DEF WordsOK
      <3>. QED
        BY <3>2, <3>3
    <2>. QED
      BY <2>3 DEF WordsOK
  <1>. QED
    BY <1>2, <1>4, <1>5

LEMMA WordsInductive ==
  SplitInv /\ WordsOK /\ [SplitNext]_splitVars => WordsOK'
  <1> SUFFICES ASSUME SplitInv, WordsOK, [SplitNext]_splitVars PROVE WordsOK'
    OBVIOUS
  <1>1. src \in Seq(Char) /\ Len(src) \in Nat /\ at \in 1 .. Len(src) + 2
    BY DEF SplitInv, Types, WordsOK
  <1>2. ASSUME NEW line \in Seq(Char \ {Nul}), NEW d \in {NoDelim} \cup SUBSET Char, BreakArgs(line, d)
        PROVE  WordsOK'
    BY <1>2 DEF BreakArgs, WordsOK
  <1>3. CASE FreeArgs
    BY <1>3 DEF FreeArgs, WordsOK
  <1>4. CASE UNCHANGED splitVars
    BY <1>4 DEF splitVars, WordsOK
  <1>5. CASE NoMemory \/ Unbalanced
    BY <1>5 DEF NoMemory, Unbalanced, WordsOK
  <1>6. CASE Finish
    BY <1>1, <1>6, WordsGrow DEF Finish
  <1>7. split = "scan" => at \in 1 .. Len(src) + 1
    BY DEF SplitInv, KeepsUp
  <1>8. ASSUME Advance, split = "scan" PROVE at' \in 1 .. Len(src') + 2
    BY <1>1, <1>7, <1>8 DEF Advance
  <1>9. Current \in Char /\ Meaning(Current) \in Char /\ OctalChar(src, at) \in Char
    <2>1. Current \in Char
      BY <1>1, SplitAssumption DEF SplitInv, Types, WordsOK, Current
    <2>. QED
      BY <2>1, SplitAssumption, OctalTyped DEF Meaning
  <1>10. CASE EscapedNumber
    <2>1. OctalEnd(src, at) \in at .. Len(src) + 1
      BY <1>1, <1>7, <1>10, FirstExists DEF EscapedNumber, OctalEnd
    <2>2. at' \in 1 .. Len(src') + 2
      BY <1>1, <1>10, <2>1 DEF EscapedNumber
    <2>3. PICK c \in Char : buf' = Append(buf, c) /\ argv' = argv
      BY <1>9, <1>10 DEF EscapedNumber, Put
    <2>. QED
      BY <2>2, <2>3, WordsGrow
  <1>11. CASE EscapedChar
    BY <1>8, <1>9, <1>11, WordsGrow DEF EscapedChar, Put
  <1>12. CASE Escape \/ Quote
    BY <1>8, <1>12, WordsGrow DEF Escape, Quote
  <1>13. CASE Delimiter
    BY <1>8, <1>13, WordsGrow DEF Delimiter
  <1>14. CASE CopyChar
    BY <1>8, <1>9, <1>14, WordsGrow DEF CopyChar, Put
  <1>. QED
    BY <1>2, <1>3, <1>4, <1>5, <1>6, <1>10, <1>11, <1>12, <1>13, <1>14 DEF SplitNext, SplitStep

(* What a program sees of the words are texts without a Nul.               *)
LEMMA WordsTyped ==
  ASSUME SplitInv, WordsOK PROVE Words \in Seq(Seq(Char))
  <1>1. buf \in Seq(Char) /\ argv \in Seq(Nat)
    BY DEF SplitInv, Types
  <1>2. ASSUME NEW i \in DOMAIN argv PROVE CString(argv[i]) \in Seq(Char)
    <2>1. argv[i] \in Nat
      BY <1>1
    <2>2. PICK p \in Nat : p = argv[i]
      BY <2>1
    <2>3. PICK last \in p + 1 .. Len(buf) : buf[last] = Nul
      BY <2>2 DEF WordsOK
    <2>4. p + 1 \in 1 .. Len(buf) + 1
      BY <1>1, <2>3
    <2>5. PICK e \in p + 1 .. Len(buf) + 1 :
            (\A k \in p + 1 .. e - 1 : buf[k] \in Char \ {Nul}) /\ (e <= Len(buf) => buf[e] \notin Char \ {Nul})
      BY <1>1, <2>4, FirstExists
    <2>6. e <= Len(buf) /\ buf[e] = Nul
      <3>1. SUFFICES ASSUME e = Len(buf) + 1 PROVE FALSE
        BY <1>1, <2>5
      <3>2. last \in p + 1 .. e - 1
        BY <1>1, <2>3, <3>1
      <3>. QED
        BY <2>3, <2>5, <3>2
    <2> DEFINE End == CHOOSE x \in p + 1 .. Len(buf) : buf[x] = Nul /\ \A k \in p + 1 .. x - 1 : buf[k] # Nul
    <2>7. End \in p + 1 .. Len(buf)
      <3>1. e \in p + 1 .. Len(buf) /\ buf[e] = Nul /\ \A k \in p + 1 .. e - 1 : buf[k] # Nul
        BY <1>1, <2>5, <2>6
      <3>. QED
        BY <3>1
    <2>8. SubSeq(buf, p + 1, End - 1) \in Seq(Char)
      <3>. HIDE DEF End
      <3>1. PICK z \in Nat : z = End - 1 /\ z <= Len(buf)
        BY <1>1, <2>7
      <3>2. p + 1 \in 1 .. Len(buf) + 1 /\ z \in p .. Len(buf)
        BY <1>1, <2>4, <2>7, <3>1
      <3>3. SubSeq(buf, p + 1, z) \in Seq(Char)
        BY <1>1, <3>2
      <3>. QED
        BY <3>1, <3>3
    <2>. QED
      BY <2>2, <2>8 DEF CString
  <1>3. DOMAIN argv = 1 .. Len(argv) /\ Len(argv) \in Nat
    BY <1>1
  <1>. QED
    BY <1>2, <1>3 DEF Words

-----------------------------------------------------------------------------
(* The distribution of the positional parameters in clp_parsev.            *)

LEMMA ParamsTyped ==
  ASSUME NEW v \in DOMAIN Paramv
  PROVE  /\ Paramv[v] \in Seq(AllParams) /\ Len(Paramv[v]) \in Nat
         /\ \A i \in 1 .. Len(Paramv[v]) : Paramv[v][i] \in AllParams
  BY OptionsAssumption

LEMMA NeededSums ==
  ASSUME NEW v \in DOMAIN Paramv
  PROVE  /\ NeededTo(v) \in [0 .. Len(Paramv[v]) -> Nat]
         /\ NeededTo(v)[0] = 0
         /\ \A i \in 1 .. Len(Paramv[v]) :
              NeededTo(v)[i] = NeededTo(v)[i - 1] + (IF Paramv[v][i].required THEN 1 ELSE 0)
  <1> DEFINE step == [p \in (Nat) \X (1 .. Len(Paramv[v])) |-> p[1] + (IF Paramv[v][p[2]].required THEN 1 ELSE 0)]
             Def(g) == [k \in 0 .. Len(Paramv[v]) |-> IF k = 0 THEN 0 ELSE g[k - 1] + (IF Paramv[v][k].required THEN 1 ELSE 0)]
  <1>1. Len(Paramv[v]) \in Nat
    BY ParamsTyped
  <1>2. step \in Steps(Len(Paramv[v]), Nat)
    BY DEF Steps
  <1>3. 0 \in Nat
    OBVIOUS
  <1>4. PICK f : Solution(f, Len(Paramv[v]), Nat, 0, step)
    <2>. HIDE DEF step
    <2>. QED
      BY <1>1, <1>2, <1>3, RecursiveFunctionExists
  <1>5. /\ f \in [0 .. Len(Paramv[v]) -> Nat]
        /\ f = [i \in 0 .. Len(Paramv[v]) |-> IF i = 0 THEN 0 ELSE step[<<f[i - 1], i>>]]
    <2>. HIDE DEF step
    <2>. QED
      BY <1>4 DEF Solution
  <1>6. ASSUME NEW x \in Nat, NEW i \in 1 .. Len(Paramv[v])
        PROVE  step[<<x, i>>] = x + (IF Paramv[v][i].required THEN 1 ELSE 0)
    OBVIOUS
  <1>7. f = Def(f)
    <2>. HIDE DEF step
    <2>1. \A i \in 0 .. Len(Paramv[v]) : i # 0 => i \in 1 .. Len(Paramv[v]) /\ i - 1 \in 0 .. Len(Paramv[v])
      BY <1>1
    <2>2. \A i \in 0 .. Len(Paramv[v]) : f[i] \in Nat
      BY <1>5
    <2>. QED
      BY <1>5, <1>6, <2>1, <2>2
  <1>8. NeededTo(v) = Def(NeededTo(v))
    <2>1. NeededTo(v) = CHOOSE g : g = Def(g)
      BY DEF NeededTo
    <2>. QED
      BY <1>7, <2>1
  <1>9. \A i \in 0 .. Len(Paramv[v]) : NeededTo(v)[i] = IF i = 0 THEN 0 ELSE NeededTo(v)[i - 1] + (IF Paramv[v][i].required THEN 1 ELSE 0)
    BY <1>8
  <1>10. NeededTo(v)[0] = 0 /\ \A i \in 1 .. Len(Paramv[v]) : NeededTo(v)[i] = NeededTo(v)[i - 1] + (IF Paramv[v][i].required THEN 1 ELSE 0)
    <2>1. 0 \in 0 .. Len(Paramv[v]) /\ \A i \in 1 .. Len(Paramv[v]) : i \in 0 .. Len(Paramv[v]) /\ i # 0
      BY <1>1
    <2>. QED
      BY <1>9, <2>1
  <1>11. Follows(NeededTo(v), Len(Paramv[v]), Nat, 0, step)
    <2>1. NeededTo(v) = [i \in 0 .. Len(Paramv[v]) |-> NeededTo(v)[i]]
      BY <1>8
    <2>. HIDE DEF step
    <2>. QED
      BY <1>6, <1>10, <2>1 DEF Follows
  <1>12. NeededTo(v) \in [0 .. Len(Paramv[v]) -> Nat]
    <2>. HIDE DEF step
    <2>. QED
      BY <1>1, <1>2, <1>3, <1>11, RecursiveFunctionType
  <1>. QED
    BY <1>10, <1>12

LEMMA AllowedSums ==
  ASSUME NEW v \in DOMAIN Paramv
  PROVE  /\ AllowedTo(v) \in [0 .. Len(Paramv[v]) -> Nat]
         /\ AllowedTo(v)[0] = 0
         /\ \A i \in 1 .. Len(Paramv[v]) :
              AllowedTo(v)[i] = AllowedTo(v)[i - 1] + (IF Paramv[v][i].many THEN Unlimited ELSE 1)
  <1> DEFINE step == [p \in (Nat) \X (1 .. Len(Paramv[v])) |-> p[1] + (IF Paramv[v][p[2]].many THEN Unlimited ELSE 1)]
             Def(g) == [k \in 0 .. Len(Paramv[v]) |-> IF k = 0 THEN 0 ELSE g[k - 1] + (IF Paramv[v][k].many THEN Unlimited ELSE 1)]
  <1>1. Len(Paramv[v]) \in Nat
    BY ParamsTyped
  <1>2. step \in Steps(Len(Paramv[v]), Nat)
    BY DEF Steps, Unlimited
  <1>3. 0 \in Nat
    OBVIOUS
  <1>4. PICK f : Solution(f, Len(Paramv[v]), Nat, 0, step)
    <2>. HIDE DEF step
    <2>. QED
      BY <1>1, <1>2, <1>3, RecursiveFunctionExists
  <1>5. /\ f \in [0 .. Len(Paramv[v]) -> Nat]
        /\ f = [i \in 0 .. Len(Paramv[v]) |-> IF i = 0 THEN 0 ELSE step[<<f[i - 1], i>>]]
    <2>. HIDE DEF step
    <2>. QED
      BY <1>4 DEF Solution
  <1>6. ASSUME NEW x \in Nat, NEW i \in 1 .. Len(Paramv[v])
        PROVE  step[<<x, i>>] = x + (IF Paramv[v][i].many THEN Unlimited ELSE 1)
    OBVIOUS
  <1>7. f = Def(f)
    <2>. HIDE DEF step
    <2>1. \A i \in 0 .. Len(Paramv[v]) : i # 0 => i \in 1 .. Len(Paramv[v]) /\ i - 1 \in 0 .. Len(Paramv[v])
      BY <1>1
    <2>2. \A i \in 0 .. Len(Paramv[v]) : f[i] \in Nat
      BY <1>5
    <2>. QED
      BY <1>5, <1>6, <2>1, <2>2
  <1>8. AllowedTo(v) = Def(AllowedTo(v))
    <2>1. AllowedTo(v) = CHOOSE g : g = Def(g)
      BY DEF AllowedTo
    <2>. QED
      BY <1>7, <2>1
  <1>9. \A i \in 0 .. Len(Paramv[v]) : AllowedTo(v)[i] = IF i = 0 THEN 0 ELSE AllowedTo(v)[i - 1] + (IF Paramv[v][i].many THEN Unlimited ELSE 1)
    BY <1>8
  <1>10. AllowedTo(v)[0] = 0 /\ \A i \in 1 .. Len(Paramv[v]) : AllowedTo(v)[i] = AllowedTo(v)[i - 1] + (IF Paramv[v][i].many THEN Unlimited ELSE 1)
    <2>1. 0 \in 0 .. Len(Paramv[v]) /\ \A i \in 1 .. Len(Paramv[v]) : i \in 0 .. Len(Paramv[v]) /\ i # 0
      BY <1>1
    <2>. QED
      BY <1>9, <2>1
  <1>11. Follows(AllowedTo(v), Len(Paramv[v]), Nat, 0, step)
    <2>1. AllowedTo(v) = [i \in 0 .. Len(Paramv[v]) |-> AllowedTo(v)[i]]
      BY <1>8
    <2>. HIDE DEF step
    <2>. QED
      BY <1>6, <1>10, <2>1 DEF Follows
  <1>12. AllowedTo(v) \in [0 .. Len(Paramv[v]) -> Nat]
    <2>. HIDE DEF step
    <2>. QED
      BY <1>1, <1>2, <1>3, <1>11, RecursiveFunctionType
  <1>. QED
    BY <1>10, <1>12

(* No parameter needs more than it may have.                               *)
LEMMA NeededWithinAllowed ==
  ASSUME NEW v \in DOMAIN Paramv, NEW i \in 0 .. Len(Paramv[v])
  PROVE  Needed(v) - NeededTo(v)[i] <= Allowed(v) - AllowedTo(v)[i]
  <1> DEFINE n == Len(Paramv[v])
             N == NeededTo(v)
             A == AllowedTo(v)
             S == {j \in i .. n : N[j] - N[i] <= A[j] - A[i]}
  <1>1. n \in Nat /\ i \in Int
    BY ParamsTyped
  <1>2. N \in [0 .. n -> Nat] /\ A \in [0 .. n -> Nat]
    BY NeededSums, AllowedSums
  <1>3. \A j \in 1 .. n : N[j] = N[j - 1] + (IF Paramv[v][j].required THEN 1 ELSE 0)
                         /\ A[j] = A[j - 1] + (IF Paramv[v][j].many THEN Unlimited ELSE 1)
    BY NeededSums, AllowedSums
  <1>4. i \in S
    <2>. HIDE DEF n, N, A
    <2>1. i \in 0 .. n /\ i \in i .. n
      BY <1>1 DEF n
    <2>2. N[i] \in Nat /\ A[i] \in Nat
      BY <1>2, <2>1
    <2>. QED
      BY <2>1, <2>2
  <1>5. ASSUME NEW j \in i .. n - 1, j \in S PROVE j + 1 \in S
    <2>. HIDE DEF n, N, A
    <2>1. j + 1 \in 1 .. n /\ (j + 1) - 1 = j /\ j \in 0 .. n /\ j + 1 \in 0 .. n /\ i \in 0 .. n
      BY <1>1
    <2>2. /\ N[j + 1] = N[j] + (IF Paramv[v][j + 1].required THEN 1 ELSE 0)
          /\ A[j + 1] = A[j] + (IF Paramv[v][j + 1].many THEN Unlimited ELSE 1)
      BY <1>3, <2>1
    <2>3. N[j] \in Nat /\ A[j] \in Nat /\ N[i] \in Nat /\ A[i] \in Nat
      BY <1>2, <2>1
    <2>4. N[j + 1] - N[i] <= A[j + 1] - A[i]
      BY <1>5, <2>2, <2>3 DEF Unlimited
    <2>. QED
      BY <1>1, <2>1, <2>4
  <1>6. i .. n \subseteq S
    <2>1. \A j \in i .. n - 1 : j \in S => j + 1 \in S
      BY <1>5
    <2>. HIDE DEF S, n
    <2>. QED
      BY <1>1, <1>4, <2>1, IntervalInduction
  <1>7. n \in S
    BY <1>1, <1>6
  <1>. QED
    BY <1>7 DEF Needed, Allowed

(* What the distribution keeps of a parameter.                             *)
Share == [argv : Int, argc : Int, next : Int, need : Int]

LEMMA NextShareTyped ==
  ASSUME NEW s \in Share, NEW p \in AllParams, argc \in Nat
  PROVE  NextShare(s, p) \in Share
  BY OptionsAssumption DEF NextShare, Share, Take

LEMMA SharesInTurn ==
  ASSUME paramv \in DOMAIN Paramv, optind \in Nat, argc \in Nat
  PROVE  /\ Sharing \in [0 .. Len(Paramv[paramv]) -> Share]
         /\ Sharing[0] = FirstShare
         /\ \A i \in 1 .. Len(Paramv[paramv]) :
              Sharing[i] = NextShare(Sharing[i - 1], Paramv[paramv][i])
  <1> DEFINE step == [p \in (Share) \X (1 .. Len(Paramv[paramv])) |-> NextShare(p[1], Paramv[paramv][p[2]])]
             Def(g) == [k \in 0 .. Len(Paramv[paramv]) |-> IF k = 0 THEN FirstShare ELSE NextShare(g[k - 1], Paramv[paramv][k])]
  <1>1. Len(Paramv[paramv]) \in Nat /\ \A i \in 1 .. Len(Paramv[paramv]) : Paramv[paramv][i] \in AllParams
    BY ParamsTyped
  <1>2. step \in Steps(Len(Paramv[paramv]), Share)
    <2>1. \A x \in Share, i \in 1 .. Len(Paramv[paramv]) : NextShare(x, Paramv[paramv][i]) \in Share
      BY <1>1, NextShareTyped
    <2>. QED
      BY <2>1 DEF Steps
  <1>3. FirstShare \in Share
    <2>1. Needed(paramv) \in Nat
      BY <1>1, NeededSums DEF Needed
    <2>. QED
      BY <2>1 DEF FirstShare, Share
  <1>4. PICK f : Solution(f, Len(Paramv[paramv]), Share, FirstShare, step)
    <2>. HIDE DEF step
    <2>. QED
      BY <1>1, <1>2, <1>3, RecursiveFunctionExists
  <1>5. /\ f \in [0 .. Len(Paramv[paramv]) -> Share]
        /\ f = [i \in 0 .. Len(Paramv[paramv]) |-> IF i = 0 THEN FirstShare ELSE step[<<f[i - 1], i>>]]
    <2>. HIDE DEF step
    <2>. QED
      BY <1>4 DEF Solution
  <1>6. ASSUME NEW x \in Share, NEW i \in 1 .. Len(Paramv[paramv])
        PROVE  step[<<x, i>>] = NextShare(x, Paramv[paramv][i])
    OBVIOUS
  <1>7. f = Def(f)
    <2>. HIDE DEF step
    <2>1. \A i \in 0 .. Len(Paramv[paramv]) : i # 0 => i \in 1 .. Len(Paramv[paramv]) /\ i - 1 \in 0 .. Len(Paramv[paramv])
      BY <1>1
    <2>2. \A i \in 0 .. Len(Paramv[paramv]) : f[i] \in Share
      BY <1>5
    <2>. QED
      BY <1>5, <1>6, <2>1, <2>2
  <1>8. Sharing = Def(Sharing)
    <2>1. Sharing = CHOOSE g : g = Def(g)
      BY DEF Sharing
    <2>. QED
      BY <1>7, <2>1
  <1>9. \A i \in 0 .. Len(Paramv[paramv]) : Sharing[i] = IF i = 0 THEN FirstShare ELSE NextShare(Sharing[i - 1], Paramv[paramv][i])
    BY <1>8
  <1>10. Sharing[0] = FirstShare /\ \A i \in 1 .. Len(Paramv[paramv]) : Sharing[i] = NextShare(Sharing[i - 1], Paramv[paramv][i])
    <2>1. 0 \in 0 .. Len(Paramv[paramv]) /\ \A i \in 1 .. Len(Paramv[paramv]) : i \in 0 .. Len(Paramv[paramv]) /\ i # 0
      BY <1>1
    <2>. QED
      BY <1>9, <2>1
  <1>11. Follows(Sharing, Len(Paramv[paramv]), Share, FirstShare, step)
    <2>1. Sharing = [i \in 0 .. Len(Paramv[paramv]) |-> Sharing[i]]
      BY <1>8
    <2>. HIDE DEF step
    <2>. QED
      BY <1>6, <1>10, <2>1 DEF Follows
  <1>12. Sharing \in [0 .. Len(Paramv[paramv]) -> Share]
    <2>. HIDE DEF step
    <2>. QED
      BY <1>1, <1>2, <1>3, <1>11, RecursiveFunctionType
  <1>. QED
    BY <1>10, <1>12

HandedPairs == Seq((1 .. Len(shares)) \X Int)

LEMMA ArgumentsTyped ==
  ASSUME NEW i \in 1 .. Len(shares), shares[i].argc \in Nat, shares[i].argv \in Int
  PROVE  ArgumentsOf(i) \in HandedPairs /\ Len(ArgumentsOf(i)) = shares[i].argc
  BY DEF ArgumentsOf, HandedPairs

LEMMA HandedInTurn ==
  ASSUME Len(shares) \in Nat,
         \A i \in 1 .. Len(shares) : shares[i].argc \in Nat /\ shares[i].argv \in Int
  PROVE  /\ HandedTo \in [0 .. Len(shares) -> HandedPairs]
         /\ HandedTo[0] = <<>>
         /\ \A i \in 1 .. Len(shares) : HandedTo[i] = HandedTo[i - 1] \o ArgumentsOf(i)
  <1> DEFINE step == [p \in (HandedPairs) \X (1 .. Len(shares)) |-> p[1] \o ArgumentsOf(p[2])]
             Def(g) == [k \in 0 .. Len(shares) |-> IF k = 0 THEN <<>> ELSE g[k - 1] \o ArgumentsOf(k)]
  <1>1. Len(shares) \in Nat
    OBVIOUS
  <1>2. step \in Steps(Len(shares), HandedPairs)
    <2>1. ASSUME NEW x \in HandedPairs, NEW i \in 1 .. Len(shares)
          PROVE  x \o ArgumentsOf(i) \in HandedPairs
      <3>1. ArgumentsOf(i) \in HandedPairs
        BY ArgumentsTyped
      <3>. QED
        BY <3>1 DEF HandedPairs
    <2>. QED
      BY <2>1 DEF Steps
  <1>3. <<>> \in HandedPairs
    BY DEF HandedPairs
  <1>4. PICK f : Solution(f, Len(shares), HandedPairs, <<>>, step)
    <2>. HIDE DEF step
    <2>. QED
      BY <1>1, <1>2, <1>3, RecursiveFunctionExists
  <1>5. /\ f \in [0 .. Len(shares) -> HandedPairs]
        /\ f = [i \in 0 .. Len(shares) |-> IF i = 0 THEN <<>> ELSE step[<<f[i - 1], i>>]]
    <2>. HIDE DEF step
    <2>. QED
      BY <1>4 DEF Solution
  <1>6. ASSUME NEW x \in HandedPairs, NEW i \in 1 .. Len(shares)
        PROVE  step[<<x, i>>] = x \o ArgumentsOf(i)
    OBVIOUS
  <1>7. f = Def(f)
    <2>. HIDE DEF step
    <2>1. \A i \in 0 .. Len(shares) : i # 0 => i \in 1 .. Len(shares) /\ i - 1 \in 0 .. Len(shares)
      BY <1>1
    <2>2. \A i \in 0 .. Len(shares) : f[i] \in HandedPairs
      BY <1>5
    <2>. QED
      BY <1>5, <1>6, <2>1, <2>2
  <1>8. HandedTo = Def(HandedTo)
    <2>1. HandedTo = CHOOSE g : g = Def(g)
      BY DEF HandedTo
    <2>. QED
      BY <1>7, <2>1
  <1>9. \A i \in 0 .. Len(shares) : HandedTo[i] = IF i = 0 THEN <<>> ELSE HandedTo[i - 1] \o ArgumentsOf(i)
    BY <1>8
  <1>10. HandedTo[0] = <<>> /\ \A i \in 1 .. Len(shares) : HandedTo[i] = HandedTo[i - 1] \o ArgumentsOf(i)
    <2>1. 0 \in 0 .. Len(shares) /\ \A i \in 1 .. Len(shares) : i \in 0 .. Len(shares) /\ i # 0
      BY <1>1
    <2>. QED
      BY <1>9, <2>1
  <1>11. Follows(HandedTo, Len(shares), HandedPairs, <<>>, step)
    <2>1. HandedTo = [i \in 0 .. Len(shares) |-> HandedTo[i]]
      BY <1>8
    <2>. HIDE DEF step
    <2>. QED
      BY <1>6, <1>10, <2>1 DEF Follows
  <1>12. HandedTo \in [0 .. Len(shares) -> HandedPairs]
    <2>. HIDE DEF step
    <2>. QED
      BY <1>1, <1>2, <1>3, <1>11, RecursiveFunctionType
  <1>. QED
    BY <1>10, <1>12

-----------------------------------------------------------------------------
(* The shares add up.                                                      *)

(* q arguments are needed and r are allowed behind a parameter: what is    *)
(* left where it is reached, and what it takes.                            *)
Fits(s, p, q, r) ==
  /\ s.need = q + (IF p.required THEN 1 ELSE 0)
  /\ s.need <= argc - s.next
  /\ argc - s.next <= r + (IF p.many THEN Unlimited ELSE 1)

Gets(t, s, p, q, r) ==
  /\ t.argv = s.next /\ t.next = s.next + t.argc /\ t.argc \in Nat
  /\ t.need = q /\ q <= argc - t.next /\ argc - t.next <= r
  /\ p.required => t.argc >= 1
  /\ ~p.many => t.argc <= 1

(* What is left is enough for the parameters behind and not too much.      *)
LEMMA NextShareKeeps ==
  ASSUME NEW s \in Share, NEW p \in AllParams, NEW q \in Nat, NEW r \in Nat, q <= r, argc \in Nat,
         Fits(s, p, q, r)
  PROVE  Gets(NextShare(s, p), s, p, q, r)
  <1> DEFINE t == NextShare(s, p)
  <1>1. p.required \in BOOLEAN /\ p.many \in BOOLEAN
    BY OptionsAssumption
  <1>2. s.next \in Int /\ s.need \in Int
    BY DEF Share
  <1>3. PICK left \in Int : left = argc - s.next
    BY <1>2
  <1>4. PICK n : n = (IF left > 0 THEN Take(p, left, s.need) ELSE 0)
    OBVIOUS
  <1>5. /\ t.argv = s.next /\ t.argc = n /\ t.next = s.next + n
        /\ t.need = IF p.required /\ left > 0 THEN s.need - 1 ELSE s.need
    BY <1>3, <1>4 DEF NextShare
  <1>. HIDE DEF t
  <1>6. /\ s.need = q + (IF p.required THEN 1 ELSE 0)
        /\ s.need <= left /\ left <= r + (IF p.many THEN Unlimited ELSE 1)
    BY <1>3 DEF Fits
  <1>7. /\ n \in Nat /\ t.need = q /\ q <= left - n /\ left - n <= r
        /\ p.required => n >= 1
        /\ ~p.many => n <= 1
    <2>1. CASE p.required /\ p.many
      BY <1>1, <1>2, <1>4, <1>5, <1>6, <2>1 DEF Take
    <2>2. CASE p.required /\ ~p.many
      BY <1>1, <1>2, <1>4, <1>5, <1>6, <2>2 DEF Take
    <2>3. CASE ~p.required /\ p.many
      BY <1>1, <1>2, <1>4, <1>5, <1>6, <2>3 DEF Take
    <2>4. CASE ~p.required /\ ~p.many
      BY <1>1, <1>2, <1>4, <1>5, <1>6, <2>4 DEF Take
    <2>. QED
      BY <1>1, <2>1, <2>2, <2>3, <2>4
  <1>8. argc - t.next = left - n
    BY <1>2, <1>3, <1>5, <1>7
  <1>9. Gets(t, s, p, q, r)
    BY <1>5, <1>7, <1>8 DEF Gets
  <1>. QED
    BY <1>9 DEF t

(* What is needed and what is allowed behind the i-th parameter.           *)
NeededBehind(i) == Needed(paramv) - NeededTo(paramv)[i]
AllowedBehind(i) == Allowed(paramv) - AllowedTo(paramv)[i]

Kept(i) ==
  /\ Sharing[i].need = NeededBehind(i)
  /\ NeededBehind(i) <= argc - Sharing[i].next
  /\ argc - Sharing[i].next <= AllowedBehind(i)

Handing(i) ==
  /\ Sharing[i].argv = Sharing[i - 1].next
  /\ Sharing[i].next = Sharing[i - 1].next + Sharing[i].argc
  /\ Sharing[i].argc \in Nat
  /\ Paramv[paramv][i].required => Sharing[i].argc >= 1
  /\ ~Paramv[paramv][i].many => Sharing[i].argc <= 1

InLimits == argc - optind \in Needed(paramv) .. Allowed(paramv)

LEMMA Behinds ==
  ASSUME paramv \in DOMAIN Paramv
  PROVE  /\ \A i \in 0 .. Len(Paramv[paramv]) :
              NeededBehind(i) \in Nat /\ AllowedBehind(i) \in Nat /\ NeededBehind(i) <= AllowedBehind(i)
         /\ NeededBehind(0) = Needed(paramv) /\ AllowedBehind(0) = Allowed(paramv)
         /\ NeededBehind(Len(Paramv[paramv])) = 0 /\ AllowedBehind(Len(Paramv[paramv])) = 0
         /\ \A i \in 1 .. Len(Paramv[paramv]) :
              /\ NeededBehind(i - 1) = NeededBehind(i) + (IF Paramv[paramv][i].required THEN 1 ELSE 0)
              /\ AllowedBehind(i - 1) = AllowedBehind(i) + (IF Paramv[paramv][i].many THEN Unlimited ELSE 1)
  <1> DEFINE n == Len(Paramv[paramv])
             N == NeededTo(paramv)
             A == AllowedTo(paramv)
             S == {k \in 0 .. n : NeededBehind(n - k) \in Nat /\ AllowedBehind(n - k) \in Nat}
  <1>1. n \in Nat
    BY ParamsTyped
  <1>2. /\ N \in [0 .. n -> Nat] /\ A \in [0 .. n -> Nat] /\ N[0] = 0 /\ A[0] = 0
        /\ \A j \in 1 .. n : N[j] = N[j - 1] + (IF Paramv[paramv][j].required THEN 1 ELSE 0)
                          /\ A[j] = A[j - 1] + (IF Paramv[paramv][j].many THEN Unlimited ELSE 1)
    BY NeededSums, AllowedSums
  <1>3. Needed(paramv) = N[n] /\ Allowed(paramv) = A[n]
    BY DEF Needed, Allowed
  <1>4. \A i : NeededBehind(i) = N[n] - N[i] /\ AllowedBehind(i) = A[n] - A[i]
    BY <1>3 DEF NeededBehind, AllowedBehind
  <1>5. \A i \in 0 .. n : NeededBehind(i) <= AllowedBehind(i)
    BY NeededWithinAllowed DEF NeededBehind, AllowedBehind
  <1>. HIDE DEF n, N, A
  <1>6. \A i \in 0 .. n : N[i] \in Nat /\ A[i] \in Nat
    BY <1>2
  <1>7. 0 \in 0 .. n /\ n \in 0 .. n
    BY <1>1
  <1>8. NeededBehind(n) = 0 /\ AllowedBehind(n) = 0
    <2>1. N[n] \in Nat /\ A[n] \in Nat
      BY <1>6, <1>7
    <2>. QED
      BY <1>4, <2>1
  <1>9. NeededBehind(0) = Needed(paramv) /\ AllowedBehind(0) = Allowed(paramv)
    <2>1. N[n] \in Nat /\ A[n] \in Nat
      BY <1>6, <1>7
    <2>. QED
      BY <1>2, <1>3, <1>4, <2>1
  <1>10. ASSUME NEW i \in 1 .. n
         PROVE  /\ NeededBehind(i - 1) = NeededBehind(i) + (IF Paramv[paramv][i].required THEN 1 ELSE 0)
                /\ AllowedBehind(i - 1) = AllowedBehind(i) + (IF Paramv[paramv][i].many THEN Unlimited ELSE 1)
    <2>1. i \in 0 .. n /\ i - 1 \in 0 .. n
      BY <1>1
    <2>2. /\ N[n] \in Nat /\ A[n] \in Nat /\ N[i] \in Nat /\ A[i] \in Nat
          /\ N[i - 1] \in Nat /\ A[i - 1] \in Nat
      BY <1>6, <1>7, <2>1
    <2>3. /\ N[i] = N[i - 1] + (IF Paramv[paramv][i].required THEN 1 ELSE 0)
          /\ A[i] = A[i - 1] + (IF Paramv[paramv][i].many THEN Unlimited ELSE 1)
      BY <1>2
    <2>. QED
      BY <1>4, <2>2, <2>3 DEF Unlimited
  <1>11. 0 .. n \subseteq S
    <2>1. 0 \in S
      BY <1>1, <1>8
    <2>2. ASSUME NEW k \in 0 .. n - 1, k \in S PROVE k + 1 \in S
      <3>1. n - k \in 1 .. n /\ (n - k) - 1 = n - (k + 1) /\ k + 1 \in 0 .. n
        BY <1>1
      <3>2. /\ NeededBehind(n - (k + 1)) = NeededBehind(n - k) + (IF Paramv[paramv][n - k].required THEN 1 ELSE 0)
            /\ AllowedBehind(n - (k + 1)) = AllowedBehind(n - k) + (IF Paramv[paramv][n - k].many THEN Unlimited ELSE 1)
        BY <1>10, <3>1
      <3>3. NeededBehind(n - k) \in Nat /\ AllowedBehind(n - k) \in Nat
        BY <2>2
      <3>4. NeededBehind(n - (k + 1)) \in Nat /\ AllowedBehind(n - (k + 1)) \in Nat
        BY <3>2, <3>3 DEF Unlimited
      <3>. QED
        BY <3>1, <3>4
    <2>3. \A k \in 0 .. n - 1 : k \in S => k + 1 \in S
      BY <2>2
    <2>. HIDE DEF S
    <2>. QED
      BY <1>1, <2>1, <2>3, IntervalInduction
  <1>12. ASSUME NEW i \in 0 .. n PROVE NeededBehind(i) \in Nat /\ AllowedBehind(i) \in Nat
    <2>1. n - i \in S
      BY <1>1, <1>11
    <2>2. n - (n - i) = i
      BY <1>1
    <2>. QED
      BY <2>1, <2>2
  <1>. QED
    BY <1>5, <1>8, <1>9, <1>10, <1>12 DEF n

LEMMA SharesAddUp ==
  ASSUME paramv \in DOMAIN Paramv, optind \in Nat, argc \in Nat, InLimits
  PROVE  /\ \A i \in 0 .. Len(Paramv[paramv]) : Kept(i)
         /\ \A i \in 1 .. Len(Paramv[paramv]) : Handing(i)
  <1> DEFINE n == Len(Paramv[paramv])
             S == {i \in 0 .. n : Kept(i)}
  <1>1. n \in Nat /\ \A i \in 1 .. n : Paramv[paramv][i] \in AllParams
    BY ParamsTyped
  <1>2. /\ Sharing \in [0 .. n -> Share] /\ Sharing[0] = FirstShare
        /\ \A i \in 1 .. n : Sharing[i] = NextShare(Sharing[i - 1], Paramv[paramv][i])
    BY SharesInTurn
  <1>3. /\ \A i \in 0 .. n :
              NeededBehind(i) \in Nat /\ AllowedBehind(i) \in Nat /\ NeededBehind(i) <= AllowedBehind(i)
        /\ NeededBehind(0) = Needed(paramv) /\ AllowedBehind(0) = Allowed(paramv)
        /\ \A i \in 1 .. n :
              /\ NeededBehind(i - 1) = NeededBehind(i) + (IF Paramv[paramv][i].required THEN 1 ELSE 0)
              /\ AllowedBehind(i - 1) = AllowedBehind(i) + (IF Paramv[paramv][i].many THEN Unlimited ELSE 1)
    BY Behinds
  <1>4. Kept(0)
    <2>1. Sharing[0].need = Needed(paramv) /\ Sharing[0].next = optind
      BY <1>2 DEF FirstShare
    <2>. QED
      BY <1>3, <2>1 DEF Kept, InLimits
  <1>. HIDE DEF n
  <1>5. ASSUME NEW i \in 1 .. n, Kept(i - 1) PROVE Kept(i) /\ Handing(i)
    <2>1. i - 1 \in 0 .. n /\ i \in 0 .. n /\ i - 1 \in Int
      BY <1>1
    <2>2. PICK s \in Share : s = Sharing[i - 1]
      BY <1>2, <2>1
    <2>3. PICK p \in AllParams : p = Paramv[paramv][i]
      BY <1>1
    <2>4. PICK q \in Nat, r \in Nat : q = NeededBehind(i) /\ r = AllowedBehind(i) /\ q <= r
      BY <1>3, <2>1
    <2>5. s.need = q + (IF p.required THEN 1 ELSE 0)
      BY <1>3, <1>5, <2>2, <2>3, <2>4 DEF Kept
    <2>6. s.need <= argc - s.next
      BY <1>5, <2>2 DEF Kept
    <2>7. argc - s.next <= r + (IF p.many THEN Unlimited ELSE 1)
      BY <1>3, <1>5, <2>2, <2>3, <2>4 DEF Kept
    <2>8. Fits(s, p, q, r)
      BY <2>5, <2>6, <2>7 DEF Fits
    <2>9. Gets(NextShare(s, p), s, p, q, r)
      BY <2>4, <2>8, NextShareKeeps
    <2>10. PICK t : t = Sharing[i] /\ Gets(t, s, p, q, r)
      BY <1>2, <2>2, <2>3, <2>9
    <2>. QED
      BY <2>2, <2>3, <2>4, <2>10 DEF Kept, Handing, Gets
  <1>6. 0 .. n \subseteq S
    <2>1. 0 \in S
      BY <1>1, <1>4
    <2>2. ASSUME NEW i \in 0 .. n - 1, i \in S PROVE i + 1 \in S
      <3>1. i + 1 \in 1 .. n /\ (i + 1) - 1 = i /\ i + 1 \in 0 .. n
        BY <1>1
      <3>. QED
        BY <1>5, <2>2, <3>1
    <2>3. \A i \in 0 .. n - 1 : i \in S => i + 1 \in S
      BY <2>2
    <2>. HIDE DEF S
    <2>. QED
      BY <1>1, <2>1, <2>3, IntervalInduction
  <1>7. \A i \in 0 .. n : Kept(i)
    BY <1>6
  <1>8. ASSUME NEW i \in 1 .. n PROVE Handing(i)
    <2>1. i - 1 \in 0 .. n
      BY <1>1
    <2>. QED
      BY <1>5, <1>7, <2>1
  <1>. QED
    BY <1>7, <1>8 DEF n

-----------------------------------------------------------------------------
(* The arguments handed out.                                               *)

(* The k-th argument handed out is the k-th there is, and is of the share  *)
(* of the parameter it is handed to.                                       *)
InOrder(h) ==
  \A k \in 1 .. Len(h) :
    /\ h[k][2] = optind + k - 1
    /\ shares[h[k][1]].argv <= h[k][2]
    /\ h[k][2] < shares[h[k][1]].argv + shares[h[k][1]].argc

(* Two sequences one behind the other.                                     *)
LEMMA Concatenated ==
  ASSUME NEW X, NEW x \in Seq(X), NEW y \in Seq(X)
  PROVE  /\ Len(x \o y) = Len(x) + Len(y) /\ Len(y) \in Nat
         /\ \A k \in 1 .. Len(x) + Len(y) : (x \o y)[k] = IF k <= Len(x) THEN x[k] ELSE y[k - Len(x)]
  <1>1. /\ Len(x \o y) = Len(x) + Len(y)
        /\ \A k \in 1 .. Len(x) + Len(y) : (x \o y)[k] = IF k <= Len(x) THEN x[k] ELSE y[k - Len(x)]
    BY ConcatProperties
  <1>. QED
    BY <1>1

LEMMA HandedOut ==
  ASSUME paramv \in DOMAIN Paramv, optind \in Nat, argc \in Nat, InLimits, shares = Shares
  PROVE  /\ Len(shares) = Len(Paramv[paramv])
         /\ Handed \in HandedPairs /\ Len(Handed) = argc - optind /\ InOrder(Handed)
         /\ \A i \in 1 .. Len(shares) :
              Handing(i) /\ shares[i].argc = Sharing[i].argc /\ shares[i].argv = Sharing[i].argv
         /\ Len(shares) >= 1 => shares[1].argv = optind
  <1> DEFINE n == Len(Paramv[paramv])
  <1>1. n \in Nat
    BY ParamsTyped
  <1>2. Sharing \in [0 .. n -> Share] /\ Sharing[0] = FirstShare
    BY SharesInTurn
  <1>3. /\ \A i \in 0 .. n : Kept(i)
        /\ \A i \in 1 .. n : Handing(i)
    BY SharesAddUp
  <1>4. /\ Len(shares) = n
        /\ \A i \in 1 .. n : shares[i].argc = Sharing[i].argc /\ shares[i].argv = Sharing[i].argv
    <2>1. shares = [i \in 1 .. n |-> [argv |-> Sharing[i].argv, argc |-> Sharing[i].argc]]
      BY DEF Shares
    <2>. HIDE DEF n
    <2>. QED
      BY <1>1, <2>1
  <1>5. NeededBehind(n) = 0 /\ AllowedBehind(n) = 0
    BY Behinds
  <1>. HIDE DEF n
  <1>6. \A i \in 0 .. n : Sharing[i].next \in Int /\ Sharing[i].argv \in Int /\ Sharing[i].argc \in Int
    BY <1>2 DEF Share
  <1>7. Sharing[n].next = argc
    <2>1. n \in 0 .. n
      BY <1>1
    <2>. QED
      BY <1>3, <1>5, <1>6, <2>1 DEF Kept
  <1>8. \A i \in 1 .. n : shares[i].argc \in Nat /\ shares[i].argv \in Int
    <2>1. \A i \in 1 .. n : i \in 0 .. n
      BY <1>1
    <2>. QED
      BY <1>3, <1>4, <1>6, <2>1 DEF Handing
  <1>9. /\ HandedTo \in [0 .. n -> HandedPairs] /\ HandedTo[0] = <<>>
        /\ \A i \in 1 .. n : HandedTo[i] = HandedTo[i - 1] \o ArgumentsOf(i)
    BY <1>1, <1>4, <1>8, HandedInTurn
  <1> DEFINE S == {i \in 0 .. n : /\ Len(HandedTo[i]) = Sharing[i].next - optind
                                  /\ InOrder(HandedTo[i])}
  <1>10. 0 \in S
    <2>1. Sharing[0].next = optind
      BY <1>2 DEF FirstShare
    <2>2. Len(HandedTo[0]) = 0
      BY <1>9
    <2>. QED
      BY <1>1, <2>1, <2>2 DEF InOrder
  <1>11. ASSUME NEW i \in 0 .. n - 1, i \in S PROVE i + 1 \in S
    <2>1. i + 1 \in 1 .. n /\ (i + 1) - 1 = i /\ i \in 0 .. n /\ i + 1 \in 0 .. n
      BY <1>1
    <2>2. PICK h \in HandedPairs : h = HandedTo[i]
      BY <1>9, <2>1
    <2>3. Len(h) = Sharing[i].next - optind /\ InOrder(h) /\ Len(h) \in Nat
      BY <1>11, <2>2 DEF HandedPairs
    <2>4. PICK a \in HandedPairs : a = ArgumentsOf(i + 1) /\ Len(a) = shares[i + 1].argc
      BY <1>4, <1>8, <2>1, ArgumentsTyped
    <2>5. HandedTo[i + 1] = h \o a
      BY <1>9, <2>1, <2>2, <2>4
    <2>6. /\ Len(h \o a) = Len(h) + Len(a) /\ Len(a) \in Nat
          /\ \A k \in 1 .. Len(h) + Len(a) : (h \o a)[k] = IF k <= Len(h) THEN h[k] ELSE a[k - Len(h)]
      BY Concatenated DEF HandedPairs
    <2>7. /\ shares[i + 1].argv = Sharing[i].next
          /\ Sharing[i + 1].next = Sharing[i].next + shares[i + 1].argc
          /\ Sharing[i].next \in Int
      BY <1>3, <1>4, <1>6, <2>1 DEF Handing
    <2>8. Len(h \o a) = Sharing[i + 1].next - optind
      <3>1. PICK L \in Nat, c \in Nat, x \in Int :
              L = Len(h) /\ c = Len(a) /\ x = Sharing[i].next
        BY <2>3, <2>6, <2>7
      <3>2. L = x - optind /\ optind \in Int
        BY <2>3, <3>1
      <3>3. Len(h \o a) = L + c
        BY <2>6, <3>1
      <3>4. Sharing[i + 1].next = x + c
        BY <2>4, <2>7, <3>1
      <3>5. L + c = (x + c) - optind
        BY <3>2
      <3>. QED
        BY <3>3, <3>4, <3>5
    <2>9. ASSUME NEW k \in 1 .. Len(h \o a)
          PROVE  /\ (h \o a)[k][2] = optind + k - 1
                 /\ shares[(h \o a)[k][1]].argv <= (h \o a)[k][2]
                 /\ (h \o a)[k][2] < shares[(h \o a)[k][1]].argv + shares[(h \o a)[k][1]].argc
      <3>1. CASE k <= Len(h)
        <4>1. (h \o a)[k] = h[k] /\ k \in 1 .. Len(h)
          BY <2>3, <2>6, <3>1
        <4>. QED
          BY <2>3, <4>1 DEF InOrder
      <3>2. CASE k > Len(h)
        <4>1. PICK j \in Nat : j = k - Len(h)
          BY <2>3, <2>6, <3>2
        <4>2. j \in 1 .. Len(a) /\ k \in 1 .. Len(h) + Len(a) /\ ~(k <= Len(h))
          BY <2>3, <2>6, <3>2, <4>1
        <4>3. (h \o a)[k] = a[j]
          BY <2>6, <4>1, <4>2
        <4>4. a[j] = <<i + 1, shares[i + 1].argv + j - 1>>
          BY <2>4, <4>2 DEF ArgumentsOf
        <4>5. (h \o a)[k][1] = i + 1 /\ (h \o a)[k][2] = shares[i + 1].argv + j - 1
          BY <4>3, <4>4
        <4>6. shares[i + 1].argv + j - 1 = optind + k - 1
          <5>1. PICK L \in Nat, b \in Int : L = Len(h) /\ b = Sharing[i].next
            BY <2>3, <2>7
          <5>2. shares[i + 1].argv = b
            BY <2>7, <5>1
          <5>3. L = b - optind
            BY <2>3, <5>1
          <5>4. j = k - L
            BY <4>1, <5>1
          <5>5. k \in Int /\ optind \in Int
            BY <2>6
          <5>6. b + j - 1 = optind + k - 1
            BY <5>3, <5>4, <5>5
          <5>. QED
            BY <5>2, <5>6
        <4>7. shares[i + 1].argv \in Int /\ shares[i + 1].argc \in Nat
          BY <1>8, <2>1
        <4>. QED
          <5>1. PICK x \in Int, c \in Nat : x = shares[i + 1].argv /\ c = shares[i + 1].argc
            BY <4>7
          <5>2. j >= 1 /\ j <= c
            BY <2>4, <4>2, <5>1
          <5>3. x <= x + j - 1 /\ x + j - 1 < x + c
            BY <5>1, <5>2
          <5>. QED
            BY <4>5, <4>6, <5>1, <5>3
      <3>. QED
        BY <2>3, <3>1, <3>2
    <2>10. InOrder(h \o a)
      BY <2>9 DEF InOrder
    <2>. QED
      BY <2>1, <2>5, <2>8, <2>10
  <1>12. n \in S
    <2>1. \A i \in 0 .. n - 1 : i \in S => i + 1 \in S
      BY <1>11
    <2>2. n \in 0 .. n
      BY <1>1
    <2>. HIDE DEF S
    <2>3. 0 .. n \subseteq S
      BY <1>1, <1>10, <2>1, IntervalInduction
    <2>. QED
      BY <2>2, <2>3
  <1>13. Handed = HandedTo[n] /\ n \in 0 .. n
    BY <1>1, <1>4 DEF Handed
  <1>14. Handed \in HandedPairs
    BY <1>9, <1>13
  <1>15. n >= 1 => shares[1].argv = optind
    <2>1. SUFFICES ASSUME n >= 1 PROVE shares[1].argv = optind
      OBVIOUS
    <2>2. 1 \in 1 .. n /\ 1 - 1 = 0
      BY <1>1, <2>1
    <2>3. Sharing[0].next = optind
      BY <1>2 DEF FirstShare
    <2>. QED
      BY <1>3, <1>4, <2>2, <2>3 DEF Handing
  <1>. QED
    BY <1>3, <1>4, <1>7, <1>12, <1>13, <1>14, <1>15 DEF n

(* All of what the check promises, whenever a line has been distributed.   *)
LEMMA DistributedWell ==
  ASSUME paramv \in DOMAIN Paramv, optind \in Nat, argc \in Nat, InLimits, shares = Shares
  PROVE  ArgumentsHandedOut
  <1>1. /\ Len(shares) = Len(Paramv[paramv])
        /\ Handed \in HandedPairs /\ Len(Handed) = argc - optind /\ InOrder(Handed)
        /\ \A i \in 1 .. Len(shares) : Handing(i) /\ shares[i].argc = Sharing[i].argc
    BY HandedOut
  <1>2. DOMAIN Handed = 1 .. Len(Handed)
    BY <1>1 DEF HandedPairs
  <1>3. DOMAIN shares = 1 .. Len(shares)
    <2>1. Len(Paramv[paramv]) \in Nat
      BY ParamsTyped
    <2>. QED
      BY <2>1 DEF Shares
  <1>. QED
    BY <1>1, <1>2, <1>3 DEF ArgumentsHandedOut, InOrder, Handing

-----------------------------------------------------------------------------
(* The options of clp_parsev.                                              *)

LEMMA LeastExists ==
  ASSUME NEW S, S \subseteq Nat, S # {}
  PROVE  \E i \in S : \A j \in S : i <= j
  <1>1. PICK i \in S : \A j \in S : ~(<<j, i>> \in OpToRel(<, Nat))
    BY NatLessThanWellFounded, WFMin
  <1>2. \A j \in S : ~(j < i)
    BY <1>1 DEF OpToRel
  <1>. QED
    BY <1>2

LEMMA LargestExists ==
  ASSUME NEW n \in Nat, NEW S, S \subseteq 1 .. n, S # {}
  PROVE  \E i \in S : \A j \in S : j <= i
  <1> DEFINE T == {k \in Nat : n - k \in S}
  <1>1. PICK s \in S : TRUE
    OBVIOUS
  <1>2. n - s \in T
    <2>1. s \in 1 .. n /\ n - (n - s) = s
      OBVIOUS
    <2>. QED
      BY <2>1
  <1>3. PICK k \in T : \A j \in T : k <= j
    <2>1. T \subseteq Nat /\ T # {}
      BY <1>2
    <2>. HIDE DEF T
    <2>. QED
      BY <2>1, LeastExists
  <1>4. n - k \in S /\ k \in Nat
    OBVIOUS
  <1>5. ASSUME NEW j \in S PROVE j <= n - k
    <2>1. j \in 1 .. n /\ n - j \in Nat /\ n - (n - j) = j
      OBVIOUS
    <2>2. n - j \in T
      BY <2>1
    <2>3. k <= n - j
      BY <1>3, <2>2
    <2>. QED
      BY <1>4, <2>1, <2>3
  <1>. QED
    BY <1>4, <1>5

LEMMA OptionsTyped ==
  ASSUME NEW v \in DOMAIN Optionv
  PROVE  /\ Optionv[v] \in Seq(AllOptions) /\ Members(Optionv[v]) \subseteq AllOptions
         /\ DOMAIN Optionv[v] \subseteq Nat
         /\ KnownLetters(v) \subseteq {o.optopt : o \in Members(Optionv[v])}
  <1>1. Optionv[v] \in Seq(AllOptions)
    BY OptionsAssumption
  <1>2. \A i \in DOMAIN Optionv[v] : Optionv[v][i] \in AllOptions
    BY <1>1
  <1>3. DOMAIN Optionv[v] \subseteq Nat
    BY <1>1
  <1>. QED
    BY <1>1, <1>2, <1>3 DEF Members, KnownLetters

(* clp_find finds an option of that letter where there is one.             *)
LEMMA FindFinds ==
  ASSUME call.options \in DOMAIN Optionv, NEW c \in KnownLetters(call.options)
  PROVE  /\ Find(c) \in Members(Optionv[call.options]) /\ Find(c) \in AllOptions
         /\ Find(c).optopt = c
  <1> DEFINE v == Optionv[call.options]
             hits == {i \in DOMAIN v : v[i].optopt = c}
             first == CHOOSE i \in hits : \A j \in hits : i <= j
  <1>1. Members(v) \subseteq AllOptions /\ DOMAIN v \subseteq Nat
    BY OptionsTyped
  <1>2. hits # {} /\ hits \subseteq Nat
    <2>1. PICK o \in Members(v) : o.optopt = c
      BY OptionsTyped
    <2>. QED
      BY <1>1, <2>1 DEF Members
  <1>3. first \in hits
    <2>. HIDE DEF hits
    <2>1. \E i \in hits : \A j \in hits : i <= j
      BY <1>2, LeastExists
    <2>. QED
      BY <2>1
  <1>4. Find(c) = v[first]
    BY <1>2 DEF Find
  <1>. HIDE DEF first
  <1>5. v[first] \in Members(v) /\ v[first].optopt = c
    BY <1>3 DEF Members
  <1>. QED
    BY <1>1, <1>4, <1>5

(* The options with an after() of a list, and of one more.                 *)
LEMMA FirstsInTurn ==
  ASSUME NEW C, NEW s \in Seq(C)
  PROVE  /\ FirstGiven(s) \in [0 .. Len(s) -> Seq(C)]
         /\ FirstGiven(s)[0] = <<>>
         /\ \A i \in 1 .. Len(s) :
              FirstGiven(s)[i] = IF HasAfter(s, i) THEN Append(FirstGiven(s)[i - 1], s[i])
                                 ELSE FirstGiven(s)[i - 1]
  <1> DEFINE step == [p \in (Seq(C)) \X (1 .. Len(s)) |-> (IF HasAfter(s, p[2]) THEN Append(p[1], s[p[2]]) ELSE p[1])]
             Def(g) == [k \in 0 .. Len(s) |-> IF k = 0 THEN <<>> ELSE (IF HasAfter(s, k) THEN Append(g[k - 1], s[k]) ELSE g[k - 1])]
  <1>1. Len(s) \in Nat /\ \A i \in 1 .. Len(s) : s[i] \in C
    OBVIOUS
  <1>2. step \in Steps(Len(s), Seq(C))
    <2>1. \A x \in Seq(C), i \in 1 .. Len(s) : Append(x, s[i]) \in Seq(C)
      BY <1>1
    <2>. QED
      BY <2>1 DEF Steps
  <1>3. <<>> \in Seq(C)
    OBVIOUS
  <1>4. PICK f : Solution(f, Len(s), Seq(C), <<>>, step)
    <2>. HIDE DEF step
    <2>. QED
      BY <1>1, <1>2, <1>3, RecursiveFunctionExists
  <1>5. /\ f \in [0 .. Len(s) -> Seq(C)]
        /\ f = [i \in 0 .. Len(s) |-> IF i = 0 THEN <<>> ELSE step[<<f[i - 1], i>>]]
    <2>. HIDE DEF step
    <2>. QED
      BY <1>4 DEF Solution
  <1>6. ASSUME NEW x \in Seq(C), NEW i \in 1 .. Len(s)
        PROVE  step[<<x, i>>] = (IF HasAfter(s, i) THEN Append(x, s[i]) ELSE x)
    OBVIOUS
  <1>7. f = Def(f)
    <2>. HIDE DEF step
    <2>1. \A i \in 0 .. Len(s) : i # 0 => i \in 1 .. Len(s) /\ i - 1 \in 0 .. Len(s)
      BY <1>1
    <2>2. \A i \in 0 .. Len(s) : f[i] \in Seq(C)
      BY <1>5
    <2>. QED
      BY <1>5, <1>6, <2>1, <2>2
  <1>8. FirstGiven(s) = Def(FirstGiven(s))
    <2>1. FirstGiven(s) = CHOOSE g : g = Def(g)
      BY DEF FirstGiven
    <2>. QED
      BY <1>7, <2>1
  <1>9. \A i \in 0 .. Len(s) : FirstGiven(s)[i] = IF i = 0 THEN <<>> ELSE (IF HasAfter(s, i) THEN Append(FirstGiven(s)[i - 1], s[i]) ELSE FirstGiven(s)[i - 1])
    BY <1>8
  <1>10. FirstGiven(s)[0] = <<>> /\ \A i \in 1 .. Len(s) : FirstGiven(s)[i] = (IF HasAfter(s, i) THEN Append(FirstGiven(s)[i - 1], s[i]) ELSE FirstGiven(s)[i - 1])
    <2>1. 0 \in 0 .. Len(s) /\ \A i \in 1 .. Len(s) : i \in 0 .. Len(s) /\ i # 0
      BY <1>1
    <2>. QED
      BY <1>9, <2>1
  <1>11. Follows(FirstGiven(s), Len(s), Seq(C), <<>>, step)
    <2>1. FirstGiven(s) = [i \in 0 .. Len(s) |-> FirstGiven(s)[i]]
      BY <1>8
    <2>. HIDE DEF step
    <2>. QED
      BY <1>6, <1>10, <2>1 DEF Follows
  <1>12. FirstGiven(s) \in [0 .. Len(s) -> Seq(C)]
    <2>. HIDE DEF step
    <2>. QED
      BY <1>1, <1>2, <1>3, <1>11, RecursiveFunctionType
  <1>. QED
    BY <1>10, <1>12

LEMMA FirstsAppend ==
  ASSUME NEW C, NEW s \in Seq(C), NEW c \in C
  PROVE  FirstGiven(Append(s, c))[Len(s) + 1] =
           IF Find(c).after /\ c \notin Members(s) THEN Append(FirstGiven(s)[Len(s)], c)
           ELSE FirstGiven(s)[Len(s)]
  <1> DEFINE t == Append(s, c)
             n == Len(s)
             F == FirstGiven(s)
             G == FirstGiven(t)
             S == {i \in 0 .. n : G[i] = F[i]}
  <1>1. /\ n \in Nat /\ t \in Seq(C) /\ Len(t) = n + 1 /\ t[n + 1] = c
        /\ \A i \in 1 .. n : t[i] = s[i]
    OBVIOUS
  <1>2. /\ F[0] = <<>>
        /\ \A i \in 1 .. n : F[i] = IF HasAfter(s, i) THEN Append(F[i - 1], s[i]) ELSE F[i - 1]
    BY FirstsInTurn
  <1>3. /\ G[0] = <<>>
        /\ \A i \in 1 .. n + 1 : G[i] = IF HasAfter(t, i) THEN Append(G[i - 1], t[i]) ELSE G[i - 1]
    <2>. HIDE DEF t, n
    <2>. QED
      BY <1>1, FirstsInTurn
  <1>. HIDE DEF t, n, F, G
  <1>4. \A i \in 1 .. n : HasAfter(t, i) <=> HasAfter(s, i)
    <2>1. \A i \in 1 .. n : \A j \in 1 .. i - 1 : j \in 1 .. n
      BY <1>1
    <2>. QED
      BY <1>1, <2>1 DEF HasAfter
  <1>5. HasAfter(t, n + 1) <=> Find(c).after /\ c \notin Members(s)
    <2>1. (n + 1) - 1 = n /\ Members(s) = {s[i] : i \in 1 .. n}
      BY <1>1 DEF n, Members
    <2>. QED
      BY <1>1, <2>1 DEF HasAfter
  <1>6. 0 .. n \subseteq S
    <2>1. 0 \in S
      BY <1>1, <1>2, <1>3
    <2>2. ASSUME NEW i \in 0 .. n - 1, i \in S PROVE i + 1 \in S
      <3>1. i + 1 \in 1 .. n /\ i + 1 \in 1 .. n + 1 /\ (i + 1) - 1 = i /\ i + 1 \in 0 .. n
        BY <1>1
      <3>. QED
        BY <1>1, <1>2, <1>3, <1>4, <2>2, <3>1
    <2>3. \A i \in 0 .. n - 1 : i \in S => i + 1 \in S
      BY <2>2
    <2>4. n \in Int /\ 0 \in Int
      BY <1>1
    <2>. HIDE DEF S
    <2>. QED
      BY <2>1, <2>3, <2>4, IntervalInduction
  <1>7. G[n] = F[n]
    BY <1>1, <1>6
  <1>8. G[n + 1] = IF HasAfter(t, n + 1) THEN Append(G[n], c) ELSE G[n]
    <2>1. n + 1 \in 1 .. n + 1 /\ (n + 1) - 1 = n
      BY <1>1
    <2>. QED
      BY <1>1, <1>3, <2>1
  <1>9. G[n + 1] = IF Find(c).after /\ c \notin Members(s) THEN Append(F[n], c) ELSE F[n]
    BY <1>5, <1>7, <1>8
  <1>. QED
    BY <1>9 DEF t, n, F, G

(* The words read so far, and the one more of an option with an argument.  *)
LEMMA GotTyped ==
  ASSUME call.options \in DOMAIN Optionv, call.argv \in Seq(Seq(Char)), optind \in 1 .. argc + 1,
         nextchar \in Nat, phase = "options", IsOption, Got.c \notin {"?", ":"}
  PROVE  /\ Got.c \in KnownLetters(call.options)
         /\ Got.arg \in Seq(Char) /\ Got.ind \in 1 .. argc + 1 /\ Got.next \in Nat
  <1>1. /\ argc \in Nat /\ optind < argc /\ optind \in Nat /\ optind >= 1
        /\ \A i \in 0 .. argc - 1 : Word(i) \in Seq(Char)
    BY DEF argc, Word, IsOption
  <1>2. Word(optind) \in Seq(Char) /\ Len(Word(optind)) \in Nat /\ Len(Word(optind)) > 1
    <2>1. Word(optind) \in Seq(Char)
      BY <1>1
    <2>. QED
      BY <2>1 DEF IsOption
  <1>3. Letter \in KnownLetters(call.options)
    BY DEF Got
  <1>4. Place \in Nat
    BY <1>2 DEF Place
  <1>5. CASE ~Find(Letter).arg
    BY <1>1, <1>3, <1>4, <1>5 DEF Got
  <1>6. CASE Find(Letter).arg /\ Place # Len(Word(optind))
    <2>1. /\ Got.c = Letter /\ Got.ind = optind + 1 /\ Got.next = 0
          /\ Got.arg = SubSeq(Word(optind), Place + 1, Len(Word(optind)))
      BY <1>3, <1>6 DEF Got
    <2>2. SubSeq(Word(optind), Place + 1, Len(Word(optind))) \in Seq(Char)
      BY <1>2, <1>4
    <2>. QED
      BY <1>1, <1>3, <2>1, <2>2
  <1>7. CASE Find(Letter).arg /\ Place = Len(Word(optind)) /\ optind + 1 < argc
    <2>1. /\ Got.c = Letter /\ Got.ind = optind + 2 /\ Got.next = 0 /\ Got.arg = Word(optind + 1)
      BY <1>3, <1>7 DEF Got
    <2>. QED
      BY <1>1, <1>3, <1>7, <2>1
  <1>8. CASE Find(Letter).arg /\ Place = Len(Word(optind)) /\ ~(optind + 1 < argc)
    BY <1>3, <1>8 DEF Got
  <1>. QED
    BY <1>5, <1>6, <1>7, <1>8

-----------------------------------------------------------------------------
(* The invariant of clp_parsev.                                            *)

(* What the program's variables may hold: numbers of their own types.      *)
InDomains(n) ==
  \A x \in AllOptions \cup AllParams :
    x.cvt \in DOMAIN Domain => n[x.dst] \in Domain[x.cvt].min .. Domain[x.cvt].max

ValuesOK ==
  /\ num \in [Variables -> Int] /\ str \in [Variables -> Seq(Char)]
  /\ InDomains(num)
  /\ rc \in Codes

CallOK ==
  /\ call.options \in DOMAIN Optionv /\ call.params \in DOMAIN Paramv /\ paramv \in DOMAIN Paramv
  /\ given \in [KnownLetters(call.options) -> Nat]
  /\ seen \in Seq(KnownLetters(call.options))
  /\ ran \in Seq(KnownLetters(call.options)) /\ afters \in Seq(KnownLetters(call.options))

ParseTypes ==
  /\ phase \in {"idle", "options", "after", "convert", "done"}
  /\ call.argv \in Seq(Seq(Char))
  /\ optind \in 1 .. argc + 1 /\ nextchar \in Nat
  /\ ValuesOK
  /\ phase = "idle" => given = [c \in {} |-> 0] /\ seen = <<>>
  /\ phase # "idle" => CallOK

(* The counts and the history agree; no option given excludes another.     *)
GivenSeen == \A c \in KnownLetters(call.options) : given[c] >= 1 <=> c \in Members(seen)
Compatible == \A i, j \in DOMAIN seen : seen[i] # seen[j] => seen[i] \notin Find(seen[j]).excludes

(* The options given that bring parameters, and the parameters of the last *)
(* one.                                                                    *)
Own(s) == {i \in DOMAIN s : Find(s[i]).paramv # NoParamv}
LastOwn(s) == CHOOSE i \in Own(s) : \A j \in Own(s) : j <= i
InForce == paramv = IF Own(seen) = {} THEN call.params ELSE Find(seen[LastOwn(seen)]).paramv

OptionsInv ==
  phase # "idle" =>
    GivenSeen /\ Compatible /\ InForce /\ ran \o afters = FirstGiven(seen)[Len(seen)]

(* The number of arguments is checked before anything runs or is shared    *)
(* out, and what has been shared out stays.                                *)
PositionsInv ==
  /\ phase \in {"after", "convert"} => InLimits
  /\ ran # <<>> => InLimits /\ phase \notin {"idle", "options"}
  /\ shares # <<>> => shares = Shares /\ InLimits /\ phase \in {"convert", "done"}
  /\ phase = "convert" => shares = Shares
  /\ converted \in Nat

ParseInv == ParseTypes /\ OptionsInv /\ PositionsInv

(* What is stored by a conversion is of the type of its variable, and of   *)
(* every other option or parameter that has the variable.                  *)
LEMMA NumberTyped ==
  ASSUME NEW type \in DOMAIN Domain, NEW w \in Seq(Char), NEW r \in Number(type, w)
  PROVE  r.num \in Domain[type].min .. Domain[type].max /\ r.rc \in Codes
  <1>1. /\ Domain[type].min \in Int /\ Domain[type].max \in Int
        /\ Domain[type].min <= 0 /\ 0 <= Domain[type].max
        /\ Suffix[type] \in [DOMAIN Suffix[type] -> Int]
        /\ NumberOf \in [DOMAIN NumberOf -> Int]
    BY OptionsAssumption
  <1>2. CASE Unreadable(type, w)
    BY <1>1, <1>2 DEF Number, Codes
  <1>3. CASE ~Unreadable(type, w) /\ NumberOf[w[1]] = Infinity
    BY <1>1, <1>3 DEF Number, Codes
  <1>4. CASE ~Unreadable(type, w) /\ NumberOf[w[1]] # Infinity
    <2>1. Scaled(type, w) \in Int
      <3>1. NumberOf[w[1]] \in Int
        BY <1>1, <1>4 DEF Unreadable
      <3>2. (IF Len(w) > 1 THEN Suffix[type][w[2]] ELSE 1) \in Int
        BY <1>1, <1>4 DEF Unreadable
      <3>. QED
        BY <3>1, <3>2 DEF Scaled
    <2>2. Clamped(type, Scaled(type, w)) \in Domain[type].min .. Domain[type].max
      BY <1>1, <2>1 DEF Clamped
    <2>. QED
      BY <1>4, <2>2 DEF Number, Codes
  <1>. QED
    BY <1>2, <1>3, <1>4

LEMMA StoredTyped ==
  ASSUME ValuesOK, NEW x \in AllOptions \cup AllParams, NEW n \in Int, NEW w \in Seq(Char), NEW code \in Codes,
         x.cvt \in DOMAIN Domain => n \in Domain[x.cvt].min .. Domain[x.cvt].max,
         Stored(x.dst, n, w, code)
  PROVE  ValuesOK'
  <1>1. x.dst \in Variables /\ \A y \in AllOptions \cup AllParams : x.dst = y.dst => x.cvt = y.cvt
    BY OptionsAssumption
  <1>2. /\ num' = [num EXCEPT ![x.dst] = n] /\ str' = [str EXCEPT ![x.dst] = w] /\ rc' = code
        /\ num \in [Variables -> Int] /\ str \in [Variables -> Seq(Char)]
    BY DEF Stored, ValuesOK
  <1>3. num' \in [Variables -> Int] /\ str' \in [Variables -> Seq(Char)]
    BY <1>1, <1>2
  <1>4. ASSUME NEW y \in AllOptions \cup AllParams, y.cvt \in DOMAIN Domain
        PROVE  num'[y.dst] \in Domain[y.cvt].min .. Domain[y.cvt].max
    <2>1. y.dst \in Variables
      BY OptionsAssumption
    <2>2. CASE y.dst = x.dst
      BY <1>1, <1>2, <1>4, <2>1, <2>2
    <2>3. CASE y.dst # x.dst
      BY <1>2, <1>4, <2>1, <2>3 DEF ValuesOK, InDomains
    <2>. QED
      BY <2>2, <2>3
  <1>. QED
    BY <1>2, <1>3, <1>4 DEF ValuesOK, InDomains

LEMMA ConvertTyped ==
  ASSUME ValuesOK, NEW x \in AllOptions \cup AllParams, NEW w \in Seq(Char), Convert(x, w)
  PROVE  ValuesOK'
  <1>1. /\ {"none", "incr", "string"} \cap DOMAIN Domain = {} /\ x.dst \in Variables
        /\ <<>> \in Seq(Char) /\ "0" \in Codes /\ "EX_OSERR" \in Codes
    BY OptionsAssumption DEF Codes
  <1>2. CASE UNCHANGED <<num, str>> /\ rc' = "0"
    BY <1>1, <1>2 DEF ValuesOK, InDomains
  <1>3. CASE x.cvt = "incr" /\ Stored(x.dst, num[x.dst] + 1, <<>>, "0")
    <2>1. num[x.dst] + 1 \in Int
      BY <1>1 DEF ValuesOK
    <2>. QED
      BY <1>1, <1>3, <2>1, StoredTyped
  <1>4. CASE x.cvt = "string" /\ Stored(x.dst, 0, w, "0")
    BY <1>1, <1>4, StoredTyped
  <1>5. CASE x.cvt = "string" /\ Stored(x.dst, 0, <<>>, "EX_OSERR")
    <2>1. PICK w0 \in Seq(Char), code \in Codes : w0 = <<>> /\ code = "EX_OSERR"
      BY <1>1
    <2>2. Stored(x.dst, 0, w0, code) /\ x.cvt \notin DOMAIN Domain
      BY <1>1, <1>5, <2>1
    <2>. QED
      BY <2>2, StoredTyped
  <1>6. ASSUME x.cvt \in DOMAIN Domain, NEW r \in Number(x.cvt, w), Stored(x.dst, r.num, <<>>, r.rc)
        PROVE  ValuesOK'
    <2>1. r.num \in Domain[x.cvt].min .. Domain[x.cvt].max /\ r.rc \in Codes
      BY <1>6, NumberTyped
    <2>2. r.num \in Int
      BY <1>6, <2>1, OptionsAssumption
    <2>. QED
      BY <1>1, <1>6, <2>1, <2>2, StoredTyped
  <1>. QED
    BY <1>2, <1>3, <1>4, <1>5, <1>6 DEF Convert

(* A call begins, or the parser is left; nothing moves.                    *)
LEMMA ParseVBegins ==
  ASSUME ValuesOK, NEW options \in DOMAIN Optionv, NEW params \in DOMAIN Paramv, NEW a \in Seq(Seq(Char)),
         ParseV(options, params, a)
  PROVE  ParseInv'
  <1>1. /\ call' = [options |-> options, params |-> params, argv |-> a]
        /\ given' = [c \in KnownLetters(options) |-> 0]
        /\ optind' = 1 /\ nextchar' = 0
        /\ seen' = <<>> /\ afters' = <<>> /\ ran' = <<>>
        /\ paramv' = params /\ shares' = <<>> /\ converted' = 0
        /\ phase' \in {"options", "done"} /\ rc' \in {"0", "EX_OSERR"}
        /\ UNCHANGED <<num, str>>
    BY DEF ParseV
  <1>2. call'.options = options /\ call'.params = params /\ call'.argv = a
    BY <1>1
  <1>3. ParseTypes'
    <2>1. 1 \in 1 .. Len(a) + 1
      OBVIOUS
    <2>2. ValuesOK'
      BY <1>1 DEF ValuesOK, InDomains, Codes
    <2>3. <<>> \in Seq(KnownLetters(options))
      OBVIOUS
    <2>4. CallOK'
      BY <1>1, <1>2, <2>3 DEF CallOK
    <2>. QED
      BY <1>1, <1>2, <2>1, <2>2, <2>4 DEF ParseTypes, argc
  <1>4. OptionsInv'
    <2>1. Members(<<>>) = {} /\ Own(<<>>) = {}
      BY DEF Members, Own
    <2>2. GivenSeen'
      BY <1>1, <1>2, <2>1 DEF GivenSeen, Members
    <2>3. Compatible'
      BY <1>1 DEF Compatible
    <2>4. InForce'
      BY <1>1, <1>2 DEF InForce, Own
    <2>5. (ran \o afters)' = <<>>
      BY <1>1
    <2>6. (FirstGiven(seen)[Len(seen)])' = <<>>
      <3>1. (FirstGiven(seen)[Len(seen)])' = (FirstGiven(<<>>)[0])'
        BY <1>1
      <3>2. (FirstGiven(<<>>)[0])' = <<>>
        <4> DEFINE Def(g) == [i \in 0 .. Len(<<>>) |->
                                IF i = 0 THEN <<>>
                                ELSE IF HasAfter(<<>>, i)' THEN Append(g[i - 1], <<>>[i]) ELSE g[i - 1]]
                   f == [i \in 0 .. Len(<<>>) |-> <<>>]
        <4>1. f = Def(f)
          <5>1. Len(<<>>) = 0 /\ \A i \in 0 .. 0 : i = 0
            OBVIOUS
          <5>. QED
            BY <5>1
        <4>2. (FirstGiven(<<>>))' = CHOOSE g : g = Def(g)
          BY DEF FirstGiven
        <4>3. (FirstGiven(<<>>))' = Def((FirstGiven(<<>>))')
          BY <4>1, <4>2
        <4>4. 0 \in 0 .. Len(<<>>)
          OBVIOUS
        <4>. QED
          BY <4>3, <4>4
      <3>. QED
        BY <3>1, <3>2
    <2>. QED
      BY <2>2, <2>3, <2>4, <2>5, <2>6 DEF OptionsInv
  <1>5. PositionsInv'
    BY <1>1 DEF PositionsInv
  <1>. QED
    BY <1>3, <1>4, <1>5 DEF ParseInv

-----------------------------------------------------------------------------
(* Each step of clp_parsev keeps the invariant.                            *)

LEMMA QuietBegins ==
  ASSUME ValuesOK, Quiet, UNCHANGED <<num, str>>
  PROVE  ParseInv'
  <1>1. /\ call' = NoCall /\ phase' = "idle" /\ optind' = 1 /\ nextchar' = 0
        /\ given' = [c \in {} |-> 0] /\ seen' = <<>> /\ ran' = <<>> /\ shares' = <<>> /\ rc' = "0"
        /\ converted' = 0
    BY DEF Quiet
  <1>2. call'.argv = <<>> /\ argc' = 0 /\ <<>> \in Seq(Seq(Char))
    BY <1>1 DEF NoCall, argc
  <1>3. ValuesOK'
    BY <1>1 DEF ValuesOK, InDomains, Codes
  <1>4. ParseTypes'
    BY <1>1, <1>2, <1>3 DEF ParseTypes
  <1>5. OptionsInv' /\ PositionsInv'
    BY <1>1 DEF OptionsInv, PositionsInv
  <1>. QED
    BY <1>4, <1>5 DEF ParseInv

(* What is said of the options given is said of the list of them.          *)
LEMMA SameFirsts ==
  ASSUME UNCHANGED call, NEW s, seen' = s
  PROVE  (FirstGiven(seen))' = FirstGiven(s)
  BY DEF FirstGiven, HasAfter, Find

LEMMA SameOwn ==
  ASSUME UNCHANGED call, NEW s, seen' = s
  PROVE  (Own(seen))' = Own(s) /\ (LastOwn(seen))' = LastOwn(s)
  BY DEF Own, LastOwn, Find

LEMMA SameShares == ASSUME UNCHANGED <<call, optind, paramv>> PROVE Shares' = Shares
  <1>1. Sharing' = Sharing
    BY DEF Sharing, FirstShare, NextShare, argc
  <1>. QED
    BY <1>1 DEF Shares

LEMMA SameLimits == ASSUME UNCHANGED <<call, optind, paramv>> PROVE InLimits' <=> InLimits
  BY DEF InLimits, argc

LEMMA KeepsOptions ==
  ASSUME OptionsInv, phase # "idle", UNCHANGED <<call, given, seen, paramv>>,
         ran' \o afters' = ran \o afters
  PROVE  OptionsInv'
  <1>1. GivenSeen /\ Compatible /\ InForce /\ ran \o afters = FirstGiven(seen)[Len(seen)]
    BY DEF OptionsInv
  <1>2. (FirstGiven(seen))' = FirstGiven(seen)
    BY SameFirsts
  <1>3. (FirstGiven(seen)[Len(seen)])' = FirstGiven(seen)[Len(seen)]
    BY <1>2
  <1>4. Own(seen)' = Own(seen) /\ LastOwn(seen)' = LastOwn(seen)
    BY SameOwn
  <1>6. GivenSeen'
    BY <1>1 DEF GivenSeen, KnownLetters, Members
  <1>7. Compatible'
    <2>1. (\A i, j \in DOMAIN seen : seen[i] # seen[j] => seen[i] \notin Find(seen[j]).excludes)'
      <3>1. SUFFICES ASSUME NEW i \in DOMAIN seen, NEW j \in DOMAIN seen, seen[i] # seen[j]
                     PROVE  (seen[i] \notin Find(seen[j]).excludes)'
        OBVIOUS
      <3>2. (Find(seen[j]))' = Find(seen[j])
        BY DEF Find
      <3>. QED
        BY <1>1, <3>1, <3>2 DEF Compatible
    <2>. QED
      BY <2>1 DEF Compatible
  <1>8. InForce'
    BY <1>1, <1>4 DEF InForce, Find
  <1>. QED
    BY <1>1, <1>3, <1>6, <1>7, <1>8 DEF OptionsInv

LEMMA KeepsTypes ==
  ASSUME ParseTypes, phase # "idle", phase' \in {"options", "after", "convert", "done"},
         UNCHANGED <<call, given, seen, paramv, nextchar>>,
         optind' \in 1 .. argc + 1, ValuesOK',
         ran' \in Seq(KnownLetters(call.options)), afters' \in Seq(KnownLetters(call.options))
  PROVE  ParseTypes'
  <1>1. CallOK
    BY DEF ParseTypes
  <1>2. CallOK'
    BY <1>1 DEF CallOK
  <1>. QED
    BY <1>2 DEF ParseTypes, argc

LEMMA BadOptionKeeps == ASSUME ParseInv, BadOption PROVE ParseInv'
  <1>1. /\ phase = "options" /\ phase' = "done" /\ rc' = "EX_USAGE"
        /\ UNCHANGED <<call, optind, nextchar, given, seen, afters, ran, paramv, shares, converted, num, str>>
    BY DEF BadOption, Return
  <1>2. ParseTypes /\ OptionsInv /\ PositionsInv /\ CallOK /\ ValuesOK
    BY <1>1 DEF ParseInv, ParseTypes
  <1>3. ValuesOK'
    BY <1>1, <1>2 DEF ValuesOK, InDomains, Codes
  <1>4. ParseTypes'
    BY <1>1, <1>2, <1>3, KeepsTypes DEF ParseTypes, CallOK
  <1>5. OptionsInv'
    BY <1>1, <1>2, KeepsOptions
  <1>6. PositionsInv'
    BY <1>1, <1>2 DEF PositionsInv
  <1>. QED
    BY <1>4, <1>5, <1>6 DEF ParseInv

LEMMA OptionsEndKeeps == ASSUME ParseInv, OptionsEnd PROVE ParseInv'
  <1>1. /\ phase = "options" /\ phase' \in {"after", "done"} /\ rc' \in {"0", "EX_USAGE"}
        /\ optind' = (IF IsEnd THEN optind + 1 ELSE optind)
        /\ phase' = "after" => argc - optind' \in Needed(paramv) .. Allowed(paramv)
        /\ UNCHANGED <<call, nextchar, given, seen, afters, ran, paramv, shares, converted, num, str>>
    BY DEF OptionsEnd, Return
  <1>2. ParseTypes /\ OptionsInv /\ PositionsInv /\ CallOK /\ ValuesOK
    BY <1>1 DEF ParseInv, ParseTypes
  <1>3. ValuesOK'
    BY <1>1, <1>2 DEF ValuesOK, InDomains, Codes
  <1>4. optind' \in 1 .. argc + 1
    <2>1. argc \in Nat /\ optind \in 1 .. argc + 1
      BY <1>2 DEF ParseTypes, argc
    <2>. QED
      BY <1>1, <2>1 DEF IsEnd
  <1>5. ParseTypes'
    BY <1>1, <1>2, <1>3, <1>4, KeepsTypes DEF CallOK
  <1>6. OptionsInv'
    BY <1>1, <1>2, KeepsOptions
  <1>7. phase' = "after" => InLimits'
    BY <1>1 DEF InLimits, argc
  <1>8. PositionsInv'
    BY <1>1, <1>2, <1>7 DEF PositionsInv
  <1>. QED
    BY <1>5, <1>6, <1>8 DEF ParseInv

LEMMA MovedHead ==
  ASSUME NEW C, NEW r \in Seq(C), NEW a \in Seq(C), a # <<>>
  PROVE  /\ Append(r, Head(a)) \o Tail(a) = r \o a
         /\ Append(r, Head(a)) \in Seq(C) /\ Tail(a) \in Seq(C)
  OBVIOUS

LEMMA RunAfterKeeps == ASSUME ParseInv, RunAfter PROVE ParseInv'
  <1>1. /\ phase = "after" /\ phase' = "after" /\ afters # <<>>
        /\ ran' = Append(ran, Head(afters)) /\ afters' = Tail(afters)
        /\ UNCHANGED <<call, optind, nextchar, given, seen, paramv, shares, converted, num, str, rc>>
    BY DEF RunAfter
  <1>2. ParseTypes /\ OptionsInv /\ PositionsInv /\ CallOK /\ ValuesOK
    BY <1>1 DEF ParseInv, ParseTypes
  <1>3. ValuesOK'
    BY <1>1, <1>2 DEF ValuesOK, InDomains
  <1>4. /\ ran' \o afters' = ran \o afters
        /\ ran' \in Seq(KnownLetters(call.options)) /\ afters' \in Seq(KnownLetters(call.options))
    <2>1. PICK C : C = KnownLetters(call.options)
      OBVIOUS
    <2>2. ran \in Seq(C) /\ afters \in Seq(C)
      BY <1>2, <2>1 DEF CallOK
    <2>3. /\ Append(ran, Head(afters)) \o Tail(afters) = ran \o afters
          /\ Append(ran, Head(afters)) \in Seq(C) /\ Tail(afters) \in Seq(C)
      BY <1>1, <2>2, MovedHead
    <2>. QED
      BY <1>1, <2>1, <2>3
  <1>5. ParseTypes'
    BY <1>1, <1>2, <1>3, <1>4, KeepsTypes DEF ParseTypes
  <1>6. OptionsInv'
    BY <1>1, <1>2, <1>4, KeepsOptions
  <1>7. InLimits'
    BY <1>1, <1>2, SameLimits DEF PositionsInv
  <1>8. PositionsInv'
    BY <1>1, <1>2, <1>7 DEF PositionsInv
  <1>. QED
    BY <1>5, <1>6, <1>8 DEF ParseInv

LEMMA DistributeKeeps == ASSUME ParseInv, Distribute PROVE ParseInv'
  <1>1. /\ phase = "after" /\ phase' = "convert" /\ shares' = Shares
        /\ UNCHANGED <<call, optind, nextchar, given, seen, afters, ran, paramv, converted, num, str, rc>>
    BY DEF Distribute
  <1>2. ParseTypes /\ OptionsInv /\ PositionsInv /\ CallOK /\ ValuesOK
    BY <1>1 DEF ParseInv, ParseTypes
  <1>3. ValuesOK'
    BY <1>1, <1>2 DEF ValuesOK, InDomains
  <1>4. ParseTypes'
    BY <1>1, <1>2, <1>3, KeepsTypes DEF ParseTypes, CallOK
  <1>5. OptionsInv'
    BY <1>1, <1>2, KeepsOptions
  <1>6. InLimits' /\ shares' = Shares'
    BY <1>1, <1>2, SameLimits, SameShares DEF PositionsInv
  <1>7. PositionsInv'
    BY <1>1, <1>2, <1>6 DEF PositionsInv
  <1>. QED
    BY <1>4, <1>5, <1>7 DEF ParseInv

(* The next argument and its parameter.                                    *)
LEMMA NextArgument ==
  ASSUME ParseInv, phase = "convert", converted < Len(Handed)
  PROVE  /\ Handed[converted + 1][1] \in 1 .. Len(Paramv[paramv])
         /\ Paramv[paramv][Handed[converted + 1][1]] \in AllParams
         /\ Handed[converted + 1][2] = optind + converted
         /\ Word(Handed[converted + 1][2]) \in Seq(Char)
  <1>1. /\ paramv \in DOMAIN Paramv /\ argc \in Nat /\ optind \in Nat /\ optind >= 1
        /\ call.argv \in Seq(Seq(Char)) /\ InLimits /\ shares = Shares /\ converted \in Nat
    BY DEF ParseInv, ParseTypes, CallOK, PositionsInv, argc
  <1>2. /\ Len(shares) = Len(Paramv[paramv])
        /\ Handed \in HandedPairs /\ Len(Handed) = argc - optind /\ InOrder(Handed)
    BY <1>1, HandedOut
  <1>3. PICK k \in Nat : k = converted + 1 /\ k >= 1 /\ k <= argc - optind
    BY <1>1, <1>2
  <1>4. k \in 1 .. Len(Handed) /\ k \in 1 .. argc
    BY <1>1, <1>2, <1>3
  <1>5. Handed[k] \in (1 .. Len(shares)) \X Int
    BY <1>2, <1>4 DEF HandedPairs
  <1>6. Handed[k][1] \in 1 .. Len(Paramv[paramv])
    BY <1>2, <1>5
  <1>7. Paramv[paramv][Handed[k][1]] \in AllParams
    BY <1>1, <1>6, ParamsTyped
  <1>8. Handed[k][2] = optind + k - 1
    BY <1>2, <1>4 DEF InOrder
  <1>9. Handed[k][2] = optind + converted
    BY <1>1, <1>3, <1>8
  <1>10. Word(optind + converted) \in Seq(Char)
    <2>1. (optind + converted) + 1 \in 1 .. Len(call.argv)
      BY <1>1, <1>3 DEF argc
    <2>. QED
      BY <1>1, <2>1 DEF Word
  <1>. QED
    BY <1>3, <1>6, <1>7, <1>9, <1>10

LEMMA ConvertArgumentKeeps == ASSUME ParseInv, ConvertArgument PROVE ParseInv'
  <1>1. /\ phase = "convert" /\ converted < Len(Handed) /\ phase' \in {"convert", "done"}
        /\ converted' = converted + 1
        /\ Convert(Paramv[paramv][Handed[converted + 1][1]], Word(Handed[converted + 1][2]))
        /\ UNCHANGED <<call, optind, nextchar, given, seen, afters, ran, paramv, shares>>
    BY DEF ConvertArgument
  <1>2. ParseTypes /\ OptionsInv /\ PositionsInv /\ CallOK /\ ValuesOK
    BY <1>1 DEF ParseInv, ParseTypes
  <1>3. ValuesOK'
    BY <1>1, <1>2, NextArgument, ConvertTyped
  <1>4. ParseTypes'
    BY <1>1, <1>2, <1>3, KeepsTypes DEF ParseTypes, CallOK
  <1>5. OptionsInv'
    BY <1>1, <1>2, KeepsOptions
  <1>6. InLimits' /\ shares' = Shares'
    BY <1>1, <1>2, SameLimits, SameShares DEF PositionsInv
  <1>7. converted' \in Nat
    BY <1>1, <1>2 DEF PositionsInv
  <1>8. PositionsInv'
    BY <1>1, <1>6, <1>7 DEF PositionsInv
  <1>. QED
    BY <1>4, <1>5, <1>8 DEF ParseInv

LEMMA ParseEndKeeps == ASSUME ParseInv, ParseEnd PROVE ParseInv'
  <1>1. /\ phase = "convert" /\ phase' = "done" /\ rc' = "0"
        /\ UNCHANGED <<call, optind, nextchar, given, seen, afters, ran, paramv, shares, converted, num, str>>
    BY DEF ParseEnd, Return
  <1>2. ParseTypes /\ OptionsInv /\ PositionsInv /\ CallOK /\ ValuesOK
    BY <1>1 DEF ParseInv, ParseTypes
  <1>3. ValuesOK'
    BY <1>1, <1>2 DEF ValuesOK, InDomains, Codes
  <1>4. ParseTypes'
    BY <1>1, <1>2, <1>3, KeepsTypes DEF ParseTypes, CallOK
  <1>5. OptionsInv'
    BY <1>1, <1>2, KeepsOptions
  <1>6. InLimits' /\ shares' = Shares'
    BY <1>1, <1>2, SameLimits, SameShares DEF PositionsInv
  <1>7. PositionsInv'
    BY <1>1, <1>2, <1>6 DEF PositionsInv
  <1>. QED
    BY <1>4, <1>5, <1>7 DEF ParseInv

LEMMA NothingParsed == ASSUME ParseInv, UNCHANGED parseVars PROVE ParseInv'
  <1>1. UNCHANGED <<call, phase, optind, nextchar, given, seen, afters, ran, paramv, shares, converted, num, str, rc>>
    BY DEF parseVars
  <1>2. ParseTypes'
    BY <1>1 DEF ParseInv, ParseTypes, CallOK, ValuesOK, InDomains, argc
  <1>3. OptionsInv'
    <2>1. CASE phase = "idle"
      BY <1>1, <2>1 DEF OptionsInv
    <2>2. CASE phase # "idle"
      BY <1>1, <2>2, KeepsOptions DEF ParseInv
    <2>. QED
      BY <2>1, <2>2
  <1>4. (InLimits' <=> InLimits) /\ Shares' = Shares
    BY <1>1, SameLimits, SameShares
  <1>5. PositionsInv'
    BY <1>1, <1>4 DEF ParseInv, PositionsInv
  <1>. QED
    BY <1>2, <1>3, <1>5 DEF ParseInv

(* One more option: the lists and the counts.                              *)
LEMMA AppendedMembers ==
  ASSUME NEW C, NEW s \in Seq(C), NEW c \in C
  PROVE  /\ Append(s, c) \in Seq(C) /\ Len(Append(s, c)) = Len(s) + 1 /\ Len(s) \in Nat
         /\ \A i \in 1 .. Len(s) : Append(s, c)[i] = s[i]
         /\ Append(s, c)[Len(s) + 1] = c
         /\ DOMAIN s = 1 .. Len(s) /\ DOMAIN Append(s, c) = 1 .. Len(s) + 1
         /\ Members(Append(s, c)) = Members(s) \cup {c}
  <1>1. /\ Append(s, c) \in Seq(C) /\ Len(Append(s, c)) = Len(s) + 1 /\ Len(s) \in Nat
        /\ \A i \in 1 .. Len(s) : Append(s, c)[i] = s[i]
        /\ Append(s, c)[Len(s) + 1] = c
        /\ DOMAIN s = 1 .. Len(s) /\ DOMAIN Append(s, c) = 1 .. Len(s) + 1
    OBVIOUS
  <1>2. \A i \in 1 .. Len(s) + 1 : i \in 1 .. Len(s) \/ i = Len(s) + 1
    BY <1>1
  <1>3. 1 .. Len(s) \subseteq 1 .. Len(s) + 1 /\ Len(s) + 1 \in 1 .. Len(s) + 1
    BY <1>1
  <1>4. Members(Append(s, c)) = Members(s) \cup {c}
    BY <1>1, <1>2, <1>3, Zenon DEF Members
  <1>. QED
    BY <1>1, <1>4

(* The parameters in force after one more option.                          *)
LEMMA OwnAppend ==
  ASSUME NEW C, NEW s \in Seq(C), NEW c \in C
  PROVE  /\ Find(c).paramv # NoParamv =>
              Own(Append(s, c)) # {} /\ Append(s, c)[LastOwn(Append(s, c))] = c
         /\ ~(Find(c).paramv # NoParamv) =>
              /\ Own(Append(s, c)) = Own(s)
              /\ Own(s) # {} => Append(s, c)[LastOwn(Append(s, c))] = s[LastOwn(s)]
  <1> DEFINE t == Append(s, c)
             n == Len(s)
  <1>1. /\ n \in Nat /\ t[n + 1] = c /\ \A i \in 1 .. n : t[i] = s[i]
        /\ DOMAIN s = 1 .. n /\ DOMAIN t = 1 .. n + 1
    BY AppendedMembers
  <1>. HIDE DEF t, n
  <1>2. CASE Find(c).paramv # NoParamv
    <2>1. n + 1 \in Own(t)
      BY <1>1, <1>2 DEF Own
    <2>2. \A i \in Own(t) : i <= n + 1
      BY <1>1 DEF Own
    <2>3. \A i \in Own(t) : (\A j \in Own(t) : j <= i) => i = n + 1
      BY <1>1, <2>1, <2>2 DEF Own
    <2>4. LastOwn(t) = n + 1
      BY <2>1, <2>2, <2>3 DEF LastOwn
    <2>. QED
      BY <1>1, <1>2, <2>1, <2>4 DEF t, n
  <1>3. CASE ~(Find(c).paramv # NoParamv)
    <2>1. Own(t) = Own(s)
      <3>1. \A i : i \in 1 .. n + 1 <=> i \in 1 .. n \/ i = n + 1
        BY <1>1
      <3>2. \A i \in 1 .. n : i # n + 1
        BY <1>1
      <3>. QED
        BY <1>1, <1>3, <3>1, <3>2 DEF Own
    <2>2. LastOwn(t) = LastOwn(s)
      BY <2>1 DEF LastOwn
    <2>3. CASE Own(s) = {}
      BY <1>3, <2>1, <2>3 DEF t
    <2>4. CASE Own(s) # {}
      <3>1. LastOwn(s) \in Own(s)
        <4>1. Own(s) \subseteq 1 .. n
          BY <1>1 DEF Own
        <4>2. \E i \in Own(s) : \A j \in Own(s) : j <= i
          BY <1>1, <2>4, <4>1, LargestExists
        <4>. QED
          BY <4>2 DEF LastOwn
      <3>2. LastOwn(s) \in 1 .. n
        BY <1>1, <3>1 DEF Own
      <3>3. t[LastOwn(s)] = s[LastOwn(s)]
        BY <1>1, <3>2
      <3>. QED
        BY <1>3, <2>1, <2>2, <2>4, <3>3 DEF t
    <2>. QED
      BY <2>3, <2>4
  <1>. QED
    BY <1>2, <1>3

(* An option that is let through excludes none before it and is excluded   *)
(* by none.                                                                *)
LEMMA NotExcluded ==
  ASSUME CallOK, GivenSeen, NEW c \in KnownLetters(call.options), ~Excluded(Find(c)),
         NEW d \in Members(seen), d # c
  PROVE  c \notin Find(d).excludes /\ d \notin Find(c).excludes
  <1>1. d \in KnownLetters(call.options) /\ call.options \in DOMAIN Optionv
    BY DEF CallOK, Members
  <1>2. /\ Find(c).optopt = c /\ Find(d).optopt = d
        /\ Find(d) \in Members(Optionv[call.options])
    BY <1>1, FindFinds
  <1>3. given[Find(d).optopt] >= 1
    BY <1>1, <1>2 DEF GivenSeen
  <1>4. ~Excludes2(Find(c), Find(d))
    BY <1>2, <1>3 DEF Excluded
  <1>. QED
    BY <1>2, <1>4 DEF Excludes2

LEMMA GivenOptionKeeps == ASSUME ParseInv, GivenOption PROVE ParseInv'
  <1>1. ParseTypes /\ OptionsInv /\ PositionsInv /\ phase = "options" /\ phase # "idle" /\ CallOK /\ ValuesOK
    BY DEF ParseInv, GivenOption, ParseTypes
  <1>2. PICK g : g = Got
    OBVIOUS
  <1>3. PICK C : C = KnownLetters(call.options)
    OBVIOUS
  <1>4. g.c \in C /\ g.arg \in Seq(Char) /\ g.ind \in 1 .. argc + 1 /\ g.next \in Nat
    BY <1>1, <1>2, <1>3, GotTyped DEF GivenOption, ParseTypes, CallOK
  <1>5. PICK c \in C : c = g.c
    BY <1>4
  <1>6. PICK o : o = Find(c)
    OBVIOUS
  <1>7. /\ ~Excluded(o)
        /\ given' = [given EXCEPT ![c] = @ + 1]
        /\ seen' = Append(seen, c)
        /\ afters' = IF o.after /\ given[c] = 0 THEN Append(afters, c) ELSE afters
        /\ paramv' = IF o.paramv # NoParamv THEN o.paramv ELSE paramv
        /\ optind' = g.ind /\ nextchar' = g.next
        /\ Convert(o, g.arg)
        /\ phase' \in {"options", "done"}
        /\ UNCHANGED <<call, ran, shares, converted>>
    BY <1>2, <1>5, <1>6 DEF GivenOption
  <1>8. o \in AllOptions /\ o.optopt = c /\ o.paramv \in DOMAIN Paramv \cup {NoParamv}
    <2>1. o \in AllOptions /\ o.optopt = c
      BY <1>1, <1>3, <1>6, FindFinds DEF CallOK
    <2>. QED
      BY <2>1, OptionsAssumption
  <1>9. ValuesOK'
    BY <1>1, <1>4, <1>7, <1>8, ConvertTyped
  <1>10. /\ seen \in Seq(C) /\ afters \in Seq(C) /\ ran \in Seq(C) /\ given \in [C -> Nat]
         /\ call'.options = call.options
    BY <1>1, <1>3, <1>7 DEF CallOK
  <1>11. /\ seen' \in Seq(C) /\ Len(seen') = Len(seen) + 1 /\ Len(seen) \in Nat
         /\ \A i \in 1 .. Len(seen) : seen'[i] = seen[i]
         /\ seen'[Len(seen) + 1] = c
         /\ DOMAIN seen = 1 .. Len(seen) /\ DOMAIN seen' = 1 .. Len(seen) + 1
         /\ Members(seen') = Members(seen) \cup {c}
    BY <1>7, <1>10, AppendedMembers
  <1>12. ParseTypes'
    <2>1. given' \in [C -> Nat]
      BY <1>7, <1>10
    <2>2. afters' \in Seq(C)
      BY <1>7, <1>10
    <2>3. paramv' \in DOMAIN Paramv
      BY <1>1, <1>7, <1>8 DEF CallOK
    <2>4. CallOK'
      BY <1>1, <1>3, <1>7, <1>10, <1>11, <2>1, <2>2, <2>3 DEF CallOK
    <2>. QED
      BY <1>1, <1>4, <1>7, <1>9, <2>4 DEF ParseTypes, argc
  <1>13. GivenSeen /\ Compatible /\ InForce /\ ran \o afters = FirstGiven(seen)[Len(seen)]
    BY <1>1 DEF OptionsInv
  <1>14. GivenSeen'
    <2>1. \A d \in C : given'[d] >= 1 <=> given[d] >= 1 \/ d = c
      BY <1>7, <1>10
    <2>2. \A d \in C : given[d] >= 1 <=> d \in Members(seen)
      BY <1>3, <1>13 DEF GivenSeen
    <2>3. \A d \in C : given'[d] >= 1 <=> d \in Members(seen')
      BY <1>11, <2>1, <2>2
    <2>4. Members(seen') = Members(seen)'
      BY DEF Members
    <2>5. KnownLetters(call.options)' = C
      BY <1>3, <1>7 DEF KnownLetters, Members
    <2>. QED
      BY <2>3, <2>4, <2>5 DEF GivenSeen
  <1>15. Compatible'
    <2>1. SUFFICES ASSUME NEW i \in DOMAIN seen', NEW j \in DOMAIN seen', seen'[i] # seen'[j]
                   PROVE  seen'[i] \notin (Find(seen[j]))'.excludes
      BY DEF Compatible
    <2>2. (Find(seen[j]))' = Find(seen'[j])
      BY <1>7 DEF Find
    <2>3. CASE i \in 1 .. Len(seen) /\ j \in 1 .. Len(seen)
      <3>1. seen'[i] = seen[i] /\ seen'[j] = seen[j]
        BY <1>11, <2>3
      <3>. QED
        BY <1>11, <1>13, <2>1, <2>2, <2>3, <3>1 DEF Compatible
    <2>4. CASE i \in 1 .. Len(seen) /\ j = Len(seen) + 1
      <3>1. seen'[i] \in Members(seen) /\ seen'[j] = c
        BY <1>11, <2>4 DEF Members
      <3>. QED
        BY <1>1, <1>3, <1>6, <1>7, <1>13, <2>1, <2>2, <3>1, NotExcluded
    <2>5. CASE i = Len(seen) + 1 /\ j \in 1 .. Len(seen)
      <3>1. seen'[j] \in Members(seen) /\ seen'[i] = c
        BY <1>11, <2>5 DEF Members
      <3>. QED
        BY <1>1, <1>3, <1>6, <1>7, <1>13, <2>1, <2>2, <3>1, NotExcluded
    <2>6. (i \in 1 .. Len(seen) \/ i = Len(seen) + 1) /\ (j \in 1 .. Len(seen) \/ j = Len(seen) + 1)
      BY <1>11
    <2>. QED
      BY <2>1, <2>3, <2>4, <2>5, <2>6
  <1>16. InForce'
    <2>1. paramv = IF Own(seen) = {} THEN call.params ELSE Find(seen[LastOwn(seen)]).paramv
      BY <1>13 DEF InForce
    <2>2. PICK t \in Seq(C) : t = Append(seen, c) /\ t = seen'
      BY <1>7, <1>11
    <2>3. paramv' = IF Own(t) = {} THEN call.params ELSE Find(t[LastOwn(t)]).paramv
      <3>1. /\ Find(c).paramv # NoParamv => Own(t) # {} /\ t[LastOwn(t)] = c
            /\ ~(Find(c).paramv # NoParamv) =>
                 /\ Own(t) = Own(seen)
                 /\ Own(seen) # {} => t[LastOwn(t)] = seen[LastOwn(seen)]
        <4>1. /\ Find(c).paramv # NoParamv =>
                   Own(Append(seen, c)) # {} /\ Append(seen, c)[LastOwn(Append(seen, c))] = c
              /\ ~(Find(c).paramv # NoParamv) =>
                   /\ Own(Append(seen, c)) = Own(seen)
                   /\ Own(seen) # {} => Append(seen, c)[LastOwn(Append(seen, c))] = seen[LastOwn(seen)]
          BY <1>10, OwnAppend
        <4>. QED
          BY <2>2, <4>1
      <3>2. CASE o.paramv # NoParamv
        BY <1>6, <1>7, <3>1, <3>2
      <3>3. CASE ~(o.paramv # NoParamv)
        BY <1>6, <1>7, <2>1, <3>1, <3>3
      <3>. QED
        BY <3>2, <3>3
    <2>4. (Own(seen))' = Own(t) /\ (LastOwn(seen))' = LastOwn(t)
      BY <1>7, <2>2, SameOwn
    <2>5. (Find(seen[LastOwn(seen)]))' = Find(t[LastOwn(t)])
      BY <1>7, <2>2, <2>4 DEF Find
    <2>. QED
      BY <1>7, <2>3, <2>4, <2>5 DEF InForce
  <1>17. (ran \o afters = FirstGiven(seen)[Len(seen)])'
    <2>1. ran = <<>> /\ ran' = <<>>
      BY <1>1, <1>7 DEF PositionsInv
    <2>2. ran \o afters = afters /\ ran' \o afters' = afters'
      <3>1. afters' \in Seq(C)
        BY <1>7, <1>10
      <3>. QED
        BY <1>10, <2>1, <3>1
    <2>3. FirstGiven(Append(seen, c))[Len(seen) + 1] =
            IF o.after /\ c \notin Members(seen) THEN Append(FirstGiven(seen)[Len(seen)], c)
            ELSE FirstGiven(seen)[Len(seen)]
      BY <1>6, <1>10, FirstsAppend
    <2>4. given[c] = 0 <=> c \notin Members(seen)
      <3>1. given[c] >= 1 <=> c \in Members(seen)
        BY <1>3, <1>13 DEF GivenSeen
      <3>. QED
        BY <1>10, <3>1
    <2>5. FirstGiven(Append(seen, c))[Len(seen) + 1] = afters'
      BY <1>7, <1>13, <2>2, <2>3, <2>4
    <2>6. (FirstGiven(seen))' = FirstGiven(Append(seen, c))
      BY <1>7, SameFirsts
    <2>. QED
      BY <1>11, <2>2, <2>5, <2>6
  <1>18. OptionsInv'
    BY <1>14, <1>15, <1>16, <1>17 DEF OptionsInv
  <1>19. PositionsInv'
    BY <1>1, <1>7 DEF PositionsInv
  <1>. QED
    BY <1>12, <1>18, <1>19 DEF ParseInv

LEMMA ParseStepKeeps == ParseInv /\ ParseStep => ParseInv'
  BY BadOptionKeeps, GivenOptionKeeps, OptionsEndKeeps, RunAfterKeeps, DistributeKeeps,
     ConvertArgumentKeeps, ParseEndKeeps DEF ParseStep

(* What the checks ask of the parser follows.                              *)
LEMMA ParsedAccepted == ParseInv => AcceptedLine
  <1> SUFFICES ASSUME ParseInv, Accepted PROVE AcceptedLine
    BY DEF AcceptedLine
  <1>1. phase # "idle"
    BY DEF Accepted
  <1>2. Compatible /\ InForce /\ ran \o afters = FirstGiven(seen)[Len(seen)]
    BY <1>1 DEF ParseInv, OptionsInv
  <1>3. ran # <<>> => argc - optind \in Needed(paramv) .. Allowed(paramv)
    BY DEF ParseInv, PositionsInv, InLimits
  <1>. QED
    BY <1>2, <1>3 DEF AcceptedLine, Compatible, InForce, Own, LastOwn

LEMMA ParsedHandedOut == ParseInv => ArgumentsHandedOut
  <1> SUFFICES ASSUME ParseInv, shares # <<>> PROVE ArgumentsHandedOut
    BY DEF ArgumentsHandedOut
  <1>1. shares = Shares /\ InLimits /\ phase # "idle"
    BY DEF ParseInv, PositionsInv
  <1>2. paramv \in DOMAIN Paramv /\ optind \in Nat /\ argc \in Nat
    BY <1>1 DEF ParseInv, ParseTypes, CallOK, argc
  <1>. QED
    BY <1>1, <1>2, DistributedWell

-----------------------------------------------------------------------------
(* Startup.                                                                *)

StartInv ==
  /\ pgm \in Pgms
  /\ pgm = "start" => cmdline \in CommandLines
  /\ exit \in Codes \cup {"none", "abort", "EX_NOPERM", "EX_IOERR", "EX_PROTOCOL"}
  /\ lineno \in 0 .. Len(Lines) /\ errbuf \in {"", "not implemented"}

StartupInv == SplitInv /\ WordsOK /\ ParseInv /\ StartInv

LEMMA FirstInFinds ==
  ASSUME NEW line \in Seq(Char), NEW S PROVE FirstIn(line, S) \in 1 .. Len(line) + 1
  <1>1. 1 \in 1 .. Len(line) + 1
    OBVIOUS
  <1>2. PICK e \in 1 .. Len(line) + 1 :
          (\A i \in 1 .. e - 1 : line[i] \in Char \ S) /\ (e <= Len(line) => line[e] \notin Char \ S)
    BY <1>1, FirstExists
  <1>3. \A i \in 1 .. Len(line) : line[i] \in Char
    OBVIOUS
  <1>4. e <= Len(line) => line[e] \in S
    BY <1>2, <1>3
  <1>. QED
    BY <1>2, <1>4 DEF FirstIn

LEMMA SkippedTyped ==
  ASSUME NEW line \in Seq(Char \ {Nul}) PROVE Skipped(line) \in Seq(Char \ {Nul})
  <1>1. line \in Seq(Char)
    OBVIOUS
  <1>2. PICK i \in 1 .. Len(line) + 1 : i = FirstIn(line, Char \ Space)
    BY <1>1, FirstInFinds
  <1>3. SubSeq(line, i, Len(line)) \in Seq(Char \ {Nul})
    OBVIOUS
  <1>. QED
    BY <1>2, <1>3 DEF Skipped

LEMMA TableNames ==
  /\ {"main", "test", "mount", "library"} \subseteq DOMAIN Optionv
  /\ {"none", "main", "path", "read", "mount", "library"} \subseteq DOMAIN Paramv
  BY StartupAssumption DEF NctOptionv, NctParamv

LEMMA LinesTyped ==
  /\ Len(Lines) \in Nat
  /\ \A n \in 1 .. Len(Lines) : \A line \in Lines[n] : line \in Seq(Char \ {Nul})
  <1>1. Lines \in Seq(SUBSET Seq(Char \ {Nul}))
    BY StartupAssumption
  <1>2. PICK Type : Type = Seq(Char \ {Nul})
    OBVIOUS
  <1>3. Len(Lines) \in Nat /\ \A n \in 1 .. Len(Lines) : Lines[n] \in SUBSET Type
    BY <1>1, <1>2
  <1>. QED
    BY <1>2, <1>3

(* The shell reads the next of its lines.                                  *)
LEMMA LineRead ==
  ASSUME StartInv, lineno < Len(Lines), lineno' = lineno + 1
  PROVE  lineno' \in 1 .. Len(Lines) /\ lineno' \in 0 .. Len(Lines)
  <1>1. Len(Lines) \in Nat
    BY LinesTyped
  <1>2. lineno \in 0 .. Len(Lines)
    BY DEF StartInv
  <1>. QED
    BY <1>1, <1>2

(* Each step of the program is a step of the splitter or leaves it alone.  *)
LEMMA SplitMoves == StartInv /\ [Next]_vars => [SplitNext]_splitVars
  <1> SUFFICES ASSUME StartInv, [Next]_vars PROVE [SplitNext]_splitVars
    OBVIOUS
  <1>1. CASE MountLine
    <2>1. PICK line \in Lines[lineno'] : BreakArgs(Skipped(line), NoDelim)
      BY <1>1 DEF MountLine
    <2>2. line \in Seq(Char \ {Nul})
      <3>1. lineno' \in 1 .. Len(Lines)
        BY <1>1, LineRead DEF MountLine
      <3>. QED
        BY <2>1, <3>1, LinesTyped
    <2>. QED
      BY <2>1, <2>2, SkippedTyped DEF SplitNext
  <1>2. CASE ParseLine
    <2>1. PICK l \in LibraryCalls : BreakArgs(l.line, l.delim)
      BY <1>2 DEF ParseLine
    <2>2. l.line \in Seq(Char \ {Nul}) /\ l.delim \in {NoDelim} \cup SUBSET Char
      BY StartupAssumption
    <2>. QED
      BY <2>1, <2>2 DEF SplitNext
  <1>3. CASE Split
    BY <1>3 DEF Split, SplitNext
  <1>4. CASE MountNotSplit \/ MountLineEnds \/ LineParsed
    BY <1>4 DEF MountNotSplit, MountLineEnds, LineParsed, SplitNext
  <1>5. CASE ~(MountLine \/ ParseLine \/ Split \/ MountNotSplit \/ MountLineEnds \/ LineParsed)
    BY <1>5 DEF Next, vars, Parse, MainParse, MainEnds, MainRuns, MainShell, TestEnds, Mount, MountFails,
       Connected, MountCall, MountReply, GetattrReply, Testing, ShellEnds, OtherLine, MountSplit,
       ParseWords, Exit
  <1>. QED
    BY <1>1, <1>2, <1>3, <1>4, <1>5

(* The parser is left alone, left, called, or makes a step.                *)
Calls ==
  \E options \in DOMAIN Optionv, params \in DOMAIN Paramv, a \in Seq(Seq(Char)) :
    ParseV(options, params, a)

LEMMA RestTyped == ASSUME ParseTypes PROVE Rest \in Seq(Seq(Char))
  <1>1. call.argv \in Seq(Seq(Char)) /\ optind + 1 \in 1 .. Len(call.argv) + 2 /\ argc = Len(call.argv)
    BY DEF ParseTypes, argc
  <1>2. PICK i \in Nat : i = optind + 1 /\ i >= 1
    BY <1>1
  <1>3. SubSeq(call.argv, i, Len(call.argv)) \in Seq(Seq(Char))
    BY <1>1, <1>2
  <1>. QED
    BY <1>1, <1>2, <1>3 DEF Rest

LEMMA ParserMoves ==
  StartupInv /\ [Next]_vars =>
    UNCHANGED parseVars \/ (Quiet /\ UNCHANGED <<num, str>>) \/ Calls \/ ParseStep
  <1> SUFFICES ASSUME StartupInv, [Next]_vars
               PROVE  UNCHANGED parseVars \/ (Quiet /\ UNCHANGED <<num, str>>) \/ Calls \/ ParseStep
    OBVIOUS
  <1>1. CASE MainParse
    <2>1. cmdline \in Seq(Seq(Char))
      BY <1>1, StartupAssumption DEF MainParse, Goes, StartupInv, StartInv
    <2>. QED
      BY <1>1, <2>1, TableNames DEF MainParse, Calls
  <1>2. CASE MainRuns
    <2>1. Rest \in Seq(Seq(Char))
      BY RestTyped DEF StartupInv, ParseInv
    <2>2. ParamsOf(Word(optind)) \in DOMAIN Paramv
      BY TableNames DEF ParamsOf
    <2>. QED
      BY <1>2, <2>1, <2>2, TableNames DEF MainRuns, Calls
  <1>3. CASE MountSplit \/ ParseWords
    <2>1. Words \in Seq(Seq(Char))
      BY WordsTyped DEF StartupInv
    <2>. QED
      BY <1>3, <2>1, TableNames DEF MountSplit, ParseWords, Calls
  <1>4. CASE MainShell
    BY <1>4 DEF MainShell
  <1>5. CASE MountNotSplit \/ MountLineEnds
    BY <1>5 DEF MountNotSplit, MountLineEnds, Prompt
  <1>6. CASE Parse
    BY <1>6 DEF Parse
  <1>7. CASE ~(MainParse \/ MainRuns \/ MountSplit \/ ParseWords \/ MainShell \/ MountNotSplit
               \/ MountLineEnds \/ Parse)
    BY <1>7 DEF Next, vars, Split, MainEnds, TestEnds, Mount, MountFails, Connected, MountCall,
       MountReply, GetattrReply, Testing, ShellEnds, OtherLine, MountLine, ParseLine, LineParsed, Exit
  <1>. QED
    BY <1>1, <1>2, <1>3, <1>4, <1>5, <1>6, <1>7

LEMMA ParseInductive == StartupInv /\ [Next]_vars => ParseInv'
  <1> SUFFICES ASSUME StartupInv, [Next]_vars PROVE ParseInv'
    OBVIOUS
  <1>1. ParseInv /\ ValuesOK
    BY DEF StartupInv, ParseInv, ParseTypes
  <1>2. CASE Calls
    BY <1>1, <1>2, ParseVBegins DEF Calls
  <1>. QED
    BY <1>1, <1>2, ParserMoves, NothingParsed, QuietBegins, ParseStepKeeps

LEMMA StartInductive == StartupInv /\ [Next]_vars => StartInv'
  <1> SUFFICES ASSUME StartupInv, [Next]_vars PROVE StartInv'
    OBVIOUS
  <1>1. StartInv /\ rc \in Codes
    BY DEF StartupInv, ParseInv, ParseTypes, ValuesOK
  <1>3. ASSUME NEW code \in Codes \cup {"abort", "EX_NOPERM", "EX_IOERR", "EX_PROTOCOL"}, Exit(code)
        PROVE  StartInv'
    BY <1>1, <1>3 DEF Exit, StartInv, Pgms
  <1>4. CASE MainEnds \/ TestEnds \/ MountFails \/ ShellEnds
    BY <1>1, <1>3, <1>4 DEF MainEnds, TestEnds, MountFails, ShellEnds, Codes
  <1>5. CASE MountCall
    BY <1>1, <1>3, <1>5 DEF MountCall, Goes, StartInv, Pgms
  <1>6. CASE MountReply \/ GetattrReply
    <2>1. \A status : ExitOf(status) \in {"EX_NOPERM", "EX_IOERR", "EX_DATAERR", "EX_PROTOCOL"}
      BY DEF ExitOf
    <2>. QED
      BY <1>1, <1>3, <1>6, <2>1 DEF MountReply, GetattrReply, StartInv, Pgms, Codes
  <1>7. CASE OtherLine
    <2>1. lineno' \in 0 .. Len(Lines)
      BY <1>1, <1>7, LineRead DEF OtherLine
    <2>2. errbuf' = errbuf \/ errbuf' = "not implemented"
      BY <1>7 DEF OtherLine
    <2>3. UNCHANGED <<pgm, cmdline, exit>>
      BY <1>7 DEF OtherLine
    <2>. QED
      BY <1>1, <2>1, <2>2, <2>3 DEF StartInv
  <1>8. CASE MountLine
    <2>1. lineno' \in 0 .. Len(Lines)
      BY <1>1, <1>8, LineRead DEF MountLine
    <2>2. pgm' = "splitting" /\ UNCHANGED <<cmdline, exit, errbuf>>
      BY <1>8 DEF MountLine, Goes
    <2>. QED
      BY <1>1, <2>1, <2>2 DEF StartInv, Pgms
  <1>9. CASE LineParsed
    BY <1>1, <1>9 DEF LineParsed, Goes, StartInv, Pgms, Codes
  <1>10. CASE MountNotSplit \/ MountLineEnds
    BY <1>1, <1>10 DEF MountNotSplit, MountLineEnds, Prompt, Goes, StartInv, Pgms
  <1>11. CASE MainParse \/ MainRuns \/ MainShell \/ Mount \/ Connected
    BY <1>1, <1>11 DEF MainParse, MainRuns, MainShell, Mount, Connected, Goes, StartInv, Pgms
  <1>12. CASE MountSplit \/ ParseLine \/ ParseWords
    BY <1>1, <1>12 DEF MountSplit, ParseLine, ParseWords, Goes, StartInv, Pgms
  <1>13. CASE Split \/ Parse \/ Testing \/ UNCHANGED vars
    BY <1>1, <1>13 DEF Split, Parse, Testing, vars, startVars, StartInv
  <1>. QED
    BY <1>4, <1>5, <1>6, <1>7, <1>8, <1>9, <1>10, <1>11, <1>12, <1>13 DEF Next

LEMMA StartupInitially == Init => StartupInv
  <1> SUFFICES ASSUME Init PROVE StartupInv
    OBVIOUS
  <1>1. SplitInit /\ ParseInit
    BY DEF Init
  <1>2. SplitInv
    BY <1>1, Initially
  <1>3. WordsOK
    <2>1. argv = <<>> /\ src = <<>> /\ at = 1 /\ split = "idle" /\ buf = <<>> /\ prev = 0
      BY <1>1 DEF SplitInit
    <2>. QED
      BY <2>1 DEF WordsOK
  <1>4. ParseInv
    <2>1. /\ call = NoCall /\ phase = "idle" /\ optind = 1 /\ nextchar = 0
          /\ given = [c \in {} |-> 0] /\ seen = <<>> /\ afters = <<>> /\ ran = <<>>
          /\ paramv = NoParamv /\ shares = <<>> /\ converted = 0
          /\ num = Default /\ str = [x \in Variables |-> <<>>] /\ rc = "0"
      BY <1>1 DEF ParseInit
    <2>2. call.argv = <<>> /\ argc = 0
      BY <2>1 DEF NoCall, argc
    <2>3. ValuesOK
      <3>1. num \in [Variables -> Int]
        BY <2>1, OptionsAssumption
      <3>2. str \in [Variables -> Seq(Char)]
        BY <2>1
      <3>3. InDomains(num)
        BY <2>1, OptionsAssumption DEF InDomains
      <3>. QED
        BY <2>1, <3>1, <3>2, <3>3 DEF ValuesOK, Codes
    <2>4. ParseTypes
      BY <2>1, <2>2, <2>3 DEF ParseTypes
    <2>. QED
      BY <2>1, <2>2, <2>4 DEF ParseInv, OptionsInv, PositionsInv
  <1>5. StartInv
    <2>1. /\ pgm \in {"start", "library"}
          /\ pgm = "start" => cmdline \in CommandLines
          /\ exit = "none" /\ errbuf = "" /\ lineno = 0
      BY DEF Init
    <2>2. lineno \in 0 .. Len(Lines)
      <3>1. Len(Lines) \in Nat
        BY LinesTyped
      <3>2. lineno = 0
        BY <2>1
      <3>. QED
        BY <3>1, <3>2
    <2>. QED
      BY <2>1, <2>2 DEF StartInv, Pgms
  <1>. QED
    BY <1>2, <1>3, <1>4, <1>5 DEF StartupInv

LEMMA StartupAlways == Spec => []StartupInv
  <1>1. StartupInv /\ [Next]_vars => StartupInv'
    <2> SUFFICES ASSUME StartupInv, [Next]_vars PROVE StartupInv'
      OBVIOUS
    <2>1. [SplitNext]_splitVars
      BY SplitMoves DEF StartupInv
    <2>2. SplitInv' /\ WordsOK'
      BY <2>1, Inductive, WordsInductive DEF StartupInv
    <2>. QED
      BY <2>2, ParseInductive, StartInductive DEF StartupInv
  <1>. QED
    BY <1>1, StartupInitially, PTL DEF Spec

(* Every variable of the program has its type, from whatever command line  *)
(* or line it is set: clp_cvt keeps a number inside the domain of its type *)
(* also when it refuses it, clp_getopt does not read behind argv.          *)
THEOREM StartupTypesHold == Spec => []StartupTypeOK
  <1>1. StartupInv => StartupTypeOK
    <2> SUFFICES ASSUME StartupInv PROVE StartupTypeOK
      OBVIOUS
    <2>1. /\ src \in Seq(Char \ {Nul}) /\ buf \in Seq(Char) /\ argv \in Seq(Nat) /\ prev \in 0 .. Len(buf)
          /\ at \in 1 .. Len(src) + 2
          /\ split \in {"idle", "scan", "close", "done", "error", "nomem"}
      BY DEF StartupInv, SplitInv, Types, WordsEnd, WordsOK
    <2>2. \A i \in DOMAIN argv : argv[i] \in 0 .. Len(buf)
      <3>1. SUFFICES ASSUME NEW i \in DOMAIN argv PROVE argv[i] \in 0 .. Len(buf)
        OBVIOUS
      <3>2. argv[i] \in Nat /\ \E e \in argv[i] + 1 .. Len(buf) : TRUE
        BY DEF StartupInv, WordsOK
      <3>. QED
        BY <2>1, <3>2
    <2>3. ParseTypes /\ ValuesOK
      BY DEF StartupInv, ParseInv, ParseTypes
    <2>4. \A c \in DOMAIN given : given[c] \in Nat
      BY <2>3 DEF ParseTypes, CallOK
    <2>5. \A x \in Variables : num[x] \in Int /\ \A i \in DOMAIN str[x] : str[x][i] \in Char
      BY <2>3 DEF ValuesOK
    <2>6. \A v \in DOMAIN Optionv : \A o \in Members(Optionv[v]) :
            o.cvt \in DOMAIN Domain => num[o.dst] \in Domain[o.cvt].min .. Domain[o.cvt].max
      BY <2>3, OptionsTyped DEF ValuesOK, InDomains
    <2>7. /\ phase \in {"idle", "options", "after", "convert", "done"}
          /\ optind \in 1 .. argc + 1 /\ nextchar \in Nat /\ rc \in Codes
      BY <2>3 DEF ParseTypes, ValuesOK
    <2>8. /\ pgm \in Pgms /\ exit \in Codes \cup {"none", "abort", "EX_NOPERM", "EX_IOERR", "EX_PROTOCOL"}
          /\ lineno \in 0 .. Len(Lines) /\ errbuf \in {"", "not implemented"}
      BY DEF StartupInv, StartInv
    <2>9. /\ \A i \in DOMAIN src : src[i] \in Char
          /\ \A i \in DOMAIN buf : buf[i] \in Char
      BY <2>1
    <2>. QED
      BY <2>1, <2>2, <2>4, <2>5, <2>6, <2>7, <2>8, <2>9 DEF StartupTypeOK
  <1>. QED
    BY <1>1, StartupAlways, PTL

(* Neither a line of the shell nor one given to clp_parsel makes           *)
(* clp_breakargs write behind what it allocated.                           *)
THEOREM StartupStaysInBuffer == Spec => []BufferBound
  <1>1. StartupInv => BufferBound
    BY DEF StartupInv, SplitInv, Types, WordsEnd, BufferBound
  <1>. QED
    BY <1>1, StartupAlways, PTL

(* Of the options of an accepted line none excludes another (clp_excludes  *)
(* in clp_getopt), an after() runs once for each option that has one, in   *)
(* the order they were first given and only on a line whose arguments have *)
(* been counted, and the parameters are those of the last option that has  *)
(* some: for the program's own tables, which StartupAssumption names, and  *)
(* every line.  (The lemmas about the parser need OptionsAssumption only.) *)
THEOREM AcceptedLinesAreSound == Spec => []AcceptedLine
  <1>1. StartupInv => AcceptedLine
    BY ParsedAccepted DEF StartupInv
  <1>. QED
    BY <1>1, StartupAlways, PTL

(* The greedy distribution of clp_parsev hands out every argument, in      *)
(* order, and gives each required parameter one, for each of the program's *)
(* own vectors of parameters, which StartupAssumption names, and every     *)
(* number of arguments clp_posparam_minmax lets through.                   *)
THEOREM EveryArgumentIsHandedOut == Spec => []ArgumentsHandedOut
  <1>1. StartupInv => ArgumentsHandedOut
    BY ParsedHandedOut DEF StartupInv
  <1>. QED
    BY <1>1, StartupAlways, PTL

-----------------------------------------------------------------------------
(* nct_mount: the remote path taken apart.                                 *)

LEMMA ShortSeqs ==
  ASSUME NEW C
  PROVE  (\E e \in Seq(C) : e = <<>>) /\ (\A c \in C : \E e \in Seq(C) : e = <<c>>)
  <1>1. <<>> \in Seq(C)
    OBVIOUS
  <1>2. ASSUME NEW c \in C PROVE <<c>> \in Seq(C)
    OBVIOUS
  <1>. QED
    BY <1>1, <1>2, Zenon

LEMMA InTwo ==
  ASSUME NEW C, NEW s \in Seq(C), NEW t \in Seq(C)
  PROVE  \E v \in Seq(C) : v = s \o t
  <1>1. s \o t \in Seq(C)
    BY ConcatProperties
  <1>. QED
    BY <1>1, Zenon

LEMMA StrchrFinds ==
  ASSUME NEW w \in Seq(Char), NEW c
  PROVE  /\ Strchr(w, c) \in 1 .. Len(w) + 1
         /\ \A k \in 1 .. Strchr(w, c) - 1 : w[k] # c
         /\ Strchr(w, c) <= Len(w) => w[Strchr(w, c)] = c
  <1>1. 1 \in 1 .. Len(w) + 1
    OBVIOUS
  <1>2. PICK Others : Others = Char \ {c}
    OBVIOUS
  <1>3. PICK e \in 1 .. Len(w) + 1 :
          (\A i \in 1 .. e - 1 : w[i] \in Others) /\ (e <= Len(w) => w[e] \notin Others)
    BY <1>1, FirstExists
  <1>4. \A i \in 1 .. Len(w) : w[i] \in Char
    OBVIOUS
  <1>5. (\A k \in 1 .. e - 1 : w[k] # c) /\ (e <= Len(w) => w[e] = c)
    BY <1>2, <1>3, <1>4
  <1>. QED
    BY <1>3, <1>5 DEF Strchr

(* A word is what is before the first such character, that character and   *)
(* what is behind it.                                                      *)
LEMMA CutInTwo ==
  ASSUME NEW w \in Seq(Char), NEW c, Strchr(w, c) <= Len(w)
  PROVE  /\ Before(w, c) \in Seq(Char) /\ Behind(w, c) \in Seq(Char) /\ c \in Char
         /\ Len(Before(w, c)) = Strchr(w, c) - 1 /\ Len(Behind(w, c)) = Len(w) - Strchr(w, c)
         /\ \A k \in 1 .. Len(Before(w, c)) : Before(w, c)[k] = w[k]
         /\ \A k \in 1 .. Len(Behind(w, c)) : Behind(w, c)[k] = w[Strchr(w, c) + k]
         /\ w = (Before(w, c) \o <<c>>) \o Behind(w, c)
  <1>1. PICK i \in 1 .. Len(w) : i = Strchr(w, c) /\ w[i] = c
    BY StrchrFinds
  <1>2. PICK b \in Seq(Char) : b = Before(w, c) /\ Len(b) = i - 1 /\ \A k \in 1 .. Len(b) : b[k] = w[k]
    <2>1. SubSeq(w, 1, i - 1) \in Seq(Char) /\ Len(SubSeq(w, 1, i - 1)) = i - 1
      OBVIOUS
    <2>2. \A k \in 1 .. i - 1 : SubSeq(w, 1, i - 1)[k] = w[k]
      OBVIOUS
    <2>. QED
      BY <1>1, <2>1, <2>2 DEF Before
  <1>3. PICK e \in Seq(Char) : e = Behind(w, c) /\ Len(e) = Len(w) - i /\ \A k \in 1 .. Len(e) : e[k] = w[i + k]
    <2>1. SubSeq(w, i + 1, Len(w)) \in Seq(Char) /\ Len(SubSeq(w, i + 1, Len(w))) = Len(w) - i
      OBVIOUS
    <2>2. \A k \in 1 .. Len(w) - i : SubSeq(w, i + 1, Len(w))[k] = w[i + k]
      OBVIOUS
    <2>. QED
      BY <1>1, <2>1, <2>2 DEF Behind
  <1>4. c \in Char
    BY <1>1
  <1>5. w = (b \o <<c>>) \o e
    <2>1. PICK h \in Seq(Char) : h = b \o <<c>> /\ Len(h) = i /\ \A k \in 1 .. i : h[k] = w[k]
      <3>1. b \o <<c>> \in Seq(Char) /\ Len(b \o <<c>>) = i
        BY <1>2, <1>4
      <3>2. \A k \in 1 .. i : (b \o <<c>>)[k] = w[k]
        BY <1>1, <1>2
      <3>. QED
        BY <3>1, <3>2
    <2>2. PICK v \in Seq(Char) : v = h \o e
      BY InTwo
    <2>3. Len(v) = Len(w)
      BY <1>3, <2>1, <2>2
    <2>4. ASSUME NEW k \in 1 .. Len(w) PROVE v[k] = w[k]
      <3>1. CASE k <= i
        BY <1>3, <2>1, <2>2, <3>1
      <3>2. CASE k > i
        <4>1. k - i \in 1 .. Len(e) /\ i + (k - i) = k
          BY <1>3, <3>2
        <4>2. v[k] = e[k - i]
          BY <1>3, <2>1, <2>2, <3>2
        <4>3. e[k - i] = w[i + (k - i)]
          BY <1>3, <4>1
        <4>. QED
          BY <4>1, <4>2, <4>3
      <3>. QED
        BY <3>1, <3>2
    <2>5. v = w
      BY <2>2, <2>3, <2>4, SeqEqual
    <2>. QED
      BY <2>1, <2>2, <2>5
  <1>. QED
    BY <1>1, <1>2, <1>3, <1>4, <1>5

(* The server and the directory: the part behind the user.                 *)
Divides(s, server, path) ==
  /\ server = IF Strchr(s, ":") <= Len(s) THEN Before(s, ":") ELSE s
  /\ path = IF Strchr(s, ":") <= Len(s) THEN Behind(s, ":") ELSE <<"/">>

Names(s, server, path) ==
  /\ server \in Seq(Char)
  /\ \E p \in Seq(Char) :
       s = server \o p /\ (p = <<":">> \o path \/ (path = <<"/">> /\ p = <<>>))
  /\ Len(server) <= Len(s)
  /\ \A k \in 1 .. Len(server) : server[k] = s[k] /\ server[k] # ":"

LEMMA ServerSpelled ==
  ASSUME NEW s \in Seq(Char), NEW server, NEW path, Divides(s, server, path)
  PROVE  Names(s, server, path)
  <1>1. CASE Strchr(s, ":") <= Len(s)
    <2>1. /\ server \in Seq(Char) /\ path \in Seq(Char) /\ ":" \in Char
          /\ Len(server) = Strchr(s, ":") - 1
          /\ \A k \in 1 .. Len(server) : server[k] = s[k]
          /\ s = (server \o <<":">>) \o path
      BY <1>1, CutInTwo DEF Divides
    <2>2. PICK colon \in Seq(Char) : colon = <<":">>
      BY <2>1, ShortSeqs
    <2>6. PICK b \in Seq(Char), e \in Seq(Char) : b = server /\ e = path
      BY <2>1
    <2>7. (b \o colon) \o e = b \o (colon \o e)
      BY ConcatAssociative
    <2>8. PICK p \in Seq(Char) : p = colon \o e
      BY InTwo
    <2>3. s = server \o p /\ p = <<":">> \o path
      BY <2>1, <2>2, <2>6, <2>7, <2>8
    <2>4. /\ Strchr(s, ":") \in 1 .. Len(s) + 1
          /\ \A k \in 1 .. Strchr(s, ":") - 1 : s[k] # ":"
      BY StrchrFinds
    <2>5. Len(server) <= Len(s)
      BY <2>1, <2>4
    <2>. QED
      BY <2>1, <2>3, <2>4, <2>5 DEF Names
  <1>2. CASE ~(Strchr(s, ":") <= Len(s))
    <2>1. server = s /\ path = <<"/">>
      BY <1>2 DEF Divides
    <2>2. PICK none \in Seq(Char) : none = <<>>
      BY ShortSeqs
    <2>3. s = s \o none
      BY <2>2, ConcatEmptySeq
    <2>4. /\ Strchr(s, ":") \in 1 .. Len(s) + 1
          /\ \A k \in 1 .. Strchr(s, ":") - 1 : s[k] # ":"
      BY StrchrFinds
    <2>5. \A k \in 1 .. Len(s) : s[k] # ":"
      BY <1>2, <2>4
    <2>6. s = server \o none /\ path = <<"/">> /\ none = <<>>
      BY <2>1, <2>2, <2>3
    <2>7. server \in Seq(Char) /\ Len(server) <= Len(s)
      BY <2>1
    <2>8. \A k \in 1 .. Len(server) : server[k] = s[k] /\ server[k] # ":"
      BY <2>1, <2>5
    <2>. QED
      BY <2>6, <2>7, <2>8 DEF Names
  <1>. QED
    BY <1>1, <1>2

Users(m) == {m.user \o <<"@">>} \cup (IF m.user = <<"root">> THEN {<<>>} ELSE {})
Paths(m) == {<<":">> \o m.path} \cup (IF m.path = <<"/">> THEN {<<>>} ELSE {})

LEMMA Composed ==
  ASSUME NEW U, NEW P, NEW v, NEW a \in U, NEW b \in P
  PROVE  a \o v \o b \in {x \o v \o y : x \in U, y \in P}
  OBVIOUS

LEMMA SpelledBy ==
  ASSUME NEW m, NEW a \in Users(m), NEW b \in Paths(m)
  PROVE  a \o m.server \o b \in Spelled(m)
  <1>1. PICK v, U, P, T : v = m.server /\ U = Users(m) /\ P = Paths(m) /\ T = Spelled(m)
    OBVIOUS
  <1>2. T = {x \o v \o y : x \in U, y \in P}
    BY <1>1 DEF Spelled, Users, Paths
  <1>3. a \in U /\ b \in P
    BY <1>1
  <1>4. a \o v \o b \in T
    BY <1>2, <1>3, Composed
  <1>. QED
    BY <1>1, <1>4

(* A path is spelled by its parts, and of the characters that separate     *)
(* them the user and the server have none, but for the server an '@' if    *)
(* there is another one in front of it.                                    *)
LEMMA PathSpelled ==
  ASSUME NEW w \in Seq(Char)
  PROVE  /\ w \in Spelled(ParsePath(w))
         /\ Places(ParsePath(w).user, "@") = {} /\ Places(ParsePath(w).server, ":") = {}
         /\ Places(ParsePath(w).server, "@") # {} => \E i, j \in Places(w, "@") : i # j
  <1> DEFINE m == ParsePath(w)
             hasUser == Strchr(w, "@") <= Len(w)
             s == IF hasUser THEN Behind(w, "@") ELSE w
  <1>1. /\ m.user = (IF hasUser THEN Before(w, "@") ELSE <<"root">>)
        /\ m.server = (IF Strchr(s, ":") <= Len(s) THEN Before(s, ":") ELSE s)
        /\ m.path = (IF Strchr(s, ":") <= Len(s) THEN Behind(s, ":") ELSE <<"/">>)
    BY DEF ParsePath
  <1>2. s \in Seq(Char)
    BY CutInTwo
  <1>. HIDE DEF m, s
  <1>3. PICK server, path : server = m.server /\ path = m.path
    OBVIOUS
  <1>4. Divides(s, server, path)
    BY <1>1, <1>3 DEF Divides
  <1>5. Names(s, server, path)
    BY <1>2, <1>4, ServerSpelled
  <1>6. /\ m.server \in Seq(Char)
        /\ \E p \in Paths(m) : p \in Seq(Char) /\ s = m.server \o p
        /\ Len(m.server) <= Len(s)
        /\ \A k \in 1 .. Len(m.server) : m.server[k] = s[k] /\ m.server[k] # ":"
    BY <1>3, <1>5 DEF Names, Paths
  <1>7. PICK p \in Paths(m) : p \in Seq(Char) /\ s = m.server \o p
    BY <1>6
  <1>8. PICK u \in Users(m) : u \in Seq(Char) /\ w = u \o s
    <2>1. CASE hasUser
      <3>1. /\ m.user \in Seq(Char) /\ "@" \in Char /\ w = (m.user \o <<"@">>) \o s
        BY <1>1, <2>1, CutInTwo DEF s
      <3>2. m.user \o <<"@">> \in Seq(Char)
        BY <3>1
      <3>. QED
        BY <3>1, <3>2 DEF Users
    <2>2. CASE ~hasUser
      <3>1. m.user = <<"root">> /\ s = w
        BY <1>1, <2>2 DEF s
      <3>2. PICK none \in Seq(Char) : none = <<>>
        BY ShortSeqs
      <3>3. w = none \o w
        BY <3>2, ConcatEmptySeq
      <3>. QED
        BY <3>1, <3>2, <3>3 DEF Users
    <2>. QED
      BY <2>1, <2>2
  <1>9. w \in Spelled(m)
    <2>1. PICK b \in Seq(Char), h \in Seq(Char), e \in Seq(Char) : b = u /\ h = m.server /\ e = p
      BY <1>6, <1>7, <1>8
    <2>3. (b \o h) \o e = b \o (h \o e)
      BY ConcatAssociative
    <2>4. w = (u \o m.server) \o p
      BY <1>7, <1>8, <2>1, <2>3
    <2>5. (u \o m.server) \o p \in Spelled(m)
      BY SpelledBy
    <2>. QED
      BY <2>4, <2>5
  <1>10. Places(m.user, "@") = {}
    <2>1. CASE hasUser
      <3>1. /\ Strchr(w, "@") \in 1 .. Len(w) + 1
            /\ \A k \in 1 .. Strchr(w, "@") - 1 : w[k] # "@"
        BY StrchrFinds
      <3>2. /\ Len(Before(w, "@")) = Strchr(w, "@") - 1
            /\ \A k \in 1 .. Len(Before(w, "@")) : Before(w, "@")[k] = w[k]
        BY <2>1, CutInTwo
      <3>3. m.user = Before(w, "@")
        BY <1>1, <2>1
      <3>. QED
        BY <3>1, <3>2, <3>3 DEF Places
    <2>2. CASE ~hasUser
      BY <1>1, <2>2 DEF Places
    <2>. QED
      BY <2>1, <2>2
  <1>11. Places(m.server, ":") = {}
    BY <1>6 DEF Places
  <1>12. ASSUME NEW k \in Places(m.server, "@") PROVE \E i, j \in Places(w, "@") : i # j
    <2>1. k \in 1 .. Len(s) /\ s[k] = "@"
      <3>1. Len(s) \in Nat /\ Len(m.server) \in Nat
        BY <1>2, <1>6
      <3>. QED
        BY <1>6, <1>12, <3>1 DEF Places
    <2>2. hasUser
      <3>1. SUFFICES ASSUME ~hasUser PROVE FALSE
        OBVIOUS
      <3>2. s = w
        BY <3>1 DEF s
      <3>3. /\ Strchr(w, "@") \in 1 .. Len(w) + 1
            /\ \A n \in 1 .. Strchr(w, "@") - 1 : w[n] # "@"
        BY StrchrFinds
      <3>4. Strchr(w, "@") = Len(w) + 1
        BY <3>1, <3>3
      <3>. QED
        BY <2>1, <3>2, <3>3, <3>4
    <2>3. PICK i \in 1 .. Len(w) : i = Strchr(w, "@") /\ w[i] = "@"
      BY <2>2, StrchrFinds
    <2>4. Len(s) = Len(w) - i /\ \A n \in 1 .. Len(s) : s[n] = w[i + n]
      BY <2>2, <2>3, CutInTwo DEF s
    <2>5. i + k \in 1 .. Len(w) /\ i + k # i /\ w[i + k] = "@"
      BY <2>1, <2>3, <2>4
    <2>6. i \in Places(w, "@") /\ i + k \in Places(w, "@")
      BY <2>3, <2>5 DEF Places
    <2>. QED
      BY <2>5, <2>6
  <1>. QED
    BY <1>9, <1>10, <1>11, <1>12 DEF m

-----------------------------------------------------------------------------
(* From the command line to the remote path.                               *)

(* A line that has been parsed to its end.                                 *)
Finished == phase = "done" /\ rc = "0" /\ call.argv # <<>>

Commanded == paramv \in {"path", "read"}

(* A line that ends well has had all its arguments converted; the first of *)
(* those of a command is the remote path, and what is converted after it   *)
(* is stored elsewhere.                                                    *)
EndedInv ==
  /\ phase \in {"options", "after"} => converted = 0
  /\ Finished => shares = Shares /\ InLimits /\ converted = Len(Handed)
  /\ Commanded /\ (phase = "convert" \/ Finished) /\ converted >= 1 => str["rhostpath"] = Word(optind)

Mounting == {"connect", "mountcall", "mountreply", "getattr", "testing"}

RemoteInv ==
  /\ pgm = "main" =>
       phase # "idle" /\ call.options = "main" /\ call.params = "main" /\ call.argv # <<>>
  /\ pgm = "test" =>
       phase # "idle" /\ call.options = "test" /\ call.params \in {"path", "read"} /\ call.argv # <<>>
  /\ pgm \in Mounting => phase = "done" /\ Word(optind) \in Seq(Char) /\ mnt = ParsePath(Word(optind))
  /\ pgm \in {"mountreply", "getattr", "testing"} => sent = mnt.path

(* The parameters of main() and of the commands.                           *)
LEMMA CommandTables ==
  /\ \A v \in {"main", "path", "read"} :
       v \in DOMAIN Paramv /\ Len(Paramv[v]) \in {1, 2} /\ Paramv[v][1].required
  /\ \A v \in {"path", "read"} :
       /\ ~Paramv[v][1].many /\ Paramv[v][1].cvt = "string" /\ Paramv[v][1].dst = "rhostpath"
       /\ Len(Paramv[v]) = 2 => Paramv[v][2].dst # "rhostpath"
  <1>1. Paramv["main"] = MainParamv /\ Paramv["path"] = PathParamv /\ Paramv["read"] = ReadParamv
    BY StartupAssumption DEF NctParamv
  <1>2. Len(MainParamv) = 2 /\ MainParamv[1].required
    BY DEF MainParamv, Param
  <1>3. /\ Len(PathParamv) = 1 /\ PathParamv[1].required
        /\ ~PathParamv[1].many /\ PathParamv[1].cvt = "string" /\ PathParamv[1].dst = "rhostpath"
    BY DEF PathParamv, Param
  <1>4. /\ Len(ReadParamv) = 2 /\ ReadParamv[1].required
        /\ ~ReadParamv[1].many /\ ReadParamv[1].cvt = "string" /\ ReadParamv[1].dst = "rhostpath"
        /\ ReadParamv[2].dst # "rhostpath"
    BY DEF ReadParamv, Param
  <1>. QED
    BY <1>1, <1>2, <1>3, <1>4, TableNames

(* Only help and version bring parameters of their own.                    *)
LEMMA AnswersOnly ==
  ASSUME NEW v \in {"main", "test"}, NEW o \in Members(Optionv[v]), o.paramv # NoParamv
  PROVE  o.optopt \in {"h", "V"}
  <1>1. Optionv["main"] = MainOptionv /\ Optionv["test"] = TestOptionv
    BY StartupAssumption DEF NctOptionv
  <1>2. \A l, t, x, n : Opt(l, t, x, n).paramv = NoParamv
    BY DEF Opt
  <1>3. Verbosity.paramv = NoParamv /\ Help.optopt = "h" /\ Version.optopt = "V"
    BY <1>2 DEF Verbosity, Help, Version, Alone
  <1>4. ASSUME NEW i \in DOMAIN MainOptionv, MainOptionv[i].paramv # NoParamv
        PROVE  MainOptionv[i].optopt \in {"h", "V"}
    <2>1. i \in 1 .. 10
      BY DEF MainOptionv
    <2>2. /\ MainOptionv[8] = Verbosity /\ MainOptionv[9] = Version /\ MainOptionv[10] = Help
          /\ \A k \in 1 .. 7 : MainOptionv[k].paramv = NoParamv
      BY <1>2 DEF MainOptionv
    <2>. QED
      BY <1>3, <1>4, <2>1, <2>2
  <1>5. ASSUME NEW i \in DOMAIN TestOptionv, TestOptionv[i].paramv # NoParamv
        PROVE  TestOptionv[i].optopt \in {"h", "V"}
    <2>1. i \in 1 .. 2 /\ TestOptionv[1] = Verbosity /\ TestOptionv[2] = Help
      BY DEF TestOptionv
    <2>. QED
      BY <1>3, <1>5, <2>1
  <1>. QED
    BY <1>1, <1>4, <1>5 DEF Members

(* Without help and version the parameters are those of the call.          *)
LEMMA NoAnswer ==
  ASSUME ParseInv, phase # "idle", call.options \in {"main", "test"}, ~Answers
  PROVE  paramv = call.params
  <1>1. CallOK /\ GivenSeen /\ InForce
    BY DEF ParseInv, ParseTypes, OptionsInv
  <1>2. ASSUME NEW i \in Own(seen) PROVE FALSE
    <2>1. i \in DOMAIN seen /\ seen[i] \in KnownLetters(call.options) /\ seen[i] \in Members(seen)
      BY <1>1 DEF Own, CallOK, Members
    <2>2. PICK c \in KnownLetters(call.options) : c = seen[i] /\ Find(c).paramv # NoParamv
      BY <2>1 DEF Own
    <2>3. Find(c) \in Members(Optionv[call.options]) /\ Find(c).optopt = c
      BY <1>1, FindFinds DEF CallOK
    <2>4. c \in {"h", "V"}
      BY <2>2, <2>3, AnswersOnly
    <2>5. given[c] >= 1 /\ c \in DOMAIN given /\ given[c] \in Nat
      BY <1>1, <2>1, <2>2 DEF GivenSeen, CallOK
    <2>6. WasGiven(c)
      BY <2>5 DEF WasGiven
    <2>. QED
      BY <2>4, <2>6 DEF Answers
  <1>. QED
    BY <1>1, <1>2 DEF InForce

(* Where the first parameter is required there is an argument.             *)
LEMMA HasArgument ==
  ASSUME ParseInv, phase # "idle", InLimits, paramv \in {"main", "path", "read"}
  PROVE  /\ argc - optind >= 1 /\ optind \in Nat /\ argc \in Nat /\ optind >= 1
         /\ Word(optind) \in Seq(Char)
  <1>1. /\ paramv \in DOMAIN Paramv /\ optind \in 1 .. argc + 1 /\ argc \in Nat
        /\ call.argv \in Seq(Seq(Char))
    BY DEF ParseInv, ParseTypes, CallOK, argc
  <1>2. Len(Paramv[paramv]) \in {1, 2} /\ Paramv[paramv][1].required
    BY CommandTables
  <1>3. Needed(paramv) >= 1 /\ Needed(paramv) \in Nat
    <2>1. /\ \A i \in 0 .. Len(Paramv[paramv]) : NeededBehind(i) \in Nat
          /\ NeededBehind(0) = Needed(paramv)
          /\ \A i \in 1 .. Len(Paramv[paramv]) :
               NeededBehind(i - 1) = NeededBehind(i) + (IF Paramv[paramv][i].required THEN 1 ELSE 0)
      BY <1>1, Behinds
    <2>2. 1 \in 1 .. Len(Paramv[paramv]) /\ 1 \in 0 .. Len(Paramv[paramv]) /\ 0 \in 0 .. Len(Paramv[paramv])
      BY <1>2
    <2>3. NeededBehind(1 - 1) = NeededBehind(1) + 1
      BY <1>2, <2>1, <2>2
    <2>. QED
      BY <2>1, <2>2, <2>3
  <1>4. argc - optind >= 1
    BY <1>1, <1>3 DEF InLimits
  <1>5. Word(optind) \in Seq(Char)
    <2>1. optind + 1 \in 1 .. Len(call.argv)
      BY <1>1, <1>4 DEF argc
    <2>. QED
      BY <1>1, <2>1 DEF Word
  <1>. QED
    BY <1>1, <1>4, <1>5

(* The first argument is handed to the first parameter, the others are     *)
(* not.                                                                    *)
LEMMA FirstIsRemote ==
  ASSUME ParseInv, Commanded, phase = "convert", converted < Len(Handed)
  PROVE  /\ Handed[converted + 1][1] \in 1 .. Len(Paramv[paramv])
         /\ converted = 0 <=> Handed[converted + 1][1] = 1
         /\ Handed[converted + 1][2] = optind + converted
  <1>1. /\ paramv \in DOMAIN Paramv /\ argc \in Nat /\ optind \in Nat
        /\ InLimits /\ shares = Shares /\ converted \in Nat
    BY DEF ParseInv, ParseTypes, CallOK, PositionsInv, argc
  <1>2. /\ Len(shares) = Len(Paramv[paramv])
        /\ Handed \in HandedPairs /\ Len(Handed) = argc - optind /\ InOrder(Handed)
        /\ \A i \in 1 .. Len(shares) :
             Handing(i) /\ shares[i].argc = Sharing[i].argc /\ shares[i].argv = Sharing[i].argv
        /\ Len(shares) >= 1 => shares[1].argv = optind
    BY <1>1, HandedOut
  <1>3. Len(Paramv[paramv]) \in {1, 2} /\ Paramv[paramv][1].required /\ ~Paramv[paramv][1].many
    BY CommandTables DEF Commanded
  <1>4. PICK k \in Nat : k = converted + 1 /\ k \in 1 .. Len(Handed)
    BY <1>1, <1>2
  <1>5. /\ Handed[k][1] \in 1 .. Len(Paramv[paramv]) /\ Handed[k][2] = optind + converted
    BY <1>4, NextArgument
  <1>6. PICK j \in 1 .. Len(Paramv[paramv]) : j = Handed[k][1]
    BY <1>5
  <1>7. shares[j].argv <= optind + converted /\ optind + converted < shares[j].argv + shares[j].argc
    BY <1>2, <1>4, <1>5, <1>6 DEF InOrder
  <1>8. /\ shares[1].argv = optind /\ shares[1].argc = 1
        /\ Sharing[1].argc = 1 /\ Sharing[1].argv = optind
    <2>1. 1 \in 1 .. Len(shares) /\ Len(shares) >= 1
      BY <1>2, <1>3
    <2>2. Handing(1) /\ shares[1].argc = Sharing[1].argc /\ shares[1].argv = Sharing[1].argv
      BY <1>2, <2>1
    <2>3. Sharing[1].argc \in Nat /\ Sharing[1].argc >= 1 /\ Sharing[1].argc <= 1
      BY <1>3, <2>2 DEF Handing
    <2>. QED
      BY <1>2, <2>1, <2>2, <2>3
  <1>9. converted = 0 => j = 1
    <2>7. PICK n \in {1, 2} : n = Len(Paramv[paramv])
      BY <1>3
    <2>8. j \in 1 .. n
      BY <2>7
    <2>9. j = 1 \/ j = 2
      BY <2>8
    <2>1. SUFFICES ASSUME j = 2, converted = 0 PROVE FALSE
      BY <2>9
    <2>2. 2 \in 1 .. Len(shares) /\ 1 \in 1 .. Len(shares)
      BY <1>2, <2>1, <2>7, <2>8
    <2>3. shares[2].argv = Sharing[2].argv /\ Handing(2) /\ Handing(1)
      BY <1>2, <2>2
    <2>4. Sharing[2].argv = Sharing[1].next
      BY <2>3 DEF Handing
    <2>5. Sharing[1].next = Sharing[0].next + Sharing[1].argc /\ Sharing[1].argv = Sharing[0].next
      BY <2>3 DEF Handing
    <2>6. shares[2].argv = optind + 1
      BY <1>8, <2>3, <2>4, <2>5
    <2>. QED
      BY <1>1, <1>7, <2>1, <2>6
  <1>10. converted >= 1 => j # 1
    BY <1>1, <1>7, <1>8
  <1>. QED
    BY <1>1, <1>4, <1>5, <1>6, <1>9, <1>10

LEMMA SameHanded == ASSUME UNCHANGED shares PROVE Handed' = Handed
  BY DEF Handed, HandedTo, ArgumentsOf

LEMMA EndedStays ==
  ASSUME EndedInv, UNCHANGED parseVars PROVE EndedInv'
  <1>1. UNCHANGED <<call, phase, optind, nextchar, given, seen, afters, ran, paramv, shares, converted, num, str, rc>>
    BY DEF parseVars
  <1>2. (InLimits' <=> InLimits) /\ Shares' = Shares /\ Handed' = Handed
    BY <1>1, SameLimits, SameShares, SameHanded
  <1>3. (Finished' <=> Finished) /\ (Commanded' <=> Commanded) /\ Word(optind)' = Word(optind)
    BY <1>1 DEF Finished, Commanded, Word
  <1>. QED
    BY <1>1, <1>2, <1>3 DEF EndedInv

(* A conversion that succeeds stores a string where the parameter says,    *)
(* and nothing elsewhere.                                                  *)
LEMMA ConvertStores ==
  ASSUME ValuesOK, NEW x \in AllOptions \cup AllParams, NEW w, Convert(x, w), NEW y \in Variables
  PROVE  /\ x.dst # y => str'[y] = str[y]
         /\ x.dst = y /\ x.cvt = "string" /\ rc' = "0" => str'[y] = w
  <1>1. x.cvt \notin {"none", "incr", "string"} \cap DOMAIN Domain /\ str \in [Variables -> Seq(Char)]
    BY OptionsAssumption DEF ValuesOK
  <1>2. ASSUME NEW n, NEW v, NEW code, Stored(x.dst, n, v, code)
        PROVE  /\ x.dst # y => str'[y] = str[y]
               /\ x.dst = y => str'[y] = v
               /\ rc' = code
    BY <1>1, <1>2 DEF Stored
  <1>3. x.cvt # "string" => (x.dst # y => str'[y] = str[y])
    BY <1>2 DEF Convert
  <1>4. x.cvt = "string" => Stored(x.dst, 0, w, "0") \/ Stored(x.dst, 0, <<>>, "EX_OSERR")
    BY <1>1 DEF Convert
  <1>. QED
    BY <1>2, <1>3, <1>4

LEMMA EndedStep ==
  ASSUME ParseInv, EndedInv, ParseStep PROVE EndedInv'
  <1>1. ParseInv'
    BY ParseStepKeeps
  <1>2. CASE BadOption
    BY <1>2 DEF BadOption, Return, EndedInv, Finished
  <1>3. CASE GivenOption
    BY <1>3 DEF GivenOption, EndedInv, Finished
  <1>4. CASE OptionsEnd
    BY <1>4 DEF OptionsEnd, Return, EndedInv, Finished
  <1>5. CASE RunAfter
    BY <1>5 DEF RunAfter, EndedInv, Finished
  <1>6. CASE Distribute
    BY <1>6 DEF Distribute, EndedInv, Finished
  <1>7. CASE ParseEnd
    <2>1. /\ phase = "convert" /\ phase' = "done" /\ rc' = "0" /\ converted = Len(Handed)
          /\ UNCHANGED <<call, optind, paramv, shares, converted, str>>
      BY <1>7 DEF ParseEnd, Return
    <2>2. shares = Shares /\ InLimits
      BY <2>1 DEF ParseInv, PositionsInv
    <2>3. shares' = Shares' /\ InLimits' /\ Handed' = Handed
      BY <2>1, <2>2, SameLimits, SameShares, SameHanded
    <2>4. (Commanded' <=> Commanded) /\ Word(optind)' = Word(optind)
      BY <2>1 DEF Commanded, Word
    <2>. QED
      BY <2>1, <2>3, <2>4 DEF EndedInv
  <1>8. CASE ConvertArgument
    <2>1. /\ phase = "convert" /\ converted < Len(Handed) /\ converted' = converted + 1
          /\ phase' = (IF rc' = "0" THEN "convert" ELSE "done")
          /\ Convert(Paramv[paramv][Handed[converted + 1][1]], Word(Handed[converted + 1][2]))
          /\ UNCHANGED <<call, optind, paramv>>
      BY <1>8 DEF ConvertArgument
    <2>2. SUFFICES ASSUME Commanded, rc' = "0" PROVE str'["rhostpath"] = Word(optind)
      <3>1. (Commanded' <=> Commanded) /\ Word(optind)' = Word(optind)
        BY <2>1 DEF Commanded, Word
      <3>2. ~Finished' /\ phase' \notin {"options", "after"}
        BY <2>1 DEF Finished
      <3>3. phase' = "convert" => rc' = "0"
        BY <2>1
      <3>. QED
        BY <3>1, <3>2, <3>3 DEF EndedInv
    <2>3. PICK x, w : /\ x \in AllParams
                     /\ x = Paramv[paramv][Handed[converted + 1][1]]
                     /\ w = Word(Handed[converted + 1][2])
      BY <2>1, NextArgument
    <2>4. ValuesOK /\ converted \in Nat /\ paramv \in DOMAIN Paramv
      BY <2>1 DEF ParseInv, ParseTypes, CallOK, PositionsInv
    <2>5. "rhostpath" \in Variables
      <3>1. Paramv["path"][1] \in AllParams
        BY CommandTables, ParamsTyped
      <3>. QED
        BY <3>1, CommandTables, OptionsAssumption
    <2>6. /\ x.dst # "rhostpath" => str'["rhostpath"] = str["rhostpath"]
          /\ x.dst = "rhostpath" /\ x.cvt = "string" => str'["rhostpath"] = w
      BY <2>1, <2>2, <2>3, <2>4, <2>5, ConvertStores
    <2>7. CASE converted = 0
      <3>1. Handed[converted + 1][1] = 1 /\ Handed[converted + 1][2] = optind
        BY <2>1, <2>2, <2>7, FirstIsRemote DEF ParseInv, ParseTypes
      <3>2. x.dst = "rhostpath" /\ x.cvt = "string" /\ w = Word(optind)
        BY <2>2, <2>3, <3>1, CommandTables DEF Commanded
      <3>. QED
        BY <2>6, <3>2
    <2>8. CASE converted # 0
      <3>1. Handed[converted + 1][1] \in 1 .. Len(Paramv[paramv]) /\ Handed[converted + 1][1] # 1
        BY <2>1, <2>2, <2>8, FirstIsRemote
      <3>2. Len(Paramv[paramv]) = 2 /\ Handed[converted + 1][1] = 2
        <4>1. PICK n \in {1, 2} : n = Len(Paramv[paramv])
          BY <2>2, CommandTables DEF Commanded
        <4>2. PICK h \in 1 .. n : h = Handed[converted + 1][1] /\ h # 1
          BY <3>1, <4>1
        <4>3. n = 2 /\ h = 2
          BY <4>2
        <4>. QED
          BY <4>1, <4>2, <4>3
      <3>3. x.dst # "rhostpath"
        BY <2>2, <2>3, <3>2, CommandTables DEF Commanded
      <3>4. str["rhostpath"] = Word(optind)
        BY <2>1, <2>2, <2>4, <2>8 DEF EndedInv
      <3>. QED
        BY <2>6, <3>3, <3>4
    <2>. QED
      BY <2>7, <2>8
  <1>. QED
    BY <1>2, <1>3, <1>4, <1>5, <1>6, <1>7, <1>8 DEF ParseStep

(* Each step of the program, as the parser sees it: what was finished      *)
(* stays, or another line is begun.                                        *)
LEMMA EndedInductive == StartupInv /\ EndedInv /\ [Next]_vars => EndedInv'
  <1> SUFFICES ASSUME StartupInv, EndedInv, [Next]_vars PROVE EndedInv'
    OBVIOUS
  <1>1. CASE UNCHANGED parseVars
    BY <1>1, EndedStays
  <1>2. CASE Quiet
    BY <1>2 DEF Quiet, EndedInv, Finished
  <1>3. CASE Calls
    BY <1>3 DEF Calls, ParseV, EndedInv, Finished
  <1>4. CASE ParseStep
    BY <1>4, EndedStep DEF StartupInv
  <1>. QED
    BY <1>1, <1>2, <1>3, <1>4, ParserMoves

(* What main() finds once its line has been parsed and is to be run.       *)
LEMMA MainHasCommand ==
  ASSUME ParseInv, EndedInv, RemoteInv, pgm = "main", phase = "done", rc = "0", ~Answers
  PROVE  Rest # <<>> /\ Rest \in Seq(Seq(Char))
  <1>1. phase # "idle" /\ call.options = "main" /\ call.params = "main" /\ Finished
    BY DEF RemoteInv, Finished
  <1>2. paramv = "main" /\ InLimits
    BY <1>1, NoAnswer DEF EndedInv
  <1>3. argc - optind >= 1 /\ optind \in Nat /\ argc \in Nat
    BY <1>1, <1>2, HasArgument
  <1>4. Rest \in Seq(Seq(Char))
    BY RestTyped DEF ParseInv
  <1>5. Len(Rest) = argc - optind
    <2>1. call.argv \in Seq(Seq(Char)) /\ argc = Len(call.argv)
      BY DEF ParseInv, ParseTypes, argc
    <2>2. PICK i \in Nat : i = optind + 1 /\ i >= 1 /\ i <= Len(call.argv)
      BY <1>3, <2>1
    <2>3. Len(SubSeq(call.argv, i, Len(call.argv))) = Len(call.argv) - i + 1
      BY <2>1, <2>2
    <2>. QED
      BY <1>3, <2>1, <2>2, <2>3 DEF Rest
  <1>. QED
    BY <1>3, <1>4, <1>5

(* What the command finds when it is to mount.                             *)
LEMMA TestHasRemote ==
  ASSUME ParseInv, EndedInv, RemoteInv, pgm = "test", phase = "done", rc = "0", ~Answers
  PROVE  str["rhostpath"] = Word(optind) /\ Word(optind) \in Seq(Char)
  <1>1. phase # "idle" /\ call.options = "test" /\ call.params \in {"path", "read"} /\ Finished
    BY DEF RemoteInv, Finished
  <1>2. Commanded /\ shares = Shares /\ InLimits /\ converted = Len(Handed)
    BY <1>1, NoAnswer DEF EndedInv, Commanded
  <1>3. argc - optind >= 1 /\ optind \in Nat /\ argc \in Nat /\ Word(optind) \in Seq(Char)
    BY <1>1, <1>2, HasArgument DEF Commanded
  <1>4. Len(Handed) = argc - optind
    <2>1. paramv \in DOMAIN Paramv
      BY <1>1 DEF ParseInv, ParseTypes, CallOK
    <2>. QED
      BY <1>2, <1>3, <2>1, HandedOut
  <1>5. converted >= 1
    BY <1>2, <1>3, <1>4
  <1>. QED
    BY <1>1, <1>2, <1>3, <1>5 DEF EndedInv

LEMMA RemoteInductive == StartupInv /\ EndedInv /\ RemoteInv /\ [Next]_vars => RemoteInv'
  <1> SUFFICES ASSUME StartupInv, EndedInv, RemoteInv, [Next]_vars PROVE RemoteInv'
    OBVIOUS
  <1>1. ParseInv /\ StartInv
    BY DEF StartupInv
  <1>2. ASSUME NEW code, Exit(code) PROVE RemoteInv'
    BY <1>2 DEF Exit, RemoteInv, Mounting
  <1>3. ASSUME UNCHANGED parseVars PROVE phase' = phase /\ Word(optind)' = Word(optind)
    BY <1>3 DEF parseVars, Word
  <1>4. CASE MainParse
    <2>1. pgm' = "main" /\ ParseV("main", "main", cmdline) /\ pgm = "start"
      BY <1>4 DEF MainParse, Goes
    <2>2. cmdline # <<>>
      BY <1>1, <2>1, StartupAssumption DEF StartInv
    <2>. QED
      BY <2>1, <2>2 DEF ParseV, RemoteInv, Mounting
  <1>5. CASE MainRuns
    <2>1. /\ pgm = "main" /\ pgm' = "test" /\ phase = "done" /\ rc = "0" /\ ~Answers
          /\ ParseV("test", ParamsOf(Word(optind)), Rest)
      BY <1>5 DEF MainRuns, Goes
    <2>2. Rest # <<>>
      BY <1>1, <2>1, MainHasCommand
    <2>3. ParamsOf(Word(optind)) \in {"path", "read"}
      BY DEF ParamsOf
    <2>. QED
      BY <2>1, <2>2, <2>3 DEF ParseV, RemoteInv, Mounting
  <1>6. CASE Parse
    <2>1. ParseStep /\ UNCHANGED startVars
      BY <1>6 DEF Parse
    <2>2. UNCHANGED <<pgm, mnt, sent>>
      BY <2>1 DEF startVars
    <2>3. phase \in {"options", "after", "convert"} /\ phase' # "idle" /\ call' = call
      BY <2>1 DEF ParseStep, BadOption, GivenOption, OptionsEnd, RunAfter, Distribute, ConvertArgument,
         ParseEnd, Return
    <2>. QED
      BY <2>2, <2>3 DEF RemoteInv
  <1>7. CASE Mount
    <2>1. /\ pgm = "test" /\ pgm' = "connect" /\ phase = "done" /\ rc = "0" /\ ~Answers
          /\ mnt' = ParsePath(str["rhostpath"]) /\ UNCHANGED parseVars
      BY <1>7 DEF Mount, Goes
    <2>2. str["rhostpath"] = Word(optind) /\ Word(optind) \in Seq(Char)
      BY <1>1, <2>1, TestHasRemote
    <2>3. phase' = phase /\ Word(optind)' = Word(optind)
      BY <1>3, <2>1
    <2>4. mnt' = ParsePath(Word(optind)) /\ ParsePath(Word(optind))' = ParsePath(Word(optind)')
      BY <2>1, <2>2
    <2>. QED
      BY <2>1, <2>2, <2>3, <2>4 DEF RemoteInv, Mounting
  <1>8. CASE MountCall
    <2>1. ASSUME pgm = "mountcall", pgm' = "mountreply", sent' = mnt.path, mnt' = mnt, UNCHANGED parseVars
          PROVE  RemoteInv'
      BY <1>3, <2>1 DEF RemoteInv, Mounting
    <2>. QED
      BY <1>2, <1>8, <2>1 DEF MountCall, Goes
  <1>9. CASE Connected
    <2>1. pgm = "connect" /\ pgm' = "mountcall" /\ UNCHANGED <<parseVars, mnt, sent>>
      BY <1>9 DEF Connected, Goes
    <2>. QED
      BY <1>3, <2>1 DEF RemoteInv, Mounting
  <1>10. CASE MountReply \/ GetattrReply
    <2>1. ASSUME pgm \in {"mountreply", "getattr"}, pgm' \in {"getattr", "testing"},
                 mnt' = mnt, sent' = sent, UNCHANGED parseVars
          PROVE  RemoteInv'
      BY <1>3, <2>1 DEF RemoteInv, Mounting
    <2>. QED
      BY <1>2, <1>10, <2>1 DEF MountReply, GetattrReply
  <1>11. CASE MainEnds \/ TestEnds \/ MountFails \/ ShellEnds
    BY <1>2, <1>11 DEF MainEnds, TestEnds, MountFails, ShellEnds
  <1>12. CASE Split \/ Testing \/ UNCHANGED vars
    <2>1. UNCHANGED <<pgm, call, phase, optind, mnt, sent>>
      BY <1>12 DEF Split, Testing, vars, startVars, parseVars
    <2>. QED
      BY <2>1 DEF RemoteInv, Word
  <1>13. CASE MainShell \/ OtherLine \/ MountLine \/ MountSplit \/ MountNotSplit \/ MountLineEnds
              \/ ParseLine \/ ParseWords \/ LineParsed
    <2>1. pgm' \notin {"main", "test"} \cup Mounting
      BY <1>13 DEF MainShell, OtherLine, MountLine, MountSplit, MountNotSplit, MountLineEnds,
         ParseLine, ParseWords, LineParsed, Goes, Mounting
    <2>. QED
      BY <2>1 DEF RemoteInv, Mounting
  <1>. QED
    BY <1>4, <1>5, <1>6, <1>7, <1>8, <1>9, <1>10, <1>11, <1>12, <1>13 DEF Next

(* The directory asked for, the server connected to and the user named are *)
(* the parts of the argument given to the command, taken apart at its      *)
(* separators, whichever options stood before it on the two command lines  *)
(* and whatever else was converted.  A directory may have an '@' in it,    *)
(* too: nct_mount takes the first of all for the end of the user.          *)
THEOREM MountsItsArgument == Spec => []MountsWhatWasAsked
  <1>1. Init => EndedInv /\ RemoteInv
    BY DEF Init, ParseInit, NoCall, EndedInv, Finished, Commanded, RemoteInv, Mounting
  <1>2. StartupInv /\ EndedInv /\ RemoteInv => MountsWhatWasAsked
    <2> SUFFICES ASSUME RemoteInv, pgm \in {"mountcall", "mountreply", "getattr", "testing"}
                 PROVE  /\ Word(optind) \in Spelled(mnt)
                        /\ Places(mnt.user, "@") = {} /\ Places(mnt.server, ":") = {}
                        /\ Places(mnt.server, "@") # {} => \E i, j \in Places(Word(optind), "@") : i # j
                        /\ pgm # "mountcall" => sent = mnt.path
      BY DEF MountsWhatWasAsked
    <2>1. PICK w \in Seq(Char) : w = Word(optind) /\ mnt = ParsePath(w)
      BY DEF RemoteInv, Mounting
    <2>2. pgm # "mountcall" => sent = mnt.path
      BY DEF RemoteInv
    <2>3. PICK m : m = mnt /\ m = ParsePath(w)
      BY <2>1
    <2>4. /\ w \in Spelled(ParsePath(w))
          /\ Places(ParsePath(w).user, "@") = {} /\ Places(ParsePath(w).server, ":") = {}
          /\ Places(ParsePath(w).server, "@") # {} => \E i, j \in Places(w, "@") : i # j
      BY PathSpelled
    <2>5. /\ w \in Spelled(m) /\ Places(m.user, "@") = {} /\ Places(m.server, ":") = {}
          /\ Places(m.server, "@") # {} => \E i, j \in Places(w, "@") : i # j
      BY <2>3, <2>4
    <2>. QED
      BY <2>1, <2>2, <2>3, <2>5
  <1>3. StartupInv /\ [Next]_vars /\ EndedInv /\ RemoteInv => EndedInv' /\ RemoteInv'
    BY EndedInductive, RemoteInductive
  <1>. QED
    BY <1>1, <1>2, <1>3, StartupAlways, PTL DEF Spec

-----------------------------------------------------------------------------
(* The words of the comment.                                               *)

(* The n characters before i are backslashes, and no more.                 *)
Run(s, i, n) ==
  /\ n \in 1 .. i - 1
  /\ \A k \in i - n .. i - 1 : s[k] = Backslash
  /\ n < i - 1 => s[i - n - 1] # Backslash

LEMMA RunsAreUnique ==
  ASSUME NEW s, NEW i \in Nat, NEW m, NEW n, Run(s, i, m), Run(s, i, n)
  PROVE  m = n
  <1>1. m \in 1 .. i - 1 /\ n \in 1 .. i - 1 /\ m \in Int /\ n \in Int
    BY DEF Run
  <1>2. ~(m < n)
    <2>1. SUFFICES ASSUME m < n PROVE FALSE
      OBVIOUS
    <2>2. m < i - 1 /\ i - m - 1 \in i - n .. i - 1
      BY <1>1, <2>1
    <2>. QED
      BY <2>2 DEF Run
  <1>3. ~(n < m)
    <2>1. SUFFICES ASSUME n < m PROVE FALSE
      OBVIOUS
    <2>2. n < i - 1 /\ i - n - 1 \in i - m .. i - 1
      BY <1>1, <2>1
    <2>. QED
      BY <2>2 DEF Run
  <1>. QED
    BY <1>1, <1>2, <1>3

(* A run goes on with the next backslash.                                  *)
LEMMA RunsGoOn ==
  ASSUME NEW s, NEW i \in Nat \ {0}, NEW n \in Nat \ {0}, s[i] = Backslash
  PROVE  Run(s, i + 1, n + 1) <=> Run(s, i, n)
  <1>1. /\ n + 1 \in 1 .. (i + 1) - 1 <=> n \in 1 .. i - 1
        /\ (i + 1) - (n + 1) = i - n /\ (i + 1) - 1 = i
        /\ (i + 1) - (n + 1) - 1 = i - n - 1
        /\ n + 1 < (i + 1) - 1 <=> n < i - 1
    OBVIOUS
  <1>2. (\A k \in i - n .. i : s[k] = Backslash) <=> (\A k \in i - n .. i - 1 : s[k] = Backslash)
    <2>1. \A k \in i - n .. i : k = i \/ k \in i - n .. i - 1
      OBVIOUS
    <2>2. \A k \in i - n .. i - 1 : k \in i - n .. i
      OBVIOUS
    <2>. QED
      BY <2>1, <2>2
  <1>. QED
    BY <1>1, <1>2 DEF Run

LEMMA RunsBegin ==
  ASSUME NEW s, NEW i \in Nat \ {0}, s[i] = Backslash
  PROVE  Run(s, i + 1, 1) <=> i = 1 \/ s[i - 1] # Backslash
  <1>1. 1 \in 1 .. (i + 1) - 1 /\ (i + 1) - 1 = i /\ (i + 1) - 1 - 1 = i - 1 /\ (1 < i <=> i # 1)
    OBVIOUS
  <1>2. \A k \in i .. i : s[k] = Backslash
    OBVIOUS
  <1>. QED
    BY <1>1, <1>2 DEF Run

LEMMA RunsExist ==
  ASSUME NEW s, NEW l \in Nat, NEW i \in 1 .. l, s[i] = Backslash
  PROVE  \E n \in Nat \ {0} : Run(s, i + 1, n)
  <1> DEFINE S == {j \in 1 .. l : s[j] = Backslash => \E n \in Nat \ {0} : Run(s, j + 1, n)}
  <1>1. 1 \in S
    <2>1. 1 \in 1 .. l /\ 1 \in Nat \ {0}
      OBVIOUS
    <2>. QED
      BY <2>1, RunsBegin
  <1>2. ASSUME NEW j \in 1 .. l - 1, j \in S PROVE j + 1 \in S
    <2>1. j + 1 \in 1 .. l /\ j \in Nat \ {0} /\ j + 1 \in Nat \ {0} /\ (j + 1) - 1 = j
      OBVIOUS
    <2>2. SUFFICES ASSUME s[j + 1] = Backslash
                   PROVE  \E n \in Nat \ {0} : Run(s, (j + 1) + 1, n)
      BY <2>1
    <2>3. CASE s[j] = Backslash
      <3>1. PICK n \in Nat \ {0} : Run(s, j + 1, n)
        BY <1>2, <2>3
      <3>2. Run(s, (j + 1) + 1, n + 1) /\ n + 1 \in Nat \ {0}
        BY <2>1, <2>2, <3>1, RunsGoOn
      <3>. QED
        BY <3>2
    <2>4. CASE s[j] # Backslash
      <3>1. Run(s, (j + 1) + 1, 1)
        BY <2>1, <2>2, <2>4, RunsBegin
      <3>. QED
        BY <3>1
    <2>. QED
      BY <2>3, <2>4
  <1>3. 1 .. l \subseteq S
    <2>1. \A j \in 1 .. l - 1 : j \in S => j + 1 \in S
      BY <1>2
    <2>2. 1 \in Int /\ l \in Int
      OBVIOUS
    <2>. HIDE DEF S
    <2>. QED
      BY <1>1, <2>1, <2>2, IntervalInduction
  <1>. QED
    BY <1>3

LEMMA EscapedIsOddRun ==
  ASSUME NEW s, NEW i
  PROVE  Escaped(s, i) <=> \E n : Run(s, i, n) /\ n % 2 = 1
  BY DEF Escaped, Run

(* Whether a character is escaped, said from one to the next.              *)
LEMMA EscapedNext ==
  ASSUME NEW s, NEW l \in Nat, NEW i \in 1 .. l
  PROVE  Escaped(s, i + 1) <=> s[i] = Backslash /\ ~Escaped(s, i)
  <1>1. i \in Nat \ {0} /\ i \in Nat /\ i + 1 \in Nat /\ (i + 1) - 1 = i
    OBVIOUS
  <1>2. CASE s[i] # Backslash
    <2>1. \A n \in 1 .. i : i \in (i + 1) - n .. i
      BY <1>1
    <2>2. ASSUME NEW n, Run(s, i + 1, n) PROVE FALSE
      BY <1>1, <1>2, <2>1, <2>2 DEF Run
    <2>. QED
      BY <1>2, <2>2, EscapedIsOddRun
  <1>3. CASE s[i] = Backslash
    <2>1. PICK n \in Nat \ {0} : Run(s, i + 1, n)
      BY <1>3, RunsExist
    <2>2. Escaped(s, i + 1) <=> n % 2 = 1
      BY <1>1, <2>1, EscapedIsOddRun, RunsAreUnique
    <2>3. CASE n = 1
      <3>1. i = 1 \/ s[i - 1] # Backslash
        BY <1>1, <1>3, <2>1, <2>3, RunsBegin
      <3>2. ASSUME NEW m, Run(s, i, m) PROVE FALSE
        <4>1. m \in 1 .. i - 1 /\ i - 1 \in i - m .. i - 1
          BY <1>1, <3>2 DEF Run
        <4>2. i # 1 /\ s[i - 1] = Backslash
          BY <3>2, <4>1 DEF Run
        <4>. QED
          BY <3>1, <4>2
      <3>3. ~Escaped(s, i)
        BY <3>2, EscapedIsOddRun
      <3>4. n % 2 = 1
        BY <2>3
      <3>. QED
        BY <1>3, <2>2, <3>3, <3>4
    <2>4. CASE n # 1
      <3>1. PICK m \in Nat \ {0} : n = m + 1
        <4>1. n - 1 \in Nat \ {0} /\ n = (n - 1) + 1
          BY <2>4
        <4>. QED
          BY <4>1
      <3>2. Run(s, i, m)
        BY <1>1, <1>3, <2>1, <3>1, RunsGoOn
      <3>3. Escaped(s, i) <=> m % 2 = 1
        BY <1>1, <3>2, EscapedIsOddRun, RunsAreUnique
      <3>4. n % 2 = 1 <=> ~(m % 2 = 1)
        BY <3>1
      <3>. QED
        BY <1>3, <2>2, <3>3, <3>4
    <2>. QED
      BY <2>3, <2>4
  <1>. QED
    BY <1>2, <1>3

LEMMA FirstIsNotEscaped == ASSUME NEW s PROVE ~Escaped(s, 1)
  BY DEF Escaped

Quotes == {Nul, DoubleQuote, SingleQuote}

(* What is open behind character i, if q is before it.                     *)
NextQuote(s, i, q) ==
  IF Escaped(s, i) \/ s[i] \notin {DoubleQuote, SingleQuote} THEN q
  ELSE IF q = Nul THEN s[i]
  ELSE IF q = s[i] THEN Nul
  ELSE q

(* The quotes that are open.                                               *)
LEMMA QuotesInTurn ==
  ASSUME NEW s \in Seq(Char)
  PROVE  /\ OpenQuote(s) \in [0 .. Len(s) -> Quotes]
         /\ OpenQuote(s)[0] = Nul
         /\ \A i \in 1 .. Len(s) :
              OpenQuote(s)[i] = NextQuote(s, i, OpenQuote(s)[i - 1])
  <1> DEFINE step == [p \in (Quotes) \X (1 .. Len(s)) |-> NextQuote(s, p[2], p[1])]
             Def(g) == [i \in 0 .. Len(s) |-> IF i = 0 THEN Nul ELSE NextQuote(s, i, g[i - 1])]
  <1>1. Len(s) \in Nat
    OBVIOUS
  <1>2. step \in Steps(Len(s), Quotes)
    BY DEF Steps, Quotes, NextQuote
  <1>3. Nul \in Quotes
    BY DEF Quotes
  <1>4. PICK f : Solution(f, Len(s), Quotes, Nul, step)
    <2>. HIDE DEF step
    <2>. QED
      BY <1>1, <1>2, <1>3, RecursiveFunctionExists
  <1>5. /\ f \in [0 .. Len(s) -> Quotes]
        /\ f = [i \in 0 .. Len(s) |-> IF i = 0 THEN Nul ELSE step[<<f[i - 1], i>>]]
    <2>. HIDE DEF step
    <2>. QED
      BY <1>4 DEF Solution
  <1>6. ASSUME NEW x \in Quotes, NEW i \in 1 .. Len(s)
        PROVE  step[<<x, i>>] = NextQuote(s, i, x)
    OBVIOUS
  <1>7. f = Def(f)
    <2>. HIDE DEF step
    <2>1. \A i \in 0 .. Len(s) : i # 0 => i \in 1 .. Len(s) /\ i - 1 \in 0 .. Len(s)
      BY <1>1
    <2>2. \A i \in 0 .. Len(s) : f[i] \in Quotes
      BY <1>5
    <2>. QED
      BY <1>5, <1>6, <2>1, <2>2
  <1>8. OpenQuote(s) = Def(OpenQuote(s))
    <2>1. OpenQuote(s) = CHOOSE g : g = Def(g)
      BY DEF OpenQuote, NextQuote
    <2>. QED
      BY <1>7, <2>1
  <1>9. \A i \in 0 .. Len(s) : OpenQuote(s)[i] = IF i = 0 THEN Nul ELSE NextQuote(s, i, OpenQuote(s)[i - 1])
    BY <1>8
  <1>10. OpenQuote(s)[0] = Nul /\ \A i \in 1 .. Len(s) : OpenQuote(s)[i] = NextQuote(s, i, OpenQuote(s)[i - 1])
    <2>1. 0 \in 0 .. Len(s) /\ \A i \in 1 .. Len(s) : i \in 0 .. Len(s) /\ i # 0
      BY <1>1
    <2>. QED
      BY <1>9, <2>1
  <1>11. Follows(OpenQuote(s), Len(s), Quotes, Nul, step)
    <2>1. OpenQuote(s) = [i \in 0 .. Len(s) |-> OpenQuote(s)[i]]
      BY <1>8
    <2>. HIDE DEF step
    <2>. QED
      BY <1>6, <1>10, <2>1 DEF Follows
  <1>12. OpenQuote(s) \in [0 .. Len(s) -> Quotes]
    <2>. HIDE DEF step
    <2>. QED
      BY <1>1, <1>2, <1>3, <1>11, RecursiveFunctionType
  <1>. QED
    BY <1>10, <1>12

(* A character becomes a sequence of them.                                 *)
LEMMA ImageTyped ==
  ASSUME NEW s \in Seq(Char), NEW i \in 1 .. Len(s)
  PROVE  Image(s, i) \in Seq(Char)
  <1>1. s[i] \in Char /\ Meaning(s[i]) \in Char
    BY SplitAssumption DEF Meaning
  <1>2. Image(s, i) \in {<<>>, <<OctalChar(s, i)>>, <<Meaning(s[i])>>, <<s[i]>>}
    BY DEF Image
  <1>3. \A c \in Char : <<c>> \in Seq(Char)
    OBVIOUS
  <1>4. OctalChar(s, i) \in Char /\ <<>> \in Seq(Char)
    BY OctalTyped
  <1>. QED
    BY <1>1, <1>2, <1>3, <1>4

(* The text behind the last delimiter.                                     *)
LEMMA TextsInTurn ==
  ASSUME NEW s \in Seq(Char), NEW d
  PROVE  /\ TextBehind(s, d) \in [0 .. Len(s) -> Seq(Char)]
         /\ TextBehind(s, d)[0] = <<>>
         /\ \A i \in 1 .. Len(s) :
              TextBehind(s, d)[i] = (IF i \in Cuts(s, d) THEN <<>> ELSE TextBehind(s, d)[i - 1] \o Image(s, i))
  <1> DEFINE step == [p \in (Seq(Char)) \X (1 .. Len(s)) |-> (IF p[2] \in Cuts(s, d) THEN <<>> ELSE p[1] \o Image(s, p[2]))]
             Def(g) == [i \in 0 .. Len(s) |-> IF i = 0 THEN <<>> ELSE (IF i \in Cuts(s, d) THEN <<>> ELSE g[i - 1] \o Image(s, i))]
  <1>1. Len(s) \in Nat
    OBVIOUS
  <1>2. step \in Steps(Len(s), Seq(Char))
    BY ImageTyped DEF Steps
  <1>3. <<>> \in Seq(Char)
    OBVIOUS
  <1>4. PICK f : Solution(f, Len(s), Seq(Char), <<>>, step)
    <2>. HIDE DEF step
    <2>. QED
      BY <1>1, <1>2, <1>3, RecursiveFunctionExists
  <1>5. /\ f \in [0 .. Len(s) -> Seq(Char)]
        /\ f = [i \in 0 .. Len(s) |-> IF i = 0 THEN <<>> ELSE step[<<f[i - 1], i>>]]
    <2>. HIDE DEF step
    <2>. QED
      BY <1>4 DEF Solution
  <1>6. ASSUME NEW x \in Seq(Char), NEW i \in 1 .. Len(s)
        PROVE  step[<<x, i>>] = (IF i \in Cuts(s, d) THEN <<>> ELSE x \o Image(s, i))
    OBVIOUS
  <1>7. f = Def(f)
    <2>. HIDE DEF step
    <2>1. \A i \in 0 .. Len(s) : i # 0 => i \in 1 .. Len(s) /\ i - 1 \in 0 .. Len(s)
      BY <1>1
    <2>2. \A i \in 0 .. Len(s) : f[i] \in Seq(Char)
      BY <1>5
    <2>. QED
      BY <1>5, <1>6, <2>1, <2>2
  <1>8. TextBehind(s, d) = Def(TextBehind(s, d))
    <2>1. TextBehind(s, d) = CHOOSE g : g = Def(g)
      BY DEF TextBehind
    <2>. QED
      BY <1>7, <2>1
  <1>9. \A i \in 0 .. Len(s) : TextBehind(s, d)[i] = IF i = 0 THEN <<>> ELSE (IF i \in Cuts(s, d) THEN <<>> ELSE TextBehind(s, d)[i - 1] \o Image(s, i))
    BY <1>8
  <1>10. TextBehind(s, d)[0] = <<>> /\ \A i \in 1 .. Len(s) : TextBehind(s, d)[i] = (IF i \in Cuts(s, d) THEN <<>> ELSE TextBehind(s, d)[i - 1] \o Image(s, i))
    <2>1. 0 \in 0 .. Len(s) /\ \A i \in 1 .. Len(s) : i \in 0 .. Len(s) /\ i # 0
      BY <1>1
    <2>. QED
      BY <1>9, <2>1
  <1>11. Follows(TextBehind(s, d), Len(s), Seq(Char), <<>>, step)
    <2>1. TextBehind(s, d) = [i \in 0 .. Len(s) |-> TextBehind(s, d)[i]]
      BY <1>8
    <2>. HIDE DEF step
    <2>. QED
      BY <1>6, <1>10, <2>1 DEF Follows
  <1>12. TextBehind(s, d) \in [0 .. Len(s) -> Seq(Char)]
    <2>. HIDE DEF step
    <2>. QED
      BY <1>1, <1>2, <1>3, <1>11, RecursiveFunctionType
  <1>. QED
    BY <1>10, <1>12

-----------------------------------------------------------------------------
(* One character of the line, as the comment has it.                       *)

Marks == {Backslash, DoubleQuote, SingleQuote}

(* Delimiters that mean nothing else: isspace() has no others, and of what *)
(* becomes of a delimiter that is a quote, a backslash or a digit of a     *)
(* number the comment does not speak.                                      *)
PlainDelim(d) == d = NoDelim \/ d \cap (Marks \cup Octal) = {}

Delims(d) == IF d = NoDelim THEN Space ELSE d

LEMMA PlainDelims ==
  ASSUME NEW d, PlainDelim(d), NEW c \in Delims(d)
  PROVE  c \notin Marks /\ c \notin Octal
  <1>1. CASE d = NoDelim
    BY <1>1, SplitAssumption DEF Delims, Marks
  <1>2. CASE d # NoDelim
    BY <1>2 DEF Delims, PlainDelim
  <1>. QED
    BY <1>1, <1>2

LEMMA MarksDiffer ==
  /\ Backslash # DoubleQuote /\ Backslash # SingleQuote /\ DoubleQuote # SingleQuote
  /\ Nul \notin Marks /\ Marks \cap Digit = {} /\ Marks \cap Octal = {}
  BY SplitAssumption DEF Marks, Backslash, DoubleQuote, SingleQuote

LEMMA CutHere ==
  ASSUME NEW s, NEW d, NEW i \in 1 .. Len(s)
  PROVE  i \in Cuts(s, d) <=> ~Escaped(s, i) /\ OpenQuote(s)[i - 1] = Nul /\ s[i] \in Delims(d)
  BY DEF Cuts, Delims

LEMMA NumbersBegin ==
  ASSUME NEW s, NEW i \in Nat, InNumber(s, i + 1)
  PROVE  InNumber(s, i) \/ (Escaped(s, i) /\ s[i] \in Octal)
  <1>1. PICK j \in 1 .. (i + 1) - 1 : Escaped(s, j) /\ \A k \in j .. i + 1 : s[k] \in Octal
    BY DEF InNumber
  <1>2. CASE j = i
    <2>1. i \in j .. i + 1
      BY <1>2
    <2>. QED
      BY <1>1, <1>2, <2>1
  <1>3. CASE j # i
    <2>1. j \in 1 .. i - 1 /\ \A k \in j .. i : k \in j .. i + 1
      BY <1>3
    <2>. QED
      BY <1>1, <2>1 DEF InNumber
  <1>. QED
    BY <1>2, <1>3

LEMMA TextGrows ==
  ASSUME NEW s \in Seq(Char), NEW d, NEW i \in 1 .. Len(s), i \notin Cuts(s, d)
  PROVE  /\ Image(s, i) = <<>> => TextBehind(s, d)[i] = TextBehind(s, d)[i - 1]
         /\ \A c \in Char : Image(s, i) = <<c>> =>
              TextBehind(s, d)[i] = Append(TextBehind(s, d)[i - 1], c)
  <1>1. i - 1 \in 0 .. Len(s)
    OBVIOUS
  <1>2. PICK t \in Seq(Char) : t = TextBehind(s, d)[i - 1]
    BY <1>1, TextsInTurn
  <1>3. TextBehind(s, d)[i] = t \o Image(s, i)
    BY <1>2, TextsInTurn
  <1>4. t \o <<>> = t
    BY ConcatEmptySeq
  <1>5. \A c \in Char : t \o <<c>> = Append(t, c)
    BY AppendIsConcat
  <1>. QED
    BY <1>2, <1>3, <1>4, <1>5

(* The character behind a backslash.                                       *)
LEMMA ReadsEscaped ==
  ASSUME NEW s \in Seq(Char), NEW d, NEW i \in 1 .. Len(s), Escaped(s, i)
  PROVE  /\ i \notin Cuts(s, d) /\ ~Escaped(s, i + 1) /\ OpenQuote(s)[i] = OpenQuote(s)[i - 1]
         /\ s[i] \notin Octal => TextBehind(s, d)[i] = Append(TextBehind(s, d)[i - 1], Meaning(s[i]))
         /\ s[i] \in Octal => TextBehind(s, d)[i] = Append(TextBehind(s, d)[i - 1], OctalChar(s, i))
  <1>1. i \notin Cuts(s, d)
    BY CutHere
  <1>2. ~Escaped(s, i + 1)
    <2>1. Len(s) \in Nat
      OBVIOUS
    <2>. QED
      BY <2>1, EscapedNext
  <1>3. OpenQuote(s)[i] = OpenQuote(s)[i - 1]
    BY QuotesInTurn DEF NextQuote
  <1>4. s[i] \in Char /\ Meaning(s[i]) \in Char /\ OctalChar(s, i) \in Char
    BY SplitAssumption, OctalTyped DEF Meaning
  <1>5. /\ s[i] \notin Octal => Image(s, i) = <<Meaning(s[i])>>
        /\ s[i] \in Octal => Image(s, i) = <<OctalChar(s, i)>>
    BY DEF Image
  <1>. QED
    BY <1>1, <1>2, <1>3, <1>4, <1>5, TextGrows

(* A backslash that begins an escape.                                      *)
LEMMA ReadsBackslash ==
  ASSUME NEW s \in Seq(Char), NEW d, PlainDelim(d), NEW i \in 1 .. Len(s), ~Escaped(s, i), s[i] = Backslash
  PROVE  /\ i \notin Cuts(s, d) /\ Escaped(s, i + 1) /\ OpenQuote(s)[i] = OpenQuote(s)[i - 1]
         /\ TextBehind(s, d)[i] = TextBehind(s, d)[i - 1]
  <1>1. i \notin Cuts(s, d)
    BY CutHere, PlainDelims DEF Marks
  <1>2. Escaped(s, i + 1)
    <2>1. Len(s) \in Nat
      OBVIOUS
    <2>. QED
      BY <2>1, EscapedNext
  <1>3. OpenQuote(s)[i] = OpenQuote(s)[i - 1]
    BY QuotesInTurn, MarksDiffer DEF NextQuote
  <1>4. Image(s, i) = <<>>
    BY DEF Image
  <1>. QED
    BY <1>1, <1>2, <1>3, <1>4, TextGrows

(* A quote that opens or closes a string.                                  *)
LEMMA ReadsQuote ==
  ASSUME NEW s \in Seq(Char), NEW d, PlainDelim(d), NEW i \in 1 .. Len(s), ~Escaped(s, i),
         s[i] \in {DoubleQuote, SingleQuote}, OpenQuote(s)[i - 1] \in {Nul, s[i]}
  PROVE  /\ i \notin Cuts(s, d) /\ ~Escaped(s, i + 1)
         /\ OpenQuote(s)[i] = IF OpenQuote(s)[i - 1] = Nul THEN s[i] ELSE Nul
         /\ TextBehind(s, d)[i] = TextBehind(s, d)[i - 1]
  <1>1. i \notin Cuts(s, d)
    BY CutHere, PlainDelims DEF Marks
  <1>2. ~Escaped(s, i + 1)
    <2>1. Len(s) \in Nat
      OBVIOUS
    <2>. QED
      BY <2>1, EscapedNext, MarksDiffer
  <1>3. OpenQuote(s)[i] = IF OpenQuote(s)[i - 1] = Nul THEN s[i] ELSE Nul
    BY QuotesInTurn DEF NextQuote
  <1>4. OpenQuote(s)[i] # OpenQuote(s)[i - 1]
    BY <1>3, MarksDiffer DEF Marks
  <1>5. Image(s, i) = <<>>
    BY <1>4 DEF Image
  <1>. QED
    BY <1>1, <1>2, <1>3, <1>5, TextGrows

(* A delimiter.                                                            *)
LEMMA ReadsDelimiter ==
  ASSUME NEW s \in Seq(Char), NEW d, PlainDelim(d), NEW i \in 1 .. Len(s), ~Escaped(s, i),
         OpenQuote(s)[i - 1] = Nul, s[i] \in Delims(d)
  PROVE  /\ i \in Cuts(s, d) /\ ~Escaped(s, i + 1)
         /\ OpenQuote(s)[i] = OpenQuote(s)[i - 1]
         /\ TextBehind(s, d)[i] = <<>>
  <1>1. i \in Cuts(s, d)
    BY CutHere
  <1>2. s[i] \notin Marks
    BY PlainDelims
  <1>3. ~Escaped(s, i + 1)
    <2>1. Len(s) \in Nat
      OBVIOUS
    <2>. QED
      BY <1>2, <2>1, EscapedNext DEF Marks
  <1>4. OpenQuote(s)[i] = OpenQuote(s)[i - 1]
    BY <1>2, QuotesInTurn DEF NextQuote, Marks
  <1>5. TextBehind(s, d)[i] = <<>>
    BY <1>1, TextsInTurn
  <1>. QED
    BY <1>1, <1>3, <1>4, <1>5

(* Any other character, a delimiter or a quote inside a string among them. *)
LEMMA ReadsOther ==
  ASSUME NEW s \in Seq(Char), NEW d, NEW i \in 1 .. Len(s), ~Escaped(s, i), ~InNumber(s, i),
         s[i] # Backslash,
         s[i] \in {DoubleQuote, SingleQuote} => OpenQuote(s)[i - 1] \notin {Nul, s[i]},
         OpenQuote(s)[i - 1] # Nul \/ s[i] \notin Delims(d)
  PROVE  /\ i \notin Cuts(s, d) /\ ~Escaped(s, i + 1)
         /\ OpenQuote(s)[i] = OpenQuote(s)[i - 1]
         /\ TextBehind(s, d)[i] = Append(TextBehind(s, d)[i - 1], s[i])
  <1>1. i \notin Cuts(s, d)
    BY CutHere
  <1>2. ~Escaped(s, i + 1)
    <2>1. Len(s) \in Nat
      OBVIOUS
    <2>. QED
      BY <2>1, EscapedNext
  <1>3. OpenQuote(s)[i] = OpenQuote(s)[i - 1]
    BY QuotesInTurn DEF NextQuote
  <1>4. Image(s, i) = <<s[i]>>
    BY <1>3 DEF Image
  <1>5. s[i] \in Char
    OBVIOUS
  <1>. QED
    BY <1>1, <1>2, <1>3, <1>4, <1>5, TextGrows

(* A digit of a number behind its first.                                   *)
LEMMA ReadsDigit ==
  ASSUME NEW s \in Seq(Char), NEW d, PlainDelim(d), NEW i \in 1 .. Len(s), ~Escaped(s, i), InNumber(s, i)
  PROVE  /\ i \notin Cuts(s, d) /\ OpenQuote(s)[i] = OpenQuote(s)[i - 1]
         /\ TextBehind(s, d)[i] = TextBehind(s, d)[i - 1]
  <1>1. s[i] \in Octal
    <2>1. PICK j \in 1 .. i - 1 : \A k \in j .. i : s[k] \in Octal
      BY DEF InNumber
    <2>2. i \in j .. i
      OBVIOUS
    <2>. QED
      BY <2>1, <2>2
  <1>2. s[i] \notin Marks
    BY <1>1, MarksDiffer
  <1>3. i \notin Cuts(s, d)
    BY <1>1, CutHere, PlainDelims
  <1>4. OpenQuote(s)[i] = OpenQuote(s)[i - 1]
    BY <1>2, QuotesInTurn DEF NextQuote, Marks
  <1>5. Image(s, i) = <<>>
    BY DEF Image
  <1>. QED
    BY <1>3, <1>4, <1>5, TextGrows

(* A whole number.                                                         *)
LEMMA ReadsNumber ==
  ASSUME NEW s \in Seq(Char), NEW d, PlainDelim(d), NEW i \in 1 .. Len(s), Escaped(s, i),
         NEW e \in i + 1 .. Len(s) + 1,
         \A k \in i .. e - 1 : s[k] \in Octal, e <= Len(s) => s[e] \notin Octal
  PROVE  /\ \A k \in i .. e - 1 : k \notin Cuts(s, d)
         /\ OpenQuote(s)[e - 1] = OpenQuote(s)[i - 1]
         /\ TextBehind(s, d)[e - 1] =
              Append(TextBehind(s, d)[i - 1], OctalChar(s, i))
         /\ ~Escaped(s, e)
         /\ e <= Len(s) => ~InNumber(s, e)
  <1>0. Len(s) \in Nat /\ i \in i .. e - 1 /\ e - 1 \in i .. e - 1 /\ (e - 1) + 1 = e
        /\ \A k \in i .. e - 1 : k \in 1 .. Len(s)
    OBVIOUS
  <1>1. \A k \in i .. e - 1 : s[k] # Backslash
    BY MarksDiffer DEF Marks
  <1>2. \A k \in i .. e - 1 : ~Escaped(s, k + 1)
    BY <1>0, <1>1, EscapedNext
  <1> DEFINE S == {k \in i .. e - 1 : /\ k \notin Cuts(s, d) /\ OpenQuote(s)[k] = OpenQuote(s)[i - 1]
                                      /\ TextBehind(s, d)[k] = TextBehind(s, d)[i]}
  <1>3. i \in S
    BY <1>0, ReadsEscaped
  <1>4. ASSUME NEW k \in i .. (e - 1) - 1, k \in S PROVE k + 1 \in S
    <2>1. k + 1 \in i .. e - 1 /\ k + 1 \in 1 .. Len(s) /\ (k + 1) - 1 = k /\ k \in i .. e - 1
      OBVIOUS
    <2>2. ~Escaped(s, k + 1)
      BY <1>2, <2>1
    <2>3. InNumber(s, k + 1)
      <3>1. i \in 1 .. (k + 1) - 1 /\ \A j \in i .. k + 1 : j \in i .. e - 1
        OBVIOUS
      <3>. QED
        BY <3>1 DEF InNumber
    <2>4. /\ k + 1 \notin Cuts(s, d) /\ OpenQuote(s)[k + 1] = OpenQuote(s)[(k + 1) - 1]
          /\ TextBehind(s, d)[k + 1] = TextBehind(s, d)[(k + 1) - 1]
      BY <2>1, <2>2, <2>3, ReadsDigit
    <2>. QED
      BY <1>4, <2>1, <2>4
  <1>5. i .. e - 1 \subseteq S
    <2>1. \A k \in i .. (e - 1) - 1 : k \in S => k + 1 \in S
      BY <1>4
    <2>2. i \in Int /\ e - 1 \in Int
      OBVIOUS
    <2>. HIDE DEF S
    <2>. QED
      BY <1>3, <2>1, <2>2, IntervalInduction
  <1>6. ~Escaped(s, e)
    BY <1>0, <1>2
  <1>7. e <= Len(s) => ~InNumber(s, e)
    <2>1. SUFFICES ASSUME e <= Len(s), InNumber(s, e) PROVE FALSE
      OBVIOUS
    <2>2. PICK j \in 1 .. e - 1 : \A k \in j .. e : s[k] \in Octal
      BY <2>1 DEF InNumber
    <2>3. e \in j .. e
      OBVIOUS
    <2>. QED
      BY <2>1, <2>2, <2>3
  <1>8. s[i] \in Octal
    BY <1>0
  <1>9. TextBehind(s, d)[i] = Append(TextBehind(s, d)[i - 1], OctalChar(s, i))
    BY <1>8, ReadsEscaped
  <1>. QED
    BY <1>0, <1>5, <1>6, <1>7, <1>9

-----------------------------------------------------------------------------
(* What has been written.                                                  *)

(* The characters of w stand in b from p on; a word that has ended has a   *)
(* Nul behind it.                                                          *)
Stands(b, p, w) == p + Len(w) <= Len(b) /\ \A j \in 1 .. Len(w) : b[p + j] = w[j]
Ended(b, p, w) == Stands(b, p, w) /\ p + Len(w) < Len(b) /\ b[p + Len(w) + 1] = Nul

LEMMA StaysWritten ==
  ASSUME NEW b \in Seq(Char), NEW c \in Char, NEW p \in Nat, NEW w \in Seq(Char)
  PROVE  /\ Stands(b, p, w) => Stands(Append(b, c), p, w)
         /\ Ended(b, p, w) => Ended(Append(b, c), p, w)
  <1>1. Len(Append(b, c)) = Len(b) + 1 /\ \A i \in 1 .. Len(b) : Append(b, c)[i] = b[i]
    BY AppendProperties
  <1>2. Len(b) \in Nat /\ Len(w) \in Nat
    OBVIOUS
  <1>3. Stands(b, p, w) => Stands(Append(b, c), p, w)
    <2>1. SUFFICES ASSUME Stands(b, p, w) PROVE Stands(Append(b, c), p, w)
      OBVIOUS
    <2>2. p + Len(w) <= Len(b) /\ \A j \in 1 .. Len(w) : b[p + j] = w[j]
      BY <2>1 DEF Stands
    <2>3. \A j \in 1 .. Len(w) : p + j \in 1 .. Len(b)
      BY <1>2, <2>2
    <2>4. p + Len(w) <= Len(Append(b, c))
      BY <1>1, <1>2, <2>2
    <2>. QED
      BY <1>1, <2>2, <2>3, <2>4 DEF Stands
  <1>4. Ended(b, p, w) => Ended(Append(b, c), p, w)
    <2>1. SUFFICES ASSUME Ended(b, p, w) PROVE Ended(Append(b, c), p, w)
      OBVIOUS
    <2>2. p + Len(w) < Len(b) /\ b[p + Len(w) + 1] = Nul
      BY <2>1 DEF Ended
    <2>3. p + Len(w) + 1 \in 1 .. Len(b) /\ p + Len(w) < Len(Append(b, c))
      BY <1>1, <1>2, <2>2
    <2>. QED
      BY <1>1, <1>3, <2>1, <2>2, <2>3 DEF Ended
  <1>. QED
    BY <1>3, <1>4

LEMMA WritesChar ==
  ASSUME NEW b \in Seq(Char), NEW c \in Char, NEW p \in Nat, NEW w \in Seq(Char),
         Stands(b, p, w), Len(b) = p + Len(w)
  PROVE  /\ Stands(Append(b, c), p, Append(w, c)) /\ Len(Append(b, c)) = p + Len(Append(w, c))
         /\ c = Nul => Ended(Append(b, c), p, w)
  <1>1. /\ Len(Append(b, c)) = Len(b) + 1 /\ \A i \in 1 .. Len(b) : Append(b, c)[i] = b[i]
        /\ Append(b, c)[Len(b) + 1] = c
    BY AppendProperties
  <1>2. /\ Len(Append(w, c)) = Len(w) + 1 /\ \A i \in 1 .. Len(w) : Append(w, c)[i] = w[i]
        /\ Append(w, c)[Len(w) + 1] = c
    BY AppendProperties
  <1>3. Len(b) \in Nat /\ Len(w) \in Nat
    OBVIOUS
  <1>4. Len(Append(b, c)) = p + Len(Append(w, c))
    BY <1>1, <1>2, <1>3
  <1>5. ASSUME NEW j \in 1 .. Len(Append(w, c)) PROVE Append(b, c)[p + j] = Append(w, c)[j]
    <2>1. CASE j \in 1 .. Len(w)
      <3>1. p + j \in 1 .. Len(b)
        BY <1>3, <2>1
      <3>. QED
        BY <1>1, <1>2, <2>1, <3>1 DEF Stands
    <2>2. CASE j = Len(w) + 1
      <3>1. p + j = Len(b) + 1
        BY <1>3, <2>2
      <3>. QED
        BY <1>1, <1>2, <2>2, <3>1
    <2>. QED
      BY <1>2, <1>3, <2>1, <2>2
  <1>6. Stands(Append(b, c), p, Append(w, c))
    BY <1>3, <1>4, <1>5, <1>2 DEF Stands
  <1>7. ASSUME c = Nul PROVE Ended(Append(b, c), p, w)
    <2>1. Stands(Append(b, c), p, w)
      BY StaysWritten
    <2>2. p + Len(w) + 1 = Len(b) + 1 /\ p + Len(w) < Len(Append(b, c))
      BY <1>1, <1>3
    <2>. QED
      BY <1>1, <1>7, <2>1, <2>2 DEF Ended
  <1>. QED
    BY <1>4, <1>6, <1>7

(* What a C program sees of a word that has ended.                         *)
LEMMA SeesWord ==
  ASSUME buf \in Seq(Char), NEW p \in Nat, NEW w \in Seq(Char), Ended(buf, p, w)
  PROVE  CString(p) = UpToNul(w)
  <1>1. /\ p + Len(w) < Len(buf) /\ \A j \in 1 .. Len(w) : buf[p + j] = w[j]
        /\ buf[p + Len(w) + 1] = Nul /\ Len(w) \in Nat /\ Len(buf) \in Nat
    BY DEF Ended, Stands
  <1> DEFINE Short(n) == (\A i \in 1 .. n : w[i] # Nul) /\ (n < Len(w) => w[n + 1] = Nul)
             First(e) == buf[e] = Nul /\ \A i \in p + 1 .. e - 1 : buf[i] # Nul
  <1>2. PICK n \in 0 .. Len(w) : Short(n)
    <2>1. 1 \in 1 .. Len(w) + 1
      BY <1>1
    <2>2. PICK e \in 1 .. Len(w) + 1 :
            /\ \A i \in 1 .. e - 1 : w[i] \in Char \ {Nul}
            /\ e <= Len(w) => w[e] \notin Char \ {Nul}
      BY <2>1, FirstExists
    <2>3. e - 1 \in 0 .. Len(w) /\ (e - 1) + 1 = e /\ (e - 1 < Len(w) <=> e <= Len(w))
      BY <1>1
    <2>4. e <= Len(w) => w[e] \in Char
      BY <1>1
    <2>5. Short(e - 1)
      BY <2>2, <2>3, <2>4
    <2>. QED
      BY <2>3, <2>5
  <1>3. \A m \in 0 .. Len(w) : Short(m) => m = n
    <2>1. SUFFICES ASSUME NEW m \in 0 .. Len(w), Short(m), m # n PROVE FALSE
      OBVIOUS
    <2>2. CASE m < n
      <3>1. m < Len(w) /\ m + 1 \in 1 .. n
        BY <1>1, <2>2
      <3>. QED
        BY <1>2, <2>1, <3>1
    <2>3. CASE n < m
      <3>1. n < Len(w) /\ n + 1 \in 1 .. m
        BY <1>1, <2>3
      <3>. QED
        BY <1>2, <2>1, <3>1
    <2>. QED
      BY <1>1, <2>1, <2>2, <2>3
  <1>4. (CHOOSE m \in 0 .. Len(w) : Short(m)) = n
    <2>. HIDE DEF Short
    <2>. QED
      BY <1>2, <1>3
  <1>5. p + n + 1 \in p + 1 .. Len(buf) /\ First(p + n + 1)
    <2>1. p + n + 1 \in p + 1 .. Len(buf)
      BY <1>1
    <2>2. buf[p + n + 1] = Nul
      <3>1. CASE n = Len(w)
        BY <1>1, <3>1
      <3>2. CASE n < Len(w)
        <4>1. n + 1 \in 1 .. Len(w) /\ p + (n + 1) = p + n + 1
          BY <1>1, <3>2
        <4>. QED
          BY <1>1, <1>2, <3>2, <4>1
      <3>. QED
        BY <1>1, <3>1, <3>2
    <2>3. ASSUME NEW i \in p + 1 .. p + n + 1 - 1 PROVE buf[i] # Nul
      <3>1. i - p \in 1 .. n /\ i - p \in 1 .. Len(w) /\ p + (i - p) = i
        BY <1>1
      <3>. QED
        BY <1>1, <1>2, <3>1
    <2>. QED
      BY <2>1, <2>2, <2>3
  <1>6. \A e \in p + 1 .. Len(buf) : First(e) => e = p + n + 1
    <2>1. SUFFICES ASSUME NEW e \in p + 1 .. Len(buf), First(e), e # p + n + 1 PROVE FALSE
      OBVIOUS
    <2>2. e \in p + 1 .. p + n + 1 - 1 \/ p + n + 1 \in p + 1 .. e - 1
      BY <1>1, <2>1
    <2>. QED
      BY <1>5, <2>1, <2>2
  <1>7. (CHOOSE e \in p + 1 .. Len(buf) : First(e)) = p + n + 1
    <2>. HIDE DEF First
    <2>. QED
      BY <1>5, <1>6
  <1>8. CString(p) = SubSeq(buf, p + 1, p + n) /\ UpToNul(w) = SubSeq(w, 1, n)
    <2>1. CString(p) = SubSeq(buf, p + 1, (p + n + 1) - 1)
      BY <1>7 DEF CString
    <2>2. UpToNul(w) = SubSeq(w, 1, n)
      BY <1>4 DEF UpToNul
    <2>3. (p + n + 1) - 1 = p + n
      BY <1>1
    <2>. QED
      BY <2>1, <2>2, <2>3
  <1>9. /\ SubSeq(buf, p + 1, p + n) \in Seq(Char) /\ Len(SubSeq(buf, p + 1, p + n)) = n
        /\ \A i \in 1 .. n : SubSeq(buf, p + 1, p + n)[i] = buf[p + i]
    <2>1. p + 1 \in Int /\ p + n \in Int /\ \A i \in p + 1 .. p + n : buf[i] \in Char
      BY <1>1
    <2>2. /\ SubSeq(buf, p + 1, p + n) \in Seq(Char)
          /\ Len(SubSeq(buf, p + 1, p + n)) = (IF p + 1 <= p + n THEN (p + n) - (p + 1) + 1 ELSE 0)
          /\ \A i \in 1 .. (p + n) - (p + 1) + 1 : SubSeq(buf, p + 1, p + n)[i] = buf[(p + 1) + i - 1]
      BY <2>1, SubSeqProperties
    <2>3. (p + n) - (p + 1) + 1 = n /\ (p + 1 <= p + n <=> n # 0) /\ \A i \in 1 .. n : (p + 1) + i - 1 = p + i
      OBVIOUS
    <2>. QED
      BY <2>2, <2>3
  <1>10. /\ SubSeq(w, 1, n) \in Seq(Char) /\ Len(SubSeq(w, 1, n)) = n
         /\ \A i \in 1 .. n : SubSeq(w, 1, n)[i] = w[i]
    <2>1. \A i \in 1 .. n : w[i] \in Char
      BY <1>1
    <2>2. /\ SubSeq(w, 1, n) \in Seq(Char)
          /\ Len(SubSeq(w, 1, n)) = (IF 1 <= n THEN n - 1 + 1 ELSE 0)
          /\ \A i \in 1 .. n - 1 + 1 : SubSeq(w, 1, n)[i] = w[1 + i - 1]
      BY <2>1, SubSeqProperties
    <2>3. n - 1 + 1 = n /\ \A i \in 1 .. n : 1 + i - 1 = i
      OBVIOUS
    <2>. QED
      BY <2>2, <2>3
  <1>11. \A i \in 1 .. n : buf[p + i] = w[i]
    BY <1>1
  <1>12. ASSUME NEW x \in Seq(Char), NEW y \in Seq(Char), Len(x) = n, Len(y) = n, \A i \in 1 .. n : x[i] = y[i]
         PROVE  x = y
    BY <1>12
  <1>13. SubSeq(buf, p + 1, p + n) = SubSeq(w, 1, n)
    BY <1>9, <1>10, <1>11, <1>12
  <1>. QED
    BY <1>8, <1>13

-----------------------------------------------------------------------------
(* The places of the ends of words among each other.                       *)

LEMMA FiniteEnds ==
  ASSUME NEW n \in Nat, NEW S, S \subseteq 1 .. n
  PROVE  IsFiniteSet(S) /\ \A e \in S : e \in Nat
  <1>1. 1 \in Int /\ n \in Int
    OBVIOUS
  <1>2. IsFiniteSet(1 .. n)
    BY <1>1, FS_Interval
  <1>3. S \in SUBSET (1 .. n)
    OBVIOUS
  <1>4. IsFiniteSet(S)
    BY <1>2, <1>3, FS_Subset
  <1>. QED
    BY <1>4

LEMMA RanksDiffer ==
  ASSUME NEW n \in Nat, NEW S, S \subseteq 1 .. n, NEW x \in S, NEW y \in S, x < y
  PROVE  Rank(S, x) # Rank(S, y)
  <1> DEFINE A == {f \in S : f < x}
             B == {f \in S : f < y}
  <1>1. IsFiniteSet(S)
    BY FiniteEnds
  <1>2. IsFiniteSet(B)
    BY <1>1, FS_Subset
  <1>3. A \subseteq B /\ x \in B /\ x \notin A
    <2>1. \A e \in S : e \in Nat
      BY FiniteEnds
    <2>2. \A e \in S : e < x => e < y
      BY <2>1
    <2>3. ~(x < x)
      BY <2>1
    <2>. QED
      BY <2>2, <2>3
  <1>4. Cardinality(A) # Cardinality(B)
    <2>. HIDE DEF A, B
    <2>1. A \in SUBSET B /\ A # B
      BY <1>3
    <2>. QED
      BY <1>2, <2>1, FS_Subset
  <1>. QED
    BY <1>4 DEF Rank

LEMMA RankOfNext ==
  ASSUME NEW n \in Nat, NEW S, S \subseteq 1 .. n, NEW i \in Nat
  PROVE  /\ Rank(S, i) \in Nat
         /\ Rank(S, i + 1) = Rank(S, i) + (IF i \in S THEN 1 ELSE 0)
  <1> DEFINE A == {f \in S : f < i}
             B == {f \in S : f < i + 1}
  <1>1. IsFiniteSet(S)
    BY FiniteEnds
  <1>2. IsFiniteSet(A) /\ Cardinality(A) \in Nat
    BY <1>1, FS_Subset, FS_CardinalityType
  <1>0. \A e \in S : e \in Nat /\ (e < i + 1 <=> e < i \/ e = i)
    <2>1. \A e \in S : e \in Nat
      BY FiniteEnds
    <2>. QED
      BY <2>1
  <1>3. i \in S => B = A \cup {i} /\ i \notin A
    <2>1. \A e : e \in B <=> e \in S /\ (e \in A \/ e = i)
      BY <1>0
    <2>2. i \notin A /\ \A e \in A : e \in S
      OBVIOUS
    <2>. HIDE DEF A, B
    <2>. QED
      BY <2>1, <2>2
  <1>4. i \notin S => B = A
    <2>1. i \notin S => \A e : e \in B <=> e \in A
      BY <1>0
    <2>. HIDE DEF A, B
    <2>. QED
      BY <2>1
  <1>5. Cardinality(B) = Cardinality(A) + (IF i \in S THEN 1 ELSE 0)
    <2>. HIDE DEF A, B
    <2>1. CASE i \in S
      BY <1>2, <1>3, <2>1, FS_AddElement
    <2>2. CASE i \notin S
      BY <1>2, <1>4, <2>2
    <2>. QED
      BY <2>1, <2>2
  <1>. QED
    BY <1>2, <1>5 DEF Rank

(* Between two ends of words the ranks stay the same.                      *)
LEMMA RankStays ==
  ASSUME NEW S, NEW i \in Nat, NEW j \in Nat, i <= j, S \cap (i .. j - 1) = {}, S \subseteq Nat
  PROVE  /\ Rank(S, j) = Rank(S, i)
         /\ \A e \in S : e < j <=> e < i
  <1>1. \A e \in S : e < j <=> e < i
    <2>1. SUFFICES ASSUME NEW e \in S, e < j, ~(e < i) PROVE FALSE
      OBVIOUS
    <2>2. e \in i .. j - 1
      BY <2>1
    <2>. QED
      BY <2>2
  <1>2. {e \in S : e < j} = {e \in S : e < i}
    BY <1>1
  <1>. QED
    BY <1>1, <1>2 DEF Rank

-----------------------------------------------------------------------------
(* clp_breakargs does with each character what the comment says.           *)

(* The flags are those of the quote that is open behind i characters.      *)
Opened(i) ==
  /\ mode.dquote <=> OpenQuote(src)[i] = DoubleQuote
  /\ mode.squote <=> OpenQuote(src)[i] = SingleQuote

(* The words that end before position i have been stored, in order.        *)
StoredTo(i) ==
  /\ Len(argv) = Rank(WordEnds(src, delim), i)
  /\ \A k \in 1 .. Len(argv) : \E e \in WordEnds(src, delim) :
       /\ e < i /\ Rank(WordEnds(src, delim), e) = k - 1
       /\ Ended(buf, argv[k], TextBehind(src, delim)[e - 1])

Reading ==
  /\ mode.backslash <=> Escaped(src, at)
  /\ Opened(at - 1)
  /\ at <= Len(src) => ~InNumber(src, at)
  /\ Stands(buf, prev, TextBehind(src, delim)[at - 1])
  /\ Len(buf) = prev + Len(TextBehind(src, delim)[at - 1])
  /\ StoredTo(at)

ReadAll ==
  /\ Opened(Len(src))
  /\ Quoted \/ (Len(buf) = prev /\ StoredTo(Len(src) + 2))

DocInv ==
  Described(src) /\ PlainDelim(delim) =>
    /\ split = "scan" => Reading
    /\ split \in {"close", "done", "error"} => ReadAll
    /\ split = "done" => ~Quoted
    /\ split = "error" => Quoted

LEMMA LineTyped ==
  ASSUME SplitInv
  PROVE  /\ src \in Seq(Char) /\ Len(src) \in Nat /\ \A i \in 1 .. Len(src) : src[i] \in Char \ {Nul}
         /\ buf \in Seq(Char) /\ Len(buf) \in Nat /\ prev \in Nat /\ prev <= Len(buf)
         /\ argv \in Seq(Nat) /\ Len(argv) \in Nat /\ mode \in Modes
         /\ split = "scan" => at \in 1 .. Len(src) + 1
         /\ \A i \in 0 .. Len(src) : TextBehind(src, delim)[i] \in Seq(Char) /\ OpenQuote(src)[i] \in Quotes
  <1>1. src \in Seq(Char \ {Nul})
    BY DEF SplitInv, Types
  <1>2. src \in Seq(Char)
    BY <1>1
  <1>3. TextBehind(src, delim) \in [0 .. Len(src) -> Seq(Char)] /\ OpenQuote(src) \in [0 .. Len(src) -> Quotes]
    BY <1>2, TextsInTurn, QuotesInTurn
  <1>4. \A i \in 0 .. Len(src) : TextBehind(src, delim)[i] \in Seq(Char) /\ OpenQuote(src)[i] \in Quotes
    BY <1>3
  <1>. QED
    BY <1>1, <1>2, <1>4 DEF SplitInv, Types, KeepsUp, WordsEnd

LEMMA EndsInLine ==
  ASSUME NEW s \in Seq(Char), NEW d
  PROVE  /\ WordEnds(s, d) \subseteq 1 .. Len(s) + 1 /\ Len(s) + 1 \in Nat
         /\ \A e \in WordEnds(s, d) : e \in Nat /\ (e \in Cuts(s, d) \/ e = Len(s) + 1)
         /\ \A e \in Cuts(s, d) \cup {Len(s) + 1} :
              e \in WordEnds(s, d) <=> d # NoDelim \/ TextBehind(s, d)[e - 1] # <<>>
  <1>1. Cuts(s, d) \subseteq 1 .. Len(s) /\ Len(s) \in Nat
    BY DEF Cuts
  <1>. QED
    BY <1>1 DEF WordEnds

LEMMA StoredStays ==
  ASSUME SplitInv, NEW i \in Nat, NEW j \in Nat, i <= j, StoredTo(i),
         WordEnds(src, delim) \cap (i .. j - 1) = {},
         src' = src, delim' = delim, argv' = argv,
         buf' = buf \/ \E c \in Char : buf' = Append(buf, c)
  PROVE  StoredTo(j)'
  <1>1. PICK W, T : W = WordEnds(src, delim) /\ T = TextBehind(src, delim)
    OBVIOUS
  <1>2. W \subseteq Nat /\ \A e \in W : e - 1 \in 0 .. Len(src)
    BY <1>1, LineTyped, EndsInLine
  <1>3. Rank(W, j) = Rank(W, i) /\ \A e \in W : e < j <=> e < i
    BY <1>1, <1>2, RankStays
  <1>4. \A k \in 1 .. Len(argv) : \A e \in W : Ended(buf, argv[k], T[e - 1]) => Ended(buf', argv[k], T[e - 1])
    <2>1. SUFFICES ASSUME NEW k \in 1 .. Len(argv), NEW e \in W, NEW c \in Char
                   PROVE  Ended(buf, argv[k], T[e - 1]) => Ended(Append(buf, c), argv[k], T[e - 1])
      OBVIOUS
    <2>2. argv[k] \in Nat /\ T[e - 1] \in Seq(Char) /\ buf \in Seq(Char)
      <3>1. argv \in Seq(Nat) /\ buf \in Seq(Char) /\ \A f \in 0 .. Len(src) : T[f] \in Seq(Char)
        BY <1>1, LineTyped
      <3>2. e - 1 \in 0 .. Len(src)
        BY <1>2
      <3>3. argv[k] \in Nat
        BY <3>1
      <3>. QED
        BY <3>1, <3>2, <3>3
    <2>. QED
      BY <2>2, StaysWritten
  <1>5. /\ Len(argv) = Rank(W, i)
        /\ \A k \in 1 .. Len(argv) : \E e \in W : e < i /\ Rank(W, e) = k - 1 /\ Ended(buf, argv[k], T[e - 1])
    BY <1>1 DEF StoredTo
  <1>6. /\ Len(argv) = Rank(W, j)
        /\ \A k \in 1 .. Len(argv) : \E e \in W : e < j /\ Rank(W, e) = k - 1 /\ Ended(buf', argv[k], T[e - 1])
    BY <1>3, <1>4, <1>5
  <1>. QED
    BY <1>1, <1>6 DEF StoredTo

LEMMA StoredNext ==
  ASSUME SplitInv, NEW i \in Nat, StoredTo(i), i \in WordEnds(src, delim),
         Stands(buf, prev, TextBehind(src, delim)[i - 1]),
         Len(buf) = prev + Len(TextBehind(src, delim)[i - 1]),
         src' = src, delim' = delim, EndWord
  PROVE  StoredTo(i + 1)'
  <1>1. PICK W, T : W = WordEnds(src, delim) /\ T = TextBehind(src, delim)
    OBVIOUS
  <1>2. W \subseteq 1 .. Len(src) + 1 /\ Len(src) + 1 \in Nat /\ \A e \in W : e \in Nat /\ e - 1 \in 0 .. Len(src)
    BY <1>1, LineTyped, EndsInLine
  <1>3. Rank(W, i + 1) = Rank(W, i) + 1 /\ Rank(W, i) \in Nat
    BY <1>1, <1>2, RankOfNext
  <1>4. Nul \in Char /\ argv' = Append(argv, prev) /\ buf' = Append(buf, Nul)
    BY SplitAssumption DEF EndWord
  <1>5. /\ Len(argv') = Len(argv) + 1 /\ \A k \in 1 .. Len(argv) : argv'[k] = argv[k]
        /\ argv'[Len(argv) + 1] = prev
    BY <1>4, LineTyped, AppendProperties
  <1>6. \A k \in 1 .. Len(argv) : \A e \in W : Ended(buf, argv[k], T[e - 1]) => Ended(buf', argv[k], T[e - 1])
    <2>1. SUFFICES ASSUME NEW k \in 1 .. Len(argv), NEW e \in W
                   PROVE  Ended(buf, argv[k], T[e - 1]) => Ended(Append(buf, Nul), argv[k], T[e - 1])
      BY <1>4
    <2>2. argv[k] \in Nat /\ T[e - 1] \in Seq(Char) /\ buf \in Seq(Char)
      <3>1. argv \in Seq(Nat) /\ buf \in Seq(Char) /\ \A f \in 0 .. Len(src) : T[f] \in Seq(Char)
        BY <1>1, LineTyped
      <3>2. e - 1 \in 0 .. Len(src)
        BY <1>2
      <3>3. argv[k] \in Nat
        BY <3>1
      <3>. QED
        BY <3>1, <3>2, <3>3
    <2>. QED
      BY <1>4, <2>2, StaysWritten
  <1>7. Ended(buf', prev, T[i - 1])
    <2>1. T[i - 1] \in Seq(Char) /\ buf \in Seq(Char) /\ prev \in Nat
      BY <1>1, <1>2, LineTyped
    <2>. QED
      BY <1>1, <1>4, <2>1, WritesChar
  <1>8. /\ Len(argv) = Rank(W, i) /\ Len(argv) \in Nat
        /\ \A k \in 1 .. Len(argv) : \E e \in W : e < i /\ Rank(W, e) = k - 1 /\ Ended(buf, argv[k], T[e - 1])
    BY <1>1, LineTyped DEF StoredTo
  <1>9. ASSUME NEW k \in 1 .. Len(argv')
        PROVE  \E e \in W : e < i + 1 /\ Rank(W, e) = k - 1 /\ Ended(buf', argv'[k], T[e - 1])
    <2>1. CASE k \in 1 .. Len(argv)
      <3>1. PICK e \in W : e < i /\ Rank(W, e) = k - 1 /\ Ended(buf, argv[k], T[e - 1])
        BY <1>8, <2>1
      <3>2. Ended(buf', argv'[k], T[e - 1]) /\ e < i + 1
        BY <1>2, <1>5, <1>6, <2>1, <3>1
      <3>. QED
        BY <3>1, <3>2
    <2>2. CASE k = Len(argv) + 1
      <3>1. i < i + 1 /\ Rank(W, i) = k - 1 /\ argv'[k] = prev
        BY <1>5, <1>8, <2>2
      <3>. QED
        BY <1>1, <1>7, <3>1
    <2>. QED
      BY <1>5, <1>8, <2>1, <2>2
  <1>10. Len(argv') = Rank(W, i + 1)
    BY <1>3, <1>5, <1>8
  <1>. QED
    BY <1>1, <1>9, <1>10 DEF StoredTo

(* A step that reads on to j and ends no word.                             *)
LEMMA ReadsOn ==
  ASSUME SplitInv, split = "scan", Reading, NEW j \in at + 1 .. Len(src) + 1, at' = j,
         src' = src, delim' = delim, argv' = argv, prev' = prev,
         \A k \in at .. j - 1 : k \notin Cuts(src, delim),
         \/ buf' = buf /\ TextBehind(src, delim)[j - 1] = TextBehind(src, delim)[at - 1]
         \/ \E c \in Char : /\ buf' = Append(buf, c)
                            /\ TextBehind(src, delim)[j - 1] = Append(TextBehind(src, delim)[at - 1], c),
         mode'.backslash <=> Escaped(src, j), Opened(j - 1)', j <= Len(src) => ~InNumber(src, j)
  PROVE  Reading'
  <1>1. PICK i, T, W : i = at /\ T = TextBehind(src, delim) /\ W = WordEnds(src, delim)
    OBVIOUS
  <1>2. i \in 1 .. Len(src) + 1 /\ Len(src) \in Nat /\ i \in Nat /\ j \in Nat /\ i <= j
    BY <1>1, LineTyped
  <1>3. T[i - 1] \in Seq(Char) /\ buf \in Seq(Char) /\ prev \in Nat
    BY <1>1, <1>2, LineTyped
  <1>4. Stands(buf, prev, T[i - 1]) /\ Len(buf) = prev + Len(T[i - 1]) /\ StoredTo(i)
    BY <1>1 DEF Reading
  <1>5. Stands(buf', prev, T[j - 1]) /\ Len(buf') = prev + Len(T[j - 1])
    <2>1. CASE buf' = buf /\ T[j - 1] = T[i - 1]
      BY <1>4, <2>1
    <2>2. ASSUME NEW c \in Char, buf' = Append(buf, c), T[j - 1] = Append(T[i - 1], c)
          PROVE  Stands(buf', prev, T[j - 1]) /\ Len(buf') = prev + Len(T[j - 1])
      BY <1>3, <1>4, <2>2, WritesChar
    <2>. QED
      BY <1>1, <2>1, <2>2
  <1>6. W \cap (i .. j - 1) = {}
    <2>1. SUFFICES ASSUME NEW e \in W, e \in i .. j - 1 PROVE FALSE
      OBVIOUS
    <2>2. e # Len(src) + 1
      BY <1>2, <2>1
    <2>3. e \in Cuts(src, delim)
      BY <1>1, <2>1, <2>2, LineTyped, EndsInLine
    <2>. QED
      BY <1>1, <2>1, <2>3
  <1>7. StoredTo(j)'
    BY <1>1, <1>2, <1>4, <1>6, StoredStays
  <1>. QED
    BY <1>1, <1>5, <1>7 DEF Reading

(* What the flags become, and stay.                                        *)
LEMMA FlagsKept ==
  ASSUME mode \in Modes
  PROVE  /\ [mode EXCEPT !.backslash = FALSE].dquote = mode.dquote
         /\ [mode EXCEPT !.backslash = FALSE].squote = mode.squote
         /\ [mode EXCEPT !.backslash = TRUE].dquote = mode.dquote
         /\ [mode EXCEPT !.backslash = TRUE].squote = mode.squote
         /\ [mode EXCEPT !.dquote = ~@].dquote = ~mode.dquote
         /\ [mode EXCEPT !.dquote = ~@].squote = mode.squote
         /\ [mode EXCEPT !.squote = ~@].squote = ~mode.squote
         /\ [mode EXCEPT !.squote = ~@].dquote = mode.dquote
         /\ mode.dquote \in BOOLEAN /\ mode.squote \in BOOLEAN
  BY DEF Modes

LEMMA OpenedStays ==
  ASSUME src' = src, NEW i \in Nat, NEW j \in Nat, Opened(i), OpenQuote(src)[j] = OpenQuote(src)[i],
         mode'.dquote = mode.dquote, mode'.squote = mode.squote
  PROVE  Opened(j)'
  BY DEF Opened

(* The line has another character, or has been read.                       *)
LEMMA CurrentChar ==
  ASSUME SplitInv, split = "scan"
  PROVE  \/ at \in 1 .. Len(src) /\ Current = src[at] /\ Current \in Char \ {Nul}
         \/ at = Len(src) + 1 /\ Current = Nul
  BY LineTyped DEF Current

LEMMA NumberReads ==
  ASSUME SplitInv, Reading, Described(src), PlainDelim(delim), EscapedNumber
  PROVE  Reading'
  <1>1. /\ split = "scan" /\ mode.backslash /\ Current \in Digit /\ at' = OctalEnd(src, at)
        /\ mode' = [mode EXCEPT !.backslash = FALSE]
        /\ buf' = Append(buf, OctalChar(src, at))
        /\ UNCHANGED <<src, delim, prev, argv>>
    BY DEF EscapedNumber, Put
  <1>2. at \in 1 .. Len(src) /\ Current = src[at]
    BY <1>1, CurrentChar, SplitAssumption
  <1>3. Escaped(src, at)
    BY <1>1 DEF Reading
  <1>4. src[at] \in Octal
    BY <1>1, <1>2, <1>3 DEF Described
  <1>5. OctalEnd(src, at) \in at .. Len(src) + 1 /\ (\A i \in at .. OctalEnd(src, at) - 1 : src[i] \in Octal)
        /\ (OctalEnd(src, at) <= Len(src) => src[OctalEnd(src, at)] \notin Octal)
    <2>1. src \in Seq(Char) /\ at \in 1 .. Len(src) + 1
      BY <1>2, LineTyped
    <2>2. \E e \in at .. Len(src) + 1 : (\A i \in at .. e - 1 : src[i] \in Octal)
            /\ (e <= Len(src) => src[e] \notin Octal)
      BY <2>1, FirstExists
    <2>. QED
      BY <2>2 DEF OctalEnd
  <1>6. PICK e, i : e = OctalEnd(src, at) /\ i = at
    OBVIOUS
  <1>7. /\ i \in 1 .. Len(src) /\ Escaped(src, i) /\ e \in i .. Len(src) + 1
        /\ \A k \in i .. e - 1 : src[k] \in Octal
        /\ e <= Len(src) => src[e] \notin Octal
    BY <1>2, <1>3, <1>5, <1>6
  <1>8. e \in i + 1 .. Len(src) + 1 /\ Len(src) \in Nat /\ src \in Seq(Char)
    <2>1. e # i
      BY <1>2, <1>4, <1>6, <1>7
    <2>. QED
      BY <1>7, <2>1, LineTyped
  <1>9. /\ \A k \in i .. e - 1 : k \notin Cuts(src, delim)
        /\ OpenQuote(src)[e - 1] = OpenQuote(src)[i - 1]
        /\ TextBehind(src, delim)[e - 1] =
             Append(TextBehind(src, delim)[i - 1], OctalChar(src, i))
        /\ ~Escaped(src, e)
        /\ e <= Len(src) => ~InNumber(src, e)
    BY <1>7, <1>8, ReadsNumber
  <1>10. PICK c \in Char : c = OctalChar(src, i)
    BY OctalTyped
  <1>11. buf' = Append(buf, c) /\ TextBehind(src, delim)[e - 1] = Append(TextBehind(src, delim)[i - 1], c)
    BY <1>1, <1>6, <1>9, <1>10
  <1>12. mode'.backslash = FALSE /\ mode'.dquote = mode.dquote /\ mode'.squote = mode.squote
    BY <1>1, LineTyped, ModeSteps, FlagsKept
  <1>13. Opened(e - 1)'
    <2>1. Opened(i - 1) /\ i - 1 \in Nat /\ e - 1 \in Nat
      BY <1>6, <1>7, <1>8 DEF Reading
    <2>. QED
      BY <1>1, <1>9, <1>12, <2>1, OpenedStays
  <1>. QED
    BY <1>1, <1>6, <1>8, <1>9, <1>11, <1>12, <1>13, ReadsOn

(* What Advance does before the end of the line and at it.                 *)
LEMMA Advanced ==
  ASSUME SplitInv, split = "scan", Advance
  PROVE  /\ at' = at + 1 /\ src' = src /\ delim' = delim
         /\ at \in 1 .. Len(src) => split' = "scan"
         /\ at = Len(src) + 1 => split' = "close"
  <1>1. Len(src) \in Nat
    BY LineTyped
  <1>. QED
    BY <1>1, CurrentChar DEF Advance

(* No number goes on behind a character that is none of its digits.        *)
LEMMA NoNumber ==
  ASSUME SplitInv, split = "scan", Reading, at \in 1 .. Len(src),
         ~Escaped(src, at) \/ src[at] \notin Octal
  PROVE  ~InNumber(src, at + 1)
  <1>1. ~InNumber(src, at) /\ at \in Nat
    BY DEF Reading
  <1>. QED
    BY <1>1, NumbersBegin

LEMMA EscapedReads ==
  ASSUME SplitInv, Reading, Described(src), EscapedChar
  PROVE  Reading' /\ split' = "scan"
  <1>1. /\ split = "scan" /\ mode.backslash /\ Current \notin Digit /\ Advance
        /\ mode' = [mode EXCEPT !.backslash = FALSE]
        /\ buf' = Append(buf, Meaning(Current)) /\ prev' = prev /\ argv' = argv
    BY DEF EscapedChar, Put
  <1>2. PICK i : i = at
    OBVIOUS
  <1>3. Escaped(src, i)
    BY <1>1, <1>2 DEF Reading
  <1>4. i \in 1 .. Len(src) /\ Current = src[i] /\ src[i] \notin Octal /\ src \in Seq(Char) /\ Len(src) \in Nat
    <2>1. i # Len(src) + 1
      BY <1>3 DEF Described
    <2>. QED
      BY <1>1, <1>2, <2>1, CurrentChar, LineTyped, SplitAssumption
  <1>5. at' = i + 1 /\ src' = src /\ delim' = delim /\ split' = "scan"
    BY <1>1, <1>2, <1>4, Advanced
  <1>6. /\ i \notin Cuts(src, delim) /\ ~Escaped(src, i + 1) /\ OpenQuote(src)[i] = OpenQuote(src)[i - 1]
        /\ TextBehind(src, delim)[i] = Append(TextBehind(src, delim)[i - 1], Meaning(src[i]))
    BY <1>3, <1>4, ReadsEscaped
  <1>7. Meaning(src[i]) \in Char
    BY <1>4, SplitAssumption DEF Meaning
  <1>8. mode'.backslash = FALSE /\ mode'.dquote = mode.dquote /\ mode'.squote = mode.squote
    BY <1>1, LineTyped, ModeSteps, FlagsKept
  <1>9. Opened(i)'
    <2>1. Opened(i - 1) /\ i - 1 \in Nat /\ i \in Nat
      BY <1>2, <1>4 DEF Reading
    <2>. QED
      BY <1>5, <1>6, <1>8, <2>1, OpenedStays
  <1>10. ~InNumber(src, i + 1)
    BY <1>1, <1>2, <1>4, NoNumber
  <1>11. /\ i + 1 \in i + 1 .. Len(src) + 1 /\ (i + 1) - 1 = i
         /\ \A k \in i .. (i + 1) - 1 : k = i
    BY <1>4
  <1>12. Reading'
    <2>1. PICK j : j = i + 1
      OBVIOUS
    <2>2. j - 1 = i /\ j \in i + 1 .. Len(src) + 1 /\ \A k \in i .. j - 1 : k \notin Cuts(src, delim)
      BY <1>6, <1>11, <2>1
    <2>. QED
      BY <1>1, <1>2, <1>4, <1>5, <1>6, <1>7, <1>8, <1>9, <1>10, <2>1, <2>2, ReadsOn
  <1>. QED
    BY <1>5, <1>12

LEMMA EscapeReads ==
  ASSUME SplitInv, Reading, PlainDelim(delim), Escape
  PROVE  Reading' /\ split' = "scan"
  <1>1. /\ split = "scan" /\ ~mode.backslash /\ Current = Backslash /\ Advance
        /\ mode' = [mode EXCEPT !.backslash = TRUE]
        /\ buf' = buf /\ prev' = prev /\ argv' = argv
    BY DEF Escape
  <1>2. PICK i : i = at
    OBVIOUS
  <1>3. ~Escaped(src, i)
    BY <1>1, <1>2 DEF Reading
  <1>4. i \in 1 .. Len(src) /\ src[i] = Backslash /\ src \in Seq(Char) /\ Len(src) \in Nat
    BY <1>1, <1>2, CurrentChar, LineTyped, MarksDiffer DEF Marks
  <1>5. at' = i + 1 /\ src' = src /\ delim' = delim /\ split' = "scan"
    BY <1>1, <1>2, <1>4, Advanced
  <1>6. /\ i \notin Cuts(src, delim) /\ Escaped(src, i + 1) /\ OpenQuote(src)[i] = OpenQuote(src)[i - 1]
        /\ TextBehind(src, delim)[i] = TextBehind(src, delim)[i - 1]
    BY <1>3, <1>4, ReadsBackslash
  <1>8. mode'.backslash = TRUE /\ mode'.dquote = mode.dquote /\ mode'.squote = mode.squote
    BY <1>1, LineTyped, ModeSteps, FlagsKept
  <1>9. Opened(i)'
    <2>1. Opened(i - 1) /\ i - 1 \in Nat /\ i \in Nat
      BY <1>2, <1>4 DEF Reading
    <2>. QED
      BY <1>5, <1>6, <1>8, <2>1, OpenedStays
  <1>10. ~InNumber(src, i + 1)
    BY <1>1, <1>2, <1>3, <1>4, NoNumber
  <1>11. /\ i + 1 \in i + 1 .. Len(src) + 1 /\ (i + 1) - 1 = i
         /\ \A k \in i .. (i + 1) - 1 : k = i
    BY <1>4
  <1>12. Reading'
    <2>1. PICK j : j = i + 1
      OBVIOUS
    <2>2. j - 1 = i /\ j \in i + 1 .. Len(src) + 1 /\ \A k \in i .. j - 1 : k \notin Cuts(src, delim)
      BY <1>6, <1>11, <2>1
    <2>. QED
      BY <1>1, <1>2, <1>4, <1>5, <1>6, <1>8, <1>9, <1>10, <2>1, <2>2, ReadsOn
  <1>. QED
    BY <1>5, <1>12

(* A quote changes its own flag, and what is open.                         *)
LEMMA QuoteReads ==
  ASSUME SplitInv, Reading, PlainDelim(delim), Quote
  PROVE  Reading' /\ split' = "scan"
  <1>1. /\ split = "scan" /\ ~mode.backslash /\ IsQuote /\ Advance
        /\ mode' = (IF Current = DoubleQuote THEN [mode EXCEPT !.dquote = ~@]
                                             ELSE [mode EXCEPT !.squote = ~@])
        /\ buf' = buf /\ prev' = prev /\ argv' = argv
    BY DEF Quote
  <1>2. PICK i : i = at
    OBVIOUS
  <1>3. ~Escaped(src, i)
    BY <1>1, <1>2 DEF Reading
  <1>4. /\ i \in 1 .. Len(src) /\ src[i] = Current /\ src \in Seq(Char) /\ Len(src) \in Nat
        /\ Current \in {DoubleQuote, SingleQuote}
    BY <1>1, <1>2, CurrentChar, LineTyped, MarksDiffer DEF Marks, IsQuote
  <1>5. at' = i + 1 /\ src' = src /\ delim' = delim /\ split' = "scan"
    BY <1>1, <1>2, <1>4, Advanced
  <1>6. /\ OpenQuote(src)[i - 1] \in Quotes
        /\ mode.dquote <=> OpenQuote(src)[i - 1] = DoubleQuote
        /\ mode.squote <=> OpenQuote(src)[i - 1] = SingleQuote
    <2>1. i - 1 \in 0 .. Len(src)
      BY <1>4
    <2>. QED
      BY <1>2, <2>1, LineTyped DEF Reading, Opened
  <1>7. OpenQuote(src)[i - 1] \in {Nul, src[i]}
    BY <1>1, <1>4, <1>6 DEF IsQuote, Quotes
  <1>8. /\ i \notin Cuts(src, delim) /\ ~Escaped(src, i + 1)
        /\ OpenQuote(src)[i] = (IF OpenQuote(src)[i - 1] = Nul THEN src[i] ELSE Nul)
        /\ TextBehind(src, delim)[i] = TextBehind(src, delim)[i - 1]
    BY <1>3, <1>4, <1>7, ReadsQuote
  <1>9. /\ mode'.backslash = mode.backslash
        /\ Current = DoubleQuote => mode'.dquote = ~mode.dquote /\ mode'.squote = mode.squote
        /\ Current = SingleQuote => mode'.squote = ~mode.squote /\ mode'.dquote = mode.dquote
        /\ mode.dquote \in BOOLEAN /\ mode.squote \in BOOLEAN
    BY <1>1, LineTyped, ModeSteps, FlagsKept, MarksDiffer
  <1>10. Opened(i)'
    <2>1. PICK q, r : q = OpenQuote(src)[i - 1] /\ r = OpenQuote(src)[i]
      OBVIOUS
    <2>2. CASE Current = DoubleQuote
      <3>1. (mode'.dquote <=> r = DoubleQuote) /\ (mode'.squote <=> r = SingleQuote)
        BY <1>4, <1>6, <1>7, <1>8, <1>9, <2>1, <2>2, MarksDiffer DEF Marks, Quotes
      <3>. QED
        BY <1>5, <2>1, <3>1 DEF Opened
    <2>3. CASE Current = SingleQuote
      <3>1. (mode'.dquote <=> r = DoubleQuote) /\ (mode'.squote <=> r = SingleQuote)
        BY <1>4, <1>6, <1>7, <1>8, <1>9, <2>1, <2>3, MarksDiffer DEF Marks, Quotes
      <3>. QED
        BY <1>5, <2>1, <3>1 DEF Opened
    <2>. QED
      BY <1>4, <2>2, <2>3
  <1>11. ~InNumber(src, i + 1)
    BY <1>1, <1>2, <1>3, <1>4, NoNumber
  <1>12. Reading'
    <2>1. PICK j : j = i + 1
      OBVIOUS
    <2>2. j - 1 = i /\ j \in i + 1 .. Len(src) + 1 /\ \A k \in i .. j - 1 : k \notin Cuts(src, delim)
      BY <1>4, <1>8, <2>1
    <2>. QED
      BY <1>1, <1>2, <1>5, <1>8, <1>9, <1>10, <1>11, <2>1, <2>2, ReadsOn
  <1>. QED
    BY <1>5, <1>12

(* What is copied: at the end of the line, inside a quote, it is the Nul.  *)
LEMMA CopyReads ==
  ASSUME SplitInv, Reading, PlainDelim(delim), CopyChar
  PROVE  \/ Reading' /\ split' = "scan"
         \/ ReadAll' /\ split' = "close"
  <1>1. /\ split = "scan" /\ ~mode.backslash /\ ~Special /\ Advance
        /\ Quoted \/ ~Delimits(Current)
        /\ mode' = mode
        /\ buf' = Append(buf, Current) /\ prev' = prev /\ argv' = argv
    BY DEF CopyChar, Put
  <1>2. PICK i : i = at
    OBVIOUS
  <1>3. ~Escaped(src, i)
    BY <1>1, <1>2 DEF Reading
  <1>4. Len(src) \in Nat /\ src \in Seq(Char)
    BY LineTyped
  <1>5. CASE i \in 1 .. Len(src)
    <2>1. Current = src[i] /\ src[i] \in Char \ {Nul}
      BY <1>1, <1>2, <1>4, <1>5, CurrentChar
    <2>2. at' = i + 1 /\ src' = src /\ delim' = delim /\ split' = "scan"
      BY <1>1, <1>2, <1>5, Advanced
    <2>3. /\ OpenQuote(src)[i - 1] \in Quotes
          /\ mode.dquote <=> OpenQuote(src)[i - 1] = DoubleQuote
          /\ mode.squote <=> OpenQuote(src)[i - 1] = SingleQuote
      <3>1. i - 1 \in 0 .. Len(src)
        BY <1>4, <1>5
      <3>. QED
        BY <1>2, <3>1, LineTyped DEF Reading, Opened
    <2>4. /\ src[i] # Backslash
          /\ src[i] \in {DoubleQuote, SingleQuote} => OpenQuote(src)[i - 1] \notin {Nul, src[i]}
      BY <1>1, <2>1, <2>3, MarksDiffer DEF Special, IsQuote, Marks
    <2>5. OpenQuote(src)[i - 1] # Nul \/ src[i] \notin Delims(delim)
      BY <1>1, <2>1, <2>3, MarksDiffer DEF Quoted, Delimits, Delims, Marks
    <2>6. ~InNumber(src, i)
      BY <1>2, <1>4, <1>5 DEF Reading
    <2>7. /\ i \notin Cuts(src, delim) /\ ~Escaped(src, i + 1)
          /\ OpenQuote(src)[i] = OpenQuote(src)[i - 1]
          /\ TextBehind(src, delim)[i] = Append(TextBehind(src, delim)[i - 1], src[i])
      BY <1>3, <1>4, <1>5, <2>4, <2>5, <2>6, ReadsOther
    <2>8. Opened(i)'
      <3>1. Opened(i - 1) /\ i - 1 \in Nat /\ i \in Nat
        BY <1>2, <1>5 DEF Reading
      <3>. QED
        BY <1>1, <2>2, <2>7, <3>1, OpenedStays
    <2>9. ~InNumber(src, i + 1)
      BY <1>1, <1>2, <1>3, <1>5, NoNumber
    <2>10. Reading'
      <3>1. PICK j : j = i + 1
        OBVIOUS
      <3>2. j - 1 = i /\ j \in i + 1 .. Len(src) + 1 /\ \A k \in i .. j - 1 : k \notin Cuts(src, delim)
        BY <1>4, <1>5, <2>7, <3>1
      <3>. QED
        BY <1>1, <1>2, <2>1, <2>2, <2>7, <2>8, <2>9, <3>1, <3>2, ReadsOn
    <2>. QED
      BY <2>2, <2>10
  <1>6. CASE i = Len(src) + 1
    <2>1. Current = Nul /\ Delimits(Nul)
      BY <1>1, <1>2, <1>4, <1>6, CurrentChar DEF Delimits
    <2>2. Quoted
      BY <1>1, <2>1
    <2>3. at' = i + 1 /\ src' = src /\ delim' = delim /\ split' = "close"
      BY <1>1, <1>2, <1>6, Advanced
    <2>4. Opened(Len(src))
      <3>1. i - 1 = Len(src)
        BY <1>4, <1>6
      <3>. QED
        BY <1>2, <3>1 DEF Reading
    <2>5. Quoted'
      BY <1>1, <2>2 DEF Quoted
    <2>6. PICK n : n = Len(src)
      OBVIOUS
    <2>7. Len(src') = n /\ Opened(n)'
      BY <1>1, <2>3, <2>4, <2>6 DEF Opened
    <2>8. ReadAll'
      BY <2>5, <2>7 DEF ReadAll, Opened
    <2>. QED
      BY <2>3, <2>8
  <1>. QED
    BY <1>1, <1>2, <1>5, <1>6, CurrentChar

(* A delimiter, or the Nul outside of quotes: a word ends here, if there   *)
(* is one.                                                                 *)
LEMMA DelimiterReads ==
  ASSUME SplitInv, Reading, PlainDelim(delim), Delimiter
  PROVE  \/ Reading' /\ split' = "scan"
         \/ ReadAll' /\ split' = "close"
  <1>1. /\ split = "scan" /\ ~mode.backslash /\ ~Special /\ ~Quoted /\ Delimits(Current)
        /\ mode' = mode /\ Advance
        /\ EmptyElided => buf' = buf /\ prev' = prev /\ argv' = argv
        /\ ~EmptyElided => EndWord
    BY DEF Delimiter
  <1>2. PICK i, t : i = at /\ t = TextBehind(src, delim)[i - 1]
    OBVIOUS
  <1>3. /\ i \in 1 .. Len(src) + 1 /\ Len(src) \in Nat /\ src \in Seq(Char) /\ i \in Nat
        /\ buf \in Seq(Char) /\ prev \in Nat /\ t \in Seq(Char) /\ i - 1 \in 0 .. Len(src)
        /\ OpenQuote(src)[i - 1] \in Quotes /\ Len(t) \in Nat
    BY <1>1, <1>2, LineTyped
  <1>4. /\ ~Escaped(src, i) /\ Opened(i - 1) /\ Stands(buf, prev, t) /\ Len(buf) = prev + Len(t)
        /\ StoredTo(i)
    BY <1>1, <1>2 DEF Reading
  <1>5. OpenQuote(src)[i - 1] = Nul
    BY <1>1, <1>3, <1>4 DEF Opened, Quoted, Quotes
  <1>6. at' = i + 1 /\ src' = src /\ delim' = delim
    BY <1>1, <1>2, Advanced
  <1>7. EmptyElided <=> delim = NoDelim /\ t = <<>>
    <2>1. t = <<>> <=> Len(t) = 0
      BY <1>3
    <2>. QED
      BY <1>3, <1>4, <2>1 DEF EmptyElided, EmptyWord
  <1>8. ASSUME i \in Cuts(src, delim) \cup {Len(src) + 1}
        PROVE  StoredTo(i + 1)' /\ Len(buf') = prev'
    <2>1. i \in WordEnds(src, delim) <=> ~EmptyElided
      BY <1>2, <1>3, <1>7, <1>8, EndsInLine
    <2>2. CASE EmptyElided
      <3>1. PICK j \in Nat : j = i + 1 /\ i <= j
        BY <1>3
      <3>2. WordEnds(src, delim) \cap (i .. j - 1) = {}
        <4>1. \A k \in i .. j - 1 : k = i
          BY <1>3, <3>1
        <4>. QED
          BY <2>1, <2>2, <4>1
      <3>3. StoredTo(j)'
        BY <1>1, <1>3, <1>4, <1>6, <2>2, <3>1, <3>2, StoredStays
      <3>4. Len(buf) = prev
        BY <2>2 DEF EmptyElided, EmptyWord
      <3>. QED
        BY <1>1, <2>2, <3>1, <3>3, <3>4
    <2>3. CASE ~EmptyElided
      <3>1. StoredTo(i + 1)'
        BY <1>1, <1>2, <1>3, <1>4, <1>6, <2>1, <2>3, StoredNext
      <3>2. buf' = Append(buf, Nul) /\ prev' = Len(buf) + 1
        BY <1>1, <2>3 DEF EndWord
      <3>3. Len(buf') = prev'
        BY <1>3, <3>2, SplitAssumption, AppendProperties
      <3>. QED
        BY <3>1, <3>3
    <2>. QED
      BY <2>2, <2>3
  <1>9. CASE i \in 1 .. Len(src)
    <2>1. Current = src[i] /\ src[i] \in Char \ {Nul} /\ split' = "scan"
      BY <1>1, <1>2, <1>3, <1>9, CurrentChar, Advanced
    <2>2. src[i] \in Delims(delim)
      BY <1>1, <2>1 DEF Delimits, Delims
    <2>3. /\ i \in Cuts(src, delim) /\ ~Escaped(src, i + 1)
          /\ OpenQuote(src)[i] = OpenQuote(src)[i - 1]
          /\ TextBehind(src, delim)[i] = <<>>
      BY <1>3, <1>4, <1>5, <1>9, <2>2, ReadsDelimiter
    <2>4. Opened(i)'
      <3>1. Opened(i - 1) /\ i - 1 \in Nat /\ i \in Nat
        BY <1>3, <1>4
      <3>. QED
        BY <1>1, <1>6, <2>3, <3>1, OpenedStays
    <2>5. ~InNumber(src, i + 1)
      BY <1>1, <1>2, <1>4, <1>9, NoNumber
    <2>6. buf' \in Seq(Char) /\ Len(buf') \in Nat /\ Len(buf') = prev'
      <3>1. EmptyElided => buf' = buf
        BY <1>1
      <3>2. ~EmptyElided => buf' = Append(buf, Nul)
        BY <1>1 DEF EndWord
      <3>3. Append(buf, Nul) \in Seq(Char)
        <4>1. Nul \in Char /\ buf \in Seq(Char)
          BY <1>3, SplitAssumption
        <4>. QED
          BY <4>1, AppendProperties
      <3>4. buf' \in Seq(Char)
        BY <1>3, <3>1, <3>2, <3>3
      <3>. QED
        BY <1>8, <2>3, <3>4
    <2>7. Stands(buf', prev', <<>>) /\ Len(buf') = prev' + Len(<<>>)
      BY <2>6 DEF Stands
    <2>8. StoredTo(i + 1)'
      BY <1>8, <2>3
    <2>9. Reading'
      <3>1. PICK j : j = i + 1
        OBVIOUS
      <3>2. at' = j /\ j - 1 = i
        BY <1>3, <1>6, <3>1
      <3>3. (mode'.backslash <=> Escaped(src, j)) /\ ~InNumber(src, j) /\ StoredTo(j)'
        BY <1>1, <2>3, <2>5, <2>8, <3>1
      <3>. QED
        BY <1>6, <2>3, <2>4, <2>7, <3>2, <3>3 DEF Reading
    <2>. QED
      BY <2>1, <2>9
  <1>10. CASE i = Len(src) + 1
    <2>1. split' = "close"
      BY <1>1, <1>2, <1>10, Advanced
    <2>2. PICK n : n = Len(src)
      OBVIOUS
    <2>3. i - 1 = n /\ i + 1 = n + 2 /\ Len(src') = n
      BY <1>3, <1>6, <1>10, <2>2
    <2>4. Opened(n)'
      BY <1>1, <1>4, <1>6, <2>3 DEF Opened
    <2>5. StoredTo(n + 2)' /\ Len(buf') = prev'
      BY <1>8, <1>10, <2>3
    <2>6. ReadAll'
      BY <2>3, <2>4, <2>5 DEF ReadAll
    <2>. QED
      BY <2>1, <2>6
  <1>. QED
    BY <1>3, <1>9, <1>10

LEMMA DocInductive == SplitInv /\ DocInv /\ [SplitNext]_splitVars => DocInv'
  <1> SUFFICES ASSUME SplitInv, DocInv, [SplitNext]_splitVars PROVE DocInv'
    OBVIOUS
  <1>1. CASE \E line \in Seq(Char \ {Nul}), d \in {NoDelim} \cup SUBSET Char : BreakArgs(line, d)
    <2>1. PICK line \in Seq(Char \ {Nul}), d \in {NoDelim} \cup SUBSET Char : BreakArgs(line, d)
      BY <1>1
    <2>2. /\ src' = line /\ delim' = d /\ at' = 1 /\ buf' = <<>> /\ prev' = 0 /\ argv' = <<>>
          /\ mode' = NoMode /\ split' = "scan"
      BY <2>1 DEF BreakArgs
    <2>3. line \in Seq(Char)
      BY <2>1
    <2>4. OpenQuote(line)[0] = Nul /\ TextBehind(line, d)[0] = <<>>
      BY <2>3, QuotesInTurn, TextsInTurn
    <2>5. ~Escaped(line, 1) /\ ~InNumber(line, 1)
      BY FirstIsNotEscaped DEF InNumber
    <2>6. Rank(WordEnds(line, d), 1) = 0
      <3>1. \A e \in WordEnds(line, d) : ~(e < 1)
        BY <2>3, EndsInLine
      <3>2. {e \in WordEnds(line, d) : e < 1} = {}
        BY <3>1
      <3>. QED
        BY <3>2, FS_EmptySet DEF Rank
    <2>7. StoredTo(1)'
      BY <2>2, <2>6 DEF StoredTo
    <2>8. Opened(0)'
      BY <2>2, <2>4, MarksDiffer DEF Opened, NoMode, Marks
    <2>9. Stands(<<>>, 0, <<>>) /\ Len(<<>>) = 0 + Len(<<>>)
      BY DEF Stands
    <2>10. mode'.backslash = FALSE
      BY <2>2 DEF NoMode
    <2>11. Reading'
      <3>1. PICK i, j : i = 1 /\ j = 0
        OBVIOUS
      <3>2. i - 1 = j /\ at' = i /\ StoredTo(i)' /\ Opened(j)'
        BY <2>2, <2>7, <2>8, <3>1
      <3>. QED
        BY <2>2, <2>4, <2>5, <2>9, <2>10, <3>1, <3>2 DEF Reading
    <2>. QED
      BY <2>2, <2>11 DEF DocInv
  <1>2. CASE FreeArgs \/ NoMemory
    BY <1>2 DEF FreeArgs, NoMemory, DocInv
  <1>3. CASE splitVars' = splitVars
    BY <1>3 DEF splitVars, DocInv, Reading, ReadAll, Opened, StoredTo, Quoted
  <1>4. CASE Unbalanced \/ Finish
    <2>1. SUFFICES ASSUME Described(src'), PlainDelim(delim')
                   PROVE  /\ split' = "scan" => Reading'
                          /\ split' \in {"close", "done", "error"} => ReadAll'
                          /\ split' = "done" => ~Quoted'
                          /\ split' = "error" => Quoted'
      BY DEF DocInv
    <2>2. /\ split = "close" /\ src' = src /\ delim' = delim /\ mode' = mode
          /\ Unbalanced => Quoted /\ split' = "error" /\ UNCHANGED <<buf, prev, argv>>
          /\ Finish => ~Quoted /\ split' = "done" /\ (EmptyWord => UNCHANGED <<buf, prev, argv>>)
      BY <1>4 DEF Unbalanced, Finish
    <2>3. ReadAll
      BY <2>1, <2>2 DEF DocInv
    <2>4. UNCHANGED <<buf, prev, argv>>
      BY <1>4, <2>2, <2>3 DEF ReadAll, EmptyWord
    <2>5. ReadAll' /\ (Quoted' <=> Quoted)
      BY <2>2, <2>3, <2>4 DEF ReadAll, Opened, StoredTo, Quoted
    <2>. QED
      BY <1>4, <2>2, <2>5
  <1>5. CASE EscapedNumber \/ EscapedChar \/ Escape \/ Quote \/ Delimiter \/ CopyChar
    <2>1. SUFFICES ASSUME Described(src'), PlainDelim(delim')
                   PROVE  (Reading' /\ split' = "scan") \/ (ReadAll' /\ split' = "close")
      BY DEF DocInv
    <2>2. split = "scan" /\ src' = src /\ delim' = delim
      BY <1>5 DEF EscapedNumber, EscapedChar, Escape, Quote, Delimiter, CopyChar, Advance
    <2>3. Described(src) /\ PlainDelim(delim) /\ Reading
      BY <2>1, <2>2 DEF DocInv
    <2>4. CASE EscapedNumber
      <3>1. split' = "scan"
        BY <2>2, <2>4 DEF EscapedNumber
      <3>2. Reading'
        BY <2>3, <2>4, NumberReads
      <3>. QED
        BY <3>1, <3>2
    <2>5. CASE EscapedChar
      BY <2>3, <2>5, EscapedReads
    <2>6. CASE Escape
      BY <2>3, <2>6, EscapeReads
    <2>7. CASE Quote
      BY <2>3, <2>7, QuoteReads
    <2>8. CASE Delimiter
      BY <2>3, <2>8, DelimiterReads
    <2>9. CASE CopyChar
      BY <2>3, <2>9, CopyReads
    <2>. QED
      BY <1>5, <2>4, <2>5, <2>6, <2>7, <2>8, <2>9
  <1>. QED
    BY <1>1, <1>2, <1>3, <1>4, <1>5 DEF SplitNext, SplitStep

(* A line that has been read was split into the words of the comment.      *)
LEMMA DocWordsStored ==
  ASSUME SplitInv, DocInv, PlainDelim(delim)
  PROVE  SplitAsDescribed
  <1>1. SUFFICES ASSUME split \in {"done", "error"}, Described(src)
                 PROVE  IF split = "error" THEN OpenQuote(src)[Len(src)] # Nul
                        ELSE /\ OpenQuote(src)[Len(src)] = Nul
                             /\ Words = [i \in DOMAIN DocWords(src, delim) |->
                                           UpToNul(DocWords(src, delim)[i])]
    BY DEF SplitAsDescribed
  <1>2. PICK n, W, T : n = Len(src) /\ W = WordEnds(src, delim) /\ T = TextBehind(src, delim)
    OBVIOUS
  <1>3. /\ n \in Nat /\ src \in Seq(Char) /\ buf \in Seq(Char) /\ argv \in Seq(Nat) /\ Len(argv) \in Nat
        /\ OpenQuote(src)[n] \in Quotes
        /\ \A i \in 0 .. n : T[i] \in Seq(Char)
    BY <1>2, LineTyped
  <1>4. /\ Opened(n) /\ (Quoted \/ StoredTo(n + 2))
        /\ split = "done" => ~Quoted
        /\ split = "error" => Quoted
    BY <1>1, <1>2 DEF DocInv, ReadAll
  <1>5. CASE split = "error"
    <2>1. OpenQuote(src)[n] # Nul
      BY <1>4, <1>5, MarksDiffer DEF Opened, Quoted, Marks
    <2>. QED
      BY <1>2, <1>5, <2>1
  <1>6. CASE split = "done"
    <2>1. OpenQuote(src)[n] = Nul
      BY <1>3, <1>4, <1>6 DEF Opened, Quoted, Quotes
    <2>2. /\ Len(argv) = Rank(W, n + 2)
          /\ \A k \in 1 .. Len(argv) : \E e \in W :
               Rank(W, e) = k - 1 /\ Ended(buf, argv[k], T[e - 1])
      BY <1>2, <1>4, <1>6 DEF StoredTo
    <2>3. W \subseteq 1 .. n + 1 /\ n + 1 \in Nat /\ \A e \in W : e - 1 \in 0 .. n /\ e < n + 2
      <3>1. W \subseteq 1 .. n + 1
        BY <1>2, <1>3, EndsInLine
      <3>. QED
        BY <1>3, <3>1
    <2>4. Rank(W, n + 2) = Cardinality(W)
      <3>1. {f \in W : f < n + 2} = W
        BY <2>3
      <3>. QED
        BY <3>1 DEF Rank
    <2>5. DocWords(src, delim) =
            [k \in 1 .. Len(argv) |-> T[(CHOOSE e \in W : Rank(W, e) = k - 1) - 1]]
      BY <1>2, <2>2, <2>4 DEF DocWords
    <2>6. ASSUME NEW k \in 1 .. Len(argv)
          PROVE  CString(argv[k]) = UpToNul(DocWords(src, delim)[k])
      <3>1. PICK e \in W : Rank(W, e) = k - 1 /\ Ended(buf, argv[k], T[e - 1])
        BY <2>2
      <3>2. \A f \in W : Rank(W, f) = k - 1 => f = e
        <4>1. SUFFICES ASSUME NEW f \in W, Rank(W, f) = k - 1, f # e PROVE FALSE
          OBVIOUS
        <4>2. f < e \/ e < f
          BY <2>3, <4>1
        <4>. QED
          BY <2>3, <3>1, <4>1, <4>2, RanksDiffer
      <3>3. (CHOOSE f \in W : Rank(W, f) = k - 1) = e
        BY <3>1, <3>2
      <3>4. DocWords(src, delim)[k] = T[e - 1]
        BY <2>5, <3>3
      <3>5. T[e - 1] \in Seq(Char) /\ argv[k] \in Nat
        BY <1>3, <2>3
      <3>. QED
        BY <1>3, <3>1, <3>4, <3>5, SeesWord
    <2>7. DOMAIN argv = 1 .. Len(argv) /\ DOMAIN DocWords(src, delim) = 1 .. Len(argv)
      BY <1>3, <2>5
    <2>8. Words = [i \in DOMAIN DocWords(src, delim) |-> UpToNul(DocWords(src, delim)[i])]
      BY <2>6, <2>7 DEF Words
    <2>. QED
      BY <1>2, <1>6, <2>1, <2>8
  <1>. QED
    BY <1>1, <1>5, <1>6

(* The delimiters are those of the call, or none.                          *)
LEMMA DelimsPlain ==
  ASSUME \A l \in LibraryCalls : PlainDelim(l.delim), StartInv, PlainDelim(delim), [Next]_vars
  PROVE  PlainDelim(delim')
  <1>1. PlainDelim(NoDelim)
    BY DEF PlainDelim
  <1>2. CASE MountLine
    <2>1. delim' = NoDelim
      BY <1>2 DEF MountLine, BreakArgs
    <2>. QED
      BY <1>1, <2>1
  <1>3. CASE ParseLine
    <2>1. \E l \in LibraryCalls : delim' = l.delim
      BY <1>3 DEF ParseLine, BreakArgs
    <2>. QED
      BY <2>1
  <1>4. CASE MountNotSplit \/ MountLineEnds \/ LineParsed
    <2>1. delim' = NoDelim
      BY <1>4 DEF MountNotSplit, MountLineEnds, LineParsed, FreeArgs
    <2>. QED
      BY <1>1, <2>1
  <1>5. CASE Split
    <2>1. delim' = delim
      BY <1>5 DEF Split, SplitStep, NoMemory, EscapedNumber, EscapedChar, Escape, Quote, Delimiter,
                  CopyChar, Unbalanced, Finish, Advance
    <2>. QED
      BY <2>1
  <1>6. CASE ~(MountLine \/ ParseLine \/ Split \/ MountNotSplit \/ MountLineEnds \/ LineParsed)
    <2>1. UNCHANGED splitVars
      BY <1>6 DEF Next, vars, Parse, MainParse, MainEnds, MainRuns, MainShell, TestEnds, Mount, MountFails,
         Connected, MountCall, MountReply, GetattrReply, Testing, ShellEnds, OtherLine, MountSplit,
         ParseWords, Exit
    <2>. QED
      BY <2>1 DEF splitVars
  <1>. QED
    BY <1>2, <1>3, <1>4, <1>5, <1>6

(* clp_breakargs splits every line into the words the comment above it     *)
(* describes, and fails if and only if a quote is left open: whatever the  *)
(* line, with isspace() or with delimiters that are no quotes, backslashes *)
(* or octal digits, and whichever letters have a meaning behind a          *)
(* backslash.                                                              *)
THEOREM SplitsAsDescribed ==
  ASSUME \A l \in LibraryCalls : PlainDelim(l.delim)
  PROVE  Spec => []SplitAsDescribed
  <1> DEFINE Inv == DocInv /\ PlainDelim(delim)
  <1>1. Init => Inv
    BY DEF Init, SplitInit, DocInv, PlainDelim
  <1>2. StartupInv /\ Inv /\ [Next]_vars => Inv'
    <2> SUFFICES ASSUME StartupInv, Inv, [Next]_vars PROVE Inv'
      OBVIOUS
    <2>1. StartInv /\ SplitInv
      BY DEF StartupInv
    <2>2. DocInv'
      BY <2>1, SplitMoves, DocInductive
    <2>3. PlainDelim(delim)'
      BY <2>1, DelimsPlain DEF PlainDelim
    <2>. QED
      BY <2>2, <2>3
  <1>3. StartupInv /\ Inv => SplitAsDescribed
    BY DocWordsStored DEF StartupInv
  <1>. HIDE DEF Inv
  <1>. QED
    BY <1>1, <1>2, <1>3, StartupAlways, PTL DEF Spec

=============================================================================
