------------------------------ MODULE SplitDoc ------------------------------
(***************************************************************************)
(* The words of a line as the comment above clp_breakargs describes them,  *)
(* said of the line as a whole and not of a pass over it.                  *)
(***************************************************************************)
EXTENDS ArgSplit, FiniteSets

(* A backslash escapes what follows it unless it is escaped itself: what   *)
(* follows an odd number of them is escaped.                               *)
Escaped(s, i) ==
  \E n \in 1 .. i - 1 :
    /\ n % 2 = 1
    /\ \A k \in i - n .. i - 1 : s[k] = Backslash
    /\ n < i - 1 => s[i - n - 1] # Backslash

(* The quote that is open behind the first i characters, or Nul.           *)
OpenQuote(s) ==
  LET open[i \in 0 .. Len(s)] ==
        IF i = 0 THEN Nul
        ELSE IF Escaped(s, i) \/ s[i] \notin {DoubleQuote, SingleQuote} THEN open[i - 1]
        ELSE IF open[i - 1] = Nul THEN s[i]
        ELSE IF open[i - 1] = s[i] THEN Nul
        ELSE open[i - 1]
  IN  open

(* The positions of the delimiters that have not lost their significance.  *)
Cuts(s, d) ==
  {i \in 1 .. Len(s) : /\ ~Escaped(s, i) /\ OpenQuote(s)[i - 1] = Nul
                       /\ s[i] \in IF d = NoDelim THEN Space ELSE d}

(* What becomes of the character at i: marks are dropped, an escaped       *)
(* number is one character.                                                *)
InNumber(s, i) == \E j \in 1 .. i - 1 : Escaped(s, j) /\ \A k \in j .. i : s[k] \in Octal

Image(s, i) ==
  CASE Escaped(s, i) /\ s[i] \in Octal   -> <<OctalChar(s, i)>>
    [] Escaped(s, i) /\ s[i] \notin Octal -> <<Meaning(s[i])>>
    [] OTHER -> IF \/ s[i] = Backslash
                   \/ OpenQuote(s)[i] # OpenQuote(s)[i - 1]
                   \/ InNumber(s, i)
                THEN <<>> ELSE <<s[i]>>

(* What stands behind the last delimiter, up to each position.             *)
TextBehind(s, d) ==
  LET text[i \in 0 .. Len(s)] ==
        IF i = 0 THEN <<>> ELSE IF i \in Cuts(s, d) THEN <<>> ELSE text[i - 1] \o Image(s, i)
  IN  text

(* Where words end: at a delimiter and at the end of the line, the empty   *)
(* ones only with delim.                                                   *)
WordEnds(s, d) ==
  LET text == TextBehind(s, d)
  IN  {e \in Cuts(s, d) \cup {Len(s) + 1} : d # NoDelim \/ text[e - 1] # <<>>}

(* The place from 0 on that e has in a set of positions.                   *)
Rank(ends, e) == Cardinality({f \in ends : f < e})

DocWords(s, d) ==
  LET text == TextBehind(s, d)
      ends == WordEnds(s, d)
  IN  [k \in 1 .. Cardinality(ends) |-> text[(CHOOSE e \in ends : Rank(ends, e) = k - 1) - 1]]

(* What the comment does not speak of: \8 and \9 give a Nul and the digit, *)
(* and a backslash at the end gives a Nul.                                 *)
Described(s) ==
  /\ ~Escaped(s, Len(s) + 1)
  /\ \A i \in 1 .. Len(s) : Escaped(s, i) => s[i] \notin Digit \ Octal

-----------------------------------------------------------------------------
(* The word that starts at p in the buffer: what a C program sees of it.   *)
CString(p) ==
  SubSeq(buf, p + 1, (CHOOSE e \in p + 1 .. Len(buf) :
                        buf[e] = Nul /\ \A i \in p + 1 .. e - 1 : buf[i] # Nul) - 1)

Words == [i \in DOMAIN argv |-> CString(argv[i])]

UpToNul(w) == SubSeq(w, 1, (CHOOSE n \in 0 .. Len(w) :
                              /\ \A i \in 1 .. n : w[i] # Nul
                              /\ n < Len(w) => w[n + 1] = Nul))

(* clp_breakargs returns the words its comment describes, and fails if and *)
(* only if a quote is left open.                                           *)
SplitAsDescribed ==
  split \in {"done", "error"} /\ Described(src) =>
    IF split = "error" THEN OpenQuote(src)[Len(src)] # Nul
    ELSE /\ OpenQuote(src)[Len(src)] = Nul
         /\ LET words == DocWords(src, delim)
            IN  Words = [i \in DOMAIN words |-> UpToNul(words[i])]

=============================================================================
