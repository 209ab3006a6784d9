------------------------------ MODULE ArgSplit ------------------------------
(***************************************************************************)
(* clp_breakargs: a line is copied into one buffer, character by character *)
(* and cut into words on the way.  Room for the words was allocated before *)
(* from the length of the line alone.                                      *)
(*                                                                         *)
(* A line is a sequence of characters without the Nul behind it; a run of  *)
(* characters that mean nothing here may be one character.                 *)
(***************************************************************************)
EXTENDS Integers, Sequences

CONSTANTS
  Char,       \* the characters
  Nul,        \* the one that ends a string
  Space,      \* those isspace() is true of
  Octal,      \* the digits strtoul() takes to base eight
  Digit,      \* those isdigit() is true of
  Letters,    \* the letters a backslash gives a meaning
  EscapeOf,   \* that meaning
  OctalValue, \* what they are worth
  MaxUlong,   \* ULONG_MAX
  OctalCode,  \* a character given by its code, which is not 0
  NoDelim     \* delim is nil

Backslash == "\\"
DoubleQuote == "\""
SingleQuote == "'"

ASSUME SplitAssumption ==
  /\ Nul \in Char /\ OctalCode \in Char
  /\ {Backslash, DoubleQuote, SingleQuote} \subseteq Char
  /\ Space \subseteq Char /\ Octal \subseteq Digit /\ Digit \subseteq Char
  /\ OctalValue \in [Octal -> 0 .. 7] /\ MaxUlong \in Nat
  /\ Letters \subseteq Char
  /\ EscapeOf \in [Letters -> Char]
  /\ Nul \notin Space \cup Digit \cup Letters \cup {Backslash, DoubleQuote, SingleQuote}
  /\ {Backslash, DoubleQuote, SingleQuote} \cap (Space \cup Digit) = {} /\ Space \cap Digit = {}

VARIABLES
  src,       \* the line
  delim,     \* the delimiters
  at,        \* the index of *src
  buf,       \* what has been written to the buffer
  prev,      \* where the current word starts in it
  argv,      \* where the words start
  mode,      \* backslash, dquote and squote
  split      \* "idle", "scan", "close", "done", "error" or "nomem"

splitVars == <<src, delim, at, buf, prev, argv, mode, split>>

NoMode == [backslash |-> FALSE, dquote |-> FALSE, squote |-> FALSE]

SplitInit ==
  /\ src = <<>> /\ delim = NoDelim /\ at = 1
  /\ buf = <<>> /\ prev = 0 /\ argv = <<>>
  /\ mode = NoMode /\ split = "idle"

(* The call: the buffer is allocated and empty.                            *)
BreakArgs(line, d) ==
  /\ split = "idle"
  /\ src' = line /\ delim' = d /\ at' = 1
  /\ buf' = <<>> /\ prev' = 0 /\ argv' = <<>>
  /\ mode' = NoMode /\ split' = "scan"

(* malloc returns NULL.                                                    *)
NoMemory ==
  /\ split = "scan" /\ at = 1 /\ buf = <<>> /\ mode = NoMode
  /\ split' = "nomem"
  /\ UNCHANGED <<src, delim, at, buf, prev, argv, mode>>

(* The caller frees what it got.                                           *)
FreeArgs ==
  /\ split \in {"done", "error", "nomem"}
  /\ src' = <<>> /\ delim' = NoDelim /\ at' = 1
  /\ buf' = <<>> /\ prev' = 0 /\ argv' = <<>>
  /\ mode' = NoMode /\ split' = "idle"

-----------------------------------------------------------------------------
Current == IF at <= Len(src) THEN src[at] ELSE Nul

Delimits(c) == IF delim = NoDelim THEN c = Nul \/ c \in Space
                                  ELSE c = Nul \/ c \in delim

(* The end of an iteration: the loop is left behind the Nul.               *)
Advance ==
  /\ at' = at + 1
  /\ split' = IF Current = Nul THEN "close" ELSE "scan"
  /\ UNCHANGED <<src, delim>>

Put(c) == buf' = Append(buf, c) /\ UNCHANGED <<prev, argv>>

EndWord ==
  /\ argv' = Append(argv, prev)
  /\ buf' = Append(buf, Nul)
  /\ prev' = Len(buf) + 1

(* Behind the octal digits that start at i, if any.                        *)
OctalEnd(s, i) == CHOOSE e \in i .. Len(s) + 1 :
                    /\ \A k \in i .. e - 1 : s[k] \in Octal
                    /\ e <= Len(s) => s[e] \notin Octal

(* The character they give: strtoul() stops at ULONG_MAX, and of its value *)
(* a char keeps the last byte.                                             *)
OctalChar(s, i) ==
  LET last == OctalEnd(s, i) - 1
      value[k \in i - 1 .. last] ==
        IF k = i - 1 THEN 0
        ELSE LET v == 8 * value[k - 1] + OctalValue[s[k]] IN IF v > MaxUlong THEN MaxUlong ELSE v
  IN  IF value[last] % 256 = 0 THEN Nul ELSE OctalCode

(* After a backslash: a number; strtoul() finds none in an 8 or a 9, which *)
(* is then read again.                                                     *)
EscapedNumber ==
  /\ split = "scan" /\ mode.backslash /\ Current \in Digit
  /\ mode' = [mode EXCEPT !.backslash = FALSE]
  /\ Put(OctalChar(src, at))
  /\ at' = OctalEnd(src, at)
  /\ UNCHANGED <<src, delim, split>>

Meaning(c) == IF c \in Letters THEN EscapeOf[c] ELSE c

(* After a backslash: a letter with a meaning, or any other character.     *)
EscapedChar ==
  /\ split = "scan" /\ mode.backslash /\ Current \notin Digit
  /\ mode' = [mode EXCEPT !.backslash = FALSE]
  /\ Put(Meaning(Current))
  /\ Advance

Escape ==
  /\ split = "scan" /\ ~mode.backslash /\ Current = Backslash
  /\ mode' = [mode EXCEPT !.backslash = TRUE]
  /\ UNCHANGED <<buf, prev, argv>>
  /\ Advance

(* A quote of one kind is a character like others inside the other kind.   *)
QuoteAnywhere == Current \in {DoubleQuote, SingleQuote}
IsQuote ==
  \/ Current = DoubleQuote /\ ~mode.squote
  \/ Current = SingleQuote /\ ~mode.dquote

Quote ==
  /\ split = "scan" /\ ~mode.backslash /\ IsQuote
  /\ mode' = IF Current = DoubleQuote THEN [mode EXCEPT !.dquote = ~@]
                                      ELSE [mode EXCEPT !.squote = ~@]
  /\ UNCHANGED <<buf, prev, argv>>
  /\ Advance

Quoted == mode.dquote \/ mode.squote
Special == Current = Backslash \/ IsQuote

(* A delimiter outside of quotes ends a word; without delim an empty word  *)
(* is none.                                                                *)
NeverEmpty == Len(buf) < prev
EmptyWord == Len(buf) = prev
EmptyElided == delim = NoDelim /\ EmptyWord

Delimiter ==
  /\ split = "scan" /\ ~mode.backslash /\ ~Special
  /\ ~Quoted /\ Delimits(Current)
  /\ IF EmptyElided THEN UNCHANGED <<buf, prev, argv>> ELSE EndWord
  /\ UNCHANGED mode
  /\ Advance

CopyChar ==
  /\ split = "scan" /\ ~mode.backslash /\ ~Special
  /\ Quoted \/ ~Delimits(Current)
  /\ Put(Current)
  /\ UNCHANGED mode
  /\ Advance

(* After the loop: a quote is still open, or the last word is ended.       *)
Unbalanced ==
  /\ split = "close" /\ Quoted
  /\ split' = "error"
  /\ UNCHANGED <<src, delim, at, buf, prev, argv, mode>>

Finish ==
  /\ split = "close" /\ ~Quoted
  /\ IF EmptyWord THEN UNCHANGED <<buf, prev, argv>> ELSE EndWord
  /\ split' = "done"
  /\ UNCHANGED <<src, delim, at, mode>>

SplitStep ==
  \/ NoMemory
  \/ EscapedNumber \/ EscapedChar \/ Escape \/ Quote
  \/ Delimiter \/ CopyChar
  \/ Unbalanced \/ Finish

SplitNext ==
  \/ \E line \in Seq(Char \ {Nul}), d \in {NoDelim} \cup SUBSET Char : BreakArgs(line, d)
  \/ SplitStep
  \/ FreeArgs

SplitSpec == SplitInit /\ [][SplitNext]_splitVars

-----------------------------------------------------------------------------
(* What is written stays inside what malloc() was asked for: strlen(src) + *)
(* 1 characters, and strlen(src) + 2 pointers of which the last is NULL.   *)
BufferBound ==
  /\ Len(buf) <= Len(src) + 1
  /\ Len(argv) + 1 <= Len(src) + 2

=============================================================================
