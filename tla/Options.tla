------------------------------ MODULE Options ------------------------------
(***************************************************************************)
(* clp_parsev: the options and the positional parameters of a command      *)
(* line.  The vectors of options and parameters are constants, the fields  *)
(* the parser keeps in them are variables.  The values go to variables of  *)
(* the program, numbers and strings.                                       *)
(*                                                                         *)
(* No vector of the program has an action or a parameter with an after     *)
(* procedure, and no conversion returns -1.                                *)
(***************************************************************************)
EXTENDS Integers, Sequences

CONSTANTS
  Optionv,   \* the vectors of options, by name
  Paramv,    \* the vectors of positional parameters, by name
  NoParamv,  \* an option without parameters of its own
  NoOption,  \* clp_find finds nothing
  Variables, \* the variables of the program
  Default,   \* their values before any line is parsed, for numbers
  NumberOf,  \* what strtold() makes of a text
  Infinity,  \* that of "inf" and "nan"
  Domain,    \* the least and the greatest number of each type
  Suffix     \* the suffixes of each type and the factors they stand for

Members(s) == {s[i] : i \in DOMAIN s}
AllOptions == UNION {Members(Optionv[v]) : v \in DOMAIN Optionv}
AllParams == UNION {Members(Paramv[v]) : v \in DOMAIN Paramv}

(* An option or a parameter names a variable of the program, which no two  *)
(* of different types do; what it starts with is inside its type, and so   *)
(* is zero.                                                                *)
ASSUME OptionsAssumption ==
  /\ \A v \in DOMAIN Optionv : Optionv[v] \in Seq(AllOptions)
  /\ \A v \in DOMAIN Paramv : Paramv[v] \in Seq(AllParams)
  /\ NoParamv \notin DOMAIN Paramv
  /\ \A o \in AllOptions :
       /\ o.arg \in BOOLEAN /\ o.after \in BOOLEAN
       /\ o.paramv \in DOMAIN Paramv \cup {NoParamv}
  /\ \A p \in AllParams : p.required \in BOOLEAN /\ p.many \in BOOLEAN
  /\ \A x \in AllOptions \cup AllParams :
       /\ x.dst \in Variables
       /\ x.cvt \in DOMAIN Domain \cup {"none", "incr", "string"}
       /\ x.cvt \in DOMAIN Domain => Default[x.dst] \in Domain[x.cvt].min .. Domain[x.cvt].max
       /\ \A y \in AllOptions \cup AllParams : x.dst = y.dst => x.cvt = y.cvt
  /\ Default \in [Variables -> Int]
  /\ NumberOf \in [DOMAIN NumberOf -> Int]
  /\ {"none", "incr", "string"} \cap DOMAIN Domain = {}
  /\ \A t \in DOMAIN Domain :
       /\ Domain[t].min \in Int /\ Domain[t].max \in Int
       /\ Domain[t].min <= 0 /\ 0 <= Domain[t].max
       /\ Suffix[t] \in [DOMAIN Suffix[t] -> Int]

VARIABLES
  call,      \* the arguments of the call: options, parameters, argv
  phase,     \* "idle", "options", "after", "convert" or "done"
  optind,    \* getopt: the index of the next word
  nextchar,  \* getopt: the place in that word, 0 for a new one
  given,     \* how often each option was given
  seen,      \* history: the options in the order they were given
  afters,    \* the options whose after() is still to be called
  ran,       \* history: those whose after() was called
  paramv,    \* the vector of parameters in force
  shares,    \* argv and argc of each parameter
  converted, \* how many positional arguments have been converted
  num, str,  \* the variables of the program
  rc         \* what clp_parsev returns

parseVars == <<call, phase, optind, nextchar, given, seen, afters, ran, paramv, shares, converted, num, str, rc>>

(* The optstring: letters getopt() could not tell from its own signs are   *)
(* left out, and of an option listed twice the first counts.               *)
KnownLetters(v) == {o.optopt : o \in Members(Optionv[v])} \ {":", "?", "-"}

NoCall == [options |-> NoOption, params |-> NoParamv, argv |-> <<>>]

(* What the parser leaves between two calls; num and str stay.             *)
Quiet ==
  /\ call' = NoCall /\ phase' = "idle"
  /\ optind' = 1 /\ nextchar' = 0
  /\ given' = [c \in {} |-> 0] /\ seen' = <<>>
  /\ afters' = <<>> /\ ran' = <<>>
  /\ paramv' = NoParamv /\ shares' = <<>> /\ converted' = 0
  /\ rc' = "0"

ParseInit ==
  /\ call = NoCall /\ phase = "idle"
  /\ optind = 1 /\ nextchar = 0
  /\ given = [c \in {} |-> 0] /\ seen = <<>>
  /\ afters = <<>> /\ ran = <<>>
  /\ paramv = NoParamv /\ shares = <<>> /\ converted = 0
  /\ num = Default /\ str = [x \in Variables |-> <<>>]
  /\ rc = "0"

(* The call: everything of an earlier call is reset; malloc may fail.      *)
ParseV(options, params, argv) ==
  /\ call' = [options |-> options, params |-> params, argv |-> argv]
  /\ given' = [c \in KnownLetters(options) |-> 0]
  /\ optind' = 1 /\ nextchar' = 0
  /\ seen' = <<>> /\ afters' = <<>> /\ ran' = <<>>
  /\ paramv' = params /\ shares' = <<>> /\ converted' = 0
  /\ \/ phase' = (IF argv = <<>> THEN "done" ELSE "options") /\ rc' = "0"
     \/ argv # <<>> /\ phase' = "done" /\ rc' = "EX_OSERR"
  /\ UNCHANGED <<num, str>>

Return(code) == phase' = "done" /\ rc' = code

-----------------------------------------------------------------------------
argc == Len(call.argv)
Word(i) == call.argv[i + 1]

(* clp_find                                                                *)
Find(c) ==
  LET hits == {i \in DOMAIN Optionv[call.options] : Optionv[call.options][i].optopt = c}
  IN  IF hits = {} THEN NoOption
      ELSE Optionv[call.options][CHOOSE i \in hits : \A j \in hits : i <= j]

(* getopt_long: words are looked at in turn, up to the first that is no    *)
(* option, or behind "--".                                                 *)
IsEnd == optind < argc /\ nextchar = 0 /\ Word(optind) = <<"-", "-">>
IsOption ==
  /\ optind < argc /\ ~IsEnd
  /\ Len(Word(optind)) > 1 /\ Word(optind)[1] = "-"

IsLong == nextchar = 0 /\ Word(optind)[2] = "-"
LongNamed(name) ==
  {o \in Members(Optionv[call.options]) : o.longopt = name}

Place == IF IsLong THEN Len(Word(optind)) ELSE IF nextchar = 0 THEN 2 ELSE nextchar
Letter ==
  IF ~IsLong THEN Word(optind)[Place]
  ELSE LET named == LongNamed(Word(optind)[3])
       IN  IF named = {} THEN "?" ELSE (CHOOSE o \in named : TRUE).optopt

Got ==
  LET o == Find(Letter)
      last == Place = Len(Word(optind))
  IN  IF Letter \notin KnownLetters(call.options) THEN [c |-> "?", arg |-> <<>>, ind |-> optind, next |-> 0]
      ELSE IF ~o.arg
           THEN [c |-> Letter, arg |-> <<>>, ind |-> IF last THEN optind + 1 ELSE optind,
                 next |-> IF last THEN 0 ELSE Place + 1]
      ELSE IF ~last
           THEN [c |-> Letter, arg |-> SubSeq(Word(optind), Place + 1, Len(Word(optind))),
                 ind |-> optind + 1, next |-> 0]
      ELSE IF optind + 1 < argc
           THEN [c |-> Letter, arg |-> Word(optind + 1), ind |-> optind + 2, next |-> 0]
      ELSE [c |-> ":", arg |-> <<>>, ind |-> optind, next |-> 0]

(* clp_excludes2: either of the two may exclude the other, and so may the  *)
(* parameters they bring with them.                                        *)
ExcludesOneWay(l, r) ==
  /\ l # r
  /\ \/ r.optopt \in l.excludes
     \/ l.paramv # NoParamv /\ r.paramv # NoParamv /\ l.paramv # r.paramv

Excludes2(l, r) ==
  /\ l # r
  /\ \/ r.optopt \in l.excludes
     \/ l.optopt \in r.excludes
     \/ l.paramv # NoParamv /\ r.paramv # NoParamv /\ l.paramv # r.paramv

(* clp_excludes                                                            *)
Excluded(o) ==
  \E x \in Members(Optionv[call.options]) : given[x.optopt] >= 1 /\ Excludes2(o, x)

-----------------------------------------------------------------------------
(* The conversions of one argument: what is returned and stored.  A number *)
(* may have one suffix, and what follows that is not looked at; it is kept *)
(* inside the domain of its type and then refused; infinity is cast to an  *)
(* integer, which may give any.                                            *)
Unreadable(type, w) ==
  \/ w = <<>> \/ w[1] \notin DOMAIN NumberOf
  \/ Len(w) > 1 /\ w[2] \notin DOMAIN Suffix[type]

Scaled(type, w) == NumberOf[w[1]] * (IF Len(w) > 1 THEN Suffix[type][w[2]] ELSE 1)

Unclamped(type, n) == n
Clamped(type, n) ==
  IF n < Domain[type].min THEN Domain[type].min
  ELSE IF n > Domain[type].max THEN Domain[type].max ELSE n

Number(type, w) ==
  IF Unreadable(type, w) THEN {[rc |-> "EX_DATAERR", num |-> 0]}
  ELSE IF NumberOf[w[1]] = Infinity
       THEN {[rc |-> "0", num |-> n] : n \in {Domain[type].min, Domain[type].max}}
  ELSE LET n == Scaled(type, w)
       IN  {[rc |-> IF n = Clamped(type, n) THEN "0" ELSE "EX_DATAERR", num |-> Clamped(type, n)]}

Stored(x, n, w, code) ==
  /\ num' = [num EXCEPT ![x] = n]
  /\ str' = [str EXCEPT ![x] = w]
  /\ rc' = code

(* x is an option or a parameter; its conversion ends with a code.         *)
Convert(x, w) ==
  \/ /\ x.cvt = "none"
     /\ UNCHANGED <<num, str>> /\ rc' = "0"
  \/ x.cvt = "incr" /\ Stored(x.dst, num[x.dst] + 1, <<>>, "0")
  \/ x.cvt = "string" /\ Stored(x.dst, 0, w, "0")
  \/ x.cvt = "string" /\ Stored(x.dst, 0, <<>>, "EX_OSERR")        \* strdup
  \/ /\ x.cvt \in DOMAIN Domain
     /\ \E r \in Number(x.cvt, w) : Stored(x.dst, r.num, <<>>, r.rc)

-----------------------------------------------------------------------------
BadOption ==
  /\ phase = "options" /\ IsOption
  /\ Got.c \notin {"?", ":"} => Excluded(Find(Got.c))
  /\ Return("EX_USAGE")
  /\ UNCHANGED <<call, optind, nextchar, given, seen, afters, ran, paramv, shares, converted, num, str>>

GivenOption ==
  /\ phase = "options" /\ IsOption
  /\ Got.c \notin {"?", ":"}
  /\ LET g == Got
         o == Find(g.c)
     IN  /\ ~Excluded(o)
         /\ given' = [given EXCEPT ![g.c] = @ + 1]
         /\ seen' = Append(seen, g.c)
         /\ afters' = IF o.after /\ given[g.c] = 0 THEN Append(afters, g.c) ELSE afters
         /\ paramv' = IF o.paramv # NoParamv THEN o.paramv ELSE paramv
         /\ optind' = g.ind /\ nextchar' = g.next
         /\ Convert(o, g.arg)
         /\ phase' = IF rc' = "0" THEN "options" ELSE "done"
  /\ UNCHANGED <<call, ran, shares, converted>>

(* clp_posparam_minmax: the arguments the first i parameters need and may  *)
(* have.                                                                   *)
NeededTo(v) ==
  LET needed[i \in 0 .. Len(Paramv[v])] ==
        IF i = 0 THEN 0 ELSE needed[i - 1] + (IF Paramv[v][i].required THEN 1 ELSE 0)
  IN  needed
Unlimited == 1024
AllowedTo(v) ==
  LET allowed[i \in 0 .. Len(Paramv[v])] ==
        IF i = 0 THEN 0 ELSE allowed[i - 1] + (IF Paramv[v][i].many THEN Unlimited ELSE 1)
  IN  allowed
Needed(v) == NeededTo(v)[Len(Paramv[v])]
Allowed(v) == AllowedTo(v)[Len(Paramv[v])]

(* The options have ended; the number of the other arguments is checked.   *)
OptionsEnd ==
  /\ phase = "options" /\ ~IsOption
  /\ optind' = IF IsEnd THEN optind + 1 ELSE optind
  /\ IF argc - optind' \in Needed(paramv) .. Allowed(paramv)
     THEN phase' = "after" /\ rc' = "0"
     ELSE Return("EX_USAGE")
  /\ UNCHANGED <<call, nextchar, given, seen, afters, ran, paramv, shares, converted, num, str>>

(* after() of each option given that has one; clp_help and clp_version     *)
(* print and return 0.                                                     *)
RunAfter ==
  /\ phase = "after" /\ afters # <<>>
  /\ ran' = Append(ran, Head(afters))
  /\ afters' = Tail(afters)
  /\ UNCHANGED <<call, phase, optind, nextchar, given, seen, paramv, shares, converted, num, str, rc>>

(* How many of the arguments left the greedy distribution gives to a       *)
(* parameter, need being the number of arguments the parameters from this  *)
(* one on require.                                                         *)
TakeAll(p, left, need) ==
  IF p.many THEN left ELSE IF p.required \/ left > need THEN 1 ELSE 0
Take(p, left, need) ==
  IF p.required THEN IF p.many THEN 1 + (left - need) ELSE 1
  ELSE IF left <= need THEN 0
  ELSE IF p.many THEN left - need ELSE 1

FirstShare == [argv |-> optind, argc |-> 0, next |-> optind, need |-> Needed(paramv)]
NextShare(before, p) ==
  LET left == argc - before.next
      n == IF left > 0 THEN Take(p, left, before.need) ELSE 0
  IN  [argv |-> before.next, argc |-> n, next |-> before.next + n,
       need |-> IF p.required /\ left > 0 THEN before.need - 1 ELSE before.need]

Sharing ==
  LET share[i \in 0 .. Len(Paramv[paramv])] ==
        IF i = 0 THEN FirstShare ELSE NextShare(share[i - 1], Paramv[paramv][i])
  IN  share

Shares ==
  [i \in 1 .. Len(Paramv[paramv]) |-> [argv |-> Sharing[i].argv, argc |-> Sharing[i].argc]]

Distribute ==
  /\ phase = "after" /\ afters = <<>>
  /\ shares' = Shares
  /\ phase' = "convert"
  /\ UNCHANGED <<call, optind, nextchar, given, seen, afters, ran, paramv, converted, num, str, rc>>

(* The arguments handed out, one after the other, parameter by parameter.  *)
ArgumentsOf(i) == [k \in 1 .. shares[i].argc |-> <<i, shares[i].argv + k - 1>>]
HandedTo ==
  LET handed[i \in 0 .. Len(shares)] ==
        IF i = 0 THEN <<>>
        ELSE handed[i - 1] \o ArgumentsOf(i)
  IN  handed
Handed == HandedTo[Len(shares)]

ConvertArgument ==
  /\ phase = "convert" /\ converted < Len(Handed)
  /\ LET next == Handed[converted + 1]
     IN  Convert(Paramv[paramv][next[1]], Word(next[2]))
  /\ phase' = IF rc' = "0" THEN "convert" ELSE "done"
  /\ converted' = converted + 1
  /\ UNCHANGED <<call, optind, nextchar, given, seen, afters, ran, paramv, shares>>

ParseEnd ==
  /\ phase = "convert" /\ converted = Len(Handed)
  /\ Return("0")
  /\ UNCHANGED <<call, optind, nextchar, given, seen, afters, ran, paramv, shares, converted, num, str>>

ParseStep ==
  \/ BadOption \/ GivenOption \/ OptionsEnd
  \/ RunAfter \/ Distribute \/ ConvertArgument \/ ParseEnd

-----------------------------------------------------------------------------
Accepted == phase \in {"options", "after", "convert"} \/ (phase = "done" /\ rc = "0")

(* The options with an after() among the first i, each where it was first  *)
(* given.                                                                  *)
HasAfter(s, i) == Find(s[i]).after /\ \A j \in 1 .. i - 1 : s[j] # s[i]
FirstGiven(s) ==
  LET first[i \in 0 .. Len(s)] ==
        IF i = 0 THEN <<>>
        ELSE IF HasAfter(s, i) THEN Append(first[i - 1], s[i]) ELSE first[i - 1]
  IN  first

(* Of the options of a command line that is accepted no one excludes       *)
(* another, in whichever order they are given; help and version run once,  *)
(* in the order they were first given, and only when the rest of the line  *)
(* has passed the check; the parameters are those of the last option that  *)
(* has some.                                                               *)
AcceptedLine ==
  Accepted =>
    /\ \A i, j \in DOMAIN seen : seen[i] # seen[j] => seen[i] \notin Find(seen[j]).excludes
    /\ ran \o afters = FirstGiven(seen)[Len(seen)]
    /\ ran # <<>> => argc - optind \in Needed(paramv) .. Allowed(paramv)
    /\ LET own == {i \in DOMAIN seen : Find(seen[i]).paramv # NoParamv}
       IN  paramv = IF own = {} THEN call.params
                    ELSE Find(seen[CHOOSE i \in own : \A j \in own : j <= i]).paramv

(* Every positional argument is handed to a parameter, in the order of     *)
(* both; each required parameter gets one, and only those for many get     *)
(* more.                                                                   *)
ArgumentsHandedOut ==
  shares # <<>> =>
    /\ Len(Handed) = argc - optind
    /\ \A k \in DOMAIN Handed : Handed[k][2] = optind + k - 1
    /\ \A i \in DOMAIN shares :
         /\ Paramv[paramv][i].required => shares[i].argc >= 1
         /\ ~Paramv[paramv][i].many => shares[i].argc <= 1

=============================================================================
