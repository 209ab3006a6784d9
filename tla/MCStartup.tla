----------------------------- MODULE MCStartup -----------------------------
(* A run of characters that mean nothing to the parsers is one character   *)
(* here: "host", "/dir", "70000".                                          *)
EXTENDS Startup, TLC

MCSpace == {" "}
MCDigits == {"0", "1", "8"}
MCEscape == "n" :> "newline"
MCOctalValue == ("0" :> 0) @@ ("1" :> 1)
MCPlain == {"-", ",", "@", ":", "x", "n", "\\", "\"", "'", "nul", "code", "newline",
            "w", "c", "d", "g", "e", "t", "a", "r", "h", "l", "p", "s", "m", "k", "i", "o", "u",
            "v", "V", "T", "j", "q", "M", "root", "/", "host", "/dir", "user", "inf", "70000", "4", "help", "duration",
            "getattr", "read", "null", "shell", "nct"}
MCChar == MCSpace \cup MCDigits \cup MCPlain
MCLower == [c \in MCChar |-> IF c = "M" THEN "m" ELSE c]

MCNumberOf == ("0" :> 0) @@ ("1" :> 1) @@ ("4" :> 4) @@ ("8" :> 8) @@ ("70000" :> 70000) @@ ("inf" :> 2000000)
MCDomain == ("uint16_t" :> [min |-> 0, max |-> 65535]) @@ ("u_int" :> [min |-> 0, max |-> 100000])
  @@ ("size_t" :> [min |-> 0, max |-> 1000000]) @@ ("u_long" :> [min |-> 0, max |-> 1000000]) @@ ("time_t" :> [min |-> 0, max |-> 1000000])
MCSizes == ("k" :> 1024) @@ ("M" :> 1000000)
MCSuffix == [t \in DOMAIN MCDomain |-> IF t = "time_t" THEN ("s" :> 1) @@ ("m" :> 60) ELSE MCSizes]

MCVariables == UNION {{o.dst : o \in Members(NctOptionv[v])} : v \in DOMAIN NctOptionv}
               \cup UNION {{p.dst : p \in Members(NctParamv[v])} : v \in DOMAIN NctParamv}
MCDefault == [x \in MCVariables |-> CASE x = "length" -> 4096 [] x = "duration" -> 60 [] OTHER -> 1]

UpTo(n, S) == UNION {[1 .. k -> S] : k \in 0 .. n}

(* The options and commands of main.                                       *)
MCOptions == {<< <<"-", "v">> >>, << <<"-", "h">> >>, << <<"-", "V">> >>, << <<"-", "-", "help">> >>,
              << <<"-", "T", "x">> >>, << <<"-", "T">>, <<"x">> >>, << <<"-", "v", "p", "8">> >>,
              << <<"-", "p">>, <<"70000">> >>, << <<"-", "-", "duration">>, <<"1", "m">> >>,
              << <<"-", "j">>, <<"inf">> >>, << <<"-", "q">> >>, << <<"-", "o">> >>, << <<"-", "-">> >>}
MCRemotes == {<<"host">>, <<"host", ":", "/dir">>, <<"user", "@", "host", ":", "/dir">>,
              <<"host", ":", "/dir", "@", "x">>, <<"-", "x">>, <<":", "/dir">>,
              <<"user", "@", "host", ":", "/dir", "@", "x">>}
MCCommands == {<<>>, << <<"x">> >>, << <<"getattr">> >>, << <<"getattr">>, <<"-", "h">> >>,
               << <<"null">>, <<"-", "V">>, <<"host">> >>, << <<"read">>, <<"-", "v">>, <<"host">>, <<"x">> >>,
               << <<"read">>, <<"host">>, <<"4", "k">>, <<"x">> >>}
  \cup {<< <<"null">>, r >> : r \in MCRemotes}
  \cup {<< <<"read">>, <<"user", "@", "host">>, l >> : l \in {<<"1">>, <<"4", "k">>, <<"4", "x">>, <<"inf">>}}
MCCommandLines ==
  {<< <<"nct">> >> \o FlattenSeq(o) \o c : o \in UpTo(2, MCOptions), c \in MCCommands}
  \cup {<< <<"nct">>, <<"shell">> >>}

(* The lines of the shell, and those of clp_parsel.                        *)
MCMountArgs ==
  {<<" ", "-", "p", "8", " ", "host", " ", "x">>, <<" ", "host", " ", "-", "p">>, <<" ", "-", "h">>,
   <<" ", "\"", "-", "V", "\"">>, <<" ", "-", "p", " ", "70000", " ", "host", " ", "x">>}
MCLines ==
  << {<<" ", "m", "o">> \o l : l \in UpTo(4, {" ", "\"", "'", "\\", "8", "1", "x"})},
     {<<"m", "o">> \o l : l \in MCMountArgs} \cup
       {<<>>, <<" ">>, <<"m">>, <<"M", "o">>, <<"r", "m">>, <<"r", "m", "d">>, <<"h">>, <<"x", " ", "x">>} >>
MCLibraryCalls ==
  [line : UpTo(4, {",", " ", "\"", "\\", "0", "n"}), delim : {NoDelim, {","}}]
  \cup [line : {<<"\\">> \o n \o <<"x">> : n \in [1 .. 4 -> {"0", "1"}]} \cup {<<"\\", "1", "0", "0", "0", "0", "0", "0", "0", "0">>}, delim : {NoDelim}]
  \cup [line : {FlattenSeq([i \in 1 .. n |-> <<"x", ",">>]) : n \in 1 .. 6}, delim : {{","}}]
=============================================================================
