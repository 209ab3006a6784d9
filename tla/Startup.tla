------------------------------ MODULE Startup ------------------------------
(***************************************************************************)
(* What happens before the first job: main() parses its command line, the  *)
(* command parses the rest of it, nct_mount() takes the remote path apart  *)
(* and connects, nct_nfs_mount() asks the server for a file handle.  The   *)
(* shell splits and parses the lines it reads instead.  clp_parsel(), the  *)
(* entry to both for a program that has a line and delimiters of its own,  *)
(* is one more way to begin.                                               *)
(***************************************************************************)
EXTENDS SplitDoc, Options, SequencesExt

CONSTANTS
  CommandLines,  \* the argv of main
  Lines,         \* the lines typed into the shell: the n-th is of Lines[n]
  LibraryCalls,  \* lines and delimiters for clp_parsel
  Alnum,         \* those isalpha() or isdigit() is true of
  Lower,         \* tolower()
  NoMount,       \* no mount has been tried
  MaxLength      \* NCT_MSGSZ_MAX

VARIABLES
  pgm,       \* where the program is
  cmdline,   \* the argv of main
  exit,      \* its exit code, "abort", or "none" while it runs
  mnt,       \* mnt_user, mnt_server, mnt_path
  sent,      \* the directory asked for in the mount call
  lineno,    \* the lines the shell has read
  errbuf     \* errbuf of the shell

startVars == <<pgm, cmdline, exit, mnt, sent, lineno, errbuf>>
vars == <<splitVars, parseVars, startVars>>

-----------------------------------------------------------------------------
(* The tables.  The name of the variable serves as the long option, too.   *)
Opt(letter, type, var, long) ==
  [optopt |-> letter, arg |-> type # "incr", excludes |-> {},
   longopt |-> IF type = "incr" THEN "" ELSE long,
   cvt |-> type, dst |-> var, after |-> FALSE, paramv |-> NoParamv]

EveryLetter == {"d", "j", "m", "o", "p", "T", "t", "v", "V", "h", "r", "w"}
Alone(letter, long) ==
  [optopt |-> letter, arg |-> FALSE, excludes |-> EveryLetter, longopt |-> long,
   cvt |-> "none", dst |-> "", after |-> TRUE, paramv |-> "none"]
Version == Alone("V", "version")
Help == Alone("h", "help")
Verbosity == Opt("v", "incr", "verbosity", "verbosity")

Param(type, var, required, many) ==
  [required |-> required, many |-> many, cvt |-> type, dst |-> var]

MainOptionv ==
  <<Opt("d", "time_t", "duration", "duration"), Opt("j", "u_int", "jobs_max", "jobs_max"),
    Opt("m", "u_int", "mark", "mark"), Opt("o", "string", "outdir", "outdir"),
    Opt("p", "uint16_t", "port", "port"), Opt("T", "string", "term", "term"),
    Opt("t", "u_int", "tds_max", "tds_max"), Verbosity, Version, Help>>
TestOptionv == <<Verbosity, Help>>
MountOptionv ==
  <<Opt("p", "uint16_t", "mount_port", "port"), Opt("r", "size_t", "readsize", "readsize"),
    Opt("w", "size_t", "writesize", "writesize"), Verbosity, Version, Help>>

MainParamv == <<Param("string", "command", TRUE, FALSE), Param("string", "args", FALSE, TRUE)>>
PathParamv == <<Param("string", "rhostpath", TRUE, FALSE)>>
ReadParamv == <<Param("string", "rhostpath", TRUE, FALSE), Param("u_long", "length", FALSE, FALSE)>>
MountParamv == <<Param("string", "mount_rhostpath", TRUE, FALSE), Param("string", "mntnode", TRUE, FALSE)>>

(* A program with files, perhaps a mode, and a target.                     *)
LibraryParamv ==
  <<Param("string", "files", TRUE, TRUE), Param("string", "mode", FALSE, FALSE),
    Param("string", "target", TRUE, FALSE)>>

NctOptionv == [main |-> MainOptionv, test |-> TestOptionv, mount |-> MountOptionv, library |-> TestOptionv]
NctParamv == [none |-> <<>>, main |-> MainParamv, path |-> PathParamv, read |-> ReadParamv,
              mount |-> MountParamv, library |-> LibraryParamv]

(* The program's tables; main() has a word to parse, and so may a line.    *)
ASSUME StartupAssumption ==
  /\ Optionv = NctOptionv /\ Paramv = NctParamv
  /\ CommandLines \subseteq Seq(Seq(Char)) \ {<<>>}
  /\ Lower \in [Char -> Char]
  /\ Lines \in Seq(SUBSET Seq(Char \ {Nul}))
  /\ \A l \in LibraryCalls :
       l.line \in Seq(Char \ {Nul}) /\ l.delim \in {NoDelim} \cup SUBSET Char

Init ==
  /\ SplitInit /\ ParseInit
  /\ exit = "none" /\ mnt = NoMount /\ sent = NoMount
  /\ lineno = 0 /\ errbuf = ""
  /\ \/ pgm = "start" /\ cmdline \in CommandLines
     \/ pgm = "library" /\ cmdline = <<>>

-----------------------------------------------------------------------------
Goes(from, to) == pgm = from /\ pgm' = to

Exit(code) ==
  /\ pgm' = "exit" /\ exit' = code
  /\ UNCHANGED <<splitVars, parseVars, cmdline, mnt, sent, lineno, errbuf>>

MainParse ==
  /\ Goes("start", "main")
  /\ ParseV("main", "main", cmdline)
  /\ UNCHANGED <<splitVars, cmdline, exit, mnt, sent, lineno, errbuf>>

(* given('h') of a vector without that option is false.                    *)
WasGiven(c) == c \in DOMAIN given /\ given[c] > 0
Answers == WasGiven("h") \/ WasGiven("V")

MainEnds ==
  /\ pgm = "main" /\ phase = "done"
  /\ \/ rc # "0" /\ Exit(rc)
     \/ rc = "0" /\ Answers /\ Exit("0")
     \/ rc = "0" /\ ~Answers /\ WasGiven("o") /\ Exit("EX_OSERR")     \* mkdir, chdir
     \/ /\ rc = "0" /\ ~Answers
        /\ Word(optind) \notin {<<"getattr">>, <<"read">>, <<"null">>, <<"shell">>}
        /\ Exit("EX_USAGE")

Rest == SubSeq(call.argv, optind + 1, argc)
ParamsOf(command) == IF command = <<"read">> THEN "read" ELSE "path"

(* The command's own options and parameters: its argv begins with itself.  *)
MainRuns ==
  /\ Goes("main", "test")
  /\ phase = "done" /\ rc = "0" /\ ~Answers
  /\ Word(optind) \in {<<"getattr">>, <<"read">>, <<"null">>}
  /\ ParseV("test", ParamsOf(Word(optind)), Rest)
  /\ UNCHANGED <<splitVars, cmdline, exit, mnt, sent, lineno, errbuf>>

MainShell ==
  /\ Goes("main", "prompt")
  /\ phase = "done" /\ rc = "0" /\ ~Answers
  /\ Word(optind) = <<"shell">>
  /\ Quiet
  /\ UNCHANGED <<splitVars, num, str, cmdline, exit, mnt, sent, lineno, errbuf>>

-----------------------------------------------------------------------------
IsRead == call.params = "read"
BadLength == IsRead /\ num["length"] \notin 512 .. MaxLength

TestEnds ==
  /\ pgm = "test" /\ phase = "done"
  /\ \/ rc # "0" /\ Exit(rc)
     \/ rc = "0" /\ Answers /\ Exit("0")
     \/ rc = "0" /\ ~Answers /\ BadLength /\ Exit("abort")

(* nct_mount: strchr() of the whole for the '@', of what follows it for    *)
(* the ':'.                                                                *)
Strchr(w, c) == CHOOSE i \in 1 .. Len(w) + 1 :
                  /\ \A k \in 1 .. i - 1 : w[k] # c
                  /\ i <= Len(w) => w[i] = c
Before(w, c) == SubSeq(w, 1, Strchr(w, c) - 1)
Behind(w, c) == SubSeq(w, Strchr(w, c) + 1, Len(w))

PathColonFirst(w) ==
  LET hasPath == Strchr(w, ":") <= Len(w)
      server == IF hasPath THEN Before(w, ":") ELSE w
  IN  [user |-> <<"root">>, server |-> server,
       path |-> IF hasPath THEN Behind(w, ":") ELSE <<"/">>]

ParsePath(w) ==
  LET hasUser == Strchr(w, "@") <= Len(w)
      server == IF hasUser THEN Behind(w, "@") ELSE w
      hasPath == Strchr(server, ":") <= Len(server)
  IN  [user |-> IF hasUser THEN Before(w, "@") ELSE <<"root">>,
       server |-> IF hasPath THEN Before(server, ":") ELSE server,
       path |-> IF hasPath THEN Behind(server, ":") ELSE <<"/">>]

ValidHost(s) == s # <<>> /\ s[1] \in Alnum

Mount ==
  /\ Goes("test", "connect")
  /\ phase = "done" /\ rc = "0" /\ ~Answers /\ ~BadLength
  /\ mnt' = ParsePath(str["rhostpath"])
  /\ UNCHANGED <<splitVars, parseVars, cmdline, exit, sent, lineno, errbuf>>

(* The host is invalid or unknown, no credentials, no connection:          *)
(* nct_mount returns NULL and main aborts.                                 *)
MountFails == pgm = "connect" /\ Exit("abort")

Connected ==
  /\ Goes("connect", "mountcall")
  /\ ValidHost(mnt.server)
  /\ UNCHANGED <<splitVars, parseVars, cmdline, exit, mnt, sent, lineno, errbuf>>

-----------------------------------------------------------------------------
(* nct_nfs_mount: the port mapper, a connection of its own, the call.      *)
MountCall ==
  \/ pgm = "mountcall" /\ Exit("abort")
  \/ /\ Goes("mountcall", "mountreply")
     /\ sent' = mnt.path
     /\ UNCHANGED <<splitVars, parseVars, cmdline, exit, mnt, lineno, errbuf>>

(* Replies: how many units of four bytes follow the RPC header, the first  *)
(* the status, and the length of the file handle in units.                 *)
Statuses == {"OK", "PERM", "NOENT", "IO", "ACCES", "NOTDIR", "INVAL", "NAMETOOLONG", "NOTSUPP", "SERVERFAULT"}
FhMax == 16
Uint32 == 1
Uint64 == 2
Ftype3 == 1
Size3 == Uint64
Specdata3 == Uint32 + Uint32
Fileid3 == Uint64
Nfstime3 == Uint32 + Uint32
Fattr3 == <<Ftype3, Uint32, Uint32, Uint32, Uint32, Size3, Size3, Specdata3, Uint64, Fileid3,
            Nfstime3, Nfstime3, Nfstime3>>
Fattr3Units == LET f[i \in 0 .. Len(Fattr3)] == IF i = 0 THEN 0 ELSE f[i - 1] + Fattr3[i] IN f[Len(Fattr3)]

MountRes3Decode(r) ==
  /\ r.units >= 1
  /\ r.status = "OK" => r.fh <= FhMax /\ r.units >= 1 + 1 + r.fh + 1
Getattr3Decode(r) ==
  r.units >= 1 /\ r.status = "OK" /\ r.units >= 1 + Fattr3Units

Replies == [header : BOOLEAN, status : Statuses, fh : {8, FhMax + 1}, units : {0, 1, 1 + Fattr3Units}]

ExitOf(status) ==
  CASE status \in {"PERM", "ACCES"} -> "EX_NOPERM"
    [] status = "IO" -> "EX_IOERR"
    [] status \in {"NOENT", "NOTDIR", "INVAL", "NAMETOOLONG"} -> "EX_DATAERR"
    [] OTHER -> "EX_PROTOCOL"

MountReply ==
  /\ pgm = "mountreply"
  /\ \E r \in Replies :
       \/ ~(r.header /\ MountRes3Decode(r)) /\ Exit("abort")
       \/ /\ r.header /\ MountRes3Decode(r) /\ r.status # "OK"
          /\ Exit(ExitOf(r.status))
       \/ /\ r.header /\ MountRes3Decode(r) /\ r.status = "OK"
          /\ pgm' = "getattr"
          /\ UNCHANGED <<splitVars, parseVars, cmdline, exit, mnt, sent, lineno, errbuf>>

(* The attributes: an RPC error makes nct_mount return NULL.               *)
GetattrReply ==
  /\ pgm = "getattr"
  /\ \E r \in Replies :
       \/ ~(r.header /\ Getattr3Decode(r)) /\ Exit("abort")
       \/ /\ r.header /\ Getattr3Decode(r)
          /\ pgm' = "testing"
          /\ UNCHANGED <<splitVars, parseVars, cmdline, exit, mnt, sent, lineno, errbuf>>

Testing == pgm \in {"testing", "exit"} /\ UNCHANGED vars

-----------------------------------------------------------------------------
(* The shell.  A command may be abbreviated and written in capitals; it is *)
(* looked up in the table up to an exact match or to a second one.         *)
Commands == <<<<"c", "d">>, <<"g", "e", "t", "a", "t", "t", "r">>, <<"h", "e", "l", "p">>,
              <<"l", "s">>, <<"m", "k", "d", "i", "r">>, <<"m", "o", "u", "n", "t">>,
              <<"r", "m">>, <<"r", "m", "d", "i", "r">>, <<"u", "m", "o", "u", "n", "t">>>>

FirstIn(line, S) == CHOOSE i \in 1 .. Len(line) + 1 :
                      /\ \A k \in 1 .. i - 1 : line[k] \notin S
                      /\ i <= Len(line) => line[i] \in S
Skipped(line) == SubSeq(line, FirstIn(line, Char \ Space), Len(line))
Name(line) == SubSeq(line, 1, FirstIn(line, Space) - 1)

Lookup(name) ==
  LET lower == [i \in DOMAIN name |-> Lower[name[i]]]
      hits == {i \in DOMAIN Commands : IsPrefix(lower, Commands[i])}
      first == CHOOSE i \in hits : \A j \in hits : i <= j
  IN  IF hits = {} THEN <<>>
      ELSE IF Cardinality(hits) = 1 \/ Commands[first] = lower THEN Commands[first]
      ELSE <<>>

Prompt ==
  /\ Quiet
  /\ UNCHANGED <<num, str, cmdline, exit, mnt, sent>>

ShellEnds == pgm = "prompt" /\ Exit("0")

(* A line with a command that is not mount: help, one that is not          *)
(* implemented, or none.                                                   *)
OtherLine ==
  /\ pgm = "prompt" /\ lineno < Len(Lines)
  /\ lineno' = lineno + 1
  /\ \E line \in Lines[lineno'] :
       LET command == Lookup(Name(Skipped(line)))
       IN  /\ Skipped(line) = <<>> \/ command # <<"m", "o", "u", "n", "t">>
           /\ errbuf' = IF Skipped(line) = <<>> \/ command \in {<<>>, <<"h", "e", "l", "p">>}
                        THEN errbuf ELSE "not implemented"
  /\ UNCHANGED <<splitVars, parseVars, pgm, cmdline, exit, mnt, sent>>

MountLine ==
  /\ Goes("prompt", "splitting") /\ lineno < Len(Lines)
  /\ lineno' = lineno + 1
  /\ \E line \in Lines[lineno'] :
       /\ Skipped(line) # <<>>
       /\ Lookup(Name(Skipped(line))) = <<"m", "o", "u", "n", "t">>
       /\ BreakArgs(Skipped(line), NoDelim)
  /\ UNCHANGED <<parseVars, cmdline, exit, mnt, sent, errbuf>>

MountSplit ==
  /\ Goes("splitting", "mount")
  /\ split = "done"
  /\ ParseV("mount", "mount", Words)
  /\ UNCHANGED <<splitVars, cmdline, exit, mnt, sent, lineno, errbuf>>

(* errbuf is printed as it is, if mount returns something else than 0.     *)
MountNotSplit ==
  /\ Goes("splitting", "prompt")
  /\ FreeArgs /\ split # "done"
  /\ Prompt
  /\ UNCHANGED <<lineno, errbuf>>

MountLineEnds ==
  /\ Goes("mount", "prompt") /\ phase = "done"
  /\ errbuf' = IF rc = "0" /\ ~Answers THEN "not implemented" ELSE errbuf
  /\ FreeArgs /\ Prompt
  /\ UNCHANGED lineno

-----------------------------------------------------------------------------
(* clp_parsel, called once.                                                *)
ParseLine ==
  /\ Goes("library", "parsel")
  /\ \E l \in LibraryCalls : BreakArgs(l.line, l.delim)
  /\ UNCHANGED <<parseVars, cmdline, exit, mnt, sent, lineno, errbuf>>

ParseWords ==
  /\ Goes("parsel", "parsing")
  /\ split = "done"
  /\ ParseV("library", "library", Words)
  /\ UNCHANGED <<splitVars, cmdline, exit, mnt, sent, lineno, errbuf>>

LineParsed ==
  /\ \/ Goes("parsel", "exit") /\ split \in {"error", "nomem"}
        /\ exit' = IF split = "error" THEN "EX_DATAERR" ELSE "EX_OSERR"
     \/ Goes("parsing", "exit") /\ phase = "done" /\ exit' = rc
  /\ FreeArgs
  /\ UNCHANGED <<parseVars, cmdline, mnt, sent, lineno, errbuf>>

-----------------------------------------------------------------------------
Split == SplitStep /\ UNCHANGED <<parseVars, startVars>>
Parse == ParseStep /\ UNCHANGED <<splitVars, startVars>>

Next ==
  \/ Split \/ Parse
  \/ MainParse \/ MainEnds \/ MainRuns \/ MainShell
  \/ TestEnds \/ Mount \/ MountFails \/ Connected
  \/ MountCall \/ MountReply \/ GetattrReply \/ Testing
  \/ ShellEnds \/ OtherLine \/ MountLine \/ MountSplit \/ MountNotSplit \/ MountLineEnds
  \/ ParseLine \/ ParseWords \/ LineParsed

Spec == Init /\ [][Next]_vars

-----------------------------------------------------------------------------
Pgms == {"start", "main", "test", "connect", "mountcall", "mountreply", "getattr", "testing",
         "exit", "prompt", "splitting", "mount", "library", "parsel", "parsing"}
Codes == {"0", "EX_USAGE", "EX_DATAERR", "EX_OSERR"}

(* Every variable has its type; a number of an option is inside the domain *)
(* of its type at any time, also one the parser has refused.               *)
StartupTypeOK ==
  /\ \A i \in DOMAIN src : src[i] \in Char
  /\ \A i \in DOMAIN buf : buf[i] \in Char
  /\ \A i \in DOMAIN argv : argv[i] \in 0 .. Len(buf)
  /\ prev \in 0 .. Len(buf) /\ at \in 1 .. Len(src) + 2
  /\ split \in {"idle", "scan", "close", "done", "error", "nomem"}
  /\ phase \in {"idle", "options", "after", "convert", "done"}
  /\ optind \in 1 .. argc + 1 /\ nextchar \in Nat
  /\ \A v \in DOMAIN Optionv : \A o \in Members(Optionv[v]) :
       o.cvt \in DOMAIN Domain => num[o.dst] \in Domain[o.cvt].min .. Domain[o.cvt].max
  /\ \A c \in DOMAIN given : given[c] \in Nat
  /\ \A x \in Variables : num[x] \in Int /\ \A i \in DOMAIN str[x] : str[x][i] \in Char
  /\ rc \in Codes /\ pgm \in Pgms
  /\ exit \in Codes \cup {"none", "abort", "EX_NOPERM", "EX_IOERR", "EX_PROTOCOL"}
  /\ lineno \in 0 .. Len(Lines) /\ errbuf \in {"", "not implemented"}

(* What is mounted is what the remote path names: put together again, with *)
(* or without the parts that have a default, it is the argument given to   *)
(* the command, which has passed both parsers; no separator is left in the *)
(* user or in the server (an '@' only if there are several of them); and   *)
(* the server is asked for that directory.  Which '@' is the separator is  *)
(* left open: the code takes the first one, also one behind the ':', where *)
(* "[user@]rhost:path" has no user but a directory with an '@' in it.      *)
Spelled(m) ==
  {user \o m.server \o path :
     user \in {m.user \o <<"@">>} \cup (IF m.user = <<"root">> THEN {<<>>} ELSE {}),
     path \in {<<":">> \o m.path} \cup (IF m.path = <<"/">> THEN {<<>>} ELSE {})}

Places(w, c) == {i \in 1 .. Len(w) : w[i] = c}

MountsWhatWasAsked ==
  pgm \in {"mountcall", "mountreply", "getattr", "testing"} =>
    /\ Word(optind) \in Spelled(mnt)
    /\ Places(mnt.user, "@") = {} /\ Places(mnt.server, ":") = {}
    /\ Places(mnt.server, "@") # {} => \E i, j \in Places(Word(optind), "@") : i # j
    /\ pgm # "mountcall" => sent = mnt.path

=============================================================================
