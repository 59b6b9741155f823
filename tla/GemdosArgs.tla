----------------------------- MODULE GemdosArgs -----------------------------
(***************************************************************************)
(* Arguments and environment on their way through a chain of programs: the *)
(* loader (BuildTosArglist of gemdos/loader.c) writes them into the base   *)
(* page, the program hands others to Pexec, as a command line or by the    *)
(* ARGV procedure, and prepare_args of gemdos/pexec.c makes them the       *)
(* argument vector of the next execve, which starts ParaTos again if the   *)
(* file is a TOS executable.                                               *)
(*                                                                         *)
(* A text is a sequence of characters.  The environment is a sequence of   *)
(* texts, in which an ARGV entry is <<"ARGV=", nulls>> with the set of the *)
(* numbers of the empty arguments (NULL:1,2).                              *)
(***************************************************************************)
EXTENDS Integers, Sequences

CONSTANTS
  MAX_TOS_ARG,   \* bytes of a command line
  Texts,         \* arguments that programs pass on
  MaxArgs,       \* at most so many of them
  Paths,         \* programs
  TosPaths,      \* those with the magic number of a TOS executable
  MaxHops        \* bound on the calls of Pexec in a row

ASSUME ArgsAssumption ==
  /\ MAX_TOS_ARG \in Nat \ {0} /\ MaxArgs \in Nat /\ MaxHops \in Nat
  /\ TosPaths \subseteq Paths
  /\ \A t \in Texts \cup Paths : t \in Seq({t[i] : i \in DOMAIN t})

VARIABLES
  host,    \* what execve was given: [argv, env]
  page,    \* the base page of the running program: [len, text, env]
  array,   \* what prepare_args allocated, and how much of it was used
  sent,    \* what the caller of the running program meant: [argv, env]
  phase,   \* "loading", "running", or "host" for a host program
  hops

vars == <<host, page, array, sent, phase, hops>>

Blank   == " "
SQ      == "'"
DQ      == "\""
Blanks  == {Blank, "\t", "\n", "\r"}
Quotes  == {SQ, DQ}
Paratos == <<"paratos">>

(* The length byte 127, which announces the ARGV procedure. *)
Extended == MAX_TOS_ARG + 1

(* A program and its arguments. *)
Calls == Paths \X UNION {[1 .. n -> Texts] : n \in 0 .. MaxArgs}
Argvs == {<<call[1]>> \o call[2] : call \in Calls}

IsArgv(t) == t # <<>> /\ Head(t) = "ARGV="

-----------------------------------------------------------------------------
(* BuildTosArglist *)

(* The command line: a blank before each argument, quotes for an empty one. *)
Word(t) == <<Blank>> \o IF t = <<>> THEN <<SQ, SQ>> ELSE t

WordsTo(argv) ==
  LET line[k \in 0 .. Len(argv) - 1] ==
        IF k = 0 THEN <<>> ELSE line[k - 1] \o Word(argv[k + 1])
  IN line

Words(argv) == WordsTo(argv)[Len(argv) - 1]

(* The end of the environment: the numbers of the empty arguments, counted
   from the program as 0, and all arguments, with a blank for an empty one. *)
ArgvList(argv) ==
  <<<<"ARGV=", {i - 1 : i \in {j \in DOMAIN argv : argv[j] = <<>>}}>>>>
  \o [i \in DOMAIN argv |-> IF argv[i] = <<>> THEN <<Blank>> ELSE argv[i]]

(* A line that reaches MAX_TOS_ARG is cut and marked. *)
Line(text) ==
  IF Len(text) < MAX_TOS_ARG THEN [len |-> Len(text), text |-> text]
  ELSE [len |-> Extended, text |-> SubSeq(text, 1, MAX_TOS_ARG)]

BuildTosArglist(argv, env) ==
  LET line == Line(Words(argv)) IN
  [len |-> line.len, text |-> line.text, env |-> env \o ArgvList(argv)]

-----------------------------------------------------------------------------
(* parse_cmdline: a state per character.  In quotes every character is passed
   over but the quote itself; a doubled one counts as one and takes the next
   character with it.  The byte after the line is taken to be 0.           *)
Put(s, c) == [s EXCEPT !.args[Len(s.args)] = Append(@, c), !.bytes = @ + 1]

InWord(s, c) ==
  IF c \in Blanks THEN [s EXCEPT !.state = "BL", !.bytes = @ + 1]
  ELSE IF c \in Quotes THEN [s EXCEPT !.state = c]
  ELSE Put(s, c)

InQuotes(s, c, next) ==
  IF c # s.state THEN s
  ELSE IF next # s.state THEN [s EXCEPT !.state = "CHAR"]
  ELSE [Put(s, c) EXCEPT !.skip = 2]

NewWord(s) == [s EXCEPT !.args = Append(@, <<>>), !.state = "CHAR"]

Parsed(s, c, next) ==
  IF s.skip > 0 THEN [s EXCEPT !.skip = @ - 1]
  ELSE IF s.state = "BL" THEN IF c \in Blanks THEN s ELSE InWord(NewWord(s), c)
  ELSE IF s.state = "CHAR" THEN InWord(s, c)
  ELSE InQuotes(s, c, next)

(* The states after the first k characters of a text. *)
Parse(text) ==
  LET run[k \in 0 .. Len(text)] ==
        IF k = 0 THEN [state |-> "BL", args |-> <<>>, bytes |-> 0, skip |-> 0]
        ELSE Parsed(run[k - 1], text[k], IF k = Len(text) THEN "" ELSE text[k + 1])
  IN run

parse_cmdline(text) ==
  LET end == Parse(text)[Len(text)] IN [args |-> end.args, bytes |-> end.bytes + 1]

(* What arguments take in the buffer, each with its closing 0. *)
BytesTo(args) ==
  LET sum[k \in 0 .. Len(args)] == IF k = 0 THEN 0 ELSE sum[k - 1] + Len(args[k]) + 1
  IN sum

Bytes(args) == BytesTo(args)[Len(args)]

-----------------------------------------------------------------------------
(* prepare_args *)

(* Where the ARGV entry is, if the length byte says that there is one. *)
ArgvAt(len, env) ==
  IF len = Extended /\ \E i \in DOMAIN env : IsArgv(env[i])
  THEN CHOOSE i \in DOMAIN env : IsArgv(env[i]) /\ \A j \in 1 .. i - 1 : ~IsArgv(env[j])
  ELSE 0

(* Mutant: no room for the executable that is put in front. *)
PointersTight(env, at, count) == IF at # 0 THEN Len(env) + 1 ELSE Len(env) + count + 2

(* The pointers allocated: read_env leaves room for one more and the last
   NULL; a parsed command line gets room behind the environment.           *)
Pointers(env, at, count) == IF at # 0 THEN Len(env) + 2 ELSE Len(env) + count + 3

(* Mutant: the environment keeps the ARGV entry. *)
KeepsArgv(path, line, env) ==
  LET at   == ArgvAt(line.len, env)
      argv == IF at # 0 THEN SubSeq(env, at + 1, Len(env)) ELSE <<path>> \o parse_cmdline(line.text).args
  IN [argv |-> IF path \in TosPaths THEN <<Paratos>> \o argv ELSE argv, env |-> env, first |-> at]

(* The vector and the environment for execve, and where in the array of
   pointers the vector starts.                                             *)
prepare_args(path, line, env) ==
  LET at   == ArgvAt(line.len, env)
      argv == IF at # 0 THEN SubSeq(env, at + 1, Len(env)) ELSE <<path>> \o parse_cmdline(line.text).args
  IN [argv  |-> IF path \in TosPaths THEN <<Paratos>> \o argv ELSE argv,
      env   |-> IF at # 0 THEN SubSeq(env, 1, at - 1) ELSE env,
      first |-> IF at # 0 THEN at ELSE Len(env) + 1]

-----------------------------------------------------------------------------
(* The program: it reads its arguments from the list if the length byte says
   so, and from the line otherwise.  A line that it writes has a blank
   between arguments and fits.                                             *)
Without(env) ==
  LET at == ArgvAt(Extended, env) IN IF at = 0 THEN env ELSE SubSeq(env, 1, at - 1)

ListOf(env) ==
  LET at    == ArgvAt(Extended, env)
      nulls == env[at][2]
      argv  == SubSeq(env, at + 1, Len(env))
  IN [i \in DOMAIN argv |-> IF i - 1 \in nulls THEN <<>> ELSE argv[i]]

(* Empty quotes are read as an empty argument. *)
WordsOf(text) == parse_cmdline(text).args

Reads(p) ==
  [args |-> IF p.len = Extended THEN Tail(ListOf(p.env)) ELSE WordsOf(p.text),
   env  |-> Without(p.env)]

Writes(argv, byArgv, env) ==
  IF byArgv THEN [line |-> [len |-> Extended, text |-> <<>>], env |-> env \o ArgvList(argv)]
  ELSE LET text == IF Len(argv) = 1 THEN <<>> ELSE Tail(Words(argv))
       IN [line |-> [len |-> Len(text), text |-> text], env |-> env]

-----------------------------------------------------------------------------
Vars == <<<<"V", "=">>>>

(* ParaTos is started with a program, its arguments and an environment. *)
Init ==
  /\ \E argv \in Argvs :
       /\ Head(argv) \in TosPaths
       /\ sent = [argv |-> argv, env |-> Vars]
       /\ host = [argv |-> <<Paratos>> \o argv, env |-> Vars]
  /\ page = [len |-> 0, text |-> <<>>, env |-> <<>>]
  /\ array = [size |-> 0, used |-> 0, bytes |-> 0, filled |-> 0]
  /\ phase = "loading"
  /\ hops = 0

(* main hands its own argument vector to LoadExe without the first. *)
LoadExe ==
  /\ phase = "loading"
  /\ page' = BuildTosArglist(Tail(host.argv), host.env)
  /\ phase' = "running"
  /\ UNCHANGED <<host, array, sent, hops>>

(* The program starts another with the arguments argv: by a command line or
   the ARGV procedure, and with an environment from which it has taken its
   own list, or not.                                                       *)
Pexec(argv, byArgv, stripped) ==
  LET own  == IF stripped \/ byArgv THEN Without(page.env) ELSE page.env
      w    == Writes(argv, byArgv, own)
      at   == ArgvAt(w.line.len, w.env)
      words == parse_cmdline(w.line.text)
      made == prepare_args(Head(argv), w.line, w.env)
  IN /\ phase = "running" /\ hops < MaxHops
     /\ byArgv \/ w.line.len <= MAX_TOS_ARG
     /\ sent' = [argv |-> argv, env |-> Without(page.env)]
     /\ host' = [argv |-> made.argv, env |-> made.env]
     /\ array' = [size   |-> Pointers(w.env, at, 1 + Len(words.args)),
                  used   |-> made.first + Len(made.argv) + 1,
                  bytes  |-> words.bytes,
                  filled |-> Bytes(words.args)]
     /\ phase' = IF Head(argv) \in TosPaths THEN "loading" ELSE "host"
     /\ hops' = hops + 1
     /\ UNCHANGED page

Next == LoadExe \/ \E argv \in Argvs : \E byArgv, stripped \in BOOLEAN : Pexec(argv, byArgv, stripped)

Spec == Init /\ [][Next]_vars

(* Arguments without blanks and quotes: BuildTosArglist adds none around them. *)
Plain(argv) == \A i \in 2 .. Len(argv) : \A j \in DOMAIN argv[i] : argv[i][j] \notin Blanks \cup Quotes

(* Programs that pass no empty argument by the ARGV procedure, and that take
   their own list from the environment before they pass it on with a command
   line that the loader will find too long.                                *)
Careful(argv, byArgv, stripped) ==
  /\ Plain(argv)
  /\ byArgv => \A i \in DOMAIN argv : argv[i] # <<>>
  /\ stripped \/ Len(Words(argv)) < MAX_TOS_ARG

CarefulInit == Init /\ Plain(sent.argv)

CarefulNext ==
  \/ LoadExe
  \/ \E argv \in Argvs : \E byArgv, stripped \in BOOLEAN :
       Pexec(argv, byArgv, stripped) /\ Careful(argv, byArgv, stripped)

CarefulSpec == CarefulInit /\ [][CarefulNext]_vars

-----------------------------------------------------------------------------
(* The command line that BuildTosArglist writes stays inside its field of the
   base page.                                                              *)
TypeOK ==
  /\ host.argv # <<>>
  /\ page.len \in 0 .. Extended /\ Len(page.text) <= MAX_TOS_ARG
  /\ sent.argv \in Argvs
  /\ phase \in {"loading", "running", "host"} /\ hops \in 0 .. MaxHops

(* prepare_args stays inside what it allocates, with the vector moved by one
   for the ParaTos executable and its closing NULL, and with every argument
   of a command line and its closing 0; and BuildTosArglist stays inside the
   base page.                                                              *)
ArraysFit == TypeOK /\ array.used <= array.size /\ array.filled <= array.bytes

(* However long the arguments are, whether they went by command line or by
   the ARGV procedure and whatever earlier programs of the chain were given,
   the file that is loaded is the one named, and the program reads the very
   arguments and environment that its caller meant.                        *)
ArgsArrive ==
  /\ phase = "loading" => host.argv[2] = Head(sent.argv)
  /\ phase = "running" => Reads(page) = [args |-> Tail(sent.argv), env |-> sent.env]
  /\ phase = "host" => host.argv = sent.argv /\ Without(host.env) = sent.env
=============================================================================
