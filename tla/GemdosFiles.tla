---------------------------- MODULE GemdosFiles ----------------------------
(***************************************************************************)
(* Files and directories by name: tos_path_to_unix of gemdos/path.c and    *)
(* the calls of gemdos/file.c and gemdos/dir.c that pass its result to the *)
(* host, with the host's descriptors and errno.  Host names differ in case *)
(* and may be long; a program may use any case and the 8.3 name instead.   *)
(***************************************************************************)
EXTENDS Integers, Sequences, FiniteSets, FiniteSetsExt

CONSTANTS
  MaxIno,    \* files and directories are 1 .. MaxIno; 1 is the root
  MaxFd,     \* descriptors are 0 .. MaxFd
  Name,      \* names that a program uses or the host has
  CaseKey,   \* for each name, what strcasecmp compares
  Key83,     \* for each name, the same of its 8.3 name
  Short,     \* names of at most 12 characters
  Aliases,   \* names with a hash, which a program only has from a listing
  Paths,     \* [abs : BOOLEAN, names : Seq(Name)], the paths that a program uses
  Handles,   \* handles that it closes, copies and redirects
  Modes      \* modes for Fopen as sets of bit numbers

ASSUME FilesAssumption ==
  /\ MaxIno \in Nat \ {0} /\ MaxFd \in Nat \ {0}
  /\ Name \subseteq DOMAIN CaseKey /\ Name \subseteq DOMAIN Key83
  /\ Paths \subseteq [abs : BOOLEAN, names : Seq(Name)]
  /\ \A p \in Paths : p.abs \/ p.names # <<>>
  /\ Modes \subseteq SUBSET (0 .. 15) /\ Handles \subseteq 0 .. MaxFd

(* A name that is not itself made up of a hash is found by exactly the names
   that have its 8.3 form: no two hashes collide, and no two long names (whose
   hashes count the case of each letter) differ only in case.              *)
ASSUME NamesAssumption ==
  \A e \in Name \ Aliases : \A n \in Name :
    \/ CaseKey[e] = CaseKey[n]
    \/ n \in Short /\ Key83[e] = CaseKey[n]
    <=> Key83[e] = Key83[n]

VARIABLES
  fs,      \* the host's [entries, dirs]
  cwd,     \* current directory
  fd,      \* the file each descriptor refers to
  errno,
  ret      \* the last call and its answer

vars == <<fs, cwd, fd, errno, ret>>

None == 0
Root == 1
Ino  == 1 .. MaxIno
Fd   == 0 .. MaxFd
Tty  == -1          \* what the standard descriptors refer to

ENOENT == 2    EPERM  == 1     EBADF  == 9    EEXIST    == 17
ENOTDIR == 20  EISDIR == 21    EINVAL == 22   EMFILE    == 24
ENOTEMPTY == 39  EBUSY == 16

E_OK   == 0
EPTHNF == -34

(* ENOTDIR, EMFILE and EBUSY are not in the table and give TOS_ERROR. *)
MapErrno(e) ==
  CASE e = 0         -> E_OK
    [] e = ENOENT    -> -33
    [] e = EBADF     -> -37
    [] e = EISDIR    -> -24
    [] e = EINVAL    -> -25
    [] e = EPERM     -> -38
    [] e = ENOTEMPTY -> -83
    [] e = EEXIST    -> -85
    [] OTHER         -> -1

-----------------------------------------------------------------------------
(* Path resolution.  A position is where a path has led so far: a directory,
   a name in it as the host spells it, and the file of that name, if any.  *)
Start(d, e) == [dir |-> None, name |-> "", ino |-> d, err |-> e]

Lost(e) == [dir |-> None, name |-> "", ino |-> None, err |-> e]

Exact(d, n) == {e \in fs.entries : e.dir = d /\ e.name = n}

(* Mutant: the names of the directory are compared as they stand. *)
MatchesExactly(e, n) == e.name = n

(* Mutant: the 8.3 names are not compared. *)
MatchesCaseOnly(e, n) == CaseKey[e.name] = CaseKey[n]

Matches(e, n) ==
  \/ CaseKey[e.name] = CaseKey[n]
  \/ n \in Short /\ Key83[e.name] = CaseKey[n]

(* The entry that a component of a path stands for: the one of that name, or
   else the first that matches; readdir may list them in any order.        *)
Lookup(pos, n) ==
  LET Found(e, err) == [dir |-> pos.ino, name |-> e.name, ino |-> e.ino, err |-> err]
      scan == {e \in fs.entries : e.dir = pos.ino /\ Matches(e, n)}
  IN IF pos.ino \notin fs.dirs THEN {Lost(IF pos.ino = None THEN ENOENT ELSE ENOTDIR)}
     ELSE IF Exact(pos.ino, n) # {} THEN {Found(e, pos.err) : e \in Exact(pos.ino, n)}
     ELSE IF scan # {} THEN {Found(e, ENOENT) : e \in scan}
     ELSE {Found([name |-> n, ino |-> None], ENOENT)}

(* The positions that the first k names of path p may lead to. *)
Walk(p, e) ==
  LET at[k \in 0 .. Len(p.names)] ==
        IF k = 0 THEN {Start(IF p.abs THEN Root ELSE cwd, e)}
        ELSE UNION {Lookup(pos, p.names[k]) : pos \in at[k - 1]}
  IN at

(* All of path p from an errno e: every position it may lead to. *)
tos_path_to_unix(p, e) == Walk(p, e)[Len(p.names)]

IsNull(pos) == pos.dir = None /\ pos.ino = None

-----------------------------------------------------------------------------
(* The host.  Each call returns [err, fs]. *)
Fails(e) == [err |-> e, fs |-> fs]

Entry(pos, i) == [dir |-> pos.dir, name |-> pos.name, ino |-> i]

Linked(F, d) == d = Root \/ \E e \in F.entries : e.ino = d

(* A directory that is gone is kept while it is the current one. *)
Kept(F, here) == [F EXCEPT !.dirs = {d \in F.dirs : Linked(F, d) \/ d = here}]

Does(E, D) == [err |-> 0, fs |-> Kept([entries |-> E, dirs |-> D], cwd)]

InUse == {e.ino : e \in fs.entries} \cup fs.dirs \cup {fd[h] : h \in Fd}
New   == Min(Ino \ InUse)

(* The bound: a call that may make a file needs one that is not in use. *)
Room(pos) == pos.ino # None \/ Ino \ InUse # {}

Children(d) == {e \in fs.entries : e.dir = d}

(* Directory a is d or above it. *)
Below(d, a) ==
  \A S \in SUBSET fs.dirs :
    d \in S /\ (\A e \in fs.entries : e.ino \in S => e.dir \in S) => a \in S

unlink(pos) ==
  IF pos.ino = None THEN Fails(ENOENT)
  ELSE IF pos.ino \in fs.dirs THEN Fails(EISDIR)
  ELSE Does(fs.entries \ {Entry(pos, pos.ino)}, fs.dirs)

rmdir(pos) ==
  IF pos.dir = None THEN Fails(EBUSY)
  ELSE IF pos.ino = None THEN Fails(ENOENT)
  ELSE IF pos.ino \notin fs.dirs THEN Fails(ENOTDIR)
  ELSE IF Children(pos.ino) # {} THEN Fails(ENOTEMPTY)
  ELSE Does(fs.entries \ {Entry(pos, pos.ino)}, fs.dirs)

mkdir(pos) ==
  IF pos.ino # None THEN Fails(EEXIST)
  ELSE IF ~Linked(fs, pos.dir) THEN Fails(ENOENT)
  ELSE Does(fs.entries \cup {Entry(pos, New)}, fs.dirs \cup {New})

link(pos, new) ==
  IF pos.ino = None THEN Fails(ENOENT)
  ELSE IF new.ino # None THEN Fails(EEXIST)
  ELSE IF pos.ino \in fs.dirs THEN Fails(EPERM)
  ELSE IF ~Linked(fs, new.dir) THEN Fails(ENOENT)
  ELSE Does(fs.entries \cup {Entry(new, pos.ino)}, fs.dirs)

(* The root is nobody's to move; two names of one file are left as they are. *)
rename(pos, new) ==
  LET dir == pos.ino \in fs.dirs
      over == new.ino \in fs.dirs
  IN IF None \in {pos.dir, new.dir} THEN Fails(EBUSY)
     ELSE IF pos.ino = None \/ ~Linked(fs, new.dir) THEN Fails(ENOENT)
     ELSE IF pos.ino = new.ino THEN Does(fs.entries, fs.dirs)
     ELSE IF dir /\ Below(new.dir, pos.ino) THEN Fails(EINVAL)
     ELSE IF dir /\ ~over /\ new.ino # None THEN Fails(ENOTDIR)
     ELSE IF over /\ ~dir THEN Fails(EISDIR)
     ELSE IF over /\ Children(new.ino) # {} THEN Fails(ENOTEMPTY)
     ELSE Does((fs.entries \ {Entry(pos, pos.ino), Entry(new, new.ino)}) \cup {Entry(new, pos.ino)},
               fs.dirs)

(* Takes the lowest descriptor; flags are the O_ names. *)
open(pos, flags) ==
  IF \A h \in Fd : fd[h] # None THEN Fails(EMFILE)
  ELSE IF pos.ino # None /\ {"CREAT", "EXCL"} \subseteq flags THEN Fails(EEXIST)
  ELSE IF pos.ino \in fs.dirs /\ flags \cap {"WRONLY", "RDWR", "CREAT"} # {} THEN Fails(EISDIR)
  ELSE IF pos.ino = None /\ ("CREAT" \notin flags \/ ~Linked(fs, pos.dir)) THEN Fails(ENOENT)
  ELSE IF pos.ino = None THEN Does(fs.entries \cup {Entry(pos, New)}, fs.dirs)
  ELSE IF pos.ino \notin fs.dirs /\ "DIRECTORY" \in flags THEN Fails(ENOTDIR)
  ELSE Does(fs.entries, fs.dirs)

FreeFd == Min({h \in Fd : fd[h] = None})

-----------------------------------------------------------------------------
Init ==
  /\ fs = [entries |-> {}, dirs |-> {Root}]
  /\ cwd = Root
  /\ fd = [h \in Fd |-> IF h <= 2 THEN Tty ELSE None]
  /\ errno = 0
  /\ ret = [call |-> "none"]

(* What a call makes of the position its path led to: the host's answer, or
   EPTHNF if the path leads nowhere.                                       *)
Answers(call, p, pos, host) ==
  LET done == IF IsNull(pos) THEN Fails(pos.err) ELSE host IN
  /\ fs' = done.fs
  /\ errno' = IF done.err = 0 THEN pos.err ELSE done.err
  /\ ret' = [call |-> call, path |-> p, ok |-> done.err = 0,
             res |-> IF IsNull(pos) THEN EPTHNF ELSE MapErrno(done.err)]

Fdelete(p) ==
  /\ \E pos \in tos_path_to_unix(p, errno) : Answers("Fdelete", p, pos, unlink(pos))
  /\ UNCHANGED <<cwd, fd>>

Dcreate(p) ==
  /\ \E pos \in tos_path_to_unix(p, errno) :
       Room(pos) /\ Answers("Dcreate", p, pos, mkdir(pos))
  /\ UNCHANGED <<cwd, fd>>

Ddelete(p) ==
  /\ \E pos \in tos_path_to_unix(p, errno) : Answers("Ddelete", p, pos, rmdir(pos))
  /\ UNCHANGED <<cwd, fd>>

Dsetpath(p) ==
  /\ \E pos \in tos_path_to_unix(p, errno) :
       LET there == pos.ino \in fs.dirs IN
       /\ Answers("Dsetpath", p, pos,
                  CASE there            -> [err |-> 0, fs |-> Kept(fs, pos.ino)]
                    [] pos.ino = None   -> Fails(ENOENT)
                    [] OTHER            -> Fails(ENOTDIR))
       /\ cwd' = IF there THEN pos.ino ELSE cwd
  /\ UNCHANGED fd

(* Flink and Frename: both paths are resolved before the host is called. *)
AnswersTwo(call, p, q, pos, new, host) ==
  LET last == IF IsNull(pos) THEN pos ELSE new
      done == IF IsNull(last) THEN Fails(last.err) ELSE host IN
  /\ fs' = done.fs
  /\ errno' = IF done.err = 0 THEN last.err ELSE done.err
  /\ ret' = [call |-> call, path |-> p, path2 |-> q, ok |-> done.err = 0,
             res |-> IF IsNull(last) THEN EPTHNF ELSE MapErrno(done.err)]

Flink(p, q) ==
  /\ \E pos \in tos_path_to_unix(p, errno) : \E new \in tos_path_to_unix(q, pos.err) :
       AnswersTwo("Flink", p, q, pos, new, link(pos, new))
  /\ UNCHANGED <<cwd, fd>>

Frename(p, q) ==
  /\ \E pos \in tos_path_to_unix(p, errno) : \E new \in tos_path_to_unix(q, pos.err) :
       AnswersTwo("Frename", p, q, pos, new, rename(pos, new))
  /\ UNCHANGED <<cwd, fd>>

(* The host's flags for a mode; bits 0 and 1 are the access, and the sign of
   the 16-bit mode stands for bits 16 and 17.                              *)
OpenFlags(mode) ==
  (CASE mode \cap {0, 1} = {0} -> {"WRONLY"}
     [] mode \cap {0, 1} = {1} -> {"RDWR"}
     [] OTHER                  -> {"RDONLY"})
  \cup {f \in {"NOATIME", "APPEND", "NONBLOCK", "CREAT", "TRUNC", "EXCL", "NOCTTY",
         "DIRECTORY", "NOFOLLOW"} :
          \E b \in mode : <<b, f>> \in {<<2, "NOATIME">>, <<3, "APPEND">>, <<8, "NONBLOCK">>,
            <<9, "CREAT">>, <<10, "TRUNC">>, <<11, "EXCL">>, <<14, "NOCTTY">>,
            <<15, "DIRECTORY">>, <<15, "NOFOLLOW">>}}

(* Mutant: errno, which a successful call leaves alone, tells a failure. *)
ResultByErrno(opened, err) == IF err # 0 THEN MapErrno(err) ELSE FreeFd

(* A descriptor below 1 is taken for a failure, and errno for its reason. *)
OpenResult(opened, err) == IF ~opened \/ FreeFd < 1 THEN MapErrno(err) ELSE FreeFd

Fopen(p, mode) ==
  \E pos \in tos_path_to_unix(p, errno) :
    LET done == IF IsNull(pos) THEN Fails(pos.err) ELSE open(pos, OpenFlags(mode))
        ok   == done.err = 0
        err  == IF ok THEN pos.err ELSE done.err
    IN /\ Room(pos)
       /\ fs' = done.fs
       /\ fd' = IF ok THEN [fd EXCEPT ![FreeFd] = IF pos.ino = None THEN New ELSE pos.ino] ELSE fd
       /\ errno' = err
       /\ ret' = [call |-> "Fopen", path |-> p, ok |-> ok,
                  res |-> IF IsNull(pos) THEN EPTHNF ELSE OpenResult(ok, err)]
       /\ UNCHANGED cwd

(* These hand on the host's -1. *)
Fclose(h) ==
  /\ fd' = [fd EXCEPT ![h] = None]
  /\ errno' = IF fd[h] = None THEN EBADF ELSE errno
  /\ ret' = [call |-> "Fclose", handle |-> h, res |-> IF fd[h] = None THEN -1 ELSE 0]
  /\ UNCHANGED <<fs, cwd>>

Fdup(h) ==
  LET err == CASE fd[h] = None -> EBADF [] \A i \in Fd : fd[i] # None -> EMFILE [] OTHER -> 0
  IN /\ fd' = IF err = 0 THEN [fd EXCEPT ![FreeFd] = fd[h]] ELSE fd
     /\ errno' = IF err = 0 THEN errno ELSE err
     /\ ret' = [call |-> "Fdup", handle |-> h, res |-> IF err = 0 THEN FreeFd ELSE -1]
     /\ UNCHANGED <<fs, cwd>>

Fforce(stdh, h) ==
  /\ fd' = IF fd[h] = None THEN fd ELSE [fd EXCEPT ![stdh] = fd[h]]
  /\ errno' = IF fd[h] = None THEN EBADF ELSE errno
  /\ ret' = [call |-> "Fforce", handle |-> stdh,
             res |-> IF fd[h] = None THEN MapErrno(EBADF) ELSE E_OK]
  /\ UNCHANGED <<fs, cwd>>

-----------------------------------------------------------------------------
(* Fcreate is Fopen with mode 0x602, one of the modes. *)
Next ==
  \/ \E p \in Paths : \/ Fdelete(p) \/ Dcreate(p) \/ Ddelete(p) \/ Dsetpath(p)
                      \/ \E m \in Modes : Fopen(p, m)
                      \/ \E q \in Paths : Flink(p, q) \/ Frename(p, q)
  \/ \E h \in Handles : Fclose(h) \/ Fdup(h) \/ \E s \in Handles : Fforce(s, h)

Spec == Init /\ [][Next]_vars

(* No step depends on ret: states that differ in it are one state. *)
view == <<fs, cwd, fd, errno>>

(* A program that gives no file a name with a hash. *)
Careful == \A e \in fs'.entries \ fs.entries : e.name \notin Aliases

CarefulSpec == Init /\ [][Next /\ Careful]_vars

-----------------------------------------------------------------------------
(* Type invariant of the host's tree and descriptors. *)
TypeOK ==
  /\ fs \in [entries : SUBSET [dir : Ino, name : Name, ino : Ino], dirs : SUBSET Ino]
  /\ {Root, cwd} \subseteq fs.dirs
  /\ fd \in [Fd -> Ino \cup {None, Tty}]
  /\ errno \in Nat

(* No call makes two entries of a directory that differ only in case, or that
   a listing shows under one 8.3 name.                                     *)
NamesUnique ==
  \A e, f \in fs.entries : e.dir = f.dir /\ Key83[e.name] = Key83[f.name] => e = f

(* The host's tree stays one that 8.3 names can address, with the current
   directory in it.                                                        *)
TreeSound == TypeOK /\ NamesUnique

(* Fopen answers with a handle exactly when the host has opened the file: an
   error leaves no descriptor open that the program does not know.  The one
   exception is descriptor 0, closed before, which the code takes for an
   error: it is open and the answer is an errno of an earlier call.        *)
FopenAnswers ==
  [][ret'.call = "Fopen" =>
       IF ret'.res < 0 THEN \A h \in Fd : fd'[h] = fd[h] \/ h = 0
       ELSE /\ fd[ret'.res] = None /\ fd'[ret'.res] # None
            /\ \A h \in Fd \ {ret'.res} : fd'[h] = fd[h]]_vars

(* To the program the host's directories are directories of 8.3 names: each
   call acts on the file, and succeeds or fails, as TosFiles says of the 8.3
   forms of its paths, whatever case or form the program and the host use. *)
KeyPath(p) == [abs |-> p.abs, names |-> [i \in DOMAIN p.names |-> Key83[p.names[i]]]]

Tos == INSTANCE TosFiles WITH
  entries <- {[dir |-> e.dir, name |-> Key83[e.name], ino |-> e.ino] : e \in fs.entries},
  dirs    <- fs.dirs,
  ret     <- [f \in DOMAIN ret |-> IF f \in {"path", "path2"} THEN KeyPath(ret[f]) ELSE ret[f]]

ActsAsTos == Tos!Spec
=============================================================================
