------------------------------ MODULE TosFiles ------------------------------
(***************************************************************************)
(* The file system that GEMDOS promises a program: directories of 8.3      *)
(* names in upper case, each name found by looking it up as it stands.     *)
(* The interface variable ret holds the last call, its paths (of 8.3       *)
(* names) and whether it succeeded.                                        *)
(***************************************************************************)
EXTENDS Integers, Sequences

CONSTANTS Root, None

VARIABLES
  entries,   \* [dir, name, ino]
  dirs,      \* which files are directories
  cwd,
  ret

Find(d, k) ==
  LET found == {e \in entries : e.dir = d /\ e.name = k}
  IN IF found = {} THEN None ELSE (CHOOSE e \in found : TRUE).ino

(* Where the first k names of a path lead. *)
Walk(p) ==
  LET at[k \in 0 .. Len(p.names)] ==
        IF k = 0 THEN [dir |-> None, name |-> "", ino |-> IF p.abs THEN Root ELSE cwd]
        ELSE [dir |-> at[k - 1].ino, name |-> p.names[k], ino |-> Find(at[k - 1].ino, p.names[k])]
  IN at

At(p) == Walk(p)[Len(p.names)]

Linked(d) == d = Root \/ \E e \in entries : e.ino = d

IsFile(pos) == pos.ino # None /\ pos.ino \notin dirs
IsDir(pos)  == pos.ino \in dirs
IsNew(pos)  == pos.ino = None /\ pos.dir \in dirs /\ Linked(pos.dir)

Entry(pos, i) == [dir |-> pos.dir, name |-> pos.name, ino |-> i]

Unused(i) == i \notin dirs /\ \A e \in entries : e.ino # i

Children(d) == {e \in entries : e.dir = d}

(* Directory a is d or above it: in every set of directories that holds d and
   with each directory its parent.                                         *)
Below(d, a) ==
  \A S \in SUBSET dirs :
    d \in S /\ (\A e \in entries : e.ino \in S => e.dir \in S) => a \in S

-----------------------------------------------------------------------------
Stays == UNCHANGED <<entries, dirs, cwd>>

(* The call succeeds exactly when can holds, and then does effect. *)
Succeeds(can, effect) == (ret'.ok <=> can) /\ IF ret'.ok THEN effect ELSE Stays

(* A file that is there, or a new one if the call may make it; the call may
   fail for other reasons, such as having no handle left.                  *)
Open ==
  LET pos == At(ret'.path) IN
  /\ ret'.call = "Fopen"
  /\ \/ ret'.ok /\ pos.ino # None /\ Stays
     \/ /\ ret'.ok /\ IsNew(pos)
        /\ \E i \in {e.ino : e \in entries'} :
             Unused(i) /\ entries' = entries \cup {Entry(pos, i)}
        /\ UNCHANGED <<dirs, cwd>>
     \/ ~ret'.ok /\ Stays

Delete ==
  LET pos == At(ret'.path) IN
  /\ ret'.call = "Fdelete"
  /\ Succeeds(IsFile(pos), entries' = entries \ {Entry(pos, pos.ino)} /\ UNCHANGED <<dirs, cwd>>)

Link ==
  LET pos == At(ret'.path)  new == At(ret'.path2) IN
  /\ ret'.call = "Flink"
  /\ Succeeds(IsFile(pos) /\ IsNew(new),
              entries' = entries \cup {Entry(new, pos.ino)} /\ UNCHANGED <<dirs, cwd>>)

(* Two names of one file stay as they are. *)
MayReplace(pos, new) ==
  \/ IsNew(new)
  \/ IsFile(pos) /\ IsFile(new)
  \/ IsDir(pos) /\ IsDir(new) /\ Children(new.ino) = {}

Rename ==
  LET pos == At(ret'.path)  new == At(ret'.path2) IN
  /\ ret'.call = "Frename"
  /\ Succeeds(
       /\ pos.ino # None /\ pos.dir # None /\ new.dir \in dirs
       /\ \/ pos.ino = new.ino
          \/ MayReplace(pos, new) /\ ~(IsDir(pos) /\ Below(new.dir, pos.ino)),
       /\ entries' = IF pos.ino = new.ino THEN entries
                     ELSE (entries \ {Entry(pos, pos.ino), Entry(new, new.ino)})
                            \cup {Entry(new, pos.ino)}
       /\ dirs \ {new.ino} \subseteq dirs' /\ dirs' \subseteq dirs
       /\ UNCHANGED cwd)

MakeDir ==
  LET pos == At(ret'.path) IN
  /\ ret'.call = "Dcreate"
  /\ Succeeds(IsNew(pos),
       \E i \in dirs' : /\ Unused(i) /\ entries' = entries \cup {Entry(pos, i)}
                        /\ dirs' = dirs \cup {i} /\ UNCHANGED cwd)

(* A directory that is gone may live on as the current one. *)
RemoveDir ==
  LET pos == At(ret'.path) IN
  /\ ret'.call = "Ddelete"
  /\ Succeeds(IsDir(pos) /\ pos.dir # None /\ Children(pos.ino) = {},
       /\ entries' = entries \ {Entry(pos, pos.ino)}
       /\ dirs \ {pos.ino} \subseteq dirs' /\ dirs' \subseteq dirs
       /\ UNCHANGED cwd)

SetPath ==
  LET pos == At(ret'.path) IN
  /\ ret'.call = "Dsetpath"
  /\ Succeeds(IsDir(pos),
       /\ cwd' = pos.ino /\ UNCHANGED entries
       /\ dirs \ {cwd} \subseteq dirs' /\ dirs' \subseteq dirs)

(* Calls on handles leave the directories alone. *)
HandleCall ==
  /\ ret'.call \in {"Fclose", "Fdup", "Fforce"}
  /\ Stays

Init == entries = {} /\ dirs = {Root} /\ cwd = Root

Next == Open \/ Delete \/ Link \/ Rename \/ MakeDir \/ RemoveDir \/ SetPath \/ HandleCall

Spec == Init /\ [][Next]_<<entries, dirs, cwd, ret>>
=============================================================================
