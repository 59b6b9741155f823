---------------------------- MODULE GemdosSearch ----------------------------
(***************************************************************************)
(* Directory searches: Fsetdta, Fsfirst and Fsnext of gemdos/file.c.  The  *)
(* first 8 bytes of a DTA buffer hold the address of a DTAPrivate, which   *)
(* owns the host's directory stream; the program switches between buffers  *)
(* with Fsetdta and so may have several searches under way.                *)
(***************************************************************************)
EXTENDS Integers, Sequences, FiniteSets, SequencesExt, FiniteSetsExt, Functions

CONSTANTS
  Dta,        \* DTA buffers of the program, zero before the first Fsfirst
  Priv,       \* identities of the host's DTAPrivate objects
  Null,
  Listing,    \* the entries of the directory in the order readdir gives them
  Patterns,   \* patterns the program searches for
  Attrs       \* attribute sets the program searches with

(* An entry is [name, attrib, stat]: attrib is the set of attributes its stat
   data give, and stat is FALSE when fstatat fails (a dangling link).  "." is
   an entry that every search with wildcards leaves out.  readdir gives no
   entry twice and none without a name.                                    *)
ASSUME SearchAssumption ==
  /\ Null \notin Priv
  /\ Listing \in Seq([name : STRING, attrib : SUBSET {"ro", "hidden", "dir"}, stat : BOOLEAN])
  /\ \A i \in DOMAIN Listing :
       /\ Listing[i].name # ""
       /\ \A j \in DOMAIN Listing : Listing[i].name = Listing[j].name => i = j

VARIABLES
  dta,      \* p_dta of the basepage
  cell,     \* the pointer in the first 8 bytes of each DTA
  priv,     \* the live DTAPrivate objects
  info,     \* what each DTA tells: an entry's name and attributes, or nothing
  asked,    \* for each DTA, its last Fsfirst and the names reported since
  lost,     \* objects whose address a later Fsfirst has overwritten
  ret       \* the answer of the last call

vars == <<dta, cell, priv, info, asked, lost, ret>>

E_OK   == 0
EFILNF == -33
ENMFIL == -49

NoSearch == [pattern |-> "", attr |-> {}, names |-> <<>>]
Nothing  == [name |-> "", attrib |-> {}]

-----------------------------------------------------------------------------
(* A pattern is "*.*", another one with wildcards ("*.C"), or a name.      *)

(* Mutant of IsGlob: "*.*" is taken for a name. *)
GlobWithoutAll(pat) == pat = "*.C"

IsGlob(pat) == pat \in {"*.*", "*.C"}

(* What the code compares: "*.*" has become the empty pattern, and any other
   pattern is compared as it stands.                                       *)
NameMatches(pat, name) == pat \in {"*.*", name}

(* Names the pattern stands for on GEMDOS. *)
Means(pat, name) ==
  CASE pat = "*.*" -> name # "."
    [] pat = "*.C" -> name = "A.C"
    [] OTHER       -> name = pat

Init ==
  /\ dta \in Dta
  /\ cell = [d \in Dta |-> Null]
  /\ priv = [p \in {} |-> 0]
  /\ info = [d \in Dta |-> Nothing]
  /\ asked = [d \in Dta |-> NoSearch]
  /\ lost = {}
  /\ ret = [call |-> "none"]

Fsetdta(buf) ==
  /\ dta' = buf
  /\ ret' = [call |-> "Fsetdta", res |-> E_OK]
  /\ UNCHANGED <<cell, priv, info, asked, lost>>

-----------------------------------------------------------------------------
(* Attributes the loop computes for entry i: fileStat is what the last fstatat
   that worked in this call filled in, else what was on the stack.         *)
Examined(p, i) ==
  {k \in p.at + 1 .. i : /\ Listing[k].stat
                         /\ NameMatches(p.pattern, Listing[k].name)
                         /\ ~(p.glob /\ Listing[k].name = ".")}

StatsOfFirst(p, i) ==
  IF Examined(p, i) = {} THEN SUBSET {"ro", "dir"}
  ELSE {Listing[Min(Examined(p, i))].attrib \ {"hidden"}}

Stats(p, i) ==
  IF Examined(p, i) = {} THEN SUBSET {"ro", "dir"}
  ELSE {Listing[Max(Examined(p, i))].attrib \ {"hidden"}}

AttribsOf(p, i) == {s \cup (Listing[i].attrib \cap {"hidden"}) : s \in Stats(p, i)}

(* Entry i passes every test of the loop with the attributes a. *)
Passes(p, i, a) ==
  /\ ~(p.glob /\ Listing[i].name = ".")
  /\ NameMatches(p.pattern, Listing[i].name)
  /\ a \subseteq p.attr

(* The entries that the loop may leave behind. *)
PassedOver(p) == {i \in DOMAIN Listing : \E a \in AttribsOf(p, i) : ~Passes(p, i, a)}

Without(f, x) == [y \in DOMAIN f \ {x} |-> f[y]]

(* Mutant of Finish: the DTA keeps the pointer. *)
FinishKeepsPointer(d, ps, c) == [priv |-> Without(ps, c[d]), cell |-> c]

(* cleanup: close the stream, free the object, clear the DTA. *)
Finish(d, ps, c) == [priv |-> Without(ps, c[d]), cell |-> [c EXCEPT ![d] = Null]]

(* Mutant of Found: the position of every search moves. *)
FoundMovesAll(d, ps, c, i, a) ==
  LET x == c[d]
      f == Finish(d, ps, c)
  IN /\ priv' = IF ps[x].glob THEN [y \in DOMAIN ps |-> [ps[y] EXCEPT !.at = i]] ELSE f.priv
     /\ cell' = IF ps[x].glob THEN c ELSE f.cell
     /\ info' = [info EXCEPT ![d] = [name |-> Listing[i].name, attrib |-> a]]

(* Entry i is reported in DTA d: a search with wildcards goes on after it. *)
Found(d, ps, c, i, a) ==
  LET x == c[d]
      f == Finish(d, ps, c)
  IN /\ priv' = IF ps[x].glob THEN [ps EXCEPT ![x].at = i] ELSE f.priv
     /\ cell' = IF ps[x].glob THEN c ELSE f.cell
     /\ info' = [info EXCEPT ![d] = [name |-> Listing[i].name, attrib |-> a]]

(* Fsnext with the objects ps and the pointers c; end is the answer when there
   are no more files.                                                      *)
Search(d, ps, c, q, call, end) ==
  LET p == ps[c[d]]
  IN \/ \E i \in p.at + 1 .. Len(Listing) : \E a \in AttribsOf(p, i) :
          /\ Passes(p, i, a)
          /\ p.at + 1 .. i - 1 \subseteq PassedOver(p)
          /\ Found(d, ps, c, i, a)
          /\ asked' = [asked EXCEPT ![d] = [q EXCEPT !.names = Append(@, Listing[i].name)]]
          /\ ret' = [call |-> call, res |-> E_OK]
     \/ /\ p.at + 1 .. Len(Listing) \subseteq PassedOver(p)
        /\ LET f == Finish(d, ps, c) IN priv' = f.priv /\ cell' = f.cell
        /\ asked' = [asked EXCEPT ![d] = q]
        /\ ret' = [call |-> call, res |-> end]
        /\ UNCHANGED info

(* Fsfirst of a directory that can be opened ends in a call of Fsnext.  An
   object the DTA already points to is not looked at.                      *)
Fsfirst(pat, attr) ==
  /\ \E x \in Priv \ DOMAIN priv :
       LET new == [pattern |-> pat, glob |-> IsGlob(pat), attr |-> attr, at |-> 0]
       IN Search(dta, [y \in DOMAIN priv \cup {x} |-> IF y = x THEN new ELSE priv[y]],
                 [cell EXCEPT ![dta] = x],
                 [pattern |-> pat, attr |-> attr, names |-> <<>>], "Fsfirst", EFILNF)
  /\ lost' = lost \cup ({cell[dta]} \ {Null})
  /\ UNCHANGED dta

(* The directory cannot be opened. *)
FsfirstFails ==
  /\ cell' = [cell EXCEPT ![dta] = Null]
  /\ asked' = [asked EXCEPT ![dta] = NoSearch]
  /\ lost' = lost \cup ({cell[dta]} \ {Null})
  /\ ret' = [call |-> "Fsfirst", res |-> EFILNF]
  /\ UNCHANGED <<dta, priv, info>>

Fsnext ==
  \/ /\ cell[dta] = Null
     /\ ret' = [call |-> "Fsnext", res |-> ENMFIL]
     /\ UNCHANGED <<dta, cell, priv, info, asked, lost>>
  \/ /\ cell[dta] # Null
     /\ Search(dta, priv, cell, asked[dta], "Fsnext", ENMFIL)
     /\ UNCHANGED <<dta, lost>>

Next ==
  \/ \E buf \in Dta : Fsetdta(buf)
  \/ \E pat \in Patterns, attr \in Attrs : Fsfirst(pat, attr)
  \/ FsfirstFails
  \/ Fsnext

Spec == Init /\ [][Next]_vars

-----------------------------------------------------------------------------
(* Type invariant of the DTAs and the objects behind them. *)
TypeOK ==
  /\ dta \in Dta
  /\ cell \in [Dta -> Priv \cup {Null}]
  /\ DOMAIN priv \subseteq Priv
  /\ \A x \in DOMAIN priv : priv[x].at \in 0 .. Len(Listing)
  /\ lost \subseteq Priv

(* The pointer in a DTA is never stale: it leads to a live object, and no two
   DTAs lead to the same one, so Fsnext neither uses nor frees one twice.  *)
PointersLive ==
  \A d \in Dta : cell[d] # Null =>
    /\ cell[d] \in DOMAIN priv
    /\ \A e \in Dta \ {d} : cell[e] # cell[d]

(* A stream is lost only by a search that the program abandons by starting
   another one on the same DTA: each search that comes to its end, by a name
   without wildcards or by Fsnext running out, is closed.                  *)
LeaksOnlyAbandoned ==
  DOMAIN priv = ({cell[d] : d \in Dta} \ {Null}) \cup lost

(* Every object is where a DTA leads or was abandoned: all of the above. *)
PointersSound == TypeOK /\ PointersLive /\ LeaksOnlyAbandoned

(* Searches on different DTAs do not disturb each other. *)
SearchesIndependent ==
  [][\A d \in Dta \ {dta} :
       /\ cell'[d] = cell[d] /\ info'[d] = info[d]
       /\ cell[d] # Null => cell[d] \in DOMAIN priv' /\ priv'[cell[d]] = priv[cell[d]]]_vars

(* Fsnext, called as often as necessary, finds all files that match: when it
   says that there are no more, each matching file was reported once.  A link
   that leads nowhere may be reported or not.                              *)
Wanted(q) ==
  {Listing[i].name : i \in {j \in DOMAIN Listing :
     Means(q.pattern, Listing[j].name) /\ Listing[j].attrib \subseteq q.attr}}

Dangling == {Listing[i].name : i \in {j \in DOMAIN Listing : ~Listing[j].stat}}

FindsAll ==
  [][ret'.call \in {"Fsfirst", "Fsnext"} /\ ret'.res # E_OK /\ asked'[dta] # NoSearch =>
       /\ ToSet(asked'[dta].names) \ Dangling = Wanted(asked'[dta]) \ Dangling
       /\ IsInjective(asked'[dta].names)]_vars

(* What a DTA tells of a file is true of that file, whatever the buffer of
   fstatat held before; but for a link that leads nowhere, where the result
   of fstatat is not looked at, it is what some other file left there.     *)
InfoIsTrue ==
  \A d \in Dta, i \in DOMAIN Listing :
    info[d].name = Listing[i].name /\ Listing[i].stat => info[d].attrib = Listing[i].attrib
=============================================================================
