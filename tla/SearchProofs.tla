---------------------------- MODULE SearchProofs ----------------------------
(* Proofs about directory searches, for any number of DTAs and of searches that
   are started, interleaved and abandoned, and for every directory.          *)
EXTENDS GemdosSearch, TLAPS

(* What a DTAPrivate holds. *)
Object == [pattern : Patterns, glob : BOOLEAN, attr : Attrs, at : 0 .. Len(Listing)]

(* The inductive invariant over objects ps, pointers c and abandoned objects l:
   no pointer leads to an abandoned object, or freeing what a DTA leads to
   would free it under the invariant's feet.                                 *)
Sound(ps, c, l) ==
  /\ c \in [Dta -> Priv \cup {Null}] /\ l \subseteq Priv
  /\ DOMAIN ps \subseteq Priv /\ ps \in [DOMAIN ps -> Object]
  /\ \A d \in Dta : c[d] # Null =>
       /\ c[d] \in DOMAIN ps /\ c[d] \notin l
       /\ \A e \in Dta \ {d} : c[e] # c[d]
  /\ DOMAIN ps = ({c[d] : d \in Dta} \ {Null}) \cup l

(* What one DTA does leaves the search of every other one alone. *)
Apart(d, ps, c, ps2, c2) ==
  \A e \in Dta \ {d} :
    /\ c2[e] = c[e]
    /\ c[e] # Null => c[e] \in DOMAIN ps2 /\ ps2[c[e]] = ps[c[e]]

(* cleanup frees the object of one DTA. *)
LEMMA FinishKeeps ==
  ASSUME NEW ps, NEW c, NEW l, Sound(ps, c, l), NEW d \in Dta, c[d] # Null,
         NEW ps2, ps2 = Without(ps, c[d]), NEW c2, c2 = [c EXCEPT ![d] = Null]
  PROVE  Sound(ps2, c2, l) /\ Apart(d, ps, c, ps2, c2)
<1>1. /\ DOMAIN ps2 = DOMAIN ps \ {c[d]}
      /\ \A y \in DOMAIN ps2 : ps2[y] = ps[y]
      /\ ps2 \in [DOMAIN ps2 -> Object]
  BY DEF Without, Sound
<1>2. c2 \in [Dta -> Priv \cup {Null}] /\ c2[d] = Null /\ \A e \in Dta \ {d} : c2[e] = c[e]
  BY DEF Sound
<1>3. Apart(d, ps, c, ps2, c2)
  BY <1>1, <1>2 DEF Apart, Sound
<1>4. \A e \in Dta : c2[e] # Null =>
        /\ c2[e] \in DOMAIN ps2 /\ c2[e] \notin l
        /\ \A f \in Dta \ {e} : c2[f] # c2[e]
  BY <1>1, <1>2 DEF Sound
<1>5. DOMAIN ps2 = ({c2[e] : e \in Dta} \ {Null}) \cup l
  <2>1. \A x : x \in {c2[e] : e \in Dta} \ {Null} <=> x \in ({c[e] : e \in Dta} \ {Null}) \ {c[d]}
    BY <1>2 DEF Sound
  <2> QED
    BY <2>1, <1>1 DEF Sound
<1> QED
  BY <1>1, <1>2, <1>3, <1>4, <1>5 DEF Sound

(* A search moves on in its own object only. *)
LEMMA MoveKeeps ==
  ASSUME NEW ps, NEW c, NEW l, Sound(ps, c, l), NEW d \in Dta, c[d] # Null,
         NEW i \in 0 .. Len(Listing), NEW ps2, ps2 = [ps EXCEPT ![c[d]].at = i]
  PROVE  Sound(ps2, c, l) /\ Apart(d, ps, c, ps2, c)
<1>1. c[d] \in DOMAIN ps
  BY DEF Sound
<1>2. DOMAIN ps2 = DOMAIN ps /\ \A y \in DOMAIN ps \ {c[d]} : ps2[y] = ps[y]
  BY DEF Sound
<1>3. ps2 \in [DOMAIN ps -> Object]
  BY <1>1 DEF Sound, Object
<1> QED
  BY <1>2, <1>3 DEF Sound, Apart

(* Fsfirst: a new object, and the one the DTA led to is abandoned. *)
LEMMA StartKeeps ==
  ASSUME NEW ps, NEW c, NEW l, Sound(ps, c, l), NEW d \in Dta,
         NEW x \in Priv \ DOMAIN ps,
         NEW ps2 \in [DOMAIN ps \cup {x} -> Object], \A y \in DOMAIN ps : ps2[y] = ps[y],
         NEW c2 \in [Dta -> Priv \cup {Null}], c2[d] = x,
         \A e \in Dta \ {d} : c2[e] = c[e]
  PROVE  Sound(ps2, c2, l \cup ({c[d]} \ {Null})) /\ Apart(d, ps, c, ps2, c2)
<1> DEFINE l2 == l \cup ({c[d]} \ {Null})
<1>1. DOMAIN ps2 = DOMAIN ps \cup {x} /\ ps2 \in [DOMAIN ps2 -> Object]
  BY DEF Sound
<1>2. c2 \in [Dta -> Priv \cup {Null}] /\ c2[d] = x /\ \A e \in Dta \ {d} : c2[e] = c[e]
  OBVIOUS
<1>3. Apart(d, ps, c, ps2, c2)
  BY <1>1, <1>2 DEF Apart, Sound
<1>4. x # Null /\ x \notin l /\ \A e \in Dta : c[e] # x
  BY SearchAssumption DEF Sound
<1>5. \A e \in Dta : c2[e] # Null =>
        /\ c2[e] \in DOMAIN ps2 /\ c2[e] \notin l2
        /\ \A f \in Dta \ {e} : c2[f] # c2[e]
  <2> SUFFICES ASSUME NEW e \in Dta, c2[e] # Null
               PROVE  /\ c2[e] \in DOMAIN ps2 /\ c2[e] \notin l2
                      /\ \A f \in Dta \ {e} : c2[f] # c2[e]
    OBVIOUS
  <2>1. CASE e = d
    BY <2>1, <1>1, <1>2, <1>4
  <2>2. CASE e # d
    BY <2>2, <1>1, <1>2, <1>4 DEF Sound
  <2> QED
    BY <2>1, <2>2
<1>6. DOMAIN ps2 = ({c2[e] : e \in Dta} \ {Null}) \cup l2
  <2>1. \A y : y \in {c2[e] : e \in Dta} \ {Null} <=>
                 y = x \/ y \in {c[e] : e \in Dta \ {d}} \ {Null}
    BY <1>2, <1>4
  <2>2. \A y : y \in ({c[e] : e \in Dta} \ {Null}) <=>
                 y \in {c[e] : e \in Dta \ {d}} \ {Null} \/ y \in {c[d]} \ {Null}
    OBVIOUS
  <2> QED
    BY <2>1, <2>2, <1>1 DEF Sound
<1>7. l2 \subseteq Priv
  BY DEF Sound
<1> QED
  BY <1>1, <1>2, <1>3, <1>5, <1>6, <1>7 DEF Sound

(* FsfirstFails: the pointer is cleared, its object abandoned. *)
LEMMA AbandonKeeps ==
  ASSUME NEW ps, NEW c, NEW l, Sound(ps, c, l), NEW d \in Dta,
         NEW c2, c2 = [c EXCEPT ![d] = Null],
         NEW l2, l2 = l \cup ({c[d]} \ {Null})
  PROVE  Sound(ps, c2, l2) /\ Apart(d, ps, c, ps, c2)
<1>1. c2 \in [Dta -> Priv \cup {Null}] /\ c2[d] = Null /\ \A e \in Dta \ {d} : c2[e] = c[e]
  BY DEF Sound
<1>2. \A y : y \in ({c2[e] : e \in Dta} \ {Null}) \cup l2 <=>
               y \in ({c[e] : e \in Dta} \ {Null}) \cup l
  BY <1>1
<1>3. \A e \in Dta : c2[e] # Null =>
        /\ c2[e] \in DOMAIN ps /\ c2[e] \notin l2
        /\ \A f \in Dta \ {e} : c2[f] # c2[e]
  BY <1>1 DEF Sound
<1> QED
  BY <1>1, <1>2, <1>3 DEF Sound, Apart

-----------------------------------------------------------------------------
(* The entries the loop stops at.                                            *)

(* The listing is a sequence. *)
LEMMA Positions ==
  /\ Len(Listing) \in Nat /\ DOMAIN Listing = 1 .. Len(Listing)
<1> DEFINE R == [name : STRING, attrib : SUBSET {"ro", "hidden", "dir"}, stat : BOOLEAN]
<1>1. Listing \in Seq(R)
  BY SearchAssumption, Zenon
<1> HIDE DEF R
<1> QED
  BY <1>1

(* Its entries have names, all different. *)
LEMMA Entries ==
  ASSUME NEW i \in DOMAIN Listing
  PROVE  /\ Listing[i].attrib \subseteq {"ro", "hidden", "dir"}
         /\ Listing[i].stat \in BOOLEAN
         /\ Listing[i].name # ""
         /\ \A j \in DOMAIN Listing : Listing[i].name = Listing[j].name => i = j
<1> DEFINE R == [name : STRING, attrib : SUBSET {"ro", "hidden", "dir"}, stat : BOOLEAN]
<1>1. /\ Listing[i].name # ""
      /\ \A j \in DOMAIN Listing : Listing[i].name = Listing[j].name => i = j
  BY SearchAssumption, Zenon
<1>2. Listing[i] \in R
  <2>1. Listing \in Seq(R)
    BY SearchAssumption, Zenon
  <2>2. i \in 1 .. Len(Listing)
    BY Positions
  <2> HIDE DEF R
  <2> QED
    BY <2>1, <2>2
<1> QED
  BY <1>1, <1>2

(* The last entry whose data fstatat read before the tests is the entry itself,
   when its own fstatat worked: its attributes are the ones compared and
   reported.                                                                 *)
LEMMA OwnAttributes ==
  ASSUME NEW p, p.at \in Nat, NEW i \in p.at + 1 .. Len(Listing), Listing[i].stat,
         NameMatches(p.pattern, Listing[i].name), ~(p.glob /\ Listing[i].name = ".")
  PROVE  AttribsOf(p, i) = {Listing[i].attrib}
<1> DEFINE E == Examined(p, i)
<1>1. Len(Listing) \in Nat /\ i \in DOMAIN Listing
  BY Positions
<1>2. i \in E /\ \A k \in E : k \in Int /\ k <= i
  BY <1>1 DEF Examined
<1>3. Max(E) = i
  <2> HIDE DEF E
  <2>1. \A x \in E : (\A y \in E : x >= y) => x = i
    BY <1>1, <1>2
  <2>2. i \in E /\ \A y \in E : i >= y
    BY <1>1, <1>2
  <2> QED
    BY <2>1, <2>2 DEF Max
<1>4. Stats(p, i) = {Listing[i].attrib \ {"hidden"}}
  BY <1>2, <1>3 DEF Stats
<1>5. (Listing[i].attrib \ {"hidden"}) \cup (Listing[i].attrib \cap {"hidden"})
        = Listing[i].attrib
  OBVIOUS
<1> QED
  BY <1>4, <1>5 DEF AttribsOf

(* A call that finds a file moves or ends its search; one that finds none ends
   it.  Either way the objects stay sound and the other searches untouched.  *)
LEMMA SearchKeeps ==
  ASSUME NEW ps, NEW c, NEW l, Sound(ps, c, l), NEW d \in Dta, c[d] # Null,
         NEW q, NEW name, NEW answer, Search(d, ps, c, q, name, answer),
         info = [e \in Dta |-> info[e]]
  PROVE  /\ Sound(priv', cell', l) /\ Apart(d, ps, c, priv', cell')
         /\ info' = [e \in Dta |-> info'[e]] /\ \A e \in Dta \ {d} : info'[e] = info[e]
         /\ \/ info'[d] = info[d]
            \/ \E i \in DOMAIN Listing :
                 /\ info'[d].name = Listing[i].name
                 /\ Listing[i].stat => info'[d].attrib = Listing[i].attrib
<1> DEFINE p == ps[c[d]]
<1>1. p \in Object /\ p.at \in 0 .. Len(Listing)
  <2>1. p \in Object
    BY DEF Sound
  <2> QED
    BY <2>1 DEF Object
<1>2. ASSUME NEW i \in p.at + 1 .. Len(Listing), NEW a \in AttribsOf(p, i),
             Passes(p, i, a), Found(d, ps, c, i, a)
      PROVE  /\ Sound(priv', cell', l) /\ Apart(d, ps, c, priv', cell')
             /\ info' = [e \in Dta |-> info'[e]] /\ \A e \in Dta \ {d} : info'[e] = info[e]
             /\ i \in DOMAIN Listing
             /\ info'[d].name = Listing[i].name
             /\ Listing[i].stat => info'[d].attrib = Listing[i].attrib
  <2> HIDE DEF p
  <2>1. p.at \in Nat /\ i \in 0 .. Len(Listing) /\ i \in DOMAIN Listing
    BY <1>1, Positions
  <2>2. ASSUME p.glob
        PROVE  Sound(priv', cell', l) /\ Apart(d, ps, c, priv', cell')
    <3>1. priv' = [ps EXCEPT ![c[d]].at = i] /\ cell' = c
      BY <1>2, <2>2 DEF Found, p
    <3> QED
      BY <3>1, <2>1, MoveKeeps
  <2>3. ASSUME ~p.glob
        PROVE  Sound(priv', cell', l) /\ Apart(d, ps, c, priv', cell')
    <3>1. priv' = Without(ps, c[d]) /\ cell' = [c EXCEPT ![d] = Null]
      BY <1>2, <2>3 DEF Found, Finish, p
    <3> QED
      BY <3>1, FinishKeeps
  <2>4. info' = [info EXCEPT ![d] = [name |-> Listing[i].name, attrib |-> a]]
    BY <1>2 DEF Found
  <2>5. ASSUME Listing[i].stat
        PROVE  a = Listing[i].attrib
    <3>1. AttribsOf(p, i) = {Listing[i].attrib}
      BY <1>2, <2>1, <2>5, OwnAttributes DEF Passes
    <3> QED
      BY <3>1
  <2> QED
    BY <2>1, <2>2, <2>3, <2>4, <2>5
<1>3. ASSUME LET f == Finish(d, ps, c) IN priv' = f.priv /\ cell' = f.cell
      PROVE  Sound(priv', cell', l) /\ Apart(d, ps, c, priv', cell')
  <2>1. priv' = Without(ps, c[d]) /\ cell' = [c EXCEPT ![d] = Null]
    BY <1>3 DEF Finish
  <2> QED
    BY <2>1, FinishKeeps
<1>4. \/ \E i \in p.at + 1 .. Len(Listing) : \E a \in AttribsOf(p, i) :
           Passes(p, i, a) /\ Found(d, ps, c, i, a)
      \/ /\ LET f == Finish(d, ps, c) IN priv' = f.priv /\ cell' = f.cell
         /\ info' = info
  BY Zenon DEF Search
<1> HIDE DEF p
<1> QED
  BY <1>2, <1>3, <1>4

-----------------------------------------------------------------------------
(* The invariant and what follows from it.                                   *)

IInv ==
  /\ dta \in Dta /\ Sound(priv, cell, lost)
  /\ info = [d \in Dta |-> info[d]] /\ InfoIsTrue

(* No search is under way at the start. *)
LEMMA InitHolds == Init => IInv
<1> SUFFICES ASSUME Init PROVE IInv
  OBVIOUS
<1>1. DOMAIN priv = {} /\ priv \in [{} -> Object]
  BY DEF Init
<1>2. cell = [d \in Dta |-> Null] /\ lost = {}
  BY DEF Init
<1>3. Sound(priv, cell, lost)
  BY <1>1, <1>2 DEF Sound
<1>4. InfoIsTrue
  BY Entries DEF Init, InfoIsTrue, Nothing
<1> QED
  BY <1>3, <1>4 DEF Init, IInv

(* An Fsfirst starts from a new object with the DTA leading to it. *)
LEMMA FsfirstSearches ==
  ASSUME IInv, NEW pat \in Patterns, NEW attr \in Attrs, Fsfirst(pat, attr)
  PROVE  \E ps, c :
           /\ Sound(ps, c, lost') /\ Apart(dta, priv, cell, ps, c) /\ c[dta] # Null
           /\ ps[c[dta]] = [pattern |-> pat, glob |-> IsGlob(pat), attr |-> attr, at |-> 0]
           /\ Search(dta, ps, c, [pattern |-> pat, attr |-> attr, names |-> <<>>],
                     "Fsfirst", EFILNF)
<1> DEFINE new == [pattern |-> pat, glob |-> IsGlob(pat), attr |-> attr, at |-> 0]
           ps(x) == [y \in DOMAIN priv \cup {x} |-> IF y = x THEN new ELSE priv[y]]
           c(x) == [cell EXCEPT ![dta] = x]
<1>1. PICK x \in Priv \ DOMAIN priv :
        Search(dta, ps(x), c(x), [pattern |-> pat, attr |-> attr, names |-> <<>>],
               "Fsfirst", EFILNF)
  BY DEF Fsfirst
<1>2. lost' = lost \cup ({cell[dta]} \ {Null})
  BY DEF Fsfirst
<1>3. new \in Object
  BY Positions DEF Object, IsGlob
<1>4. x # Null /\ dta \in Dta /\ Sound(priv, cell, lost)
  BY SearchAssumption DEF IInv
<1> HIDE DEF new
<1>5. /\ Sound(ps(x), c(x), lost') /\ Apart(dta, priv, cell, ps(x), c(x))
      /\ c(x)[dta] = x /\ ps(x)[x] = new
  <2>1. /\ ps(x) \in [DOMAIN priv \cup {x} -> Object] /\ ps(x)[x] = new
        /\ \A y \in DOMAIN priv : ps(x)[y] = priv[y]
        /\ c(x) \in [Dta -> Priv \cup {Null}] /\ c(x)[dta] = x
        /\ \A e \in Dta \ {dta} : c(x)[e] = cell[e]
    BY <1>3, <1>4 DEF Sound
  <2> HIDE DEF ps, c
  <2> QED
    BY <1>2, <1>4, <2>1, StartKeeps
<1> HIDE DEF ps, c
<1> QED
  BY <1>1, <1>4, <1>5 DEF new

(* Every call keeps the invariant and the searches of the other DTAs. *)
LEMMA StepHolds ==
  ASSUME IInv, [Next]_vars
  PROVE  /\ IInv'
         /\ \A d \in Dta \ {dta} : info'[d] = info[d]
         /\ Apart(dta, priv, cell, priv', cell')
<1> DEFINE Told == \/ info'[dta] = info[dta]
                   \/ \E i \in DOMAIN Listing :
                        /\ info'[dta].name = Listing[i].name
                        /\ Listing[i].stat => info'[dta].attrib = Listing[i].attrib
<1>0. /\ dta \in Dta /\ Sound(priv, cell, lost)
      /\ info = [d \in Dta |-> info[d]] /\ InfoIsTrue
  BY DEF IInv
<1>1. ASSUME info' = [d \in Dta |-> info'[d]], \A d \in Dta \ {dta} : info'[d] = info[d], Told
      PROVE  InfoIsTrue'
  <2> SUFFICES ASSUME NEW d \in Dta, NEW i \in DOMAIN Listing,
                      info'[d].name = Listing[i].name, Listing[i].stat
               PROVE  info'[d].attrib = Listing[i].attrib
    BY DEF InfoIsTrue
  <2>1. CASE info'[d] = info[d]
    BY <2>1, <1>0 DEF InfoIsTrue
  <2>2. CASE info'[d] # info[d]
    <3>1. d = dta
      BY <2>2, <1>1
    <3>2. PICK j \in DOMAIN Listing :
            /\ info'[dta].name = Listing[j].name
            /\ Listing[j].stat => info'[dta].attrib = Listing[j].attrib
      BY <2>2, <3>1, <1>1
    <3>3. i = j
      BY <3>1, <3>2, Entries
    <3> QED
      BY <3>1, <3>2, <3>3
  <2> QED
    BY <2>1, <2>2
<1>2. ASSUME UNCHANGED <<cell, priv, info>>, lost' = lost, dta' \in Dta
      PROVE  /\ IInv' /\ \A d \in Dta \ {dta} : info'[d] = info[d]
             /\ Apart(dta, priv, cell, priv', cell')
  <2>1. Sound(priv', cell', lost')
    BY <1>0, <1>2
  <2>2. InfoIsTrue'
    BY <1>0, <1>2 DEF InfoIsTrue
  <2> QED
    BY <2>1, <2>2, <1>0, <1>2 DEF IInv, Apart, Sound
<1>3. ASSUME NEW ps, NEW c, Sound(ps, c, lost'), Apart(dta, priv, cell, ps, c),
             c[dta] # Null, NEW q, NEW name, NEW answer,
             Search(dta, ps, c, q, name, answer), dta' = dta
      PROVE  /\ IInv' /\ \A d \in Dta \ {dta} : info'[d] = info[d]
             /\ Apart(dta, priv, cell, priv', cell')
  <2>1. /\ Sound(priv', cell', lost') /\ Apart(dta, ps, c, priv', cell')
        /\ info' = [e \in Dta |-> info'[e]] /\ \A e \in Dta \ {dta} : info'[e] = info[e]
        /\ Told
    BY <1>0, <1>3, SearchKeeps
  <2>2. InfoIsTrue'
    BY <1>1, <2>1
  <2>3. Apart(dta, priv, cell, priv', cell')
    BY <1>3, <2>1 DEF Apart
  <2> QED
    BY <1>0, <1>3, <2>1, <2>2, <2>3 DEF IInv
<1>4. CASE \E buf \in Dta : Fsetdta(buf)
  BY <1>2, <1>4 DEF Fsetdta
<1>5. CASE \E pat \in Patterns, attr \in Attrs : Fsfirst(pat, attr)
  <2>1. PICK pat \in Patterns, attr \in Attrs : Fsfirst(pat, attr)
    BY <1>5
  <2>2. dta' = dta
    BY <2>1 DEF Fsfirst
  <2> QED
    BY <2>1, <2>2, <1>3, FsfirstSearches
<1>6. CASE FsfirstFails
  <2>1. /\ cell' = [cell EXCEPT ![dta] = Null] /\ lost' = lost \cup ({cell[dta]} \ {Null})
        /\ UNCHANGED <<dta, priv, info>>
    BY <1>6 DEF FsfirstFails
  <2>2. Sound(priv, cell', lost') /\ Apart(dta, priv, cell, priv, cell')
    BY <2>1, <1>0, AbandonKeeps
  <2>3. InfoIsTrue'
    BY <1>0, <2>1 DEF InfoIsTrue
  <2> QED
    BY <2>1, <2>2, <2>3, <1>0 DEF IInv
<1>7. CASE Fsnext
  <2>1. CASE UNCHANGED <<dta, cell, priv, info, asked, lost>>
    BY <2>1, <1>0, <1>2
  <2>2. CASE /\ cell[dta] # Null
             /\ Search(dta, priv, cell, asked[dta], "Fsnext", ENMFIL)
             /\ UNCHANGED <<dta, lost>>
    <3>1. Sound(priv, cell, lost') /\ Apart(dta, priv, cell, priv, cell)
      BY <1>0, <2>2 DEF Apart, Sound
    <3> QED
      BY <3>1, <2>2, <1>3
  <2> QED
    BY <1>7, <2>1, <2>2 DEF Fsnext
<1>8. CASE UNCHANGED vars
  BY <1>8, <1>0, <1>2 DEF vars
<1> QED
  BY <1>4, <1>5, <1>6, <1>7, <1>8 DEF Next

(* The invariant holds in every reachable state. *)
LEMMA AlwaysHolds == Spec => []IInv
<1>1. IInv /\ [Next]_vars => IInv'
  BY StepHolds
<1> QED
  BY <1>1, InitHolds, PTL DEF Spec

(* The pointer in a DTA always leads to an object of its own that is alive, and
   an object that no DTA leads to is one the program abandoned by another
   Fsfirst: Fsnext never uses or closes a stream twice, and a search that comes
   to its end leaks nothing (gemdos/file.c, Fsfirst, Fsnext and cleanup).    *)
THEOREM PointersStaySound == Spec => []PointersSound
<1>1. IInv => PointersSound
  <2> SUFFICES ASSUME IInv PROVE PointersSound
    OBVIOUS
  <2>1. \A x \in DOMAIN priv : priv[x].at \in 0 .. Len(Listing)
    <3>1. \A x \in DOMAIN priv : priv[x] \in Object
      BY DEF IInv, Sound
    <3> QED
      BY <3>1 DEF Object
  <2>2. PointersLive /\ LeaksOnlyAbandoned
    BY DEF IInv, Sound, PointersLive, LeaksOnlyAbandoned
  <2> QED
    BY <2>1, <2>2 DEF IInv, Sound, PointersSound, TypeOK
<1> QED
  BY <1>1, AlwaysHolds, PTL

(* What a DTA tells of a file whose fstatat worked is that file's own data, in
   spite of the one stat buffer that the loop reuses from entry to entry.    *)
THEOREM InfoStaysTrue == Spec => []InfoIsTrue
BY AlwaysHolds, PTL DEF IInv

(* No call on one DTA moves, ends or overwrites the search of another. *)
THEOREM SearchesStayApart == Spec => SearchesIndependent
<1> DEFINE Left == \A d \in Dta \ {dta} :
                     /\ cell'[d] = cell[d] /\ info'[d] = info[d]
                     /\ cell[d] # Null => cell[d] \in DOMAIN priv' /\ priv'[cell[d]] = priv[cell[d]]
<1>1. IInv /\ [Next]_vars => [Left]_vars
  BY StepHolds DEF Apart
<1> QED
  BY <1>1, AlwaysHolds, PTL DEF Spec, SearchesIndependent

-----------------------------------------------------------------------------
(* Completeness, for programs that search for names and for "*.*".           *)

Query == [pattern : Patterns \cup {""}, attr : Attrs \cup {{}}, names : Seq(STRING)]

(* The positions of the entries that a search should report. *)
Due(q) == {i \in DOMAIN Listing :
             Means(q.pattern, Listing[i].name) /\ Listing[i].attrib \subseteq q.attr}

(* Up to position n the search q has reported all that is due and, but for links
   that lead nowhere, nothing else, and nothing twice.                       *)
Upto(q, n) ==
  /\ \A k \in DOMAIN q.names : \E i \in 1 .. n :
       q.names[k] = Listing[i].name /\ (Listing[i].stat => i \in Due(q))
  /\ \A i \in Due(q) : i <= n /\ Listing[i].stat =>
       \E k \in DOMAIN q.names : q.names[k] = Listing[i].name
  /\ \A j, k \in DOMAIN q.names : q.names[j] = q.names[k] => j = k

(* The object p of a search agrees with what its program asked for. *)
Serves(p, q) ==
  /\ p \in Object /\ p.glob = IsGlob(p.pattern)
  /\ p.pattern = q.pattern /\ p.attr = q.attr

(* The tests of Fsnext say what the pattern means. *)
LEMMA TestsMean ==
  ASSUME NEW pat, NEW name, pat # "*.C"
  PROVE  NameMatches(pat, name) /\ ~(IsGlob(pat) /\ name = ".") <=> Means(pat, name)
BY DEF NameMatches, IsGlob, Means

(* What the loop leaves behind was not due. *)
LEMMA PassedNotDue ==
  ASSUME NEW p, NEW q \in Query, Serves(p, q), p.pattern # "*.C",
         NEW i \in p.at + 1 .. Len(Listing), i \in PassedOver(p), Listing[i].stat
  PROVE  i \notin Due(q)
<1> SUFFICES ASSUME i \in Due(q) PROVE FALSE
  OBVIOUS
<1>1. p.at \in Nat /\ p.glob = IsGlob(p.pattern) /\ p.pattern = q.pattern /\ p.attr = q.attr
  <2>1. p.at \in 0 .. Len(Listing)
    BY DEF Serves, Object
  <2> QED
    BY <2>1, Positions DEF Serves
<1>2. Means(p.pattern, Listing[i].name) /\ Listing[i].attrib \subseteq p.attr
  BY <1>1 DEF Due
<1>3. NameMatches(p.pattern, Listing[i].name) /\ ~(p.glob /\ Listing[i].name = ".")
  BY <1>1, <1>2, TestsMean
<1>4. AttribsOf(p, i) = {Listing[i].attrib}
  BY <1>1, <1>3, OwnAttributes
<1> QED
  BY <1>2, <1>3, <1>4 DEF PassedOver, Passes

(* What Fsnext reports is a file that the search is for. *)
LEMMA ReportedIsDue ==
  ASSUME NEW p, NEW q \in Query, Serves(p, q), p.pattern # "*.C",
         NEW i \in p.at + 1 .. Len(Listing), NEW a \in AttribsOf(p, i), Passes(p, i, a)
  PROVE  /\ i \in DOMAIN Listing /\ Means(p.pattern, Listing[i].name)
         /\ Listing[i].stat => i \in Due(q)
<1>1. p.at \in Nat /\ p.glob = IsGlob(p.pattern) /\ p.pattern = q.pattern /\ p.attr = q.attr
  <2>1. p.at \in 0 .. Len(Listing)
    BY DEF Serves, Object
  <2> QED
    BY <2>1, Positions DEF Serves
<1>2. i \in DOMAIN Listing
  BY <1>1, Positions
<1>3. /\ NameMatches(p.pattern, Listing[i].name) /\ ~(p.glob /\ Listing[i].name = ".")
      /\ a \subseteq p.attr
  BY DEF Passes
<1>4. Means(p.pattern, Listing[i].name)
  BY <1>1, <1>3, TestsMean
<1>5. Listing[i].stat => AttribsOf(p, i) = {Listing[i].attrib}
  BY <1>1, <1>3, OwnAttributes
<1> QED
  BY <1>1, <1>2, <1>3, <1>4, <1>5 DEF Due

(* What Fsnext passes over is not. *)
LEMMA PassingKeeps ==
  ASSUME NEW p, NEW q \in Query, Serves(p, q), p.pattern # "*.C", Upto(q, p.at),
         NEW n \in p.at .. Len(Listing), p.at + 1 .. n \subseteq PassedOver(p)
  PROVE  Upto(q, n)
<1>1. p.at \in 0 .. Len(Listing)
  BY DEF Serves, Object
<1>2. Len(Listing) \in Nat /\ Due(q) \subseteq 1 .. Len(Listing)
  BY Positions DEF Due
<1> DEFINE at == p.at
<1> HIDE DEF at
<1>3. at \in Nat /\ n \in Nat /\ at <= n /\ n <= Len(Listing)
  BY <1>1, <1>2 DEF at
<1>4. ASSUME NEW i \in Due(q), i <= n, Listing[i].stat
      PROVE  \E k \in DOMAIN q.names : q.names[k] = Listing[i].name
  <2>1. CASE i <= at
    BY <2>1, <1>4 DEF Upto, at
  <2>2. CASE i > at
    <3>1. i \in p.at + 1 .. Len(Listing) /\ i \in p.at + 1 .. n
      BY <2>2, <1>2, <1>3, <1>4 DEF at
    <3> QED
      BY <3>1, <1>4, PassedNotDue
  <2> QED
    BY <2>1, <2>2, <1>2, <1>3
<1>5. \A i \in 1 .. p.at : i \in 1 .. n
  BY <1>3 DEF at
<1> QED
  BY <1>4, <1>5 DEF Upto

(* A file that is found is added to what was reported. *)
LEMMA FindingKeeps ==
  ASSUME NEW p, NEW q \in Query, Serves(p, q), p.pattern # "*.C", Upto(q, p.at),
         NEW i \in p.at + 1 .. Len(Listing), p.at + 1 .. i - 1 \subseteq PassedOver(p),
         NEW a \in AttribsOf(p, i), Passes(p, i, a),
         NEW q2, q2 = [q EXCEPT !.names = Append(@, Listing[i].name)]
  PROVE  /\ q2 \in Query /\ Serves(p, q2) /\ Upto(q2, i)
         /\ ~p.glob => Upto(q2, Len(Listing))
<1> DEFINE nm == Listing[i].name
           s == q.names
           t == q2.names
<1>1. p.at \in Nat /\ Len(Listing) \in Nat
  <2>1. p.at \in 0 .. Len(Listing)
    BY DEF Serves, Object
  <2> QED
    BY <2>1, Positions
<1>2. /\ i \in DOMAIN Listing /\ Means(p.pattern, nm) /\ (Listing[i].stat => i \in Due(q))
      /\ i - 1 \in p.at .. Len(Listing) /\ i \in 1 .. Len(Listing)
  BY <1>1, ReportedIsDue
<1>3. Upto(q, i - 1)
  BY <1>2, PassingKeeps
<1>4. /\ q2 = [pattern |-> q.pattern, attr |-> q.attr, names |-> Append(s, nm)]
      /\ q.pattern \in Patterns \cup {""} /\ q.attr \in Attrs \cup {{}} /\ s \in Seq(STRING)
  BY DEF Query
<1>5. nm \in STRING
  <2> DEFINE R == [name : STRING, attrib : SUBSET {"ro", "hidden", "dir"}, stat : BOOLEAN]
  <2>1. Listing \in Seq(R)
    BY SearchAssumption, Zenon
  <2>2. Listing[i] \in R
    <3> HIDE DEF R
    <3> QED
      BY <2>1, <1>2
  <2> QED
    BY <2>2
<1> HIDE DEF s, nm
<1> DEFINE N == STRING
<1>12. /\ s \in Seq(N) /\ nm \in N
  BY <1>4, <1>5
<1> HIDE DEF N
<1>13. /\ Append(s, nm) \in Seq(N) /\ Len(Append(s, nm)) = Len(s) + 1 /\ Len(s) \in Nat
      /\ DOMAIN s = 1 .. Len(s) /\ DOMAIN Append(s, nm) = 1 .. Len(s) + 1
      /\ Append(s, nm)[Len(s) + 1] = nm /\ \A k \in 1 .. Len(s) : Append(s, nm)[k] = s[k]
  BY <1>12
<1>6. /\ t = Append(s, nm) /\ q2.pattern = q.pattern /\ q2.attr = q.attr
      /\ q2 \in Query
  <2> DEFINE u == Append(s, nm)
  <2>1. u \in Seq(STRING) /\ q2 = [pattern |-> q.pattern, attr |-> q.attr, names |-> u]
    BY <1>4, <1>13 DEF N
  <2> HIDE DEF u
  <2>2. t = u /\ q2.pattern = q.pattern /\ q2.attr = q.attr
    BY ONLY <2>1
  <2>3. q2 \in Query
    <3> DEFINE Q == Seq(STRING)
    <3>1. u \in Q /\ q2 = [pattern |-> q.pattern, attr |-> q.attr, names |-> u]
      BY <2>1
    <3>2. Query = [pattern : Patterns \cup {""}, attr : Attrs \cup {{}}, names : Q]
      BY DEF Query
    <3>3. q.pattern \in Patterns \cup {""} /\ q.attr \in Attrs \cup {{}}
      BY <1>4
    <3> HIDE DEF Q
    <3> QED
      BY ONLY <3>1, <3>2, <3>3
  <2> QED
    BY <2>2, <2>3 DEF u
<1>7. Due(q2) = Due(q) /\ Serves(p, q2)
  BY <1>6 DEF Due, Serves
<1> HIDE DEF t
<1>8. /\ DOMAIN s = 1 .. Len(s) /\ DOMAIN t = 1 .. Len(s) + 1 /\ Len(s) \in Nat
      /\ t[Len(s) + 1] = nm /\ \A k \in 1 .. Len(s) : t[k] = s[k]
  BY <1>13, <1>6
<1>9. \A k \in DOMAIN s : s[k] # nm
  <2> SUFFICES ASSUME NEW k \in DOMAIN s, s[k] = nm PROVE FALSE
    OBVIOUS
  <2>1. PICK j \in 1 .. i - 1 : s[k] = Listing[j].name
    BY <1>3 DEF Upto, s
  <2>2. j \in DOMAIN Listing /\ j # i
    BY <1>2, Positions
  <2> QED
    BY <2>1, <2>2, <1>2, Entries DEF nm
<1>10. Upto(q2, i)
  <2>1. ASSUME NEW k \in DOMAIN t
        PROVE  \E j \in 1 .. i : t[k] = Listing[j].name /\ (Listing[j].stat => j \in Due(q))
    <3>1. CASE k = Len(s) + 1
      BY <3>1, <1>2, <1>8 DEF nm
    <3>2. CASE k \in DOMAIN s
      <4>1. PICK j \in 1 .. i - 1 : s[k] = Listing[j].name /\ (Listing[j].stat => j \in Due(q))
        BY <3>2, <1>3 DEF Upto, s
      <4>2. j \in 1 .. i
        BY <1>2
      <4> QED
        BY <3>2, <4>1, <4>2, <1>8
    <3> QED
      BY <3>1, <3>2, <1>8
  <2>2. ASSUME NEW j \in Due(q), j <= i, Listing[j].stat
        PROVE  \E k \in DOMAIN t : t[k] = Listing[j].name
    <3>1. CASE j = i
      BY <3>1, <1>8 DEF nm
    <3>2. CASE j # i
      <4>1. j <= i - 1
        BY <3>2, <2>2, <1>2, Positions DEF Due
      <4>2. PICK k \in DOMAIN s : s[k] = Listing[j].name
        BY <4>1, <2>2, <1>3 DEF Upto, s
      <4> QED
        BY <4>2, <1>8
    <3> QED
      BY <3>1, <3>2
  <2>3. ASSUME NEW j \in DOMAIN t, NEW k \in DOMAIN t, t[j] = t[k]
        PROVE  j = k
    <3>1. \A x, y \in DOMAIN s : s[x] = s[y] => x = y
      BY <1>3 DEF Upto, s
    <3>2. \A x \in DOMAIN t : x = Len(s) + 1 \/ x \in DOMAIN s
      BY <1>8
    <3> QED
      BY <3>1, <3>2, <2>3, <1>8, <1>9
  <2> QED
    BY <2>1, <2>2, <2>3, <1>7 DEF Upto, t
<1>11. ASSUME ~p.glob
       PROVE  Upto(q2, Len(Listing))
  <2>1. p.glob = IsGlob(p.pattern) /\ p.pattern = q.pattern
    BY DEF Serves
  <2>2. nm = p.pattern /\ \A j \in Due(q) : Listing[j].name = p.pattern
    BY <2>1, <1>2, <1>11 DEF Means, IsGlob, Due
  <2>3. \A j \in Due(q) : j = i
    BY <2>2, <1>2, Entries DEF Due, nm
  <2>4. \A j \in 1 .. i : j \in 1 .. Len(Listing)
    BY <1>1, <1>2
  <2>5. \A j \in Due(q2) : j <= i
    BY <2>3, <1>2, <1>7
  <2> QED
    BY <2>4, <2>5, <1>10 DEF Upto
<1> QED
  BY <1>6, <1>7, <1>10, <1>11

(* Where the search of DTA d stands: one with wildcards under way, or one that
   has told all there is.                                                    *)
Stands(d, ps, c, q) ==
  /\ c[d] # Null => /\ Serves(ps[c[d]], q) /\ ps[c[d]].glob
                    /\ Upto(q, ps[c[d]].at)
  /\ c[d] = Null => q = NoSearch \/ Upto(q, Len(Listing))

Progress ==
  /\ asked \in [Dta -> Query]
  /\ \A d \in Dta : Stands(d, priv, cell, asked[d])

(* One round of the loop, to a file or to the end of the directory. *)
LEMMA SearchProgress ==
  ASSUME NEW ps, NEW c, NEW l, Sound(ps, c, l), NEW d \in Dta, c[d] # Null,
         NEW q \in Query, Serves(ps[c[d]], q), ps[c[d]].pattern # "*.C",
         Upto(q, ps[c[d]].at), asked \in [Dta -> Query],
         NEW name, NEW answer, Search(d, ps, c, q, name, answer)
  PROVE  /\ asked' \in [Dta -> Query] /\ \A e \in Dta \ {d} : asked'[e] = asked[e]
         /\ Stands(d, priv', cell', asked'[d])
         /\ ret'.res = E_OK \/ Upto(asked'[d], Len(Listing))
<1> DEFINE x == c[d]
           p == ps[x]
<1>1. x \in DOMAIN ps /\ DOMAIN ps \subseteq Priv /\ ps \in [DOMAIN ps -> Object]
  BY DEF Sound
<1>2. p \in Object /\ p.at \in 0 .. Len(Listing) /\ Len(Listing) \in Nat
  <2>1. p \in Object
    BY <1>1
  <2> QED
    BY <2>1, Positions DEF Object
<1>3. c \in [Dta -> Priv \cup {Null}]
  BY DEF Sound
<1>4. ASSUME NEW i \in p.at + 1 .. Len(Listing), NEW a \in AttribsOf(p, i),
             Passes(p, i, a), p.at + 1 .. i - 1 \subseteq PassedOver(p),
             Found(d, ps, c, i, a),
             asked' = [asked EXCEPT ![d] = [q EXCEPT !.names = Append(@, Listing[i].name)]]
      PROVE  /\ asked' \in [Dta -> Query] /\ \A e \in Dta \ {d} : asked'[e] = asked[e]
             /\ Stands(d, priv', cell', asked'[d])
  <2> DEFINE q2 == [q EXCEPT !.names = Append(@, Listing[i].name)]
  <2>1. /\ q2 \in Query /\ Serves(p, q2) /\ Upto(q2, i)
        /\ ~p.glob => Upto(q2, Len(Listing))
    BY <1>4, FindingKeeps
  <2>2. asked' = [asked EXCEPT ![d] = q2]
    BY <1>4
  <2> HIDE DEF q2
  <2>3. /\ asked' \in [Dta -> Query] /\ asked'[d] = q2
        /\ \A e \in Dta \ {d} : asked'[e] = asked[e]
    BY <2>1, <2>2
  <2>4. i \in 0 .. Len(Listing)
    BY <1>2
  <2>5. ASSUME p.glob
        PROVE  Stands(d, priv', cell', q2)
    <3>1. priv' = [ps EXCEPT ![x].at = i] /\ cell' = c
      BY <1>4, <2>5 DEF Found
    <3> HIDE DEF x
    <3>2. /\ priv'[x].pattern = p.pattern /\ priv'[x].attr = p.attr /\ priv'[x].glob = p.glob
          /\ priv'[x].at = i /\ priv'[x] \in Object
      BY <3>1, <2>4, <1>1, <1>2 DEF Object
    <3>3. Serves(priv'[x], q2)
      BY <3>2, <2>1 DEF Serves
    <3> QED
      BY <3>1, <3>2, <3>3, <2>1, <2>5 DEF Stands, x
  <2>6. ASSUME ~p.glob
        PROVE  Stands(d, priv', cell', q2)
    <3>1. cell' = [c EXCEPT ![d] = Null]
      BY <1>4, <2>6 DEF Found, Finish
    <3>2. cell'[d] = Null
      BY <3>1, <1>3
    <3> QED
      BY <3>2, <2>1, <2>6 DEF Stands
  <2> QED
    BY <2>3, <2>5, <2>6
<1>5. ASSUME p.at + 1 .. Len(Listing) \subseteq PassedOver(p),
             LET f == Finish(d, ps, c) IN priv' = f.priv /\ cell' = f.cell,
             asked' = [asked EXCEPT ![d] = q]
      PROVE  /\ asked' \in [Dta -> Query] /\ \A e \in Dta \ {d} : asked'[e] = asked[e]
             /\ Stands(d, priv', cell', asked'[d]) /\ Upto(asked'[d], Len(Listing))
  <2>1. Len(Listing) \in p.at .. Len(Listing)
    BY <1>2
  <2>2. Upto(q, Len(Listing))
    BY <1>5, <2>1, PassingKeeps
  <2>3. cell' = [c EXCEPT ![d] = Null]
    BY <1>5 DEF Finish
  <2>4. cell'[d] = Null
    BY <2>3, <1>3
  <2>5. /\ asked' \in [Dta -> Query] /\ asked'[d] = q
        /\ \A e \in Dta \ {d} : asked'[e] = asked[e]
    BY <1>5
  <2> QED
    BY <2>2, <2>4, <2>5 DEF Stands
<1>6. \/ \E i \in p.at + 1 .. Len(Listing) : \E a \in AttribsOf(p, i) :
           /\ Passes(p, i, a) /\ p.at + 1 .. i - 1 \subseteq PassedOver(p)
           /\ Found(d, ps, c, i, a)
           /\ asked' = [asked EXCEPT ![d] = [q EXCEPT !.names = Append(@, Listing[i].name)]]
           /\ ret' = [call |-> name, res |-> E_OK]
      \/ /\ p.at + 1 .. Len(Listing) \subseteq PassedOver(p)
         /\ LET f == Finish(d, ps, c) IN priv' = f.priv /\ cell' = f.cell
         /\ asked' = [asked EXCEPT ![d] = q]
  BY Zenon DEF Search
<1>7. ret' = [call |-> name, res |-> E_OK] => ret'.res = E_OK
  OBVIOUS
<1> HIDE DEF p, x
<1>8. CASE \E i \in p.at + 1 .. Len(Listing) : \E a \in AttribsOf(p, i) :
             /\ Passes(p, i, a) /\ p.at + 1 .. i - 1 \subseteq PassedOver(p)
             /\ Found(d, ps, c, i, a)
             /\ asked' = [asked EXCEPT ![d] = [q EXCEPT !.names = Append(@, Listing[i].name)]]
             /\ ret' = [call |-> name, res |-> E_OK]
  BY <1>4, <1>7, <1>8, Zenon
<1>9. CASE /\ p.at + 1 .. Len(Listing) \subseteq PassedOver(p)
           /\ LET f == Finish(d, ps, c) IN priv' = f.priv /\ cell' = f.cell
           /\ asked' = [asked EXCEPT ![d] = q]
  BY <1>5, <1>9, Zenon
<1> QED
  BY <1>6, <1>8, <1>9

(* A search starts with nothing reported and nothing passed. *)
LEMMA NewQuery ==
  ASSUME NEW pat \in Patterns, NEW attr \in Attrs, NEW p,
         p = [pattern |-> pat, glob |-> IsGlob(pat), attr |-> attr, at |-> 0],
         NEW q, q = [pattern |-> pat, attr |-> attr, names |-> <<>>]
  PROVE  q \in Query /\ Serves(p, q) /\ p.pattern = pat /\ Upto(q, p.at)
<1>1. q \in Query
  <2> DEFINE Q == Seq(STRING)
  <2>1. <<>> \in Q
    OBVIOUS
  <2>2. Query = [pattern : Patterns \cup {""}, attr : Attrs \cup {{}}, names : Q]
    BY DEF Query
  <2> HIDE DEF Q
  <2> QED
    BY <2>1, <2>2
<1>2. p \in Object
  BY Positions DEF Object, IsGlob
<1>3. Serves(p, q) /\ p.pattern = pat /\ p.at = 0
  BY <1>2 DEF Serves
<1>4. DOMAIN q.names = {} /\ \A i \in Due(q) : ~(i <= 0)
  BY Positions DEF Due
<1> QED
  BY <1>1, <1>3, <1>4 DEF Upto

(* A DTA with no search has nothing to report. *)
LEMMA NoSearchIsQuery == NoSearch \in Query
BY DEF NoSearch, Query

(* The answer that there are no more files. *)
NoMore == ret'.call \in {"Fsfirst", "Fsnext"} /\ ret'.res # E_OK

(* Every call keeps the reports of every search exact. *)
LEMMA ProgressKept ==
  ASSUME "*.C" \notin Patterns, IInv, Progress, [Next]_vars
  PROVE  /\ Progress'
         /\ UNCHANGED vars \/ (NoMore => asked'[dta] = NoSearch \/ Upto(asked'[dta], Len(Listing)))
<1> DEFINE Goal == Progress' /\ (NoMore => asked'[dta] = NoSearch \/ Upto(asked'[dta], Len(Listing)))
<1>0. /\ dta \in Dta /\ Sound(priv, cell, lost) /\ asked \in [Dta -> Query]
      /\ \A d \in Dta : Stands(d, priv, cell, asked[d])
  BY DEF IInv, Progress
<1>1. Apart(dta, priv, cell, priv', cell')
  BY StepHolds
<1>2. ASSUME asked' \in [Dta -> Query], \A e \in Dta \ {dta} : asked'[e] = asked[e],
             Stands(dta, priv', cell', asked'[dta])
      PROVE  Progress'
  <2>1. ASSUME NEW e \in Dta, e # dta
        PROVE  Stands(e, priv', cell', asked'[e])
    <3>1. Stands(e, priv, cell, asked[e]) /\ asked'[e] = asked[e]
      BY <1>0, <1>2, <2>1
    <3>2. cell'[e] = cell[e] /\ (cell[e] # Null => priv'[cell[e]] = priv[cell[e]])
      BY <1>1, <2>1 DEF Apart
    <3> QED
      BY <3>1, <3>2 DEF Stands
  <2> QED
    BY <1>2, <2>1 DEF Progress
<1>3. ASSUME UNCHANGED <<cell, priv, asked>>
      PROVE  Progress'
  BY <1>0, <1>3 DEF Progress
<1>4. ASSUME NEW ps, NEW c, NEW l, Sound(ps, c, l), c[dta] # Null, NEW q \in Query,
             Serves(ps[c[dta]], q), ps[c[dta]].pattern # "*.C", Upto(q, ps[c[dta]].at),
             NEW name, NEW answer, Search(dta, ps, c, q, name, answer)
      PROVE  Goal
  <2>1. /\ asked' \in [Dta -> Query] /\ \A e \in Dta \ {dta} : asked'[e] = asked[e]
        /\ Stands(dta, priv', cell', asked'[dta])
        /\ ret'.res = E_OK \/ Upto(asked'[dta], Len(Listing))
    BY <1>0, <1>4, SearchProgress
  <2>2. Progress'
    BY <1>2, <2>1
  <2> QED
    BY <2>1, <2>2 DEF NoMore
<1>5. CASE \E buf \in Dta : Fsetdta(buf)
  <2>1. UNCHANGED <<cell, priv, asked>> /\ ret'.call = "Fsetdta"
    BY <1>5 DEF Fsetdta
  <2> QED
    BY <2>1, <1>3 DEF NoMore
<1>6. CASE \E pat \in Patterns, attr \in Attrs : Fsfirst(pat, attr)
  <2>1. PICK pat \in Patterns, attr \in Attrs : Fsfirst(pat, attr)
    BY <1>6
  <2> DEFINE p0 == [pattern |-> pat, glob |-> IsGlob(pat), attr |-> attr, at |-> 0]
             q0 == [pattern |-> pat, attr |-> attr, names |-> <<>>]
  <2>2. q0 \in Query /\ Serves(p0, q0) /\ p0.pattern = pat /\ Upto(q0, p0.at) /\ pat # "*.C"
    BY NewQuery
  <2>3. PICK ps, c : /\ Sound(ps, c, lost') /\ c[dta] # Null /\ ps[c[dta]] = p0
                     /\ Search(dta, ps, c, q0, "Fsfirst", EFILNF)
    BY <2>1, FsfirstSearches
  <2> HIDE DEF p0, q0, Goal
  <2> QED
    BY <2>2, <2>3, <1>4 DEF Goal
<1>7. CASE FsfirstFails
  <2>1. asked' = [asked EXCEPT ![dta] = NoSearch] /\ cell' = [cell EXCEPT ![dta] = Null]
    BY <1>7 DEF FsfirstFails
  <2>2. /\ asked' \in [Dta -> Query] /\ asked'[dta] = NoSearch
        /\ \A e \in Dta \ {dta} : asked'[e] = asked[e]
    BY <2>1, <1>0, NoSearchIsQuery
  <2>3. cell'[dta] = Null
    BY <2>1, <1>0 DEF Sound
  <2>4. Stands(dta, priv', cell', asked'[dta])
    BY <2>2, <2>3 DEF Stands
  <2> QED
    BY <2>2, <2>4, <1>2
<1>8. CASE Fsnext
  <2>1. CASE cell[dta] = Null /\ UNCHANGED <<dta, cell, priv, info, asked, lost>>
    BY <2>1, <1>0, <1>3 DEF Stands
  <2>2. CASE /\ cell[dta] # Null
             /\ Search(dta, priv, cell, asked[dta], "Fsnext", ENMFIL)
    <3>1. asked[dta] \in Query /\ Serves(priv[cell[dta]], asked[dta])
          /\ Upto(asked[dta], priv[cell[dta]].at)
      BY <2>2, <1>0 DEF Stands
    <3>2. priv[cell[dta]].pattern # "*.C"
      BY <3>1 DEF Serves, Object
    <3> HIDE DEF Goal
    <3> QED
      BY <3>1, <3>2, <2>2, <1>0, <1>4 DEF Goal
  <2> QED
    BY <1>8, <2>1, <2>2 DEF Fsnext
<1>9. CASE UNCHANGED vars
  BY <1>9, <1>3 DEF vars
<1> QED
  BY <1>5, <1>6, <1>7, <1>8, <1>9 DEF Next

(* A program that searches for names and for "*.*" finds all it asked for: when
   Fsfirst or Fsnext say that there are no more files, each file that matches
   was reported, once, and no other, however many searches on other DTAs took
   their turns in between.  Other patterns are compared as if they were names
   (gemdos/file.c, Fsnext).                                                  *)
THEOREM SearchesFindAll ==
  ASSUME "*.C" \notin Patterns
  PROVE  Spec => FindsAll
<1> DEFINE All == ret'.call \in {"Fsfirst", "Fsnext"} /\ ret'.res # E_OK /\ asked'[dta] # NoSearch =>
                    /\ ToSet(asked'[dta].names) \ Dangling = Wanted(asked'[dta]) \ Dangling
                    /\ IsInjective(asked'[dta].names)
<1>1. ASSUME NEW q, Upto(q, Len(Listing))
      PROVE  /\ ToSet(q.names) \ Dangling = Wanted(q) \ Dangling
             /\ IsInjective(q.names)
  <2>0. DOMAIN Listing = 1 .. Len(Listing) /\ Len(Listing) \in Nat
    BY Positions
  <2>1. Wanted(q) = {Listing[i].name : i \in Due(q)}
    BY DEF Wanted, Due
  <2>2. ASSUME NEW n \in ToSet(q.names), n \notin Dangling
        PROVE  n \in Wanted(q)
    <3>1. PICK k \in DOMAIN q.names : n = q.names[k]
      BY DEF ToSet
    <3>2. PICK i \in 1 .. Len(Listing) :
            q.names[k] = Listing[i].name /\ (Listing[i].stat => i \in Due(q))
      BY <1>1 DEF Upto
    <3>3. Listing[i].stat
      BY <3>1, <3>2, <2>0, <2>2 DEF Dangling
    <3> QED
      BY <3>1, <3>2, <3>3, <2>1
  <2>3. ASSUME NEW n \in Wanted(q), n \notin Dangling
        PROVE  n \in ToSet(q.names)
    <3>1. PICK i \in Due(q) : n = Listing[i].name
      BY <2>1
    <3>2. i <= Len(Listing) /\ Listing[i].stat
      BY <3>1, <2>0, <2>3 DEF Due, Dangling
    <3> QED
      BY <3>1, <3>2, <1>1 DEF Upto, ToSet
  <2> QED
    BY <2>2, <2>3, <1>1 DEF Upto, IsInjective
<1>2. Init => Progress
  <2> SUFFICES ASSUME Init PROVE Progress
    OBVIOUS
  <2>1. asked = [d \in Dta |-> NoSearch] /\ cell = [d \in Dta |-> Null]
    BY DEF Init
  <2> QED
    BY <2>1, NoSearchIsQuery DEF Progress, Stands
<1>3. IInv /\ Progress /\ [Next]_vars => Progress'
  BY ProgressKept
<1>4. IInv /\ Progress /\ [Next]_vars => [All]_vars
  <2> SUFFICES ASSUME IInv, Progress, [Next]_vars, ~UNCHANGED vars, NoMore,
                      asked'[dta] # NoSearch
               PROVE  /\ ToSet(asked'[dta].names) \ Dangling = Wanted(asked'[dta]) \ Dangling
                      /\ IsInjective(asked'[dta].names)
    BY DEF NoMore
  <2>1. Upto(asked'[dta], Len(Listing))
    BY ProgressKept
  <2> QED
    BY <2>1, <1>1
<1> QED
  BY <1>2, <1>3, <1>4, AlwaysHolds, PTL DEF Spec, FindsAll
=============================================================================
