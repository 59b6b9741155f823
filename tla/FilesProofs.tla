---------------------------- MODULE FilesProofs ----------------------------
(***************************************************************************)
(* Proofs about files by name, for host trees and paths of any size, every *)
(* set of names on which 8.3 forms identify names (NamesAssumption), and   *)
(* every order in which readdir lists a directory.                         *)
(***************************************************************************)
EXTENDS GemdosFiles, TLAPS, WellFoundedInduction

(* The inductive invariant over a tree F with the current directory here.
   TypeOK and NamesUnique are not inductive: a rename over a directory would
   leave entries in a directory that is gone, if a directory without a name
   could have entries, and a name with a hash would share the 8.3 form of the
   long name it stands for.                                                *)
Sound(F, here) ==
  /\ F \in [entries : SUBSET [dir : Ino, name : Name, ino : Ino], dirs : SUBSET Ino]
  /\ {Root, here} \subseteq F.dirs
  /\ \A e, f \in F.entries : e.dir = f.dir /\ Key83[e.name] = Key83[f.name] => e = f
  /\ \A e \in F.entries : e.dir \in F.dirs /\ Linked(F, e.dir) /\ e.name \notin Aliases
  /\ \A d \in F.dirs : Linked(F, d) \/ d = here

IInv ==
  /\ Sound(fs, cwd)
  /\ fd \in [Fd -> Ino \cup {None, Tty}]
  /\ errno \in Nat

-----------------------------------------------------------------------------
(* Induction over the natural numbers, for a set of them. *)
LEMMA SetInduction ==
  ASSUME NEW S, 0 \in S, \A n \in Nat : n \in S => n + 1 \in S
  PROVE  Nat \subseteq S
<1> SUFFICES ASSUME Nat \ S # {} PROVE FALSE
  OBVIOUS
<1>1. IsWellFoundedOn(OpToRel(<, Nat), Nat)
  BY NatLessThanWellFounded
<1>2. PICK n \in Nat \ S : \A m \in Nat \ S : ~(<<m, n>> \in OpToRel(<, Nat))
  <2> HIDE DEF OpToRel
  <2>1. (Nat \ S) \subseteq Nat
    OBVIOUS
  <2> QED
    BY <1>1, <2>1, WFMin
<1>3. \A m \in Nat \ S : ~(m < n)
  BY <1>2 DEF OpToRel
<1>4. n - 1 \in Nat \ S
  BY <1>3
<1> QED
  BY <1>3, <1>4

(* What Walk computes: the function that its recursion defines exists. *)
LEMMA WalkIs ==
  ASSUME NEW p \in Paths, NEW e
  PROVE  /\ Walk(p, e)[0] = {Start(IF p.abs THEN Root ELSE cwd, e)}
         /\ \A k \in 1 .. Len(p.names) :
              Walk(p, e)[k] = UNION {Lookup(pos, p.names[k]) : pos \in Walk(p, e)[k - 1]}
<1> DEFINE first == {Start(IF p.abs THEN Root ELSE cwd, e)}
           Is(g, n) == g = [k \in 0 .. n |-> IF k = 0 THEN first
                              ELSE UNION {Lookup(pos, p.names[k]) : pos \in g[k - 1]}]
<1>0. Len(p.names) \in Nat
  BY FilesAssumption
<1>1. Walk(p, e) = CHOOSE g : Is(g, Len(p.names))
  BY DEF Walk
<1> HIDE DEF first
<1>2. ASSUME NEW n \in Nat, NEW g, Is(g, n)
      PROVE  \E h : Is(h, n + 1)
  <2> DEFINE h == [k \in 0 .. n + 1 |-> IF k = n + 1
                     THEN UNION {Lookup(pos, p.names[k]) : pos \in g[n]} ELSE g[k]]
  <2>1. ASSUME NEW k \in 0 .. n + 1
        PROVE  h[k] = IF k = 0 THEN first
                      ELSE UNION {Lookup(pos, p.names[k]) : pos \in h[k - 1]}
    <3>1. CASE k = n + 1
      <4>1. h[k] = UNION {Lookup(pos, p.names[k]) : pos \in g[n]} /\ h[k - 1] = g[n] /\ k # 0
        BY <3>1
      <4> HIDE DEF h
      <4> QED
        BY <4>1, Zenon
    <3>2. CASE k \in 0 .. n
      <4>1. h[k] = g[k] /\ (k # 0 => h[k - 1] = g[k - 1])
        BY <3>2
      <4>2. g[k] = IF k = 0 THEN first
                   ELSE UNION {Lookup(pos, p.names[k]) : pos \in g[k - 1]}
        BY <1>2, <3>2, Zenon
      <4> HIDE DEF h
      <4> QED
        BY <4>1, <4>2, Zenon
    <3> QED
      BY <3>1, <3>2
  <2>2. h = [k \in 0 .. n + 1 |-> h[k]]
    OBVIOUS
  <2> HIDE DEF h
  <2>3. Is(h, n + 1)
    BY <2>1, <2>2
  <2> QED
    BY <2>3, Zenon
<1>3. \E g : Is(g, 0)
  <2>1. Is([k \in 0 .. 0 |-> first], 0)
    OBVIOUS
  <2> QED
    BY <2>1, Zenon
<1> HIDE DEF Is
<1>4. \E g : Is(g, Len(p.names))
  <2> DEFINE S == {n \in Nat : \E g : Is(g, n)}
  <2>1. 0 \in S /\ \A n \in Nat : n \in S => n + 1 \in S
    BY <1>2, <1>3
  <2> HIDE DEF S
  <2>2. Nat \subseteq S
    BY <2>1, SetInduction
  <2> QED
    BY <1>0, <2>2 DEF S
<1>5. Is(Walk(p, e), Len(p.names))
  BY <1>1, <1>4, Zenon
<1>6. \A k \in 0 .. Len(p.names) :
        Walk(p, e)[k] = IF k = 0 THEN first
                        ELSE UNION {Lookup(pos, p.names[k]) : pos \in Walk(p, e)[k - 1]}
  BY <1>5, Zenon DEF Is
<1>7. 0 \in 0 .. Len(p.names) /\ \A k \in 1 .. Len(p.names) : k \in 0 .. Len(p.names) /\ k # 0
  BY <1>0
<1> QED
  BY <1>6, <1>7, Zenon DEF first

(* The path that TosFiles is given has as many names. *)
LEMMA KeyPathIs ==
  ASSUME NEW p \in Paths
  PROVE  /\ p.names \in Seq(Name) /\ Len(p.names) \in Nat /\ p.abs \in BOOLEAN
         /\ KeyPath(p).abs = p.abs
         /\ Len(KeyPath(p).names) = Len(p.names)
         /\ \A k \in 1 .. Len(p.names) :
              p.names[k] \in Name /\ KeyPath(p).names[k] = Key83[p.names[k]]
<1>1. p.names \in Seq(Name) /\ p.abs \in BOOLEAN
  BY FilesAssumption
<1>2. Len(p.names) \in Nat /\ DOMAIN p.names = 1 .. Len(p.names)
      /\ \A k \in 1 .. Len(p.names) : p.names[k] \in Name
  BY <1>1
<1>3. KeyPath(p).names = [i \in 1 .. Len(p.names) |-> Key83[p.names[i]]] /\ KeyPath(p).abs = p.abs
  BY <1>2 DEF KeyPath
<1>4. Len(KeyPath(p).names) = Len(p.names)
  <2> HIDE DEF KeyPath
  <2> QED
    BY <1>2, <1>3
<1> QED
  BY <1>1, <1>2, <1>3, <1>4

(* The same of the walk of TosFiles. *)
LEMMA TosWalkIs ==
  ASSUME NEW p \in Paths
  PROVE  LET w == Tos!Walk(KeyPath(p)) IN
         /\ w[0] = [dir |-> None, name |-> "", ino |-> IF p.abs THEN Root ELSE cwd]
         /\ \A k \in 1 .. Len(p.names) :
              w[k] = [dir |-> w[k - 1].ino, name |-> Key83[p.names[k]],
                      ino |-> Tos!Find(w[k - 1].ino, Key83[p.names[k]])]
<1> DEFINE q == KeyPath(p)
           first == [dir |-> None, name |-> "", ino |-> IF p.abs THEN Root ELSE cwd]
           Onward(t, n) == [dir |-> t.ino, name |-> n, ino |-> Tos!Find(t.ino, n)]
           Is(g, n) == g = [k \in 0 .. n |-> IF k = 0 THEN first ELSE Onward(g[k - 1], q.names[k])]
<1>0. /\ Len(p.names) \in Nat /\ q.abs = p.abs /\ Len(q.names) = Len(p.names)
      /\ \A k \in 1 .. Len(p.names) : q.names[k] = Key83[p.names[k]]
  BY KeyPathIs
<1> HIDE DEF q
<1>1. Tos!Walk(q) = CHOOSE g : Is(g, Len(p.names))
  BY <1>0 DEF Tos!Walk
<1> HIDE DEF first, Onward
<1>2. ASSUME NEW n \in Nat, NEW g, Is(g, n)
      PROVE  \E h : Is(h, n + 1)
  <2> DEFINE h == [k \in 0 .. n + 1 |-> IF k = n + 1 THEN Onward(g[n], q.names[k]) ELSE g[k]]
  <2>1. ASSUME NEW k \in 0 .. n + 1
        PROVE  h[k] = IF k = 0 THEN first ELSE Onward(h[k - 1], q.names[k])
    <3>1. CASE k = n + 1
      <4>1. h[k] = Onward(g[n], q.names[k]) /\ h[k - 1] = g[n] /\ k # 0
        BY <3>1
      <4> HIDE DEF h
      <4> QED
        BY <4>1, Zenon
    <3>2. CASE k \in 0 .. n
      <4>1. h[k] = g[k] /\ (k # 0 => h[k - 1] = g[k - 1])
        BY <3>2
      <4>2. g[k] = IF k = 0 THEN first ELSE Onward(g[k - 1], q.names[k])
        BY <1>2, <3>2, Zenon
      <4> HIDE DEF h
      <4> QED
        BY <4>1, <4>2, Zenon
    <3> QED
      BY <3>1, <3>2
  <2>2. h = [k \in 0 .. n + 1 |-> h[k]]
    OBVIOUS
  <2> HIDE DEF h
  <2>3. Is(h, n + 1)
    BY <2>1, <2>2
  <2> QED
    BY <2>3, Zenon
<1>3. \E g : Is(g, 0)
  <2>1. Is([k \in 0 .. 0 |-> first], 0)
    OBVIOUS
  <2> QED
    BY <2>1, Zenon
<1> HIDE DEF Is
<1>4. \E g : Is(g, Len(p.names))
  <2> DEFINE S == {n \in Nat : \E g : Is(g, n)}
  <2>1. 0 \in S /\ \A n \in Nat : n \in S => n + 1 \in S
    BY <1>2, <1>3
  <2> HIDE DEF S
  <2>2. Nat \subseteq S
    BY <2>1, SetInduction
  <2> QED
    BY <1>0, <2>2 DEF S
<1>5. Is(Tos!Walk(q), Len(p.names))
  BY <1>1, <1>4, Zenon
<1>6. \A k \in 0 .. Len(p.names) :
        Tos!Walk(q)[k] = IF k = 0 THEN first ELSE Onward(Tos!Walk(q)[k - 1], q.names[k])
  BY <1>5, Zenon DEF Is
<1>7. 0 \in 0 .. Len(p.names) /\ \A k \in 1 .. Len(p.names) : k \in 0 .. Len(p.names) /\ k # 0
  BY <1>0
<1>8. Tos!Walk(q)[0] = first
      /\ \A k \in 1 .. Len(p.names) : Tos!Walk(q)[k] = Onward(Tos!Walk(q)[k - 1], Key83[p.names[k]])
  BY <1>0, <1>6, <1>7, Zenon
<1> QED
  BY <1>8, Zenon DEF first, Onward, q

-----------------------------------------------------------------------------
(* What tos_path_to_unix may lead to: nowhere, and then it has an errno; the
   root or the current directory itself; or a name in a directory, the one
   that an entry has or one that shares its 8.3 form with no entry.        *)
Place(pos) ==
  /\ pos.err \in Nat
  /\ \/ IsNull(pos) /\ pos.err # 0
     \/ pos.dir = None /\ pos.ino \in fs.dirs
     \/ /\ pos.dir \in fs.dirs /\ pos.name \in Name
        /\ \/ pos.ino # None /\ Entry(pos, pos.ino) \in fs.entries
           \/ /\ pos.ino = None
              /\ \A e \in fs.entries : e.dir = pos.dir => Key83[e.name] # Key83[pos.name]

(* Where TosFiles is, at the position t, while the code is at pos. *)
Leads(pos, t) ==
  /\ t.ino = pos.ino
  /\ IF IsNull(pos) THEN t.dir \notin fs.dirs
     ELSE t.dir = pos.dir /\ (pos.dir # None => t.name = Key83[pos.name])

(* A name without a hash is found by exactly the names of its 8.3 form. *)
LEMMA MatchesByKey ==
  ASSUME Sound(fs, cwd), NEW e \in fs.entries, NEW n \in Name
  PROVE  Matches(e, n) <=> Key83[e.name] = Key83[n]
<1>1. e.name \in Name \ Aliases
  BY DEF Sound
<1> QED
  BY <1>1, NamesAssumption, Zenon DEF Matches

(* TosFiles finds an entry by its 8.3 form, and nothing where there is none. *)
LEMMA FindIs ==
  ASSUME Sound(fs, cwd), NEW d, NEW k
  PROVE  /\ \A e \in fs.entries : e.dir = d /\ Key83[e.name] = k => Tos!Find(d, k) = e.ino
         /\ (\A e \in fs.entries : e.dir = d => Key83[e.name] # k) => Tos!Find(d, k) = None
<1> DEFINE Shown(e) == [dir |-> e.dir, name |-> Key83[e.name], ino |-> e.ino]
           found == {f \in {Shown(e) : e \in fs.entries} : f.dir = d /\ f.name = k}
<1>1. Tos!Find(d, k) = IF found = {} THEN None ELSE (CHOOSE f \in found : TRUE).ino
  BY DEF Tos!Find
<1>2. ASSUME NEW e \in fs.entries, e.dir = d, Key83[e.name] = k
      PROVE  Tos!Find(d, k) = e.ino
  <2>1. Shown(e) \in found
    BY <1>2
  <2>2. PICK f \in found : f = CHOOSE g \in found : TRUE
    BY <2>1
  <2>3. PICK e2 \in fs.entries : f = Shown(e2)
    OBVIOUS
  <2>4. e2.dir = d /\ Key83[e2.name] = k /\ f.ino = e2.ino
    <3>1. f.dir = d /\ f.name = k
      BY Zenon
    <3> HIDE DEF found
    <3> QED
      BY <2>3, <3>1
  <2>5. e2 = e
    BY <1>2, <2>4, Zenon DEF Sound
  <2> HIDE DEF found
  <2>6. Tos!Find(d, k) = f.ino
    BY <1>1, <2>1, <2>2
  <2> QED
    BY <2>4, <2>5, <2>6
<1>3. ASSUME \A e \in fs.entries : e.dir = d => Key83[e.name] # k
      PROVE  found = {}
  BY <1>3
<1> HIDE DEF found
<1> QED
  BY <1>1, <1>2, <1>3

(* One component of a path. *)
LEMMA LookupLeads ==
  ASSUME Sound(fs, cwd), NEW pos, Place(pos), NEW t, Leads(pos, t),
         NEW n \in Name, NEW q \in Lookup(pos, n)
  PROVE  /\ Place(q)
         /\ Leads(q, [dir |-> t.ino, name |-> Key83[n], ino |-> Tos!Find(t.ino, Key83[n])])
<1> DEFINE next == [dir |-> t.ino, name |-> Key83[n], ino |-> Tos!Find(t.ino, Key83[n])]
           Found(e, err) == [dir |-> pos.ino, name |-> e.name, ino |-> e.ino, err |-> err]
           scan == {e \in fs.entries : e.dir = pos.ino /\ Matches(e, n)}
<1>1. /\ None \notin fs.dirs /\ None \notin Ino /\ fs.entries \subseteq [dir : Ino, name : Name, ino : Ino]
      /\ t.ino = pos.ino /\ pos.err \in Nat
  BY DEF Sound, Ino, None, Leads, Place
<1>2. CASE pos.ino \notin fs.dirs
  <2>1. \A e \in fs.entries : e.dir # pos.ino
    BY <1>2 DEF Sound
  <2>2. Tos!Find(t.ino, Key83[n]) = None
    BY <1>1, <2>1, FindIs
  <2>3. q.dir = None /\ q.ino = None /\ q.err \in Nat \ {0}
    <3>1. PICK err \in {ENOENT, ENOTDIR} : q = Lost(err)
      BY <1>2, Zenon DEF Lookup
    <3>2. err \in Nat \ {0}
      BY DEF ENOENT, ENOTDIR
    <3> QED
      BY <3>1, <3>2 DEF Lost
  <2> QED
    BY <1>1, <1>2, <2>2, <2>3 DEF Place, Leads, IsNull
<1>3. ASSUME pos.ino \in fs.dirs, NEW e \in fs.entries, e.dir = pos.ino,
             Key83[e.name] = Key83[n], NEW err \in Nat, q = Found(e, err)
      PROVE  Place(q) /\ Leads(q, next)
  <2>1. Tos!Find(t.ino, Key83[n]) = e.ino
    BY <1>1, <1>3, FindIs
  <2>2. e \in [dir : Ino, name : Name, ino : Ino]
    BY <1>1
  <2>3. e = [dir |-> pos.ino, name |-> e.name, ino |-> e.ino] /\ e.ino # None /\ e.name \in Name
    BY <1>1, <1>3, <2>2
  <2>4. Entry(q, q.ino) = e
    BY <1>3, <2>3 DEF Entry
  <2> QED
    BY <1>1, <1>3, <2>1, <2>3, <2>4 DEF Place, Leads, IsNull
<1>4. CASE pos.ino \in fs.dirs /\ Exact(pos.ino, n) # {}
  <2>1. PICK e \in Exact(pos.ino, n) : q = Found(e, pos.err)
    BY <1>4 DEF Lookup
  <2>2. e \in fs.entries /\ e.dir = pos.ino /\ Key83[e.name] = Key83[n]
    BY <2>1 DEF Exact
  <2> QED
    BY <1>1, <1>3, <1>4, <2>1, <2>2
<1>5. CASE pos.ino \in fs.dirs /\ Exact(pos.ino, n) = {} /\ scan # {}
  <2>1. PICK e \in scan : q = Found(e, ENOENT)
    BY <1>5 DEF Lookup
  <2>2. e \in fs.entries /\ e.dir = pos.ino /\ Key83[e.name] = Key83[n]
    BY <2>1, MatchesByKey
  <2> QED
    BY <1>3, <1>5, <2>1, <2>2 DEF ENOENT
<1>6. CASE pos.ino \in fs.dirs /\ Exact(pos.ino, n) = {} /\ scan = {}
  <2>1. q = [dir |-> pos.ino, name |-> n, ino |-> None, err |-> ENOENT]
    BY <1>6 DEF Lookup
  <2>2. \A e \in fs.entries : e.dir = pos.ino => Key83[e.name] # Key83[n]
    BY <1>6, MatchesByKey
  <2>3. Tos!Find(t.ino, Key83[n]) = None
    BY <1>1, <2>2, FindIs
  <2> QED
    BY <1>1, <1>6, <2>1, <2>2, <2>3 DEF Place, Leads, IsNull, ENOENT
<1> QED
  BY <1>2, <1>4, <1>5, <1>6

(* A whole path: wherever it may lead, TosFiles' path of 8.3 names leads too. *)
LEMMA PathLeads ==
  ASSUME IInv, NEW p \in Paths, NEW e \in Nat, NEW pos \in tos_path_to_unix(p, e)
  PROVE  Place(pos) /\ Leads(pos, Tos!At(KeyPath(p)))
<1> DEFINE q == KeyPath(p)
           N == Len(p.names)
           Good(k) == \A x \in Walk(p, e)[k] : Place(x) /\ Leads(x, Tos!Walk(q)[k])
<1>0. N \in Nat /\ Len(q.names) = N /\ \A k \in 1 .. N : p.names[k] \in Name
  BY KeyPathIs
<1>1. Sound(fs, cwd)
  BY DEF IInv
<1>2. Good(0)
  <2>1. Walk(p, e)[0] = {Start(IF p.abs THEN Root ELSE cwd, e)}
        /\ Tos!Walk(q)[0] = [dir |-> None, name |-> "", ino |-> IF p.abs THEN Root ELSE cwd]
    BY WalkIs, TosWalkIs
  <2>2. Root \in fs.dirs /\ cwd \in fs.dirs /\ None \notin fs.dirs
    BY <1>1 DEF Sound, Ino, None
  <2> SUFFICES ASSUME NEW x \in Walk(p, e)[0]
               PROVE  Place(x) /\ Leads(x, Tos!Walk(q)[0])
    OBVIOUS
  <2>3. x = [dir |-> None, name |-> "", ino |-> IF p.abs THEN Root ELSE cwd, err |-> e]
    BY <2>1, Zenon DEF Start
  <2>4. x.dir = None /\ x.ino \in fs.dirs /\ x.err = e
    BY <2>2, <2>3
  <2>5. Place(x) /\ ~IsNull(x)
    BY <2>2, <2>4 DEF Place, IsNull
  <2>6. Tos!Walk(q)[0].dir = None /\ Tos!Walk(q)[0].ino = x.ino
    <3> DEFINE t == Tos!Walk(q)[0]
    <3>1. t = [dir |-> None, name |-> "", ino |-> IF p.abs THEN Root ELSE cwd]
      BY <2>1, Zenon
    <3> HIDE DEF t
    <3>2. t.dir = None /\ t.ino = x.ino
      BY <2>3, <3>1
    <3> QED
      BY <3>2, Zenon DEF t
  <2> QED
    BY <2>4, <2>5, <2>6, Zenon DEF Leads
<1>3. ASSUME NEW k \in 1 .. N, Good(k - 1)
      PROVE  Good(k)
  <2>1. Walk(p, e)[k] = UNION {Lookup(x, p.names[k]) : x \in Walk(p, e)[k - 1]}
    BY WalkIs
  <2>2. Tos!Walk(q)[k] = [dir |-> Tos!Walk(q)[k - 1].ino, name |-> Key83[p.names[k]],
                          ino |-> Tos!Find(Tos!Walk(q)[k - 1].ino, Key83[p.names[k]])]
    BY TosWalkIs
  <2> SUFFICES ASSUME NEW y \in Walk(p, e)[k]
               PROVE  Place(y) /\ Leads(y, Tos!Walk(q)[k])
    OBVIOUS
  <2>3. PICK x \in Walk(p, e)[k - 1] : y \in Lookup(x, p.names[k])
    BY <2>1, Zenon
  <2>4. Place(x) /\ Leads(x, Tos!Walk(q)[k - 1])
    BY <1>3, <2>3, Zenon
  <2>5. p.names[k] \in Name
    BY <1>0
  <2> QED
    BY <1>1, <2>2, <2>3, <2>4, <2>5, LookupLeads, Zenon
<1> DEFINE S == {n \in Nat : n <= N => Good(n)}
<1> HIDE DEF q, Good
<1>4. 0 \in S /\ \A n \in Nat : n \in S => n + 1 \in S
  <2>1. ASSUME NEW n \in Nat, n <= N => Good(n), n + 1 <= N
        PROVE  Good(n + 1)
    <3>1. n + 1 \in 1 .. N /\ (n + 1) - 1 = n /\ n <= N
      BY <1>0, <2>1
    <3> QED
      BY <1>3, <2>1, <3>1
  <2> QED
    BY <1>2, <2>1
<1> HIDE DEF S
<1>5. Nat \subseteq S
  BY <1>4, SetInduction
<1>6. Good(N)
  BY <1>0, <1>5 DEF S
<1> QED
  BY <1>0, <1>6, Zenon DEF Good, tos_path_to_unix, Tos!At, q

-----------------------------------------------------------------------------
(* Trees E with directories D before Kept drops the directories that are gone. *)
Tree(E, D, here) ==
  /\ E \subseteq [dir : Ino, name : Name, ino : Ino] /\ D \subseteq Ino
  /\ {Root, here} \subseteq D
  /\ \A e, f \in E : e.dir = f.dir /\ Key83[e.name] = Key83[f.name] => e = f
  /\ \A e \in E : /\ e.dir \in D /\ e.name \notin Aliases
                  /\ e.dir = Root \/ \E f \in E : f.ino = e.dir

(* A sound tree is one that Kept leaves alone. *)
LEMMA SoundTree ==
  ASSUME NEW F, NEW here, Sound(F, here)
  PROVE  /\ Tree(F.entries, F.dirs, here)
         /\ F = [entries |-> F.entries, dirs |-> F.dirs]
         /\ Kept(F, here) = F
<1>1. F = [entries |-> F.entries, dirs |-> F.dirs]
  BY DEF Sound
<1>2. Kept(F, here) = F
  <2>1. {d \in F.dirs : Linked(F, d) \/ d = here} = F.dirs
    BY DEF Sound
  <2> QED
    BY <1>1, <2>1 DEF Kept
<1>3. Tree(F.entries, F.dirs, here)
  BY DEF Sound, Tree, Linked
<1> QED
  BY <1>1, <1>2, <1>3

(* What Kept makes of a tree. *)
LEMMA KeptSound ==
  ASSUME NEW E, NEW D, NEW here, Tree(E, D, here)
  PROVE  LET K == Kept([entries |-> E, dirs |-> D], here) IN
         /\ Sound(K, here)
         /\ K.entries = E
         /\ K.dirs = {d \in D : d = Root \/ d = here \/ \E e \in E : e.ino = d}
<1> DEFINE K == Kept([entries |-> E, dirs |-> D], here)
           L == {d \in D : d = Root \/ d = here \/ \E e \in E : e.ino = d}
<1>1. K = [entries |-> E, dirs |-> L]
  BY DEF Kept, Linked
<1> HIDE DEF K
<1>2. K.entries = E /\ K.dirs = L
  BY <1>1
<1>3. Sound(K, here)
  <2>1. K \in [entries : SUBSET [dir : Ino, name : Name, ino : Ino], dirs : SUBSET Ino]
    BY <1>1 DEF Tree
  <2>2. {Root, here} \subseteq K.dirs
    BY <1>2 DEF Tree
  <2>3. \A e \in K.entries : e.dir \in K.dirs /\ Linked(K, e.dir) /\ e.name \notin Aliases
    <3> SUFFICES ASSUME NEW e \in E
                 PROVE  e.dir \in L /\ Linked(K, e.dir) /\ e.name \notin Aliases
      BY <1>2, Zenon
    <3>1. /\ e.dir \in D /\ e.name \notin Aliases
          /\ e.dir = Root \/ \E f \in E : f.ino = e.dir
      BY DEF Tree
    <3> QED
      BY <1>2, <3>1, Zenon DEF Linked
  <2>4. \A d \in K.dirs : Linked(K, d) \/ d = here
    BY <1>2 DEF Linked
  <2>5. \A e, f \in K.entries : e.dir = f.dir /\ Key83[e.name] = Key83[f.name] => e = f
    BY <1>2 DEF Tree
  <2> QED
    BY <2>1, <2>2, <2>3, <2>4, <2>5 DEF Sound
<1> QED
  BY <1>2, <1>3 DEF K

(* The file that a call makes is one that nothing refers to. *)
LEMMA NewIsUnused ==
  ASSUME IInv, Ino \ InUse # {}
  PROVE  /\ New \in Ino /\ New # None /\ New \notin fs.dirs
         /\ \A e \in fs.entries : e.ino # New
<1> DEFINE S == Ino \ InUse
<1>1. IsWellFoundedOn(OpToRel(<, Nat), Nat)
  BY NatLessThanWellFounded
<1>2. S \subseteq Nat /\ S # {}
  BY DEF Ino
<1>3. PICK n \in S : \A m \in S : ~(<<m, n>> \in OpToRel(<, Nat))
  <2> HIDE DEF S, OpToRel
  <2> QED
    BY <1>1, <1>2, WFMin
<1>4. \A m \in S : n <= m
  <2> HIDE DEF S
  <2>1. \A m \in S : ~(m < n)
    BY <1>2, <1>3 DEF OpToRel
  <2> QED
    BY <1>2, <2>1
<1>5. New \in S
  <2> HIDE DEF S
  <2>1. New = CHOOSE x \in S : \A y \in S : x <= y
    BY DEF New, Min, S
  <2> QED
    BY <1>4, <2>1
<1> QED
  BY <1>5 DEF Ino, None, InUse

(* An entry taken out: not a directory, or an empty one. *)
LEMMA RemoveEntry ==
  ASSUME Sound(fs, cwd), NEW x \in fs.entries, x.ino \notin fs.dirs \/ Children(x.ino) = {}
  PROVE  Tree(fs.entries \ {x}, fs.dirs, cwd)
<1>1. Tree(fs.entries, fs.dirs, cwd)
  BY SoundTree
<1>2. ASSUME NEW e \in fs.entries \ {x}
      PROVE  e.dir = Root \/ \E f \in fs.entries \ {x} : f.ino = e.dir
  <2>1. e.dir \in fs.dirs /\ (e.dir = Root \/ \E f \in fs.entries : f.ino = e.dir)
    BY <1>1 DEF Tree
  <2>2. x.ino # e.dir
    BY <2>1 DEF Children
  <2> QED
    BY <2>1, <2>2
<1> QED
  BY <1>1, <1>2 DEF Tree

(* An entry put in, of a file or a new directory. *)
LEMMA AddEntry ==
  ASSUME Sound(fs, cwd), NEW x \in [dir : Ino, name : Name, ino : Ino],
         x.dir \in fs.dirs, Linked(fs, x.dir), x.name \notin Aliases,
         \A e \in fs.entries : e.dir = x.dir => Key83[e.name] # Key83[x.name]
  PROVE  /\ Tree(fs.entries \cup {x}, fs.dirs, cwd)
         /\ Tree(fs.entries \cup {x}, fs.dirs \cup {x.ino}, cwd)
<1>1. Tree(fs.entries, fs.dirs, cwd)
  BY SoundTree
<1> DEFINE E == fs.entries \cup {x}
<1>2. /\ E \subseteq [dir : Ino, name : Name, ino : Ino] /\ x.ino \in Ino
      /\ \A e, f \in E : e.dir = f.dir /\ Key83[e.name] = Key83[f.name] => e = f
  BY <1>1 DEF Tree
<1>3. ASSUME NEW e \in E
      PROVE  /\ e.dir \in fs.dirs /\ e.name \notin Aliases
             /\ e.dir = Root \/ \E f \in E : f.ino = e.dir
  <2>1. CASE e = x
    BY <2>1 DEF Linked
  <2>2. CASE e \in fs.entries
    BY <1>1, <2>2 DEF Tree
  <2> QED
    BY <2>1, <2>2
<1> QED
  BY <1>1, <1>2, <1>3 DEF Tree

(* An entry moved to another place, over the entry there if there is one. *)
LEMMA MoveEntry ==
  ASSUME Sound(fs, cwd), NEW x \in fs.entries, NEW y, NEW z \in [dir : Ino, name : Name, ino : Ino],
         z.ino = x.ino, z.dir = y.dir, z.name = y.name, x.ino # y.ino,
         z.dir \in fs.dirs, Linked(fs, z.dir), z.name \notin Aliases,
         \/ y \in fs.entries /\ (y.ino \notin fs.dirs \/ Children(y.ino) = {})
         \/ \A e \in fs.entries : e.dir = y.dir => Key83[e.name] # Key83[y.name]
  PROVE  Tree((fs.entries \ {x, y}) \cup {z}, fs.dirs, cwd)
<1>1. Tree(fs.entries, fs.dirs, cwd)
  BY SoundTree
<1> DEFINE E == (fs.entries \ {x, y}) \cup {z}
<1>2. E \subseteq [dir : Ino, name : Name, ino : Ino]
  BY <1>1 DEF Tree
<1>3. ASSUME NEW e \in fs.entries \ {x, y}
      PROVE  ~(e.dir = z.dir /\ Key83[e.name] = Key83[z.name])
  BY <1>1, <1>3 DEF Tree
<1>4. \A e, f \in E : e.dir = f.dir /\ Key83[e.name] = Key83[f.name] => e = f
  BY <1>1, <1>3 DEF Tree
<1>5. ASSUME NEW d, Linked(fs, d), y \in fs.entries => y.ino # d
      PROVE  d = Root \/ \E f \in E : f.ino = d
  <2>1. ASSUME NEW f \in fs.entries, f.ino = d
        PROVE  \E g \in E : g.ino = d
    <3>1. CASE f = x
      BY <2>1, <3>1
    <3>2. CASE f # x
      BY <1>5, <2>1, <3>2
    <3> QED
      BY <3>1, <3>2
  <2> QED
    BY <1>5, <2>1 DEF Linked
<1>6. ASSUME NEW e \in fs.entries, y \in fs.entries
      PROVE  y.ino # e.dir
  <2>1. y.ino \notin fs.dirs \/ Children(y.ino) = {}
    BY <1>6
  <2>2. e.dir \in fs.dirs /\ e \in Children(e.dir)
    BY <1>1 DEF Tree, Children
  <2> QED
    BY <2>1, <2>2, Zenon
<1>7. ASSUME NEW e \in E
      PROVE  /\ e.dir \in fs.dirs /\ e.name \notin Aliases
             /\ e.dir = Root \/ \E f \in E : f.ino = e.dir
  <2>1. CASE e = z
    <3>1. y \in fs.entries => y.ino # z.dir
      BY <1>6
    <3> QED
      BY <1>5, <2>1, <3>1
  <2>2. CASE e \in fs.entries
    <3>1. e.dir \in fs.dirs /\ e.name \notin Aliases /\ Linked(fs, e.dir)
      BY <2>2 DEF Sound
    <3>2. y \in fs.entries => y.ino # e.dir
      BY <1>6, <2>2
    <3> QED
      BY <1>5, <3>1, <3>2, Zenon
  <2> QED
    BY <2>1, <2>2
<1> HIDE DEF E
<1>8. Tree(E, fs.dirs, cwd)
  BY <1>1, <1>2, <1>4, <1>7 DEF Tree
<1> QED
  BY <1>8 DEF E

-----------------------------------------------------------------------------
(* What a call h of the host did: it failed and left the tree as it was; or it
   left the entries E, and of the directories D all but some of those in gone. *)
Failed(h) == h.err \in Nat \ {0} /\ h.fs = fs

Did(h, E, D, gone) ==
  /\ h.err = 0 /\ Sound(h.fs, cwd)
  /\ h.fs.entries = E /\ D \ gone \subseteq h.fs.dirs /\ h.fs.dirs \subseteq D

(* A call that fails. *)
LEMMA FailsFailed ==
  ASSUME NEW e \in Nat \ {0}
  PROVE  Failed(Fails(e))
BY DEF Fails, Failed

(* The errnos of this module are errors. *)
LEMMA ErrnosAreErrors ==
  /\ ENOENT \in Nat \ {0} /\ EPERM \in Nat \ {0} /\ EBADF \in Nat \ {0} /\ EEXIST \in Nat \ {0}
  /\ ENOTDIR \in Nat \ {0} /\ EISDIR \in Nat \ {0} /\ EINVAL \in Nat \ {0} /\ EMFILE \in Nat \ {0}
  /\ ENOTEMPTY \in Nat \ {0} /\ EBUSY \in Nat \ {0}
BY DEF ENOENT, EPERM, EBADF, EEXIST, ENOTDIR, EISDIR, EINVAL, EMFILE, ENOTEMPTY, EBUSY

(* What a call that succeeds answers. *)
LEMMA DoesIs ==
  ASSUME NEW E, NEW D
  PROVE  Does(E, D).err = 0 /\ Does(E, D).fs.entries = E
         /\ Does(E, D).fs = Kept([entries |-> E, dirs |-> D], cwd)
BY DEF Does, Kept

(* A call that succeeds leaves a sound tree. *)
LEMMA DoesDid ==
  ASSUME NEW E, NEW D, Tree(E, D, cwd), NEW gone,
         \A d \in D \ gone : d = Root \/ d = cwd \/ \E e \in E : e.ino = d
  PROVE  Did(Does(E, D), E, D, gone)
<1> DEFINE K == Kept([entries |-> E, dirs |-> D], cwd)
           L == {d \in D : d = Root \/ d = cwd \/ \E e \in E : e.ino = d}
<1>1. Does(E, D).err = 0 /\ Does(E, D).fs = K
  BY DoesIs
<1>2. D \ gone \subseteq L /\ L \subseteq D
  OBVIOUS
<1>3. Sound(K, cwd) /\ K.entries = E /\ K.dirs = L
  BY KeptSound
<1> HIDE DEF K, L
<1> QED
  BY <1>1, <1>2, <1>3 DEF Did

(* Every directory but the current one has an entry. *)
LEMMA DirsLinked ==
  ASSUME Sound(fs, cwd)
  PROVE  \A d \in fs.dirs : d = Root \/ d = cwd \/ \E e \in fs.entries : e.ino = d
BY DEF Sound, Linked

(* The entry that a call looks at. *)
LEMMA EntryIs ==
  ASSUME Sound(fs, cwd), NEW pos, Place(pos), pos.dir # None, ~IsNull(pos)
  PROVE  /\ pos.dir \in fs.dirs /\ pos.name \in Name
         /\ pos.ino # None => Entry(pos, pos.ino) \in fs.entries /\ pos.ino \in Ino
                              /\ Linked(fs, pos.dir) /\ pos.name \notin Aliases
         /\ pos.ino = None => \A e \in fs.entries : e.dir = pos.dir => Key83[e.name] # Key83[pos.name]
         /\ \A i : /\ Entry(pos, i).dir = pos.dir /\ Entry(pos, i).name = pos.name
                   /\ Entry(pos, i).ino = i
<1>1. \A i : /\ Entry(pos, i).dir = pos.dir /\ Entry(pos, i).name = pos.name
            /\ Entry(pos, i).ino = i
  BY DEF Entry
<1>2. pos.dir \in fs.dirs /\ pos.name \in Name
  BY DEF Place, IsNull
<1>3. ASSUME pos.ino # None
      PROVE  /\ Entry(pos, pos.ino) \in fs.entries /\ pos.ino \in Ino
             /\ Linked(fs, pos.dir) /\ pos.name \notin Aliases
  <2>1. Entry(pos, pos.ino) \in fs.entries
    BY <1>3 DEF Place, IsNull
  <2>2. fs.entries \subseteq [dir : Ino, name : Name, ino : Ino]
    BY DEF Sound
  <2>3. Entry(pos, pos.ino).ino \in Ino
    BY <2>1, <2>2
  <2>4. Linked(fs, Entry(pos, pos.ino).dir) /\ Entry(pos, pos.ino).name \notin Aliases
    BY <2>1 DEF Sound
  <2> QED
    BY <1>1, <2>1, <2>3, <2>4
<1>4. pos.ino = None => \A e \in fs.entries : e.dir = pos.dir => Key83[e.name] # Key83[pos.name]
  BY DEF Place, IsNull
<1> QED
  BY <1>1, <1>2, <1>3, <1>4

(* unlink takes out the name of a file that is not a directory. *)
LEMMA UnlinkDoes ==
  ASSUME Sound(fs, cwd), NEW pos, Place(pos), ~IsNull(pos)
  PROVE  IF pos.ino # None /\ pos.ino \notin fs.dirs
         THEN Did(unlink(pos), fs.entries \ {Entry(pos, pos.ino)}, fs.dirs, {})
         ELSE Failed(unlink(pos))
<1> DEFINE E == fs.entries \ {Entry(pos, pos.ino)}
<1>1. CASE pos.ino = None \/ pos.ino \in fs.dirs
  <2>1. \E e \in {ENOENT, EISDIR} : unlink(pos) = Fails(e)
    BY <1>1, Zenon DEF unlink
  <2> QED
    BY <1>1, <2>1, FailsFailed, ErrnosAreErrors, Zenon
<1>2. CASE pos.ino # None /\ pos.ino \notin fs.dirs
  <2>1. unlink(pos) = Does(E, fs.dirs)
    BY <1>2, Zenon DEF unlink
  <2>2. pos.dir # None
    BY <1>2 DEF Place, IsNull, Sound, Ino, None
  <2>3. Entry(pos, pos.ino) \in fs.entries /\ Entry(pos, pos.ino).ino = pos.ino
    BY <1>2, <2>2, EntryIs
  <2>4. Tree(E, fs.dirs, cwd)
    BY <1>2, <2>3, RemoveEntry
  <2>5. \A d \in fs.dirs \ {} : d = Root \/ d = cwd \/ \E e \in E : e.ino = d
    BY <1>2, <2>3, DirsLinked
  <2> HIDE DEF E
  <2>6. Did(Does(E, fs.dirs), E, fs.dirs, {})
    BY <2>4, <2>5, DoesDid
  <2> QED
    BY <1>2, <2>1, <2>6, Zenon DEF E
<1> QED
  BY <1>1, <1>2, Zenon

(* rmdir takes out the name of an empty directory. *)
LEMMA RmdirDoes ==
  ASSUME Sound(fs, cwd), NEW pos, Place(pos), ~IsNull(pos)
  PROVE  IF pos.dir # None /\ pos.ino \in fs.dirs /\ Children(pos.ino) = {}
         THEN Did(rmdir(pos), fs.entries \ {Entry(pos, pos.ino)}, fs.dirs, {pos.ino})
         ELSE Failed(rmdir(pos))
<1> DEFINE E == fs.entries \ {Entry(pos, pos.ino)}
<1>0. None \notin fs.dirs
  BY DEF Sound, Ino, None
<1>1. CASE ~(pos.dir # None /\ pos.ino \in fs.dirs /\ Children(pos.ino) = {})
  <2>1. \E e \in {EBUSY, ENOENT, ENOTDIR, ENOTEMPTY} : rmdir(pos) = Fails(e)
    BY <1>1, Zenon DEF rmdir
  <2> QED
    BY <1>1, <2>1, FailsFailed, ErrnosAreErrors, Zenon
<1>2. CASE pos.dir # None /\ pos.ino \in fs.dirs /\ Children(pos.ino) = {}
  <2>0. pos.ino # None
    BY <1>0, <1>2
  <2>1. rmdir(pos) = Does(E, fs.dirs)
    BY <1>2, <2>0, Zenon DEF rmdir
  <2>2. Entry(pos, pos.ino) \in fs.entries /\ Entry(pos, pos.ino).ino = pos.ino
    BY <1>2, <2>0, EntryIs
  <2>3. Tree(E, fs.dirs, cwd)
    BY <1>2, <2>2, RemoveEntry
  <2>4. \A d \in fs.dirs \ {pos.ino} : d = Root \/ d = cwd \/ \E e \in E : e.ino = d
    BY <2>2, DirsLinked
  <2> HIDE DEF E
  <2>5. Did(Does(E, fs.dirs), E, fs.dirs, {pos.ino})
    BY <2>3, <2>4, DoesDid
  <2> QED
    BY <1>2, <2>1, <2>5, Zenon DEF E
<1> QED
  BY <1>1, <1>2, Zenon

(* The entry that a call makes at a free place, of a file i. *)
LEMMA NewEntry ==
  ASSUME Sound(fs, cwd), NEW pos, Place(pos), ~IsNull(pos), pos.ino = None,
         Linked(fs, pos.dir), NEW i \in Ino,
         \A e \in {Entry(pos, i)} \ fs.entries : e.name \notin Aliases
  PROVE  /\ Tree(fs.entries \cup {Entry(pos, i)}, fs.dirs, cwd)
         /\ Tree(fs.entries \cup {Entry(pos, i)}, fs.dirs \cup {i}, cwd)
<1> DEFINE x == Entry(pos, i)
<1>1. /\ pos.dir \in fs.dirs /\ pos.name \in Name
      /\ \A e \in fs.entries : e.dir = pos.dir => Key83[e.name] # Key83[pos.name]
  BY DEF Place, IsNull
<1>2. x = [dir |-> pos.dir, name |-> pos.name, ino |-> i] /\ fs.dirs \subseteq Ino
  BY DEF Entry, Sound
<1> HIDE DEF x
<1>3. /\ x.dir = pos.dir /\ x.name = pos.name /\ x.ino = i
      /\ x \in [dir : Ino, name : Name, ino : Ino]
  BY <1>1, <1>2
<1>4. x \notin fs.entries
  BY <1>1, <1>3
<1>5. x.name \notin Aliases
  BY <1>4 DEF x
<1> QED
  BY <1>1, <1>3, <1>5, AddEntry DEF x

(* mkdir makes a directory at a free place. *)
LEMMA MkdirDoes ==
  ASSUME IInv, NEW pos, Place(pos), ~IsNull(pos), Room(pos),
         \A e \in mkdir(pos).fs.entries \ fs.entries : e.name \notin Aliases
  PROVE  IF pos.ino = None /\ Linked(fs, pos.dir)
         THEN Did(mkdir(pos), fs.entries \cup {Entry(pos, New)}, fs.dirs \cup {New}, {})
         ELSE Failed(mkdir(pos))
<1> DEFINE E == fs.entries \cup {Entry(pos, New)}
           D == fs.dirs \cup {New}
<1>0. Sound(fs, cwd)
  BY DEF IInv
<1>1. CASE ~(pos.ino = None /\ Linked(fs, pos.dir))
  <2>1. \E e \in {EEXIST, ENOENT} : mkdir(pos) = Fails(e)
    BY <1>1, Zenon DEF mkdir
  <2> QED
    BY <1>1, <2>1, FailsFailed, ErrnosAreErrors, Zenon
<1>2. CASE pos.ino = None /\ Linked(fs, pos.dir)
  <2>1. mkdir(pos) = Does(E, D)
    BY <1>2, Zenon DEF mkdir
  <2>2. New \in Ino
    BY <1>2, NewIsUnused DEF Room
  <2>3. \A e \in {Entry(pos, New)} \ fs.entries : e.name \notin Aliases
    <3>1. mkdir(pos).fs.entries = E
      BY <2>1, DoesIs, Zenon
    <3> QED
      BY <3>1
  <2>4. Tree(E, D, cwd)
    BY <1>0, <1>2, <2>2, <2>3, NewEntry
  <2>5. \A d \in D \ {} : d = Root \/ d = cwd \/ \E e \in E : e.ino = d
    <3>1. Entry(pos, New).ino = New
      BY DEF Entry
    <3> QED
      BY <1>0, <3>1, DirsLinked
  <2> HIDE DEF E, D
  <2>6. Did(Does(E, D), E, D, {})
    BY <2>4, <2>5, DoesDid
  <2> QED
    BY <1>2, <2>1, <2>6, Zenon DEF E, D
<1> QED
  BY <1>1, <1>2, Zenon

(* link gives a file another name, at a free place. *)
LEMMA LinkDoes ==
  ASSUME IInv, NEW pos, Place(pos), ~IsNull(pos), NEW new, Place(new), ~IsNull(new),
         \A e \in link(pos, new).fs.entries \ fs.entries : e.name \notin Aliases
  PROVE  IF /\ pos.ino # None /\ pos.ino \notin fs.dirs
            /\ new.ino = None /\ Linked(fs, new.dir)
         THEN Did(link(pos, new), fs.entries \cup {Entry(new, pos.ino)}, fs.dirs, {})
         ELSE Failed(link(pos, new))
<1> DEFINE E == fs.entries \cup {Entry(new, pos.ino)}
           can == /\ pos.ino # None /\ pos.ino \notin fs.dirs
                  /\ new.ino = None /\ Linked(fs, new.dir)
<1>0. Sound(fs, cwd)
  BY DEF IInv
<1>1. CASE ~can
  <2>1. \E e \in {ENOENT, EEXIST, EPERM} : link(pos, new) = Fails(e)
    BY <1>1, Zenon DEF link
  <2> QED
    BY <1>1, <2>1, FailsFailed, ErrnosAreErrors, Zenon
<1>2. CASE can
  <2>1. link(pos, new) = Does(E, fs.dirs)
    BY <1>2, Zenon DEF link
  <2>2. pos.dir # None
    BY <1>0, <1>2 DEF Place, IsNull, Sound, Ino, None
  <2>3. pos.ino \in Ino
    BY <1>0, <1>2, <2>2, EntryIs
  <2>4. \A e \in {Entry(new, pos.ino)} \ fs.entries : e.name \notin Aliases
    <3>1. link(pos, new).fs.entries = E
      BY <2>1, DoesIs, Zenon
    <3> QED
      BY <3>1
  <2>5. Tree(E, fs.dirs, cwd)
    BY <1>0, <1>2, <2>3, <2>4, NewEntry
  <2>6. \A d \in fs.dirs \ {} : d = Root \/ d = cwd \/ \E e \in E : e.ino = d
    BY <1>0, DirsLinked
  <2> HIDE DEF E
  <2>7. Did(Does(E, fs.dirs), E, fs.dirs, {})
    BY <2>5, <2>6, DoesDid
  <2> QED
    BY <1>2, <2>1, <2>7, Zenon DEF E
<1> QED
  BY <1>1, <1>2, Zenon

(* rename moves an entry to a free place, or over a file or an empty directory
   of its own kind, but no directory below itself.                         *)
MayRename(pos, new) ==
  /\ pos.ino # None /\ pos.dir # None /\ new.dir # None /\ Linked(fs, new.dir)
  /\ \/ pos.ino = new.ino
     \/ /\ \/ new.ino = None
           \/ pos.ino \notin fs.dirs /\ new.ino \notin fs.dirs
           \/ pos.ino \in fs.dirs /\ new.ino \in fs.dirs /\ Children(new.ino) = {}
        /\ ~(pos.ino \in fs.dirs /\ Below(new.dir, pos.ino))

Moved(pos, new) ==
  IF pos.ino = new.ino THEN fs.entries
  ELSE (fs.entries \ {Entry(pos, pos.ino), Entry(new, new.ino)}) \cup {Entry(new, pos.ino)}

(* The host's rename does exactly these, and fails otherwise. *)
LEMMA RenameDoes ==
  ASSUME IInv, NEW pos, Place(pos), ~IsNull(pos), NEW new, Place(new), ~IsNull(new),
         \A e \in rename(pos, new).fs.entries \ fs.entries : e.name \notin Aliases
  PROVE  IF MayRename(pos, new)
         THEN Did(rename(pos, new), Moved(pos, new), fs.dirs, {new.ino})
         ELSE Failed(rename(pos, new))
<1> DEFINE E == Moved(pos, new)
<1>0. Sound(fs, cwd) /\ None \notin fs.dirs /\ None \notin Ino
  BY DEF IInv, Sound, Ino, None
<1>1. CASE ~MayRename(pos, new)
  <2>1. \E e \in {EBUSY, ENOENT, EINVAL, ENOTDIR, EISDIR, ENOTEMPTY} : rename(pos, new) = Fails(e)
    BY <1>0, <1>1, Zenon DEF rename, MayRename
  <2> QED
    BY <1>1, <2>1, FailsFailed, ErrnosAreErrors, Zenon
<1>2. CASE MayRename(pos, new)
  <2>1. rename(pos, new) = Does(E, fs.dirs)
    BY <1>0, <1>2, Zenon DEF rename, MayRename, Moved
  <2>2. rename(pos, new).fs.entries = E
    BY <2>1, DoesIs, Zenon
  <2> DEFINE x == Entry(pos, pos.ino)
             y == Entry(new, new.ino)
             z == Entry(new, pos.ino)
  <2>3. /\ x \in fs.entries /\ pos.ino \in Ino
        /\ x.ino = pos.ino /\ y.ino = new.ino /\ z.ino = pos.ino
        /\ y.dir = new.dir /\ z.dir = new.dir /\ y.name = new.name /\ z.name = new.name
    BY <1>0, <1>2, EntryIs DEF MayRename
  <2>4. /\ new.dir \in fs.dirs /\ new.name \in Name
        /\ new.ino # None => y \in fs.entries /\ new.name \notin Aliases
        /\ new.ino = None => \A e \in fs.entries : e.dir = new.dir => Key83[e.name] # Key83[new.name]
    BY <1>0, <1>2, EntryIs DEF MayRename
  <2>5. z \in [dir : Ino, name : Name, ino : Ino]
    BY <1>0, <2>3, <2>4 DEF Entry, Sound
  <2> HIDE DEF x, y, z
  <2>6. ASSUME pos.ino = new.ino PROVE Did(Does(E, fs.dirs), E, fs.dirs, {new.ino})
    <3>1. E = fs.entries
      BY <2>6 DEF Moved
    <3>2. Tree(E, fs.dirs, cwd)
      BY <1>0, <3>1, SoundTree
    <3>3. \A d \in fs.dirs \ {new.ino} : d = Root \/ d = cwd \/ \E e \in E : e.ino = d
      BY <1>0, <3>1, DirsLinked
    <3> HIDE DEF E
    <3> QED
      BY <3>2, <3>3, DoesDid
  <2>7. ASSUME pos.ino # new.ino PROVE Did(Does(E, fs.dirs), E, fs.dirs, {new.ino})
    <3>1. E = (fs.entries \ {x, y}) \cup {z}
      BY <2>7 DEF Moved, x, y, z
    <3>2. z.name \notin Aliases
      <4>1. CASE new.ino = None
        <5>1. z \notin fs.entries
          BY <2>3, <2>4, <4>1
        <5>2. z \in rename(pos, new).fs.entries
          BY <2>2, <3>1
        <5> QED
          BY <5>1, <5>2
      <4> QED
        BY <2>3, <2>4, <4>1
    <3>3. \/ y \in fs.entries /\ (y.ino \notin fs.dirs \/ Children(y.ino) = {})
          \/ \A e \in fs.entries : e.dir = y.dir => Key83[e.name] # Key83[y.name]
      BY <1>2, <2>3, <2>4, <2>7 DEF MayRename
    <3>4. Linked(fs, z.dir) /\ z.dir \in fs.dirs
      BY <1>2, <2>3, <2>4 DEF MayRename
    <3>5. Tree((fs.entries \ {x, y}) \cup {z}, fs.dirs, cwd)
      BY <1>0, <2>3, <2>5, <2>7, <3>2, <3>3, <3>4, MoveEntry
    <3>6. \A d \in fs.dirs \ {new.ino} : d = Root \/ d = cwd \/ \E e \in E : e.ino = d
      <4> SUFFICES ASSUME NEW d \in fs.dirs \ {new.ino}, d # Root, d # cwd
                   PROVE  \E e \in E : e.ino = d
        OBVIOUS
      <4>1. PICK e \in fs.entries : e.ino = d
        BY <1>0, DirsLinked
      <4>2. e # y
        BY <2>3, <4>1
      <4>3. CASE e = x
        BY <2>3, <3>1, <4>1, <4>3
      <4>4. CASE e # x
        BY <3>1, <4>1, <4>2, <4>4
      <4> QED
        BY <4>3, <4>4
    <3>7. Tree(E, fs.dirs, cwd)
      BY <3>1, <3>5, Zenon
    <3> HIDE DEF E
    <3> QED
      BY <3>6, <3>7, DoesDid
  <2>8. Did(Does(E, fs.dirs), E, fs.dirs, {new.ino})
    BY <2>6, <2>7
  <2> QED
    BY <1>2, <2>1, <2>8, Zenon
<1> QED
  BY <1>1, <1>2, Zenon

(* open opens what is there or makes a file at a free place, and only when a
   descriptor is free.                                                     *)
LEMMA OpenDoes ==
  ASSUME IInv, NEW pos, Place(pos), ~IsNull(pos), Room(pos), NEW flags,
         \A e \in open(pos, flags).fs.entries \ fs.entries : e.name \notin Aliases
  PROVE  \/ Failed(open(pos, flags))
         \/ /\ \E h \in Fd : fd[h] = None
            /\ pos.ino # None
            /\ Did(open(pos, flags), fs.entries, fs.dirs, {})
         \/ /\ \E h \in Fd : fd[h] = None
            /\ pos.ino = None /\ Linked(fs, pos.dir)
            /\ Did(open(pos, flags), fs.entries \cup {Entry(pos, New)}, fs.dirs, {})
<1> DEFINE E == fs.entries \cup {Entry(pos, New)}
           o == open(pos, flags)
<1>0. Sound(fs, cwd)
  BY DEF IInv
<1>1. \/ \E e \in {EMFILE, EEXIST, EISDIR, ENOENT, ENOTDIR} : o = Fails(e)
      \/ /\ \E h \in Fd : fd[h] = None
         /\ pos.ino # None /\ o = Does(fs.entries, fs.dirs)
      \/ /\ \E h \in Fd : fd[h] = None
         /\ pos.ino = None /\ Linked(fs, pos.dir) /\ o = Does(E, fs.dirs)
  BY Zenon DEF open
<1>2. CASE \E e \in {EMFILE, EEXIST, EISDIR, ENOENT, ENOTDIR} : o = Fails(e)
  <2>1. Failed(o)
    BY <1>2, FailsFailed, ErrnosAreErrors, Zenon
  <2> QED
    BY <2>1
<1>3. Did(Does(fs.entries, fs.dirs), fs.entries, fs.dirs, {})
  BY <1>0, SoundTree, DirsLinked, DoesDid
<1>4. ASSUME pos.ino = None, Linked(fs, pos.dir), o = Does(E, fs.dirs)
      PROVE  Did(o, E, fs.dirs, {})
  <2>1. o.fs.entries = E
    BY <1>4, DoesIs, Zenon
  <2>2. New \in Ino
    BY <1>4, NewIsUnused DEF Room
  <2>3. \A e \in {Entry(pos, New)} \ fs.entries : e.name \notin Aliases
    BY <2>1
  <2>4. Tree(E, fs.dirs, cwd)
    BY <1>0, <1>4, <2>2, <2>3, NewEntry
  <2>5. \A d \in fs.dirs \ {} : d = Root \/ d = cwd \/ \E e \in E : e.ino = d
    BY <1>0, DirsLinked
  <2> HIDE DEF E
  <2>6. Did(Does(E, fs.dirs), E, fs.dirs, {})
    BY <2>4, <2>5, DoesDid
  <2> QED
    BY <1>4, <2>6, Zenon DEF E
<1> QED
  BY <1>1, <1>2, <1>3, <1>4, Zenon

-----------------------------------------------------------------------------
(* What the program sees.  An entry as a listing shows it: *)
Shown(e) == [dir |-> e.dir, name |-> Key83[e.name], ino |-> e.ino]

View(E) == {Shown(e) : e \in E}

(* The parts of what a listing shows. *)
LEMMA ShownIs ==
  ASSUME NEW e
  PROVE  Shown(e).dir = e.dir /\ Shown(e).name = Key83[e.name] /\ Shown(e).ino = e.ino
BY DEF Shown

(* An entry put in or taken out is put in or taken out of what is shown. *)
LEMMA ViewAdds ==
  ASSUME NEW E, NEW x
  PROVE  View(E \cup {x}) = View(E) \cup {Shown(x)}
<1> HIDE DEF Shown
<1> QED
  BY DEF View

(* An entry that no other shows alike is taken out of what is shown. *)
LEMMA ViewDrops ==
  ASSUME NEW E, NEW x, \A e \in E : Shown(e) = Shown(x) => e = x
  PROVE  View(E \ {x}) = View(E) \ {Shown(x)}
BY Zenon DEF View

(* The entry at a place, or at a free one, is alone in showing as it does. *)
LEMMA ShownOnce ==
  ASSUME Sound(fs, cwd), NEW x, x \in fs.entries \/ x.ino = None
  PROVE  \A e \in fs.entries : Shown(e) = Shown(x) => e = x
<1> SUFFICES ASSUME NEW e \in fs.entries, Shown(e) = Shown(x)
             PROVE  e = x
  OBVIOUS
<1>1. e.dir = x.dir /\ Key83[e.name] = Key83[x.name] /\ e.ino = x.ino
  <2>1. Shown(e).dir = Shown(x).dir /\ Shown(e).name = Shown(x).name /\ Shown(e).ino = Shown(x).ino
    OBVIOUS
  <2> HIDE DEF Shown
  <2> QED
    BY <2>1, ShownIs
<1>2. e.ino \in Ino /\ None \notin Ino
  BY DEF Sound, Ino, None
<1> QED
  BY <1>1, <1>2 DEF Sound

(* The questions that TosFiles asks have the answers that the host has. *)
LEMMA TosSees ==
  ASSUME Sound(fs, cwd)
  PROVE  /\ \A d : Tos!Linked(d) <=> Linked(fs, d)
         /\ \A d : Tos!Children(d) = {} <=> Children(d) = {}
         /\ \A d, a : Tos!Below(d, a) <=> Below(d, a)
         /\ \A i : Tos!Unused(i) <=> i \notin fs.dirs /\ \A e \in fs.entries : e.ino # i
<1> DEFINE V == View(fs.entries)
<1>1. \A e \in fs.entries : \E x \in V : x.ino = e.ino /\ x.dir = e.dir
  <2> SUFFICES ASSUME NEW e \in fs.entries PROVE \E x \in V : x.ino = e.ino /\ x.dir = e.dir
    OBVIOUS
  <2>1. Shown(e) \in V
    BY DEF View
  <2> QED
    BY <2>1, ShownIs, Zenon
<1>2. \A x \in V : \E e \in fs.entries : x.ino = e.ino /\ x.dir = e.dir
  <2> SUFFICES ASSUME NEW x \in V PROVE \E e \in fs.entries : x.ino = e.ino /\ x.dir = e.dir
    OBVIOUS
  <2>1. PICK e \in fs.entries : x = Shown(e)
    BY DEF View
  <2> QED
    BY <2>1, ShownIs, Zenon
<1>3. /\ \A d : Tos!Linked(d) <=> d = Root \/ \E x \in V : x.ino = d
      /\ \A d : Tos!Children(d) = {x \in V : x.dir = d}
      /\ \A d, a : Tos!Below(d, a) <=> \A S \in SUBSET fs.dirs :
            d \in S /\ (\A x \in V : x.ino \in S => x.dir \in S) => a \in S
      /\ \A i : Tos!Unused(i) <=> i \notin fs.dirs /\ \A x \in V : x.ino # i
  BY Zenon DEF Tos!Linked, Tos!Children, Tos!Below, Tos!Unused, View, Shown
<1> HIDE DEF V
<1>4. ASSUME NEW d PROVE Tos!Linked(d) <=> Linked(fs, d)
  <2>1. (\E x \in V : x.ino = d) <=> \E e \in fs.entries : e.ino = d
    BY <1>1, <1>2
  <2> QED
    BY <1>3, <2>1, Zenon DEF Linked
<1>5. ASSUME NEW d PROVE Tos!Children(d) = {} <=> Children(d) = {}
  <2>1. {x \in V : x.dir = d} = {} <=> {e \in fs.entries : e.dir = d} = {}
    BY <1>1, <1>2
  <2> QED
    BY <1>3, <2>1 DEF Children
<1>6. ASSUME NEW d, NEW a PROVE Tos!Below(d, a) <=> Below(d, a)
  <2>1. ASSUME NEW S
        PROVE  (\A x \in V : x.ino \in S => x.dir \in S)
               <=> (\A e \in fs.entries : e.ino \in S => e.dir \in S)
    BY <1>1, <1>2
  <2> QED
    BY <1>3, <2>1, Zenon DEF Below
<1>7. ASSUME NEW i
      PROVE  Tos!Unused(i) <=> i \notin fs.dirs /\ \A e \in fs.entries : e.ino # i
  <2>1. (\A x \in V : x.ino # i) <=> \A e \in fs.entries : e.ino # i
    BY <1>1, <1>2
  <2> QED
    BY <1>3, <2>1, Zenon
<1> QED
  BY <1>4, <1>5, <1>6, <1>7, Zenon

(* A place of the host and the place of TosFiles that it leads to. *)
LEMMA TosPlace ==
  ASSUME Sound(fs, cwd), NEW pos, Place(pos), NEW t, Leads(pos, t)
  PROVE  /\ t.ino = pos.ino
         /\ ~IsNull(pos) => t.dir = pos.dir
         /\ Tos!IsFile(t) <=> pos.ino # None /\ pos.ino \notin fs.dirs
         /\ Tos!IsDir(t) <=> pos.ino \in fs.dirs
         /\ Tos!IsNew(t) <=> ~IsNull(pos) /\ pos.ino = None /\ Linked(fs, pos.dir)
         /\ pos.dir # None => \A i : Shown(Entry(pos, i)) = Tos!Entry(t, i)
<1>1. t.ino = pos.ino /\ None \notin fs.dirs
  BY DEF Leads, Sound, Ino, None
<1>2. ~IsNull(pos) => t.dir = pos.dir
  BY DEF Leads
<1>3. Tos!IsNew(t) <=> ~IsNull(pos) /\ pos.ino = None /\ Linked(fs, pos.dir)
  <2>1. Tos!IsNew(t) <=> t.ino = None /\ t.dir \in fs.dirs /\ Linked(fs, t.dir)
    BY TosSees, Zenon DEF Tos!IsNew
  <2>2. CASE IsNull(pos)
    BY <2>1, <2>2, Zenon DEF Leads
  <2>3. CASE ~IsNull(pos)
    <3>1. pos.ino = None => pos.dir \in fs.dirs
      BY <1>1, <2>3 DEF Place, IsNull
    <3> QED
      BY <1>1, <1>2, <2>1, <2>3, <3>1, Zenon
  <2> QED
    BY <2>2, <2>3, Zenon
<1>4. ASSUME pos.dir # None, NEW i
      PROVE  Shown(Entry(pos, i)) = Tos!Entry(t, i)
  <2>1. ~IsNull(pos) /\ t.dir = pos.dir /\ t.name = Key83[pos.name]
    BY <1>4 DEF Leads, IsNull
  <2> QED
    BY <2>1 DEF Shown, Entry, Tos!Entry
<1> QED
  BY <1>1, <1>2, <1>3, <1>4, Zenon DEF Tos!IsFile, Tos!IsDir

(* The last call as TosFiles is told of it. *)
Told(r) == [f \in DOMAIN r |-> IF f \in {"path", "path2"} THEN KeyPath(r[f]) ELSE r[f]]

(* A call whose host call did what Did says, or failed. *)
LEMMA Answered ==
  ASSUME IInv, NEW call, NEW p, NEW pos, Place(pos), NEW host, NEW E, NEW D, NEW gone,
         Answers(call, p, pos, host), UNCHANGED <<cwd, fd>>,
         ~IsNull(pos) => Did(host, E, D, gone) \/ Failed(host)
  PROVE  /\ IInv'
         /\ Told(ret').call = call /\ Told(ret').path = KeyPath(p)
         /\ \/ /\ ~IsNull(pos) /\ Did(host, E, D, gone) /\ Told(ret').ok = TRUE
               /\ fs'.entries = E /\ D \ gone \subseteq fs'.dirs /\ fs'.dirs \subseteq D
            \/ /\ IsNull(pos) \/ Failed(host)
               /\ Told(ret').ok = FALSE /\ fs' = fs
<1> DEFINE done == IF IsNull(pos) THEN Fails(pos.err) ELSE host
           r == ret'
<1>1. /\ fs' = done.fs /\ cwd' = cwd /\ fd' = fd
      /\ errno' = IF done.err = 0 THEN pos.err ELSE done.err
      /\ \E res : r = [call |-> call, path |-> p, ok |-> done.err = 0, res |-> res]
  BY Zenon DEF Answers
<1>2. PICK res : r = [call |-> call, path |-> p, ok |-> done.err = 0, res |-> res]
  BY <1>1
<1>3. Told(r).call = call /\ Told(r).path = KeyPath(p) /\ Told(r).ok = (done.err = 0)
  <2> HIDE DEF r, done
  <2>1. "call" \in DOMAIN r /\ "path" \in DOMAIN r /\ "ok" \in DOMAIN r
        /\ r.call = call /\ r.path = p /\ r.ok = (done.err = 0)
    BY <1>2
  <2> QED
    BY <2>1 DEF Told
<1>4. pos.err \in Nat /\ (IsNull(pos) => Failed(Fails(pos.err)) /\ done = Fails(pos.err))
      /\ (~IsNull(pos) => done = host)
  <2>1. IsNull(pos) => pos.err \in Nat \ {0}
    BY DEF Place, IsNull, IInv, Sound, Ino, None
  <2> QED
    BY <2>1, FailsFailed DEF Place
<1> HIDE DEF done, r
<1>5. CASE ~IsNull(pos) /\ Did(host, E, D, gone)
  <2>1. done.err = 0 /\ fs' = host.fs /\ errno' = pos.err /\ Sound(host.fs, cwd)
        /\ host.fs.entries = E /\ D \ gone \subseteq host.fs.dirs /\ host.fs.dirs \subseteq D
    BY <1>1, <1>4, <1>5 DEF Did
  <2>2. IInv'
    BY <1>1, <1>4, <2>1 DEF IInv
  <2>3. Told(r).ok = TRUE
    BY <1>3, <2>1, Zenon
  <2> QED
    BY <1>3, <1>5, <2>1, <2>2, <2>3, Zenon DEF r
<1>6. CASE IsNull(pos) \/ Failed(host)
  <2>1. Failed(done)
    BY <1>4, <1>6
  <2>2. done.err # 0 /\ done.err \in Nat /\ fs' = fs
    BY <1>1, <2>1 DEF Failed
  <2>3. errno' \in Nat
    BY <1>1, <2>2
  <2>4. IInv'
    BY <1>1, <2>2, <2>3 DEF IInv
  <2>5. Told(r).ok = FALSE
    BY <1>3, <2>2, Zenon
  <2> QED
    BY <1>3, <1>6, <2>2, <2>4, <2>5, Zenon DEF r
<1> QED
  BY <1>5, <1>6, Zenon

(* The path of a call leads TosFiles to the place where the host is. *)
LEMMA CallPlace ==
  ASSUME IInv, NEW p \in Paths, NEW e \in Nat, NEW pos \in tos_path_to_unix(p, e)
  PROVE  LET t == Tos!At(KeyPath(p)) IN
         /\ Place(pos) /\ t.ino = pos.ino
         /\ ~IsNull(pos) => t.dir = pos.dir
         /\ Tos!IsFile(t) <=> pos.ino # None /\ pos.ino \notin fs.dirs
         /\ Tos!IsDir(t) <=> pos.ino \in fs.dirs
         /\ Tos!IsNew(t) <=> ~IsNull(pos) /\ pos.ino = None /\ Linked(fs, pos.dir)
         /\ pos.dir # None => \A i : Shown(Entry(pos, i)) = Tos!Entry(t, i)
<1> DEFINE t == Tos!At(KeyPath(p))
<1>1. Sound(fs, cwd) /\ Place(pos) /\ Leads(pos, t)
  BY PathLeads, Zenon DEF IInv
<1> HIDE DEF t
<1>2. /\ t.ino = pos.ino
      /\ ~IsNull(pos) => t.dir = pos.dir
      /\ Tos!IsFile(t) <=> pos.ino # None /\ pos.ino \notin fs.dirs
      /\ Tos!IsDir(t) <=> pos.ino \in fs.dirs
      /\ Tos!IsNew(t) <=> ~IsNull(pos) /\ pos.ino = None /\ Linked(fs, pos.dir)
      /\ pos.dir # None => \A i : Shown(Entry(pos, i)) = Tos!Entry(t, i)
  BY <1>1, TosPlace
<1> QED
  BY <1>1, <1>2, Zenon DEF t

(* Fdelete takes out the name that the 8.3 path names, if that is a file. *)
LEMMA FdeleteActs ==
  ASSUME IInv, Careful, NEW p \in Paths, Fdelete(p)
  PROVE  IInv' /\ Tos!Delete
<1> DEFINE t == Tos!At(KeyPath(p))
<1>1. PICK pos \in tos_path_to_unix(p, errno) : Answers("Fdelete", p, pos, unlink(pos))
  BY DEF Fdelete
<1>2. UNCHANGED <<cwd, fd>>
  BY DEF Fdelete
<1>3. errno \in Nat /\ Sound(fs, cwd) /\ None \notin fs.dirs
  BY DEF IInv, Sound, Ino, None
<1>4. /\ Place(pos) /\ t.ino = pos.ino
      /\ Tos!IsFile(t) <=> pos.ino # None /\ pos.ino \notin fs.dirs
      /\ pos.dir # None => \A i : Shown(Entry(pos, i)) = Tos!Entry(t, i)
  BY <1>1, <1>3, CallPlace, Zenon
<1>5. ~IsNull(pos) => IF pos.ino # None /\ pos.ino \notin fs.dirs
                      THEN Did(unlink(pos), fs.entries \ {Entry(pos, pos.ino)}, fs.dirs, {})
                      ELSE Failed(unlink(pos))
  BY <1>3, <1>4, UnlinkDoes
<1> DEFINE E == fs.entries \ {Entry(pos, pos.ino)}
           r == Told(ret')
<1> HIDE DEF E, r, t
<1>6. /\ IInv' /\ r.call = "Fdelete" /\ r.path = KeyPath(p)
      /\ \/ /\ ~IsNull(pos) /\ Did(unlink(pos), E, fs.dirs, {}) /\ r.ok = TRUE
            /\ fs'.entries = E /\ fs.dirs \ {} \subseteq fs'.dirs /\ fs'.dirs \subseteq fs.dirs
         \/ /\ IsNull(pos) \/ Failed(unlink(pos))
            /\ r.ok = FALSE /\ fs' = fs
  <2>1. ~IsNull(pos) => Did(unlink(pos), E, fs.dirs, {}) \/ Failed(unlink(pos))
    BY <1>5, Zenon DEF E
  <2> QED
    BY <1>1, <1>2, <1>4, <2>1, Answered, Zenon DEF r
<1>7. Tos!At(r.path) = t
  BY <1>6, Zenon DEF t
<1>8. (r.ok <=> Tos!IsFile(t))
      /\ IF r.ok THEN View(fs'.entries) = View(fs.entries) \ {Tos!Entry(t, t.ino)}
                      /\ fs'.dirs = fs.dirs /\ cwd' = cwd
         ELSE View(fs'.entries) = View(fs.entries) /\ fs'.dirs = fs.dirs /\ cwd' = cwd
  <2>1. CASE pos.ino # None /\ pos.ino \notin fs.dirs
    <3>1. ~IsNull(pos) /\ pos.dir # None
      BY <1>3, <1>4, <2>1 DEF Place, IsNull
    <3>2. Did(unlink(pos), E, fs.dirs, {})
      BY <1>5, <2>1, <3>1, Zenon DEF E
    <3>3. r.ok = TRUE /\ fs'.entries = E /\ fs'.dirs = fs.dirs
      BY <1>6, <3>1, <3>2 DEF Did, Failed
    <3>4. Entry(pos, pos.ino) \in fs.entries
      BY <1>3, <1>4, <2>1, <3>1, EntryIs
    <3>5. View(E) = View(fs.entries) \ {Shown(Entry(pos, pos.ino))}
      BY <1>3, <3>4, ViewDrops, ShownOnce DEF E
    <3> QED
      BY <1>2, <1>4, <2>1, <3>1, <3>3, <3>5, Zenon
  <2>2. CASE ~(pos.ino # None /\ pos.ino \notin fs.dirs)
    <3>1. r.ok = FALSE /\ fs' = fs
      BY <1>5, <1>6, <2>2 DEF Did, Failed
    <3> QED
      BY <1>2, <1>4, <2>2, <3>1, Zenon
  <2> QED
    BY <2>1, <2>2
<1> QED
  BY <1>6, <1>7, <1>8, Zenon DEF Tos!Delete, Tos!Succeeds, Tos!Stays, View, Shown, r, Told, KeyPath

(* Dcreate makes a directory under a name that is free in a directory. *)
LEMMA DcreateActs ==
  ASSUME IInv, Careful, NEW p \in Paths, Dcreate(p)
  PROVE  IInv' /\ Tos!MakeDir
<1> DEFINE t == Tos!At(KeyPath(p))
<1>1. PICK pos \in tos_path_to_unix(p, errno) :
        Room(pos) /\ Answers("Dcreate", p, pos, mkdir(pos))
  BY DEF Dcreate
<1>2. UNCHANGED <<cwd, fd>>
  BY DEF Dcreate
<1>3. errno \in Nat /\ Sound(fs, cwd) /\ None \notin fs.dirs
  BY DEF IInv, Sound, Ino, None
<1>4. /\ Place(pos) /\ t.ino = pos.ino
      /\ Tos!IsNew(t) <=> ~IsNull(pos) /\ pos.ino = None /\ Linked(fs, pos.dir)
      /\ pos.dir # None => \A i : Shown(Entry(pos, i)) = Tos!Entry(t, i)
  BY <1>1, <1>3, CallPlace, Zenon
<1> DEFINE E == fs.entries \cup {Entry(pos, New)}
           D == fs.dirs \cup {New}
           r == Told(ret')
<1>5. ~IsNull(pos) => IF pos.ino = None /\ Linked(fs, pos.dir)
                      THEN Did(mkdir(pos), E, D, {})
                      ELSE Failed(mkdir(pos))
  <2>1. ~IsNull(pos) => fs' = mkdir(pos).fs
    BY <1>1 DEF Answers
  <2>2. ~IsNull(pos) => \A e \in mkdir(pos).fs.entries \ fs.entries : e.name \notin Aliases
    BY <2>1 DEF Careful
  <2> QED
    BY <1>1, <1>4, <2>2, MkdirDoes
<1> HIDE DEF E, D, r, t
<1>6. /\ IInv' /\ r.call = "Dcreate" /\ r.path = KeyPath(p)
      /\ \/ /\ ~IsNull(pos) /\ Did(mkdir(pos), E, D, {}) /\ r.ok = TRUE
            /\ fs'.entries = E /\ D \ {} \subseteq fs'.dirs /\ fs'.dirs \subseteq D
         \/ /\ IsNull(pos) \/ Failed(mkdir(pos))
            /\ r.ok = FALSE /\ fs' = fs
  <2>1. ~IsNull(pos) => Did(mkdir(pos), E, D, {}) \/ Failed(mkdir(pos))
    BY <1>5, Zenon
  <2> QED
    BY <1>1, <1>2, <1>4, <2>1, Answered, Zenon DEF r
<1>7. Tos!At(r.path) = t
  BY <1>6, Zenon DEF t
<1>8. (r.ok <=> Tos!IsNew(t))
      /\ IF r.ok THEN \E i \in fs'.dirs :
                        /\ Tos!Unused(i) /\ View(fs'.entries) = View(fs.entries) \cup {Tos!Entry(t, i)}
                        /\ fs'.dirs = fs.dirs \cup {i} /\ cwd' = cwd
         ELSE View(fs'.entries) = View(fs.entries) /\ fs'.dirs = fs.dirs /\ cwd' = cwd
  <2>1. CASE ~IsNull(pos) /\ pos.ino = None /\ Linked(fs, pos.dir)
    <3>1. Did(mkdir(pos), E, D, {})
      BY <1>5, <2>1, Zenon
    <3>2. r.ok = TRUE /\ fs'.entries = E /\ fs'.dirs = D
      BY <1>6, <2>1, <3>1 DEF Did, Failed
    <3>3. pos.dir # None
      BY <2>1 DEF IsNull
    <3>4. View(E) = View(fs.entries) \cup {Tos!Entry(t, New)}
      BY <1>4, <3>3, ViewAdds, Zenon DEF E
    <3>5. Tos!Unused(New)
      BY <1>1, <1>3, <2>1, NewIsUnused, TosSees DEF Room
    <3>6. New \in fs'.dirs /\ fs'.dirs = fs.dirs \cup {New}
      BY <3>2 DEF D
    <3> QED
      BY <1>2, <1>4, <2>1, <3>2, <3>4, <3>5, <3>6, Zenon
  <2>2. CASE ~(~IsNull(pos) /\ pos.ino = None /\ Linked(fs, pos.dir))
    <3>1. r.ok = FALSE /\ fs' = fs
      BY <1>5, <1>6, <2>2 DEF Did, Failed
    <3> QED
      BY <1>2, <1>4, <2>2, <3>1, Zenon
  <2> QED
    BY <2>1, <2>2
<1> QED
  BY <1>6, <1>7, <1>8, Zenon DEF Tos!MakeDir, Tos!Succeeds, Tos!Stays, View, Shown, r, Told, KeyPath

(* Ddelete takes out the name of an empty directory. *)
LEMMA DdeleteActs ==
  ASSUME IInv, Careful, NEW p \in Paths, Ddelete(p)
  PROVE  IInv' /\ Tos!RemoveDir
<1> DEFINE t == Tos!At(KeyPath(p))
           E(pos) == fs.entries \ {Entry(pos, pos.ino)}
           r == Told(ret')
           Can(pos) == pos.dir # None /\ pos.ino \in fs.dirs /\ Children(pos.ino) = {}
<1>1. PICK pos \in tos_path_to_unix(p, errno) : Answers("Ddelete", p, pos, rmdir(pos))
  BY DEF Ddelete
<1>2. UNCHANGED <<cwd, fd>>
  BY DEF Ddelete
<1>3. errno \in Nat /\ Sound(fs, cwd) /\ None \notin fs.dirs
  BY DEF IInv, Sound, Ino, None
<1>4. /\ Place(pos) /\ t.ino = pos.ino
      /\ ~IsNull(pos) => t.dir = pos.dir
      /\ Tos!IsDir(t) <=> pos.ino \in fs.dirs
      /\ pos.dir # None => \A i : Shown(Entry(pos, i)) = Tos!Entry(t, i)
  BY <1>1, <1>3, CallPlace, Zenon
<1>5. ~IsNull(pos) => IF Can(pos)
                      THEN Did(rmdir(pos), E(pos), fs.dirs, {pos.ino})
                      ELSE Failed(rmdir(pos))
  BY <1>3, <1>4, RmdirDoes
<1> HIDE DEF E, r, t
<1>6. /\ IInv' /\ r.call = "Ddelete" /\ r.path = KeyPath(p)
      /\ \/ /\ ~IsNull(pos) /\ Did(rmdir(pos), E(pos), fs.dirs, {pos.ino}) /\ r.ok = TRUE
            /\ fs'.entries = E(pos) /\ fs.dirs \ {pos.ino} \subseteq fs'.dirs /\ fs'.dirs \subseteq fs.dirs
         \/ /\ IsNull(pos) \/ Failed(rmdir(pos))
            /\ r.ok = FALSE /\ fs' = fs
  <2>1. ~IsNull(pos) => Did(rmdir(pos), E(pos), fs.dirs, {pos.ino}) \/ Failed(rmdir(pos))
    BY <1>5, Zenon
  <2> QED
    BY <1>1, <1>2, <1>4, <2>1, Answered, Zenon DEF r
<1>7. Tos!At(r.path) = t
  BY <1>6, Zenon DEF t
<1>8. Can(pos) <=> Tos!IsDir(t) /\ t.dir # None /\ Tos!Children(t.ino) = {}
  <2>1. pos.ino \in fs.dirs => ~IsNull(pos)
    BY <1>3 DEF IsNull
  <2>2. Tos!Children(t.ino) = {} <=> Children(pos.ino) = {}
    BY <1>3, <1>4, TosSees, Zenon
  <2> QED
    BY <1>4, <2>1, <2>2, Zenon
<1>9. (r.ok <=> Can(pos))
      /\ IF r.ok THEN /\ View(fs'.entries) = View(fs.entries) \ {Tos!Entry(t, t.ino)}
                      /\ fs.dirs \ {t.ino} \subseteq fs'.dirs /\ fs'.dirs \subseteq fs.dirs /\ cwd' = cwd
         ELSE View(fs'.entries) = View(fs.entries) /\ fs'.dirs = fs.dirs /\ cwd' = cwd
  <2>1. CASE Can(pos)
    <3>1. ~IsNull(pos) /\ pos.dir # None /\ pos.ino # None
      BY <1>3, <2>1 DEF IsNull
    <3>2. Did(rmdir(pos), E(pos), fs.dirs, {pos.ino})
      BY <1>5, <2>1, <3>1, Zenon
    <3>3. /\ r.ok = TRUE /\ fs'.entries = E(pos)
          /\ fs.dirs \ {pos.ino} \subseteq fs'.dirs /\ fs'.dirs \subseteq fs.dirs
      BY <1>6, <3>1, <3>2 DEF Did, Failed
    <3>4. Entry(pos, pos.ino) \in fs.entries
      BY <1>3, <1>4, <3>1, EntryIs
    <3>5. View(E(pos)) = View(fs.entries) \ {Shown(Entry(pos, pos.ino))}
      BY <1>3, <3>4, ViewDrops, ShownOnce DEF E
    <3> HIDE DEF Can
    <3> QED
      BY <1>2, <1>4, <2>1, <3>1, <3>3, <3>5, Zenon
  <2>2. CASE ~Can(pos)
    <3> HIDE DEF Can
    <3>1. r.ok = FALSE /\ fs' = fs
      BY <1>5, <1>6, <2>2 DEF Did, Failed
    <3> QED
      BY <1>2, <2>2, <3>1, Zenon
  <2> QED
    BY <2>1, <2>2
<1> HIDE DEF Can
<1> QED
  BY <1>6, <1>7, <1>8, <1>9, Zenon
  DEF Tos!RemoveDir, Tos!Succeeds, Tos!Stays, View, Shown, r, Told, KeyPath

(* Dsetpath goes to the directory that the 8.3 path names; a directory without
   a name is gone when it is left.                                         *)
LEMMA DsetpathActs ==
  ASSUME IInv, NEW p \in Paths, Dsetpath(p)
  PROVE  IInv' /\ Tos!SetPath
<1> DEFINE t == Tos!At(KeyPath(p))
           r == Told(ret')
           Host(pos) == CASE pos.ino \in fs.dirs -> [err |-> 0, fs |-> Kept(fs, pos.ino)]
                          [] pos.ino = None       -> Fails(ENOENT)
                          [] OTHER                -> Fails(ENOTDIR)
<1>1. PICK pos \in tos_path_to_unix(p, errno) :
        /\ Answers("Dsetpath", p, pos, Host(pos))
        /\ cwd' = IF pos.ino \in fs.dirs THEN pos.ino ELSE cwd
  BY Zenon DEF Dsetpath
<1>2. fd' = fd
  BY DEF Dsetpath
<1>3. errno \in Nat /\ Sound(fs, cwd) /\ None \notin fs.dirs
  BY DEF IInv, Sound, Ino, None
<1>4. Place(pos) /\ t.ino = pos.ino /\ (Tos!IsDir(t) <=> pos.ino \in fs.dirs)
  BY <1>1, <1>3, CallPlace, Zenon
<1> DEFINE done == IF IsNull(pos) THEN Fails(pos.err) ELSE Host(pos)
<1>5. /\ fs' = done.fs
      /\ errno' = IF done.err = 0 THEN pos.err ELSE done.err
      /\ \E res : ret' = [call |-> "Dsetpath", path |-> p, ok |-> done.err = 0, res |-> res]
  BY <1>1, Zenon DEF Answers
<1> HIDE DEF t, r
<1>6. r.call = "Dsetpath" /\ r.path = KeyPath(p) /\ r.ok = (done.err = 0)
  <2>1. PICK res : ret' = [call |-> "Dsetpath", path |-> p, ok |-> done.err = 0, res |-> res]
    BY <1>5
  <2> DEFINE rr == ret'
  <2> HIDE DEF rr, done
  <2>2. "call" \in DOMAIN rr /\ "path" \in DOMAIN rr /\ "ok" \in DOMAIN rr
        /\ rr.call = "Dsetpath" /\ rr.path = p /\ rr.ok = (done.err = 0)
    BY <2>1 DEF rr
  <2> QED
    BY <2>2 DEF Told, r, rr
<1>7. Tos!At(r.path) = t
  BY <1>6, Zenon DEF t
<1>8. CASE pos.ino \in fs.dirs
  <2>1. done = [err |-> 0, fs |-> Kept(fs, pos.ino)]
    BY <1>3, <1>8 DEF IsNull
  <2>2. fs' = Kept(fs, pos.ino) /\ errno' = pos.err /\ pos.err \in Nat /\ cwd' = pos.ino /\ r.ok = TRUE
    <3>1. done.err = 0 /\ done.fs = Kept(fs, pos.ino)
      BY <2>1
    <3> HIDE DEF done
    <3>2. r.ok = TRUE
      BY <1>6, <3>1, Zenon
    <3>3. fs' = Kept(fs, pos.ino) /\ errno' = pos.err /\ pos.err \in Nat
      BY <1>4, <1>5, <3>1 DEF Place
    <3> QED
      BY <1>1, <1>8, <3>2, <3>3, Zenon
  <2>3. fs = [entries |-> fs.entries, dirs |-> fs.dirs] /\ Tree(fs.entries, fs.dirs, cwd)
    BY <1>3, SoundTree
  <2>4. Tree(fs.entries, fs.dirs, pos.ino)
    BY <1>8, <2>3 DEF Tree
  <2>5. /\ Sound(fs', pos.ino) /\ fs'.entries = fs.entries
        /\ fs'.dirs = {d \in fs.dirs : d = Root \/ d = pos.ino \/ \E e \in fs.entries : e.ino = d}
    BY <2>2, <2>3, <2>4, KeptSound
  <2>6. fs.dirs \ {cwd} \subseteq fs'.dirs /\ fs'.dirs \subseteq fs.dirs
    BY <1>3, <2>5, DirsLinked
  <2>7. IInv'
    BY <1>2, <2>2, <2>5 DEF IInv
  <2>8. View(fs'.entries) = View(fs.entries)
    BY <2>5
  <2> HIDE DEF done
  <2> QED
    BY <1>4, <1>6, <1>7, <1>8, <2>2, <2>6, <2>7, <2>8, Zenon
    DEF Tos!SetPath, Tos!Succeeds, Tos!Stays, View, Shown, r, Told, KeyPath
<1>9. CASE pos.ino \notin fs.dirs
  <2>1. Failed(done)
    <3>1. IsNull(pos) => pos.err \in Nat \ {0}
      BY <1>3, <1>4 DEF Place, IsNull
    <3>2. \E e \in {pos.err, ENOENT, ENOTDIR} : e \in Nat \ {0} /\ done = Fails(e)
      BY <1>9, <3>1, ErrnosAreErrors
    <3> QED
      BY <3>2, FailsFailed, Zenon
  <2>2. done.err # 0 /\ done.err \in Nat /\ fs' = fs /\ cwd' = cwd
    BY <1>1, <1>5, <1>9, <2>1 DEF Failed
  <2>3. r.ok = FALSE /\ errno' \in Nat
    BY <1>5, <1>6, <2>2
  <2>4. IInv'
    BY <1>2, <2>2, <2>3 DEF IInv
  <2> HIDE DEF done
  <2> QED
    BY <1>4, <1>6, <1>7, <1>9, <2>2, <2>3, <2>4, Zenon
    DEF Tos!SetPath, Tos!Succeeds, Tos!Stays, View, Shown, r, Told, KeyPath
<1> QED
  BY <1>8, <1>9

(* The same of a call with two paths. *)
EndsTwo(pos, new, host, E, D, gone) ==
  \/ /\ ~IsNull(pos) /\ ~IsNull(new) /\ Did(host, E, D, gone) /\ Told(ret').ok = TRUE
     /\ fs'.entries = E /\ D \ gone \subseteq fs'.dirs /\ fs'.dirs \subseteq D
  \/ /\ IsNull(pos) \/ IsNull(new) \/ Failed(host)
     /\ Told(ret').ok = FALSE /\ fs' = fs

(* Flink and Frename answer with EPTHNF if a path leads nowhere, and else
   with what the host did; either way the invariant holds on.              *)
LEMMA AnsweredTwo ==
  ASSUME IInv, NEW call, NEW p, NEW q, NEW pos, Place(pos), NEW new, Place(new),
         NEW host, NEW E, NEW D, NEW gone,
         AnswersTwo(call, p, q, pos, new, host), UNCHANGED <<cwd, fd>>,
         ~IsNull(pos) /\ ~IsNull(new) => Did(host, E, D, gone) \/ Failed(host)
  PROVE  /\ IInv'
         /\ Told(ret').call = call
         /\ Told(ret').path = KeyPath(p) /\ Told(ret').path2 = KeyPath(q)
         /\ EndsTwo(pos, new, host, E, D, gone)
<1> DEFINE last == IF IsNull(pos) THEN pos ELSE new
           done == IF IsNull(last) THEN Fails(last.err) ELSE host
           r == ret'
<1>1. /\ fs' = done.fs /\ cwd' = cwd /\ fd' = fd
      /\ errno' = IF done.err = 0 THEN last.err ELSE done.err
      /\ \E res : r = [call |-> call, path |-> p, path2 |-> q, ok |-> done.err = 0, res |-> res]
  BY Zenon DEF AnswersTwo
<1>2. PICK res : r = [call |-> call, path |-> p, path2 |-> q, ok |-> done.err = 0, res |-> res]
  BY <1>1
<1>3. /\ Told(r).call = call /\ Told(r).path = KeyPath(p) /\ Told(r).path2 = KeyPath(q)
      /\ Told(r).ok = (done.err = 0)
  <2> HIDE DEF r, done
  <2>1. "call" \in DOMAIN r /\ "path" \in DOMAIN r /\ "path2" \in DOMAIN r /\ "ok" \in DOMAIN r
        /\ r.call = call /\ r.path = p /\ r.path2 = q /\ r.ok = (done.err = 0)
    BY <1>2
  <2> QED
    BY <2>1 DEF Told
<1>4. Place(last) /\ (IsNull(last) <=> IsNull(pos) \/ IsNull(new))
  OBVIOUS
<1> HIDE DEF last
<1>5. last.err \in Nat /\ (IsNull(last) => Failed(Fails(last.err)) /\ done = Fails(last.err))
      /\ (~IsNull(last) => done = host)
  <2>1. IsNull(last) => last.err \in Nat \ {0}
    BY <1>4 DEF Place, IsNull, IInv, Sound, Ino, None
  <2> QED
    BY <1>4, <2>1, FailsFailed DEF Place
<1> HIDE DEF done, r
<1>6. CASE ~IsNull(last) /\ Did(host, E, D, gone)
  <2>1. done.err = 0 /\ fs' = host.fs /\ errno' = last.err /\ Sound(host.fs, cwd)
        /\ host.fs.entries = E /\ D \ gone \subseteq host.fs.dirs /\ host.fs.dirs \subseteq D
    BY <1>1, <1>5, <1>6 DEF Did
  <2>2. IInv'
    BY <1>1, <1>5, <2>1 DEF IInv
  <2>3. Told(r).ok = TRUE
    BY <1>3, <2>1, Zenon
  <2> QED
    BY <1>3, <1>4, <1>6, <2>1, <2>2, <2>3, Zenon DEF r, EndsTwo
<1>7. CASE IsNull(last) \/ Failed(host)
  <2>1. Failed(done)
    BY <1>5, <1>7
  <2>2. done.err # 0 /\ done.err \in Nat /\ fs' = fs
    BY <1>1, <2>1 DEF Failed
  <2>3. errno' \in Nat
    BY <1>1, <2>2
  <2>4. IInv'
    BY <1>1, <2>2, <2>3 DEF IInv
  <2>5. Told(r).ok = FALSE
    BY <1>3, <2>2, Zenon
  <2> QED
    BY <1>3, <1>4, <1>7, <2>2, <2>4, <2>5, Zenon DEF r, EndsTwo
<1> QED
  BY <1>4, <1>6, <1>7, Zenon

(* The errno that a path leaves is one that the next path may find. *)
LEMMA ErrnoIsNat ==
  ASSUME IInv, NEW p \in Paths, NEW pos \in tos_path_to_unix(p, errno)
  PROVE  pos.err \in Nat
<1>1. errno \in Nat
  BY DEF IInv
<1> QED
  BY <1>1, PathLeads, Zenon DEF Place

(* Flink gives the file that one path names the free name of the other. *)
LEMMA FlinkActs ==
  ASSUME IInv, Careful, NEW p \in Paths, NEW q \in Paths, Flink(p, q)
  PROVE  IInv' /\ Tos!Link
<1> DEFINE t == Tos!At(KeyPath(p))
           u == Tos!At(KeyPath(q))
           r == Told(ret')
           E(pos, new) == fs.entries \cup {Entry(new, pos.ino)}
           Can(pos, new) == /\ pos.ino # None /\ pos.ino \notin fs.dirs
                            /\ new.ino = None /\ Linked(fs, new.dir)
<1>1. PICK pos \in tos_path_to_unix(p, errno) : \E new \in tos_path_to_unix(q, pos.err) :
        AnswersTwo("Flink", p, q, pos, new, link(pos, new))
  BY Zenon DEF Flink
<1>2. PICK new \in tos_path_to_unix(q, pos.err) :
        AnswersTwo("Flink", p, q, pos, new, link(pos, new))
  BY <1>1
<1>3. UNCHANGED <<cwd, fd>>
  BY DEF Flink
<1>4. errno \in Nat /\ pos.err \in Nat /\ Sound(fs, cwd) /\ None \notin fs.dirs
  BY ErrnoIsNat DEF IInv, Sound, Ino, None
<1>5. /\ Place(pos) /\ t.ino = pos.ino
      /\ Tos!IsFile(t) <=> pos.ino # None /\ pos.ino \notin fs.dirs
  BY <1>4, CallPlace, Zenon
<1>6. /\ Place(new) /\ u.ino = new.ino
      /\ Tos!IsNew(u) <=> ~IsNull(new) /\ new.ino = None /\ Linked(fs, new.dir)
      /\ new.dir # None => \A i : Shown(Entry(new, i)) = Tos!Entry(u, i)
  BY <1>4, CallPlace, Zenon
<1>7. ~IsNull(pos) /\ ~IsNull(new)
      => IF Can(pos, new) THEN Did(link(pos, new), E(pos, new), fs.dirs, {})
         ELSE Failed(link(pos, new))
  <2>1. ~IsNull(pos) /\ ~IsNull(new) => fs' = link(pos, new).fs
    BY <1>2 DEF AnswersTwo
  <2>2. ~IsNull(pos) /\ ~IsNull(new)
        => \A e \in link(pos, new).fs.entries \ fs.entries : e.name \notin Aliases
    BY <2>1 DEF Careful
  <2> QED
    BY <1>5, <1>6, <2>2, LinkDoes
<1> HIDE DEF E, r, t, u
<1>8. /\ IInv' /\ r.call = "Flink" /\ r.path = KeyPath(p) /\ r.path2 = KeyPath(q)
      /\ \/ /\ ~IsNull(pos) /\ ~IsNull(new) /\ Did(link(pos, new), E(pos, new), fs.dirs, {}) /\ r.ok = TRUE
            /\ fs'.entries = E(pos, new) /\ fs.dirs \ {} \subseteq fs'.dirs /\ fs'.dirs \subseteq fs.dirs
         \/ /\ IsNull(pos) \/ IsNull(new) \/ Failed(link(pos, new))
            /\ r.ok = FALSE /\ fs' = fs
  <2>1. ~IsNull(pos) /\ ~IsNull(new)
        => Did(link(pos, new), E(pos, new), fs.dirs, {}) \/ Failed(link(pos, new))
    BY <1>7, Zenon
  <2> QED
    BY <1>2, <1>3, <1>5, <1>6, <2>1, AnsweredTwo, Zenon DEF r, EndsTwo
<1>9. Tos!At(r.path) = t /\ Tos!At(r.path2) = u
  BY <1>8, Zenon DEF t, u
<1>10. (r.ok <=> Tos!IsFile(t) /\ Tos!IsNew(u))
       /\ IF r.ok THEN View(fs'.entries) = View(fs.entries) \cup {Tos!Entry(u, t.ino)}
                       /\ fs'.dirs = fs.dirs /\ cwd' = cwd
          ELSE View(fs'.entries) = View(fs.entries) /\ fs'.dirs = fs.dirs /\ cwd' = cwd
  <2>1. CASE Can(pos, new) /\ ~IsNull(new)
    <3>1. ~IsNull(pos) /\ new.dir # None
      BY <2>1 DEF IsNull
    <3>2. Did(link(pos, new), E(pos, new), fs.dirs, {})
      BY <1>7, <2>1, <3>1, Zenon
    <3>3. r.ok = TRUE /\ fs'.entries = E(pos, new) /\ fs'.dirs = fs.dirs
      BY <1>8, <2>1, <3>1, <3>2 DEF Did, Failed
    <3>4. View(E(pos, new)) = View(fs.entries) \cup {Tos!Entry(u, pos.ino)}
      <4>1. Shown(Entry(new, pos.ino)) = Tos!Entry(u, pos.ino)
        BY <1>6, <3>1, Zenon
      <4>2. View(E(pos, new)) = View(fs.entries) \cup {Shown(Entry(new, pos.ino))}
        BY ViewAdds, Zenon DEF E
      <4> QED
        BY <4>1, <4>2, Zenon
    <3> QED
      BY <1>3, <1>5, <1>6, <2>1, <3>3, <3>4, Zenon
  <2>2. CASE ~(Can(pos, new) /\ ~IsNull(new))
    <3>1. r.ok = FALSE /\ fs' = fs
      BY <1>7, <1>8, <2>2 DEF Did, Failed
    <3> QED
      BY <1>3, <1>5, <1>6, <2>2, <3>1, Zenon
  <2> QED
    BY <2>1, <2>2
<1> QED
  BY <1>8, <1>9, <1>10, Zenon
  DEF Tos!Link, Tos!Succeeds, Tos!Stays, View, Shown, r, Told, KeyPath

(* Frename moves what one 8.3 path names to the place that the other names. *)
LEMMA FrenameActs ==
  ASSUME IInv, Careful, NEW p \in Paths, NEW q \in Paths, Frename(p, q)
  PROVE  IInv' /\ Tos!Rename
<1> DEFINE t == Tos!At(KeyPath(p))
           u == Tos!At(KeyPath(q))
           r == Told(ret')
           Can == /\ t.ino # None /\ t.dir # None /\ u.dir \in fs.dirs
                  /\ \/ t.ino = u.ino
                     \/ Tos!MayReplace(t, u) /\ ~(Tos!IsDir(t) /\ Tos!Below(u.dir, t.ino))
           Then == IF t.ino = u.ino THEN View(fs.entries)
                   ELSE (View(fs.entries) \ {Tos!Entry(t, t.ino), Tos!Entry(u, u.ino)})
                          \cup {Tos!Entry(u, t.ino)}
<1>1. PICK pos \in tos_path_to_unix(p, errno) : \E new \in tos_path_to_unix(q, pos.err) :
        AnswersTwo("Frename", p, q, pos, new, rename(pos, new))
  BY Zenon DEF Frename
<1>2. PICK new \in tos_path_to_unix(q, pos.err) :
        AnswersTwo("Frename", p, q, pos, new, rename(pos, new))
  BY <1>1
<1>3. UNCHANGED <<cwd, fd>>
  BY DEF Frename
<1>4. errno \in Nat /\ pos.err \in Nat /\ Sound(fs, cwd) /\ None \notin fs.dirs /\ None \notin Ino
  BY ErrnoIsNat DEF IInv, Sound, Ino, None
<1>5. /\ Place(pos) /\ t.ino = pos.ino
      /\ ~IsNull(pos) => t.dir = pos.dir
      /\ Tos!IsFile(t) <=> pos.ino # None /\ pos.ino \notin fs.dirs
      /\ Tos!IsDir(t) <=> pos.ino \in fs.dirs
      /\ pos.dir # None => \A i : Shown(Entry(pos, i)) = Tos!Entry(t, i)
  BY <1>4, CallPlace, Zenon
<1>6. /\ Place(new) /\ u.ino = new.ino
      /\ ~IsNull(new) => u.dir = new.dir
      /\ Tos!IsFile(u) <=> new.ino # None /\ new.ino \notin fs.dirs
      /\ Tos!IsDir(u) <=> new.ino \in fs.dirs
      /\ Tos!IsNew(u) <=> ~IsNull(new) /\ new.ino = None /\ Linked(fs, new.dir)
      /\ new.dir # None => \A i : Shown(Entry(new, i)) = Tos!Entry(u, i)
  BY <1>4, CallPlace, Zenon
<1>61. IsNull(new) => u.dir \notin fs.dirs
  BY <1>4, PathLeads, Zenon DEF Leads, u
<1>7. ~IsNull(pos) /\ ~IsNull(new)
      => IF MayRename(pos, new) THEN Did(rename(pos, new), Moved(pos, new), fs.dirs, {new.ino})
         ELSE Failed(rename(pos, new))
  <2>1. ~IsNull(pos) /\ ~IsNull(new) => fs' = rename(pos, new).fs
    BY <1>2 DEF AnswersTwo
  <2>2. ~IsNull(pos) /\ ~IsNull(new)
        => \A e \in rename(pos, new).fs.entries \ fs.entries : e.name \notin Aliases
    BY <2>1 DEF Careful
  <2> QED
    BY <1>5, <1>6, <2>2, RenameDoes
<1> HIDE DEF r, t, u
<1>8. /\ IInv' /\ r.call = "Frename" /\ r.path = KeyPath(p) /\ r.path2 = KeyPath(q)
      /\ \/ /\ ~IsNull(pos) /\ ~IsNull(new) /\ r.ok = TRUE
            /\ Did(rename(pos, new), Moved(pos, new), fs.dirs, {new.ino})
            /\ fs'.entries = Moved(pos, new)
            /\ fs.dirs \ {new.ino} \subseteq fs'.dirs /\ fs'.dirs \subseteq fs.dirs
         \/ /\ IsNull(pos) \/ IsNull(new) \/ Failed(rename(pos, new))
            /\ r.ok = FALSE /\ fs' = fs
  <2>1. ~IsNull(pos) /\ ~IsNull(new)
        => \/ Did(rename(pos, new), Moved(pos, new), fs.dirs, {new.ino})
           \/ Failed(rename(pos, new))
    BY <1>7, Zenon
  <2>2. PICK M, gone : M = Moved(pos, new) /\ gone = {new.ino}
    OBVIOUS
  <2>3. ~IsNull(pos) /\ ~IsNull(new)
        => Did(rename(pos, new), M, fs.dirs, gone) \/ Failed(rename(pos, new))
    BY <2>1, <2>2, Zenon
  <2>4. Place(pos) /\ Place(new)
    BY <1>5, <1>6
  <2>5. /\ IInv' /\ r.call = "Frename" /\ r.path = KeyPath(p) /\ r.path2 = KeyPath(q)
        /\ EndsTwo(pos, new, rename(pos, new), M, fs.dirs, gone)
    BY <1>2, <1>3, <2>3, <2>4, AnsweredTwo, Zenon DEF r
  <2> QED
    BY <2>2, <2>5, Zenon DEF EndsTwo, r
<1>9. Tos!At(r.path) = t /\ Tos!At(r.path2) = u
  BY <1>8, Zenon DEF t, u
<1>10. Can <=> ~IsNull(pos) /\ ~IsNull(new) /\ MayRename(pos, new)
  <2>1. CASE IsNull(pos) \/ IsNull(new)
    BY <1>5, <1>61, <2>1 DEF IsNull
  <2>2. CASE ~IsNull(pos) /\ ~IsNull(new) /\ (pos.ino = None \/ pos.dir = None \/ new.dir = None)
    BY <1>4, <1>5, <1>6, <2>2 DEF MayRename
  <2>3. CASE ~IsNull(pos) /\ ~IsNull(new) /\ pos.ino # None /\ pos.dir # None /\ new.dir # None
    <3>1. new.dir \in fs.dirs /\ (new.ino # None => Linked(fs, new.dir))
      BY <1>4, <1>6, <2>3, EntryIs
    <3>2. /\ Tos!Children(u.ino) = {} <=> Children(new.ino) = {}
          /\ Tos!Below(u.dir, t.ino) <=> Below(new.dir, pos.ino)
      BY <1>4, <1>5, <1>6, <2>3, TosSees, Zenon
    <3>3. Can <=> \/ pos.ino = new.ino
                  \/ /\ \/ new.ino = None /\ Linked(fs, new.dir)
                        \/ pos.ino \notin fs.dirs /\ new.ino # None /\ new.ino \notin fs.dirs
                        \/ pos.ino \in fs.dirs /\ new.ino \in fs.dirs /\ Children(new.ino) = {}
                     /\ ~(pos.ino \in fs.dirs /\ Below(new.dir, pos.ino))
      BY <1>5, <1>6, <2>3, <3>1, <3>2, Zenon DEF Tos!MayReplace
    <3> HIDE DEF Can
    <3> QED
      BY <1>4, <2>3, <3>1, <3>3, Zenon DEF MayRename
  <2> QED
    BY <2>1, <2>2, <2>3
<1>11. ASSUME ~IsNull(pos), ~IsNull(new), MayRename(pos, new)
       PROVE  View(Moved(pos, new)) = Then
  <2> DEFINE x == Entry(pos, pos.ino)
             y == Entry(new, new.ino)
             z == Entry(new, pos.ino)
  <2>1. pos.ino # None /\ pos.dir # None /\ new.dir # None
    BY <1>11 DEF MayRename
  <2>2. Shown(x) = Tos!Entry(t, t.ino) /\ Shown(y) = Tos!Entry(u, u.ino) /\ Shown(z) = Tos!Entry(u, t.ino)
    BY <1>5, <1>6, <2>1, Zenon
  <2>3. x \in fs.entries /\ (y \in fs.entries \/ y.ino = None)
    BY <1>4, <1>5, <1>6, <1>11, <2>1, EntryIs
  <2> HIDE DEF x, y, z
  <2>4. View(fs.entries \ {x}) = View(fs.entries) \ {Shown(x)}
    BY <1>4, <2>3, ViewDrops, ShownOnce
  <2>5. View((fs.entries \ {x}) \ {y}) = View(fs.entries \ {x}) \ {Shown(y)}
    <3>1. \A e \in fs.entries \ {x} : Shown(e) = Shown(y) => e = y
      BY <1>4, <2>3, ShownOnce
    <3> QED
      BY <3>1, ViewDrops
  <2>6. View(((fs.entries \ {x}) \ {y}) \cup {z})
        = ((View(fs.entries) \ {Shown(x)}) \ {Shown(y)}) \cup {Shown(z)}
    BY <2>4, <2>5, ViewAdds, Zenon
  <2>7. /\ (fs.entries \ {x, y}) \cup {z} = ((fs.entries \ {x}) \ {y}) \cup {z}
        /\ ((View(fs.entries) \ {Shown(x)}) \ {Shown(y)}) \cup {Shown(z)}
            = (View(fs.entries) \ {Shown(x), Shown(y)}) \cup {Shown(z)}
    BY Zenon
  <2>8. pos.ino # new.ino => Moved(pos, new) = (fs.entries \ {x, y}) \cup {z}
    BY Zenon DEF Moved, x, y, z
  <2>9. pos.ino = new.ino => Moved(pos, new) = fs.entries
    BY Zenon DEF Moved
  <2>10. CASE pos.ino = new.ino
    BY <1>5, <1>6, <2>9, <2>10, Zenon
  <2>11. CASE pos.ino # new.ino
    <3>1. View(Moved(pos, new)) = (View(fs.entries) \ {Shown(x), Shown(y)}) \cup {Shown(z)}
      BY <2>6, <2>7, <2>8, <2>11, Zenon
    <3> QED
      BY <1>5, <1>6, <2>2, <2>11, <3>1, Zenon
  <2> QED
    BY <2>10, <2>11
<1>12. (r.ok <=> Can)
       /\ IF r.ok THEN /\ View(fs'.entries) = Then
                       /\ fs.dirs \ {u.ino} \subseteq fs'.dirs /\ fs'.dirs \subseteq fs.dirs /\ cwd' = cwd
          ELSE View(fs'.entries) = View(fs.entries) /\ fs'.dirs = fs.dirs /\ cwd' = cwd
  <2> HIDE DEF Can, Then
  <2>1. CASE ~IsNull(pos) /\ ~IsNull(new) /\ MayRename(pos, new)
    <3>1. Did(rename(pos, new), Moved(pos, new), fs.dirs, {new.ino})
      BY <1>7, <2>1, Zenon
    <3>2. /\ r.ok = TRUE /\ fs'.entries = Moved(pos, new)
          /\ fs.dirs \ {new.ino} \subseteq fs'.dirs /\ fs'.dirs \subseteq fs.dirs
      BY <1>8, <2>1, <3>1 DEF Did, Failed
    <3> QED
      BY <1>3, <1>6, <1>10, <1>11, <2>1, <3>2, Zenon
  <2>2. CASE ~(~IsNull(pos) /\ ~IsNull(new) /\ MayRename(pos, new))
    <3>1. r.ok = FALSE /\ fs' = fs
      BY <1>7, <1>8, <2>2 DEF Did, Failed
    <3> QED
      BY <1>3, <1>10, <2>2, <3>1, Zenon
  <2> QED
    BY <2>1, <2>2
<1> QED
  BY <1>8, <1>9, <1>12, Zenon
  DEF Tos!Rename, Tos!Succeeds, Tos!Stays, View, Shown, r, Told, KeyPath

(* The lowest free descriptor is one. *)
LEMMA FreeFdIs ==
  ASSUME NEW h \in Fd, fd[h] = None
  PROVE  FreeFd \in Fd /\ fd[FreeFd] = None
<1> DEFINE S == {i \in Fd : fd[i] = None}
<1>1. IsWellFoundedOn(OpToRel(<, Nat), Nat)
  BY NatLessThanWellFounded
<1>2. S \subseteq Nat /\ S # {}
  BY DEF Fd
<1>3. PICK n \in S : \A m \in S : ~(<<m, n>> \in OpToRel(<, Nat))
  <2> HIDE DEF S, OpToRel
  <2> QED
    BY <1>1, <1>2, WFMin
<1> HIDE DEF S
<1>4. \A m \in S : n <= m
  <2>1. \A m \in S : ~(m < n)
    BY <1>2, <1>3 DEF OpToRel
  <2> QED
    BY <1>2, <2>1
<1>5. FreeFd = CHOOSE x \in S : \A y \in S : x <= y
  BY DEF FreeFd, Min, S
<1>6. FreeFd \in S
  BY <1>4, <1>5
<1> QED
  BY <1>6 DEF S

(* Every errno but 0 is answered with a negative number. *)
LEMMA ErrorsAreNegative ==
  ASSUME NEW e \in Nat
  PROVE  MapErrno(e) \in Int /\ MapErrno(e) <= 0 /\ (e # 0 => MapErrno(e) < 0)
BY DEF MapErrno, E_OK, ENOENT, EPERM, EBADF, EEXIST, EISDIR, EINVAL, ENOTEMPTY

(* What Fopen may answer and what becomes of the descriptors. *)
AnswerRight ==
  IF ret'.res < 0 THEN \A h \in Fd : fd'[h] = fd[h] \/ h = 0
  ELSE /\ fd[ret'.res] = None /\ fd'[ret'.res] # None
       /\ \A h \in Fd \ {ret'.res} : fd'[h] = fd[h]

(* A file i opened at the lowest free descriptor. *)
LEMMA OpenedAnswer ==
  ASSUME IInv, NEW i \in Ino, NEW h \in Fd, fd[h] = None, NEW err \in Nat,
         fd' = [fd EXCEPT ![FreeFd] = i], ret'.res = OpenResult(TRUE, err)
  PROVE  AnswerRight /\ fd' \in [Fd -> Ino \cup {None, Tty}]
<1>1. /\ FreeFd \in Fd /\ fd[FreeFd] = None /\ i # None
      /\ fd \in [Fd -> Ino \cup {None, Tty}]
  BY FreeFdIs DEF IInv, Ino, None
<1>2. fd'[FreeFd] = i /\ (\A g \in Fd \ {FreeFd} : fd'[g] = fd[g])
      /\ fd' \in [Fd -> Ino \cup {None, Tty}]
  BY <1>1
<1>3. FreeFd \in Nat /\ MapErrno(err) \in Int /\ MapErrno(err) <= 0
  BY <1>1, ErrorsAreNegative DEF Fd
<1> DEFINE n == FreeFd
           m == MapErrno(err)
           res == ret'.res
<1>4. res = IF n < 1 THEN m ELSE n
  BY DEF OpenResult
<1>5. \/ res < 0 /\ n = 0
      \/ ~(res < 0) /\ res = n
  <2> HIDE DEF n, m, res
  <2>1. n \in Nat /\ m \in Int /\ m <= 0
    BY <1>3 DEF n, m
  <2> QED
    BY <1>4, <2>1
<1> HIDE DEF n, res
<1>6. AnswerRight
  <2>1. CASE res < 0 /\ n = 0
    BY <1>2, <2>1 DEF AnswerRight, n, res
  <2>2. CASE ~(res < 0) /\ res = n
    BY <1>1, <1>2, <2>2 DEF AnswerRight, n, res
  <2> QED
    BY <1>5, <2>1, <2>2
<1> QED
  BY <1>2, <1>6

(* Fopen opens the file that the 8.3 path names or makes it, and answers with a
   handle for it, or fails and leaves the descriptors alone.               *)
LEMMA FopenActs ==
  ASSUME IInv, Careful, NEW p \in Paths, NEW mode \in Modes, Fopen(p, mode)
  PROVE  IInv' /\ Tos!Open /\ AnswerRight
<1> DEFINE t == Tos!At(KeyPath(p))
           r == Told(ret')
           flags == OpenFlags(mode)
           Done(pos) == IF IsNull(pos) THEN Fails(pos.err) ELSE open(pos, flags)
           Err(pos) == IF Done(pos).err = 0 THEN pos.err ELSE Done(pos).err
<1>1. PICK pos \in tos_path_to_unix(p, errno) :
        /\ Room(pos) /\ fs' = Done(pos).fs
        /\ fd' = IF Done(pos).err = 0
                 THEN [fd EXCEPT ![FreeFd] = IF pos.ino = None THEN New ELSE pos.ino] ELSE fd
        /\ errno' = Err(pos)
        /\ ret' = [call |-> "Fopen", path |-> p, ok |-> Done(pos).err = 0,
                   res |-> IF IsNull(pos) THEN EPTHNF ELSE OpenResult(Done(pos).err = 0, Err(pos))]
        /\ cwd' = cwd
  BY Zenon DEF Fopen
<1> DEFINE done == Done(pos)
           err == Err(pos)
           E == fs.entries \cup {Entry(pos, New)}
<1>2. errno \in Nat /\ Sound(fs, cwd) /\ None \notin fs.dirs /\ fs.dirs \subseteq Ino
      /\ fs.entries \subseteq [dir : Ino, name : Name, ino : Ino]
  BY DEF IInv, Sound, Ino, None
<1>3. /\ Place(pos) /\ t.ino = pos.ino
      /\ Tos!IsNew(t) <=> ~IsNull(pos) /\ pos.ino = None /\ Linked(fs, pos.dir)
      /\ pos.dir # None => \A i : Shown(Entry(pos, i)) = Tos!Entry(t, i)
  BY <1>1, <1>2, CallPlace, Zenon
<1>4. ~IsNull(pos) =>
         \/ Failed(done)
         \/ /\ \E h \in Fd : fd[h] = None
            /\ pos.ino # None
            /\ Did(done, fs.entries, fs.dirs, {})
         \/ /\ \E h \in Fd : fd[h] = None
            /\ pos.ino = None /\ Linked(fs, pos.dir)
            /\ Did(done, E, fs.dirs, {})
  <2> SUFFICES ASSUME ~IsNull(pos)
               PROVE  \/ Failed(done)
                      \/ /\ \E h \in Fd : fd[h] = None
                         /\ pos.ino # None
                         /\ Did(done, fs.entries, fs.dirs, {})
                      \/ /\ \E h \in Fd : fd[h] = None
                         /\ pos.ino = None /\ Linked(fs, pos.dir)
                         /\ Did(done, E, fs.dirs, {})
    OBVIOUS
  <2>1. done = open(pos, flags) /\ fs' = open(pos, flags).fs
    BY <1>1
  <2>2. \A e \in open(pos, flags).fs.entries \ fs.entries : e.name \notin Aliases
    BY <2>1 DEF Careful
  <2> HIDE DEF flags, done
  <2> QED
    BY <1>1, <1>3, <2>1, <2>2, OpenDoes
<1>5. IsNull(pos) => Failed(done)
  <2>1. IsNull(pos) => pos.err \in Nat \ {0} /\ done = Fails(pos.err)
    BY <1>2, <1>3 DEF Place, IsNull
  <2> HIDE DEF done
  <2> QED
    BY <2>1, FailsFailed
<1>6. r.call = "Fopen" /\ r.path = KeyPath(p) /\ r.ok = (done.err = 0)
      /\ ret'.res = IF IsNull(pos) THEN EPTHNF ELSE OpenResult(done.err = 0, err)
  <2> DEFINE rr == ret'
             result == IF IsNull(pos) THEN EPTHNF ELSE OpenResult(done.err = 0, err)
  <2>1. rr = [call |-> "Fopen", path |-> p, ok |-> done.err = 0, res |-> result]
    BY <1>1
  <2> HIDE DEF rr, done, result
  <2>2. "call" \in DOMAIN rr /\ "path" \in DOMAIN rr /\ "ok" \in DOMAIN rr
        /\ rr.call = "Fopen" /\ rr.path = p /\ rr.ok = (done.err = 0) /\ rr.res = result
    BY <2>1
  <2>3. r.call = "Fopen" /\ r.path = KeyPath(p) /\ r.ok = (done.err = 0)
    BY <2>2 DEF Told, rr
  <2> QED
    BY <2>2, <2>3, Zenon DEF rr, result
<1>7. err = IF done.err = 0 THEN pos.err ELSE done.err
  OBVIOUS
<1>8. /\ fs' = done.fs /\ errno' = err /\ cwd' = cwd
      /\ fd' = IF done.err = 0
               THEN [fd EXCEPT ![FreeFd] = IF pos.ino = None THEN New ELSE pos.ino] ELSE fd
  BY <1>1
<1>9. pos.err \in Nat /\ fd \in [Fd -> Ino \cup {None, Tty}]
  BY <1>3 DEF Place, IInv
<1> HIDE DEF t, r, done, err, E
<1>10. Tos!At(r.path) = t
  BY <1>6, Zenon DEF t
<1>11. CASE Failed(done)
  <2>1. done.err \in Nat /\ done.err # 0 /\ err = done.err /\ fs' = fs /\ fd' = fd /\ errno' \in Nat
    BY <1>7, <1>8, <1>11 DEF Failed
  <2>2. IInv'
    BY <1>8, <2>1 DEF IInv
  <2>3. r.ok = FALSE
    BY <1>6, <2>1, Zenon
  <2>4. Tos!Open
    BY <1>6, <1>8, <2>1, <2>3, Zenon DEF Tos!Open, Tos!Stays, r, Told, KeyPath
  <2>5. ret'.res < 0
    <3>1. ret'.res = EPTHNF \/ ret'.res = MapErrno(done.err)
      BY <1>6, <2>1, Zenon DEF OpenResult
    <3> QED
      BY <2>1, <3>1, ErrorsAreNegative DEF EPTHNF
  <2>6. AnswerRight
    BY <2>1, <2>5, Zenon DEF AnswerRight
  <2> QED
    BY <2>2, <2>4, <2>6
<1>12. ASSUME NEW h \in Fd, fd[h] = None, ~IsNull(pos), NEW i \in Ino,
              i = IF pos.ino = None THEN New ELSE pos.ino, NEW F, Did(done, F, fs.dirs, {})
       PROVE  /\ IInv' /\ r.ok = TRUE /\ fs'.entries = F /\ fs'.dirs = fs.dirs
              /\ cwd' = cwd /\ AnswerRight
  <2>1. done.err = 0 /\ Sound(done.fs, cwd) /\ done.fs.entries = F /\ done.fs.dirs = fs.dirs
    BY <1>12 DEF Did
  <2>2. err = pos.err /\ errno' = pos.err /\ fd' = [fd EXCEPT ![FreeFd] = i] /\ fs' = done.fs
    BY <1>7, <1>8, <1>12, <2>1
  <2>3. r.ok = TRUE
    BY <1>6, <2>1, Zenon
  <2>4. ret'.res = OpenResult(TRUE, pos.err)
    BY <1>6, <1>12, <2>1, <2>2, Zenon DEF OpenResult
  <2>5. AnswerRight /\ fd' \in [Fd -> Ino \cup {None, Tty}]
    BY <1>9, <1>12, <2>2, <2>4, OpenedAnswer
  <2>6. IInv'
    BY <1>8, <1>9, <2>1, <2>2, <2>5 DEF IInv
  <2> QED
    BY <1>8, <2>1, <2>2, <2>3, <2>5, <2>6
<1>13. CASE /\ ~IsNull(pos) /\ pos.ino # None
            /\ \E h \in Fd : fd[h] = None
            /\ Did(done, fs.entries, fs.dirs, {})
  <2>1. pos.ino \in Ino
    BY <1>2, <1>3, <1>13, EntryIs DEF Place
  <2>2. /\ IInv' /\ r.ok = TRUE /\ fs'.entries = fs.entries /\ fs'.dirs = fs.dirs
        /\ cwd' = cwd /\ AnswerRight
    BY <1>12, <1>13, <2>1
  <2>3. Tos!Open
    BY <1>3, <1>6, <1>10, <1>13, <2>2, Zenon DEF Tos!Open, Tos!Stays, r, Told, KeyPath
  <2> QED
    BY <2>2, <2>3
<1>14. CASE /\ ~IsNull(pos) /\ pos.ino = None /\ Linked(fs, pos.dir)
            /\ \E h \in Fd : fd[h] = None
            /\ Did(done, E, fs.dirs, {})
  <2>1. New \in Ino /\ New \notin fs.dirs /\ \A e \in fs.entries : e.ino # New
    BY <1>1, <1>14, NewIsUnused DEF Room
  <2>2. /\ IInv' /\ r.ok = TRUE /\ fs'.entries = E /\ fs'.dirs = fs.dirs
        /\ cwd' = cwd /\ AnswerRight
    BY <1>12, <1>14, <2>1
  <2>3. pos.dir # None
    BY <1>14 DEF IsNull
  <2>4. View(E) = View(fs.entries) \cup {Tos!Entry(t, New)}
    BY <1>3, <2>3, ViewAdds, Zenon DEF E
  <2>5. Tos!Unused(New)
    BY <1>2, <2>1, TosSees
  <2>6. New \in {e.ino : e \in View(fs'.entries)}
    <3>1. Tos!Entry(t, New) \in View(fs'.entries) /\ Tos!Entry(t, New).ino = New
      BY <2>2, <2>4 DEF Tos!Entry
    <3> QED
      BY <3>1
  <2>7. Tos!IsNew(t)
    BY <1>3, <1>14
  <2>8. Tos!Open
    BY <1>6, <1>10, <2>2, <2>4, <2>5, <2>6, <2>7, Zenon
    DEF Tos!Open, View, Shown, r, Told, KeyPath
  <2> QED
    BY <2>2, <2>8
<1> QED
  BY <1>4, <1>5, <1>11, <1>13, <1>14, Zenon

(* The calls on handles leave the tree alone. *)
LEMMA HandleActs ==
  ASSUME IInv, NEW h \in Handles, NEW g \in Handles, Fclose(h) \/ Fdup(h) \/ Fforce(g, h)
  PROVE  IInv' /\ Tos!HandleCall /\ ret'.call # "Fopen"
<1>1. h \in Fd /\ g \in Fd /\ fd \in [Fd -> Ino \cup {None, Tty}] /\ errno \in Nat /\ Sound(fs, cwd)
  BY FilesAssumption DEF Fd, IInv
<1>2. UNCHANGED <<fs, cwd>>
  BY DEF Fclose, Fdup, Fforce
<1>3. errno' \in Nat
  BY <1>1 DEF Fclose, Fdup, Fforce, EBADF, EMFILE
<1>4. fd' \in [Fd -> Ino \cup {None, Tty}]
  <2>1. CASE Fclose(h)
    BY <1>1, <2>1 DEF Fclose
  <2>2. CASE Fdup(h)
    <3>1. CASE fd' = fd
      BY <1>1, <3>1
    <3>2. CASE fd' # fd
      <4>1. fd' = [fd EXCEPT ![FreeFd] = fd[h]] /\ \E i \in Fd : fd[i] = None
        BY <2>2, <3>2 DEF Fdup, EBADF, EMFILE
      <4>2. FreeFd \in Fd
        BY <4>1, FreeFdIs
      <4> QED
        BY <1>1, <4>1, <4>2
    <3> QED
      BY <3>1, <3>2
  <2>3. CASE Fforce(g, h)
    BY <1>1, <2>3 DEF Fforce
  <2> QED
    BY <2>1, <2>2, <2>3
<1>5. IInv'
  BY <1>1, <1>2, <1>3, <1>4 DEF IInv
<1> DEFINE r == ret'
<1>6. "call" \in DOMAIN r /\ r.call \in {"Fclose", "Fdup", "Fforce"}
  <2>1. \E c \in {"Fclose", "Fdup", "Fforce"} : \E i, x : r = [call |-> c, handle |-> i, res |-> x]
    BY Zenon DEF Fclose, Fdup, Fforce
  <2> HIDE DEF r
  <2> QED
    BY <2>1
<1> HIDE DEF r
<1>7. Told(r).call \in {"Fclose", "Fdup", "Fforce"}
  BY <1>6 DEF Told
<1>8. Tos!HandleCall
  BY <1>2, <1>7, Zenon DEF Tos!HandleCall, Tos!Stays, r, Told, KeyPath
<1> QED
  BY <1>5, <1>6, <1>8 DEF r

(* Only Fopen answers as Fopen. *)
LEMMA OtherCalls ==
  ASSUME NEW p, NEW q,
         Fdelete(p) \/ Dcreate(p) \/ Ddelete(p) \/ Dsetpath(p) \/ Flink(p, q) \/ Frename(p, q)
  PROVE  ret'.call # "Fopen"
<1> DEFINE r == ret'
<1>1. \/ \E c \in {"Fdelete", "Dcreate", "Ddelete", "Dsetpath"} :
           \E pos, host : Answers(c, p, pos, host)
      \/ \E c \in {"Flink", "Frename"} : \E pos, new, host : AnswersTwo(c, p, q, pos, new, host)
  BY DEF Fdelete, Dcreate, Ddelete, Dsetpath, Flink, Frename
<1>2. ASSUME NEW c, NEW pos, NEW host, Answers(c, p, pos, host)
      PROVE  r.call = c
  <2>1. \E ok, res : r = [call |-> c, path |-> p, ok |-> ok, res |-> res]
    BY <1>2, Zenon DEF Answers
  <2> HIDE DEF r
  <2> QED
    BY <2>1
<1>3. ASSUME NEW c, NEW pos, NEW new, NEW host, AnswersTwo(c, p, q, pos, new, host)
      PROVE  r.call = c
  <2>1. \E ok, res : r = [call |-> c, path |-> p, path2 |-> q, ok |-> ok, res |-> res]
    BY <1>3, Zenon DEF AnswersTwo
  <2> HIDE DEF r
  <2> QED
    BY <2>1
<1> HIDE DEF r
<1>4. r.call \in {"Fdelete", "Dcreate", "Ddelete", "Dsetpath", "Flink", "Frename"}
  BY <1>1, <1>2, <1>3
<1> QED
  BY <1>4 DEF r

(* Each step keeps the invariant and is a step of TosFiles. *)
LEMMA Acts ==
  ASSUME IInv, Next, Careful
  PROVE  IInv' /\ Tos!Next /\ (ret'.call = "Fopen" => AnswerRight)
<1>1. ASSUME NEW p \in Paths, Fdelete(p)
      PROVE  IInv' /\ Tos!Next /\ (ret'.call = "Fopen" => AnswerRight)
  BY <1>1, FdeleteActs, OtherCalls, Zenon DEF Tos!Next
<1>2. ASSUME NEW p \in Paths, Dcreate(p)
      PROVE  IInv' /\ Tos!Next /\ (ret'.call = "Fopen" => AnswerRight)
  BY <1>2, DcreateActs, OtherCalls, Zenon DEF Tos!Next
<1>3. ASSUME NEW p \in Paths, Ddelete(p)
      PROVE  IInv' /\ Tos!Next /\ (ret'.call = "Fopen" => AnswerRight)
  BY <1>3, DdeleteActs, OtherCalls, Zenon DEF Tos!Next
<1>4. ASSUME NEW p \in Paths, Dsetpath(p)
      PROVE  IInv' /\ Tos!Next /\ (ret'.call = "Fopen" => AnswerRight)
  BY <1>4, DsetpathActs, OtherCalls, Zenon DEF Tos!Next
<1>5. ASSUME NEW p \in Paths, NEW m \in Modes, Fopen(p, m)
      PROVE  IInv' /\ Tos!Next /\ (ret'.call = "Fopen" => AnswerRight)
  BY <1>5, FopenActs, Zenon DEF Tos!Next
<1>6. ASSUME NEW p \in Paths, NEW q \in Paths, Flink(p, q)
      PROVE  IInv' /\ Tos!Next /\ (ret'.call = "Fopen" => AnswerRight)
  BY <1>6, FlinkActs, OtherCalls, Zenon DEF Tos!Next
<1>7. ASSUME NEW p \in Paths, NEW q \in Paths, Frename(p, q)
      PROVE  IInv' /\ Tos!Next /\ (ret'.call = "Fopen" => AnswerRight)
  BY <1>7, FrenameActs, OtherCalls, Zenon DEF Tos!Next
<1>8. ASSUME NEW h \in Handles, NEW g \in Handles, Fclose(h) \/ Fdup(h) \/ Fforce(g, h)
      PROVE  IInv' /\ Tos!Next /\ (ret'.call = "Fopen" => AnswerRight)
  BY <1>8, HandleActs, Zenon DEF Tos!Next
<1> QED
  BY <1>1, <1>2, <1>3, <1>4, <1>5, <1>6, <1>7, <1>8, Zenon DEF Next

(* At the start there is only the root. *)
LEMMA InitSound ==
  ASSUME Init
  PROVE  IInv /\ Tos!Init
<1>1. Root \in Ino
  BY FilesAssumption DEF Root, Ino
<1>2. /\ fs \in [entries : SUBSET [dir : Ino, name : Name, ino : Ino], dirs : SUBSET Ino]
      /\ fs.entries = {} /\ fs.dirs = {Root} /\ cwd = Root
  BY <1>1 DEF Init
<1>3. Sound(fs, cwd)
  BY <1>2 DEF Sound, Linked
<1>4. IInv
  BY <1>3 DEF IInv, Init
<1>5. Tos!Init
  BY <1>2 DEF Tos!Init
<1> QED
  BY <1>4, <1>5

(* A program that gives no file a name with a hash keeps the invariant. *)
THEOREM FilesInvariant == CarefulSpec => []IInv
<1>1. IInv /\ [Next /\ Careful]_vars => IInv'
  <2>1. CASE UNCHANGED vars
    BY <2>1 DEF IInv, Sound, Linked, vars
  <2> QED
    BY <2>1, Acts DEF vars
<1> QED
  BY <1>1, InitSound, PTL DEF CarefulSpec

(* So the tree that the calls of gemdos/file.c and gemdos/dir.c leave is one in
   which no two names of a directory have one 8.3 form, with the current
   directory in it.                                                        *)
THEOREM TreeStaysSound == CarefulSpec => []TreeSound
<1>1. IInv => TreeSound
  BY DEF IInv, Sound, TreeSound, TypeOK, NamesUnique
<1> QED
  BY <1>1, FilesInvariant, PTL

(* Fopen's answer is a handle exactly when the host has opened the file. *)
THEOREM FopenAnswersRight == CarefulSpec => FopenAnswers
<1>1. IInv /\ [Next /\ Careful]_vars
      => [ret'.call = "Fopen" =>
            IF ret'.res < 0 THEN \A h \in Fd : fd'[h] = fd[h] \/ h = 0
            ELSE /\ fd[ret'.res] = None /\ fd'[ret'.res] # None
                 /\ \A h \in Fd \ {ret'.res} : fd'[h] = fd[h]]_vars
  BY Acts, Zenon DEF AnswerRight
<1> QED
  BY <1>1, FilesInvariant, PTL DEF CarefulSpec, FopenAnswers

(* The code behaves as the file system of 8.3 names that TosFiles specifies:
   every call is one of its steps, on the same entries and with the same
   success, whatever spelling the program and the host use.                *)
THEOREM FilesActAsTos == CarefulSpec => ActsAsTos
<1>1. IInv /\ [Next /\ Careful]_vars
      => [Tos!Next]_<<{[dir |-> e.dir, name |-> Key83[e.name], ino |-> e.ino] : e \in fs.entries},
                      fs.dirs, cwd,
                      [f \in DOMAIN ret |-> IF f \in {"path", "path2"} THEN KeyPath(ret[f]) ELSE ret[f]]>>
  <2>1. CASE Next /\ Careful
    BY <2>1, Acts, Zenon
  <2>2. CASE UNCHANGED vars
    BY <2>2 DEF vars
  <2> QED
    BY <2>1, <2>2
<1> QED
  BY <1>1, InitSound, FilesInvariant, PTL DEF CarefulSpec, ActsAsTos, Tos!Spec
=============================================================================
