-------------------------- MODULE MemBlocksProofs --------------------------
(* Lemmas about the block lists of mem.c, for every memory, every set of nodes
   and every argument: what Malloc, Mfree and Mshrink keep and what they change. *)
EXTENDS MemBlocks, TLAPS, WellFoundedInduction, SequenceTheorems

-----------------------------------------------------------------------------
(* A non-empty set of naturals has a least element, so the searches of the
   model that take the first match really take a match.                      *)
LEMMA MinIsMember ==
  ASSUME NEW S \in SUBSET Nat, S # {}
  PROVE  Min(S) \in S /\ \A x \in S : Min(S) <= x
<1> DEFINE R == {ss \in Nat \X Nat : ss[1] < ss[2]}
<1>1. R = OpToRel(<, Nat)
  BY Zenon DEF OpToRel
<1>2. IsWellFoundedOn(R, Nat)
  BY <1>1, NatLessThanWellFounded
<1>3. \E x \in S : \A y \in S : ~ (<<y, x>> \in R)
  <2> HIDE DEF R
  <2> QED
    BY <1>2, WFMin
<1>4. PICK x \in S : \A y \in S : ~ (<<y, x>> \in R)
  BY <1>3
<1>5. \A y \in S : x <= y
  <2> TAKE y \in S
  <2>1. <<y, x>> \in R <=> y < x
    OBVIOUS
  <2> QED
    BY <2>1, <1>4
<1> QED
  BY <1>5 DEF Min

(* Inserting, removing and replacing in a list of distinct nodes. *)
LEMMA InsertAtList ==
  ASSUME NEW S, NEW s \in Seq(S), NEW i \in 1 .. Len(s) + 1, NEW e \in S
  PROVE  /\ InsertAt(s, i, e) \in Seq(S)
         /\ Range(InsertAt(s, i, e)) = Range(s) \cup {e}
         /\ IsInjective(s) /\ e \notin Range(s) => IsInjective(InsertAt(s, i, e))
         /\ Len(InsertAt(s, i, e)) = Len(s) + 1
         /\ \A k \in 1 .. Len(s) + 1 :
              /\ k < i => InsertAt(s, i, e)[k] = s[k]
              /\ k = i => InsertAt(s, i, e)[k] = e
              /\ k > i => InsertAt(s, i, e)[k] = s[k - 1]
<1> DEFINE t == InsertAt(s, i, e)
<1> DEFINE a == SubSeq(s, 1, i - 1)
           b == SubSeq(s, i, Len(s))
<1>0. /\ a \in Seq(S) /\ Len(a) = i - 1 /\ \A k \in 1 .. i - 1 : a[k] = s[k]
      /\ b \in Seq(S) /\ Len(b) = Len(s) - i + 1
      /\ \A k \in 1 .. Len(s) - i + 1 : b[k] = s[i + k - 1]
  OBVIOUS
<1>a. a \o <<e>> \in Seq(S) /\ Len(a \o <<e>>) = i /\ (a \o <<e>>)[i] = e
      /\ \A k \in 1 .. i - 1 : (a \o <<e>>)[k] = s[k]
  BY <1>0
<1>1. /\ t \in Seq(S) /\ Len(t) = Len(s) + 1
      /\ \A k \in 1 .. Len(s) + 1 :
           t[k] = IF k < i THEN s[k] ELSE IF k = i THEN e ELSE s[k - 1]
  <2> HIDE DEF a, b
  <2>1. t = (a \o <<e>>) \o b
    BY DEF InsertAt, a, b
  <2>2. a \o <<e>> \in Seq(S)
    BY <1>a
  <2> DEFINE c == a \o <<e>>
  <2>3. c \in Seq(S) /\ Len(c) = i
    BY <1>a
  <2> HIDE DEF c
  <2>4. /\ c \o b \in Seq(S) /\ Len(c \o b) = Len(s) + 1
        /\ \A k \in 1 .. Len(s) + 1 :
             (c \o b)[k] = IF k <= i THEN c[k] ELSE b[k - i]
    <3>1. Len(c) + Len(b) = Len(s) + 1
      BY <2>3, <1>0
    <3>2. c \in Seq(S) /\ b \in Seq(S)
      BY <2>3, <1>0
    <3>3. /\ c \o b \in Seq(S) /\ Len(c \o b) = Len(c) + Len(b)
          /\ \A k \in 1 .. Len(c) + Len(b) :
               (c \o b)[k] = IF k <= Len(c) THEN c[k] ELSE b[k - Len(c)]
      BY ONLY <3>2, ConcatProperties, Zenon
    <3> QED
      BY ONLY <3>1, <3>3, <2>3, Zenon
  <2>5. \A k \in 1 .. i : c[k] = IF k < i THEN s[k] ELSE e
    BY <1>a DEF c
  <2>6. \A k \in i + 1 .. Len(s) + 1 : b[k - i] = s[k - 1]
    <3> TAKE k \in i + 1 .. Len(s) + 1
    <3>1. k - i \in 1 .. Len(s) - i + 1 /\ i + (k - i) - 1 = k - 1
      OBVIOUS
    <3> QED
      BY <3>1, <1>0
  <2>7. t = c \o b
    BY <2>1 DEF c
  <2>8. ASSUME NEW k \in 1 .. Len(s) + 1
        PROVE  (c \o b)[k] = IF k < i THEN s[k] ELSE IF k = i THEN e ELSE s[k - 1]
    <3>1. CASE k \in 1 .. i
      BY <3>1, <2>4, <2>5
    <3>2. CASE k \in i + 1 .. Len(s) + 1
      BY <3>2, <2>4, <2>6
    <3>3. k \in 1 .. i \/ k \in i + 1 .. Len(s) + 1
      OBVIOUS
    <3> QED
      BY <3>1, <3>2, <3>3, Zenon
  <2> QED
    BY <2>4, <2>7, <2>8
<1> HIDE DEF t
<1>2. DOMAIN t = 1 .. Len(s) + 1 /\ DOMAIN s = 1 .. Len(s)
  BY <1>1
<1>3. Range(t) \subseteq Range(s) \cup {e}
  BY <1>1, <1>2 DEF Range
<1>4. ASSUME NEW k \in 1 .. Len(s)
      PROVE  s[k] \in Range(t)
  <2>1. CASE k < i
    BY <2>1, <1>1, <1>2 DEF Range
  <2>2. CASE k >= i
    <3>1. k + 1 \in DOMAIN t /\ t[k + 1] = s[k]
      BY <2>2, <1>1, <1>2
    <3> QED
      BY <3>1 DEF Range
  <2> QED
    BY <2>1, <2>2
<1>5. e \in Range(t)
  BY <1>1, <1>2 DEF Range
<1>6. ASSUME IsInjective(s), e \notin Range(s)
      PROVE  IsInjective(t)
  <2>1. \A x \in 1 .. Len(s) : s[x] # e
    BY <1>2, <1>6 DEF Range
  <2>2. \A x, y \in 1 .. Len(s) : s[x] = s[y] => x = y
    BY <1>2, <1>6 DEF IsInjective
  <2>3. ASSUME NEW x \in 1 .. Len(s) + 1, NEW y \in 1 .. Len(s) + 1, t[x] = t[y]
        PROVE  x = y
    <3> DEFINE Old(k) == IF k < i THEN k ELSE k - 1
    <3>1. \A k \in 1 .. Len(s) + 1 : k # i => Old(k) \in 1 .. Len(s) /\ t[k] = s[Old(k)]
      BY <1>1
    <3>2. t[i] = e /\ i \in 1 .. Len(s) + 1
      BY <1>1
    <3>3. CASE x = i \/ y = i
      BY <3>1, <3>2, <3>3, <2>1, <2>3
    <3>4. CASE x # i /\ y # i
      <4>1. Old(x) = Old(y)
        BY <3>1, <3>4, <2>2, <2>3
      <4> QED
        BY <3>4, <4>1
    <3> QED
      BY <3>3, <3>4
  <2> QED
    BY <1>2, <2>3 DEF IsInjective
<1>7. \A k \in 1 .. Len(s) + 1 :
        /\ k < i => t[k] = s[k]
        /\ k = i => t[k] = e
        /\ k > i => t[k] = s[k - 1]
  BY <1>1
<1> QED
  BY <1>1, <1>2, <1>3, <1>4, <1>5, <1>6, <1>7 DEF t, Range

(* An element taken out of a list without repetitions. *)
LEMMA RemoveAtList ==
  ASSUME NEW S, NEW s \in Seq(S), NEW i \in DOMAIN s, IsInjective(s)
  PROVE  /\ RemoveAt(s, i) \in Seq(S)
         /\ Range(RemoveAt(s, i)) = Range(s) \ {s[i]}
         /\ IsInjective(RemoveAt(s, i))
         /\ Len(RemoveAt(s, i)) = Len(s) - 1
         /\ \A k \in 1 .. Len(s) - 1 :
              RemoveAt(s, i)[k] = IF k < i THEN s[k] ELSE s[k + 1]
<1> DEFINE t == RemoveAt(s, i)
<1> DEFINE a == SubSeq(s, 1, i - 1)
           b == SubSeq(s, i + 1, Len(s))
<1>0. /\ a \in Seq(S) /\ Len(a) = i - 1 /\ \A k \in 1 .. i - 1 : a[k] = s[k]
      /\ b \in Seq(S) /\ Len(b) = Len(s) - i
      /\ \A k \in 1 .. Len(s) - i : b[k] = s[i + k]
  OBVIOUS
<1>1. /\ t \in Seq(S) /\ Len(t) = Len(s) - 1
      /\ \A k \in 1 .. Len(s) - 1 : t[k] = IF k < i THEN s[k] ELSE s[k + 1]
  <2>1. t = a \o b
    BY DEF RemoveAt
  <2> HIDE DEF a, b, t
  <2>2. /\ a \o b \in Seq(S) /\ Len(a \o b) = Len(s) - 1
        /\ \A k \in 1 .. Len(s) - 1 :
             (a \o b)[k] = IF k <= i - 1 THEN a[k] ELSE b[k - (i - 1)]
    <3>1. Len(a) + Len(b) = Len(s) - 1
      BY <1>0
    <3>2. a \in Seq(S) /\ b \in Seq(S) /\ Len(a) = i - 1
      BY <1>0
    <3>3. /\ a \o b \in Seq(S) /\ Len(a \o b) = Len(a) + Len(b)
          /\ \A k \in 1 .. Len(a) + Len(b) :
               (a \o b)[k] = IF k <= Len(a) THEN a[k] ELSE b[k - Len(a)]
      BY ONLY <3>2, ConcatProperties, Zenon
    <3> QED
      BY ONLY <3>1, <3>2, <3>3, Zenon
  <2>3. \A k \in i .. Len(s) - 1 : b[k - (i - 1)] = s[k + 1]
    <3> TAKE k \in i .. Len(s) - 1
    <3>1. k - (i - 1) \in 1 .. Len(s) - i /\ i + (k - (i - 1)) = k + 1
      OBVIOUS
    <3>2. b[k - (i - 1)] = s[i + (k - (i - 1))]
      BY ONLY <1>0, <3>1, Zenon
    <3> QED
      BY ONLY <3>1, <3>2, Zenon
  <2> QED
    BY <1>0, <2>1, <2>2, <2>3
<1> HIDE DEF a, b, t
<1>2. DOMAIN t = 1 .. Len(s) - 1 /\ DOMAIN s = 1 .. Len(s)
  <2>1. t \in Seq(S) /\ s \in Seq(S) /\ Len(t) = Len(s) - 1
    BY ONLY s \in Seq(S), <1>1
  <2>2. DOMAIN t = 1 .. Len(t) /\ DOMAIN s = 1 .. Len(s)
    BY ONLY <2>1
  <2> QED
    BY ONLY <2>1, <2>2, Zenon
<1>3. Range(t) \subseteq Range(s) \ {s[i]}
  BY <1>1, <1>2 DEF Range, IsInjective
<1>4. ASSUME NEW k \in 1 .. Len(s), k # i
      PROVE  s[k] \in Range(t)
  <2>1. CASE k < i
    BY <2>1, <1>1, <1>2 DEF Range
  <2>2. CASE k > i
    <3>1. k - 1 \in DOMAIN t /\ t[k - 1] = s[k]
      BY <2>2, <1>1, <1>2
    <3> QED
      BY <3>1 DEF Range
  <2> QED
    BY <1>4, <2>1, <2>2
<1>5. Range(s) \ {s[i]} \subseteq Range(t)
  <2> SUFFICES ASSUME NEW v \in Range(s), v # s[i]
               PROVE  v \in Range(t)
    BY Zenon
  <2>1. PICK k \in DOMAIN s : v = s[k]
    BY Zenon DEF Range
  <2> QED
    BY <1>2, <1>4, <2>1, Zenon
<1>6. IsInjective(t)
  <2>1. ASSUME NEW x \in 1 .. Len(s) - 1, NEW y \in 1 .. Len(s) - 1, t[x] = t[y]
        PROVE  x = y
    <3> DEFINE Old(k) == IF k < i THEN k ELSE k + 1
    <3>1. /\ Old(x) \in DOMAIN s /\ t[x] = s[Old(x)]
          /\ Old(y) \in DOMAIN s /\ t[y] = s[Old(y)]
      BY <1>1, <1>2
    <3>2. Old(x) = Old(y)
      <4> HIDE DEF Old
      <4> QED
        BY <2>1, <3>1, Zenon DEF IsInjective
    <3> QED
      BY <3>2
  <2> QED
    BY <1>2, <2>1, Zenon DEF IsInjective
<1>7. Range(t) = Range(s) \ {s[i]}
  BY <1>3, <1>5, Zenon
<1> QED
  BY <1>1, <1>6, <1>7, Zenon DEF t

(* An element of such a list replaced by a new one. *)
LEMMA ReplaceAtList ==
  ASSUME NEW S, NEW s \in Seq(S), NEW i \in DOMAIN s, IsInjective(s),
         NEW e \in S, e \notin Range(s)
  PROVE  /\ ReplaceAt(s, i, e) \in Seq(S)
         /\ Range(ReplaceAt(s, i, e)) = (Range(s) \ {s[i]}) \cup {e}
         /\ IsInjective(ReplaceAt(s, i, e))
         /\ DOMAIN ReplaceAt(s, i, e) = DOMAIN s
         /\ \A k \in DOMAIN s : ReplaceAt(s, i, e)[k] = IF k = i THEN e ELSE s[k]
<1> DEFINE t == ReplaceAt(s, i, e)
<1>1. /\ t \in Seq(S) /\ DOMAIN t = DOMAIN s
      /\ \A k \in DOMAIN s : t[k] = IF k = i THEN e ELSE s[k]
  BY DEF ReplaceAt
<1> HIDE DEF t
<1>2. Range(t) = (Range(s) \ {s[i]}) \cup {e}
  BY <1>1 DEF Range, IsInjective
<1>3. IsInjective(t)
  BY <1>1 DEF Range, IsInjective
<1> QED
  BY <1>1, <1>2, <1>3 DEF t

(* A new element put in front. *)
LEMMA ConsList ==
  ASSUME NEW S, NEW s \in Seq(S), NEW e \in S
  PROVE  /\ <<e>> \o s \in Seq(S)
         /\ Range(<<e>> \o s) = Range(s) \cup {e}
         /\ IsInjective(s) /\ e \notin Range(s) => IsInjective(<<e>> \o s)
<1> DEFINE t == <<e>> \o s
<1>1. /\ t \in Seq(S) /\ Len(t) = Len(s) + 1
      /\ \A k \in 1 .. Len(s) + 1 : t[k] = IF k = 1 THEN e ELSE s[k - 1]
  OBVIOUS
<1> HIDE DEF t
<1>2. DOMAIN t = 1 .. Len(s) + 1 /\ DOMAIN s = 1 .. Len(s)
  BY <1>1
<1>3. Range(t) \subseteq Range(s) \cup {e}
  BY <1>1, <1>2 DEF Range
<1>4. ASSUME NEW k \in 1 .. Len(s)
      PROVE  s[k] \in Range(t)
  <2>1. k + 1 \in DOMAIN t /\ t[k + 1] = s[k]
    BY <1>1, <1>2
  <2> QED
    BY <2>1 DEF Range
<1>5. e \in Range(t)
  BY <1>1, <1>2 DEF Range
<1>6. ASSUME IsInjective(s), e \notin Range(s)
      PROVE  IsInjective(t)
  <2>1. \A x \in 1 .. Len(s) : s[x] # e
    BY <1>2, <1>6 DEF Range
  <2>2. \A x, y \in 1 .. Len(s) : s[x] = s[y] => x = y
    BY <1>2, <1>6 DEF IsInjective
  <2>3. ASSUME NEW x \in 1 .. Len(s) + 1, NEW y \in 1 .. Len(s) + 1, t[x] = t[y]
        PROVE  x = y
    <3> DEFINE Old(k) == IF k < 1 THEN k ELSE k - 1
    <3>1. \A k \in 1 .. Len(s) + 1 : k # 1 => Old(k) \in 1 .. Len(s) /\ t[k] = s[Old(k)]
      BY <1>1
    <3>2. t[1] = e /\ 1 \in 1 .. Len(s) + 1
      BY <1>1
    <3>3. CASE x = 1 \/ y = 1
      BY <3>1, <3>2, <3>3, <2>1, <2>3
    <3>4. CASE x # 1 /\ y # 1
      <4>1. Old(x) = Old(y)
        BY <3>1, <3>4, <2>2, <2>3
      <4> QED
        BY <3>4, <4>1
    <3> QED
      BY <3>3, <3>4
  <2> QED
    BY <1>2, <2>3 DEF IsInjective
<1>7. Range(t) = Range(s) \cup {e}
  <2>1. Range(s) \subseteq Range(t)
    BY <1>2, <1>4, Zenon DEF Range
  <2> QED
    BY <1>3, <1>5, <2>1, Zenon
<1> QED
  BY <1>1, <1>2, <1>6, <1>7, Zenon DEF t

-----------------------------------------------------------------------------
(* Splitting a block in two, and joining two that touch, keeps every byte in
   exactly one block.                                                        *)
Splittable(h, D, x, n, new) ==
  /\ h \in [D -> Block] /\ Tiles(h)
  /\ x \in D /\ new \notin D
  /\ n \in Nat /\ n <= h[x].size

SplitSound(h, D, x, g, new) ==
  /\ g \in [D \cup {new} -> Block]
  /\ Tiles(g)
  /\ \A y \in D \ {x} : g[y] = h[y]

(* A block that is split covers what it covered. *)
LEMMA SplitTiles ==
  ASSUME NEW h, NEW D, NEW x, NEW n, NEW new, Splittable(h, D, x, n, new)
  PROVE  SplitSound(h, D, x, Split(h, x, n, new), new)
<1> DEFINE g == Split(h, x, n, new)
<1> USE DEF Splittable
<1>1. /\ g \in [D \cup {new} -> Block] /\ x # new
      /\ g[new] = [start |-> h[x].start + n, size |-> h[x].size - n]
      /\ g[x] = [start |-> h[x].start, size |-> n]
      /\ \A y \in D \ {x} : g[y] = h[y]
  BY DEF Split, Block
<1> HIDE DEF g
<1>2. \A a \in Int : Holds(h, x, a) <=> Holds(g, x, a) \/ Holds(g, new, a)
  BY <1>1 DEF Holds, End, Block
<1>3. \A a \in Int : ~ (Holds(g, x, a) /\ Holds(g, new, a))
  BY <1>1 DEF Holds, End, Block
<1>4. \A a \in Int, y \in D \ {x} : Holds(g, y, a) <=> Holds(h, y, a)
  BY <1>1 DEF Holds
<1>5. \A y \in DOMAIN g : MemBot <= g[y].start /\ End(g[y]) <= MemTop
  BY <1>1, MemAssumption DEF Tiles, End, Block
<1>6. ASSUME NEW a \in MemBot .. MemTop - 1
      PROVE  /\ \E y \in DOMAIN g : Holds(g, y, a)
             /\ \A y, z \in DOMAIN g : Holds(g, y, a) /\ Holds(g, z, a) => y = z
  <2>1. a \in Int /\ DOMAIN g = D \cup {new} /\ DOMAIN h = D
    BY <1>1, MemAssumption
  <2>2. PICK y \in D : Holds(h, y, a)
    BY <2>1 DEF Tiles
  <2>3. \A z \in D : Holds(h, z, a) => z = y
    BY <2>1, <2>2 DEF Tiles
  <2>4. \E z \in DOMAIN g : Holds(g, z, a)
    BY <1>2, <1>4, <2>1, <2>2
  <2> QED
    BY <1>1, <1>2, <1>3, <1>4, <2>1, <2>3, <2>4
<1> QED
  BY <1>1, <1>5, <1>6 DEF Tiles, SplitSound, g

(* Two blocks that touch, made one, cover what they covered. *)
LEMMA MergeTiles ==
  ASSUME NEW D, NEW h \in [D -> Block], Tiles(h),
         NEW x \in D, NEW y \in D, x # y, End(h[x]) = h[y].start
  PROVE  /\ Merge(h, x, y) \in [D \ {y} -> Block]
         /\ Tiles(Merge(h, x, y))
         /\ \A z \in D \ {x, y} : Merge(h, x, y)[z] = h[z]
<1> DEFINE g == Merge(h, x, y)
<1>1. /\ g \in [D \ {y} -> Block]
      /\ g[x] = [start |-> h[x].start, size |-> h[x].size + h[y].size]
      /\ \A z \in D \ {x, y} : g[z] = h[z]
  BY DEF Merge, Block
<1> HIDE DEF g
<1>2. \A a \in Int : Holds(g, x, a) <=> Holds(h, x, a) \/ Holds(h, y, a)
  BY <1>1 DEF Holds, End, Block
<1>3. \A a \in Int, z \in D \ {x, y} : Holds(g, z, a) <=> Holds(h, z, a)
  BY <1>1 DEF Holds
<1>4. \A z \in DOMAIN g : MemBot <= g[z].start /\ End(g[z]) <= MemTop
  BY <1>1, MemAssumption DEF Tiles, End, Block
<1>5. ASSUME NEW a \in MemBot .. MemTop - 1
      PROVE  /\ \E z \in DOMAIN g : Holds(g, z, a)
             /\ \A z, w \in DOMAIN g : Holds(g, z, a) /\ Holds(g, w, a) => z = w
  <2>1. a \in Int /\ DOMAIN g = D \ {y} /\ DOMAIN h = D
    BY <1>1, MemAssumption
  <2>2. PICK v \in D : Holds(h, v, a)
    BY <2>1 DEF Tiles
  <2>3. \A z \in D : Holds(h, z, a) => z = v
    BY <2>1, <2>2 DEF Tiles
  <2>4. \E z \in DOMAIN g : Holds(g, z, a)
    BY <1>2, <1>3, <2>1, <2>2
  <2> QED
    BY <1>2, <1>3, <2>1, <2>3, <2>4
<1> QED
  BY <1>1, <1>4, <1>5 DEF Tiles, g

-----------------------------------------------------------------------------
(* What every call keeps; loose holds the node a call has taken off one list
   and not yet put on the other.                                             *)
Sound(m, loose) == IsLists(m) /\ OnOneList(m, loose) /\ Tiles(m.heap)

(* The used blocks are left alone. *)
SameUsed(m, w) ==
  w.used = m.used /\ \A n \in UsedNodes(m) : w.heap[n] = m.heap[n]

(* freeBlock finds a place on the free list, its end at the latest. *)
LEMMA SlotInRange ==
  ASSUME NEW m, IsLists(m), NEW x
  PROVE  Slot(m, x) \in 1 .. Len(m.free) + 1
<1> DEFINE S == {i \in 1 .. Len(m.free) + 1 :
                   i \in DOMAIN m.free => m.heap[x].start <= m.heap[m.free[i]].start}
<1>1. Len(m.free) \in Nat /\ DOMAIN m.free = 1 .. Len(m.free)
  BY DEF IsLists
<1>2. S \in SUBSET Nat /\ Len(m.free) + 1 \in S
  BY <1>1
<1>3. Slot(m, x) = Min(S)
  BY DEF Slot
<1> HIDE DEF S
<1>4. Min(S) \in S
  BY <1>2, MinIsMember
<1> QED
  BY <1>3, <1>4 DEF S

(* A block in limbo comes back to the free list. *)
LEMMA InsertKeeps ==
  ASSUME NEW m, NEW x \in Node, Sound(m, {x}), RoverOnList(m)
  PROVE  /\ Sound(Insert(m, x), {})
         /\ RoverOnList(Insert(m, x))
         /\ SameUsed(m, Insert(m, x))
<1> DEFINE w == Insert(m, x)
           f == InsertAt(m.free, Slot(m, x), x)
<1>1. /\ DOMAIN w = {"free", "used", "heap", "rover"}
      /\ w.free = f /\ w.used = m.used /\ w.heap = m.heap
      /\ w.rover = IF m.rover = Null THEN x ELSE m.rover
  BY DEF Sound, IsLists, Insert
<1>2. /\ f \in Seq(Node)
      /\ Range(f) = FreeNodes(m) \cup {x}
      /\ IsInjective(f)
  <2>1. m.free \in Seq(Node) /\ IsInjective(m.free) /\ x \notin Range(m.free)
    BY DEF Sound, IsLists, OnOneList, FreeNodes
  <2>2. Slot(m, x) \in 1 .. Len(m.free) + 1
    BY SlotInRange DEF Sound
  <2> QED
    BY <2>1, <2>2, InsertAtList DEF FreeNodes
<1> HIDE DEF w, f
<1>3. IsLists(w)
  BY <1>1, <1>2 DEF Sound, IsLists
<1>4. OnOneList(w, {})
  BY <1>1, <1>2 DEF Sound, OnOneList, FreeNodes, UsedNodes
<1>5. Tiles(w.heap)
  BY <1>1 DEF Sound
<1>6. f # <<>>
  <2>1. x \in Range(f) /\ Range(<<>>) = {}
    BY <1>2 DEF Range
  <2> QED
    BY <2>1
<1>7. RoverOnList(w)
  <2>1. CASE m.free = <<>>
    BY <2>1, <1>1, <1>2, <1>6 DEF RoverOnList, FreeNodes
  <2>2. CASE m.free # <<>>
    BY <2>2, <1>1, <1>2, <1>6, NodeAssumption DEF RoverOnList, FreeNodes
  <2> QED
    BY <2>1, <2>2
<1> QED
  BY <1>1, <1>3, <1>4, <1>5, <1>7 DEF Sound, SameUsed, w

(* Joining a free block with the next one loses no byte and no node. *)
LEMMA JoinKeeps ==
  ASSUME NEW m, NEW i \in Int, Sound(m, {}), RoverOnList(m)
  PROVE  /\ Sound(Join(m, i), {})
         /\ RoverOnList(Join(m, i))
         /\ SameUsed(m, Join(m, i))
<1>1. CASE ~ Meets(m, i)
  BY <1>1 DEF Join, SameUsed
<1>2. CASE Meets(m, i)
  <2> DEFINE w == Absorb(m, i)
             x == m.free[i]
             y == m.free[i + 1]
  <2>1. /\ DOMAIN w = {"free", "used", "heap", "rover"}
        /\ w.free = RemoveAt(m.free, i + 1) /\ w.used = m.used
        /\ w.heap = Merge(m.heap, x, y)
        /\ w.rover = IF m.rover = y THEN x ELSE m.rover
    BY DEF Absorb
  <2>2. /\ i \in DOMAIN m.free /\ i + 1 \in DOMAIN m.free
        /\ End(m.heap[x]) = m.heap[y].start
    BY <1>2 DEF Meets
  <2>3. /\ m.free \in Seq(Node) /\ IsInjective(m.free)
        /\ x \in FreeNodes(m) /\ y \in FreeNodes(m) /\ x # y
    BY <2>2 DEF Sound, IsLists, OnOneList, FreeNodes, IsInjective, Range
  <2> HIDE DEF w, x, y
  <2>4. /\ w.free \in Seq(Node) /\ IsInjective(w.free)
        /\ Range(w.free) = FreeNodes(m) \ {y}
    BY <2>1, <2>2, <2>3, RemoveAtList DEF FreeNodes, y
  <2>5. /\ w.heap \in [DOMAIN m.heap \ {y} -> Block] /\ Tiles(w.heap)
        /\ \A z \in DOMAIN m.heap \ {x, y} : w.heap[z] = m.heap[z]
    <3>1. m.heap \in [DOMAIN m.heap -> Block] /\ Tiles(m.heap)
      BY DEF Sound, IsLists
    <3>2. x \in DOMAIN m.heap /\ y \in DOMAIN m.heap
      BY <2>3 DEF Sound, OnOneList
    <3>3. /\ Merge(m.heap, x, y) \in [DOMAIN m.heap \ {y} -> Block]
          /\ Tiles(Merge(m.heap, x, y))
          /\ \A z \in DOMAIN m.heap \ {x, y} : Merge(m.heap, x, y)[z] = m.heap[z]
      <4> DEFINE h == m.heap
                 D == DOMAIN m.heap
      <4>1. /\ h \in [D -> Block] /\ Tiles(h) /\ x \in D /\ y \in D /\ x # y
            /\ End(h[x]) = h[y].start
        BY <2>2, <2>3, <3>1, <3>2
      <4> HIDE DEF h, D
      <4>2. /\ Merge(h, x, y) \in [D \ {y} -> Block]
            /\ Tiles(Merge(h, x, y))
            /\ \A z \in D \ {x, y} : Merge(h, x, y)[z] = h[z]
        BY ONLY <4>1, MergeTiles
      <4> QED
        BY <4>2 DEF h, D
    <3> QED
      BY <2>1, <3>3
  <2>6. IsLists(w)
    BY <2>1, <2>3, <2>4, <2>5 DEF Sound, IsLists, FreeNodes, OnOneList
  <2>7. OnOneList(w, {})
    <3>1. DOMAIN w.heap = DOMAIN m.heap \ {y}
      BY <2>5
    <3> QED
      BY <3>1, <2>1, <2>3, <2>4 DEF Sound, OnOneList, FreeNodes, UsedNodes
  <2>8. x \in Range(w.free)
    BY <2>3, <2>4
  <2>9. RoverOnList(w)
    <3>1. m.free # <<>> /\ w.free # <<>>
      BY <2>2, <2>8 DEF Range
    <3>2. m.rover \in FreeNodes(m)
      BY <3>1 DEF RoverOnList
    <3> QED
      BY <3>1, <3>2, <2>1, <2>4, <2>8 DEF RoverOnList, FreeNodes
  <2>10. SameUsed(m, w)
    BY <2>1, <2>3, <2>5 DEF SameUsed, Sound, OnOneList
  <2>11. Join(m, i) = w
    BY <1>2 DEF Join, w
  <2> QED
    BY <2>5, <2>6, <2>7, <2>9, <2>10, <2>11 DEF Sound
<1> QED
  BY <1>1, <1>2

(* freeBlock: insertion, then both joins. *)
LEMMA FreeBlockKeeps ==
  ASSUME NEW m, NEW x \in Node, Sound(m, {x}), RoverOnList(m)
  PROVE  /\ Sound(FreeBlock(m, x), {})
         /\ RoverOnList(FreeBlock(m, x))
         /\ SameUsed(m, FreeBlock(m, x))
<1> DEFINE i == Slot(m, x)
           m1 == Insert(m, x)
           m2 == Join(m1, i)
<1>1. i \in Int /\ i - 1 \in Int
  <2>1. i \in 1 .. Len(m.free) + 1 /\ Len(m.free) \in Nat
    BY SlotInRange DEF Sound, IsLists
  <2> QED
    BY <2>1
<1> HIDE DEF i
<1>2. Sound(m1, {}) /\ RoverOnList(m1) /\ SameUsed(m, m1)
  BY InsertKeeps
<1> HIDE DEF m1
<1>3. Sound(m2, {}) /\ RoverOnList(m2) /\ SameUsed(m1, m2)
  BY <1>1, <1>2, JoinKeeps
<1> HIDE DEF m2
<1>4. /\ Sound(Join(m2, i - 1), {}) /\ RoverOnList(Join(m2, i - 1))
      /\ SameUsed(m2, Join(m2, i - 1))
  BY <1>1, <1>3, JoinKeeps
<1>5. FreeBlock(m, x) = Join(m2, i - 1)
  BY DEF FreeBlock, i, m1, m2
<1>6. SameUsed(m, Join(m2, i - 1))
  BY <1>2, <1>3, <1>4 DEF SameUsed, UsedNodes
<1> QED
  BY <1>4, <1>5, <1>6

(* A free block, or its lower part, goes to the used list. *)
LEMMA TakeKeeps ==
  ASSUME NEW m, Sound(m, {}), NEW i \in DOMAIN m.free,
         NEW n \in Nat, n <= m.heap[m.free[i]].size,
         NEW new \in Node \ DOMAIN m.heap
  PROVE  /\ Sound(Take(m, i, n, new), {})
         /\ RoverOnList(Take(m, i, n, new))
         /\ Take(m, i, n, new).used = <<m.free[i]>> \o m.used
         /\ \A u \in UsedNodes(m) : Take(m, i, n, new).heap[u] = m.heap[u]
<1> DEFINE w == Take(m, i, n, new)
           b == m.free[i]
           whole == m.heap[b].size = n
<1>1. /\ DOMAIN w = {"free", "used", "heap", "rover"}
      /\ w.free = IF whole THEN RemoveAt(m.free, i) ELSE ReplaceAt(m.free, i, new)
      /\ w.used = <<b>> \o m.used
      /\ w.heap = IF whole THEN m.heap ELSE Split(m.heap, b, n, new)
      /\ w.rover = IF i > 1 THEN m.free[i - 1]
                   ELSE IF w.free = <<>> THEN Null ELSE w.free[1]
  BY DEF Take
<1>2. /\ m.free \in Seq(Node) /\ IsInjective(m.free) /\ b \in FreeNodes(m)
      /\ m.used \in Seq(Node) /\ IsInjective(m.used) /\ b \notin UsedNodes(m)
      /\ b \in Node /\ b \in DOMAIN m.heap /\ new \notin FreeNodes(m)
      /\ new \notin UsedNodes(m) /\ new # b
      /\ DOMAIN m.heap = FreeNodes(m) \cup UsedNodes(m)
      /\ FreeNodes(m) \cap UsedNodes(m) = {}
  BY DEF Sound, IsLists, OnOneList, FreeNodes, Range
<1>3. m.heap \in [DOMAIN m.heap -> Block] /\ Tiles(m.heap) /\ n <= m.heap[b].size
  BY DEF Sound, IsLists
<1> HIDE DEF w, whole
<1>4. /\ w.free \in Seq(Node) /\ IsInjective(w.free)
      /\ Range(w.free) = (FreeNodes(m) \ {b}) \cup (IF whole THEN {} ELSE {new})
  <2>1. CASE whole
    BY <2>1, <1>1, <1>2, RemoveAtList DEF FreeNodes
  <2>2. CASE ~ whole
    BY <2>2, <1>1, <1>2, ReplaceAtList DEF FreeNodes
  <2> QED
    BY <2>1, <2>2
<1>5. /\ w.used \in Seq(Node) /\ IsInjective(w.used)
      /\ Range(w.used) = UsedNodes(m) \cup {b}
  BY <1>1, <1>2, ConsList DEF UsedNodes
<1> HIDE DEF b
<1>6. /\ w.heap \in [DOMAIN m.heap \cup (IF whole THEN {} ELSE {new}) -> Block]
      /\ Tiles(w.heap)
      /\ \A u \in DOMAIN m.heap \ {b} : w.heap[u] = m.heap[u]
  <2>1. CASE whole
    <3>1. w.heap = m.heap /\ DOMAIN m.heap \cup {} = DOMAIN m.heap
      BY <2>1, <1>1
    <3> QED
      BY <2>1, <3>1, <1>3
  <2>2. CASE ~ whole
    <3>1. /\ Split(m.heap, b, n, new) \in [DOMAIN m.heap \cup {new} -> Block]
          /\ Tiles(Split(m.heap, b, n, new))
          /\ \A u \in DOMAIN m.heap \ {b} : Split(m.heap, b, n, new)[u] = m.heap[u]
      <4> DEFINE h == m.heap
                 D == DOMAIN m.heap
      <4>1. Splittable(h, D, b, n, new)
        BY <1>2, <1>3 DEF Splittable
      <4> HIDE DEF h, D
      <4>2. SplitSound(h, D, b, Split(h, b, n, new), new)
        BY <4>1, SplitTiles
      <4> QED
        BY <4>2 DEF SplitSound, h, D
    <3> QED
      BY <2>2, <3>1, <1>1
  <2> QED
    BY <2>1, <2>2
<1>7. IsLists(w)
  <2>1. w.heap \in [DOMAIN w.heap -> Block] /\ DOMAIN w.heap \subseteq Node
    BY <1>6 DEF Sound, IsLists
  <2>2. w.rover \in Node \cup {Null}
    <3>1. CASE i > 1
      BY <3>1, <1>1, <1>2
    <3>2. CASE ~ (i > 1) /\ w.free # <<>>
      BY <3>2, <1>1, <1>4
    <3>3. CASE ~ (i > 1) /\ w.free = <<>>
      BY <3>3, <1>1
    <3> QED
      BY <3>1, <3>2, <3>3
  <2> QED
    BY <2>1, <2>2, <1>1, <1>4, <1>5 DEF IsLists
<1>8. OnOneList(w, {})
  <2>1. DOMAIN w.heap = DOMAIN m.heap \cup (IF whole THEN {} ELSE {new})
    BY <1>6
  <2> QED
    BY <2>1, <1>2, <1>4, <1>5 DEF OnOneList, FreeNodes, UsedNodes
<1>9. RoverOnList(w)
  <2>1. CASE i > 1
    <3>1. i - 1 \in DOMAIN m.free /\ m.free[i - 1] # m.free[i]
      BY <2>1, <1>2 DEF IsInjective
    <3>2. m.free[i - 1] \in FreeNodes(m) \ {b}
      BY <3>1 DEF FreeNodes, Range, b
    <3>3. w.rover \in Range(w.free)
      BY <3>2, <2>1, <1>1, <1>4
    <3>4. Range(<<>>) = {}
      BY DEF Range
    <3> QED
      BY <3>3, <3>4 DEF RoverOnList, FreeNodes
  <2>2. CASE ~ (i > 1)
    <3>1. w.free # <<>> => w.free[1] \in Range(w.free)
      BY <1>4 DEF Range
    <3> QED
      BY <2>2, <3>1, <1>1 DEF RoverOnList, FreeNodes
  <2> QED
    BY <2>1, <2>2
<1>10. \A u \in UsedNodes(m) : w.heap[u] = m.heap[u]
  BY <1>2, <1>6
<1> QED
  BY <1>1, <1>6, <1>7, <1>8, <1>9, <1>10 DEF Sound, w, b

(* The loop of Malloc looks at a position of the list each time round. *)
LEMMA ProbeInRange ==
  ASSUME NEW m, IsLists(m), m.free # <<>>,
         m.rover = FreeHead \/ m.rover \in FreeNodes(m), NEW j \in DOMAIN m.free
  PROVE  Probe(m, j) \in DOMAIN m.free
<1>1. Len(m.free) \in Nat \ {0} /\ DOMAIN m.free = 1 .. Len(m.free)
  BY DEF IsLists
<1>2. RoverAt(m) \in Nat
  BY <1>1 DEF RoverAt, FreeNodes, Range
<1>3. \A a \in Nat, k \in Nat \ {0} : a % k \in 0 .. k - 1
  OBVIOUS
<1>4. RoverAt(m) + j - 1 \in Nat
  BY <1>1, <1>2
<1> QED
  BY <1>1, <1>3, <1>4 DEF Probe

(* The largest size on a list that is not empty is the size of one of its blocks,
   and no other is larger.                                                   *)
LEMMA LargestFreeNat ==
  ASSUME NEW m, Sound(m, {}), m.free # <<>>
  PROVE  /\ LargestFree(m) \in Nat
         /\ \E f \in FreeNodes(m) : m.heap[f].size = LargestFree(m)
         /\ \A f \in FreeNodes(m) : m.heap[f].size <= LargestFree(m)
<1> DEFINE S == {m.heap[m.free[i]].size : i \in DOMAIN m.free}
           T == {MemTop - s : s \in S}
<1>1. \A i \in DOMAIN m.free : m.heap[m.free[i]] \in Block /\ m.free[i] \in DOMAIN m.heap
  BY DEF Sound, IsLists, OnOneList, FreeNodes, Range
<1>2. \A s \in S : s \in Nat /\ s <= MemTop
  BY <1>1, MemAssumption DEF Sound, Tiles, End, Block
<1>3. 1 \in DOMAIN m.free
  BY DEF Sound, IsLists
<1>4. S # {}
  BY <1>3
<1> HIDE DEF S
<1>5. T \in SUBSET Nat /\ T # {}
  BY <1>2, <1>4, MemAssumption
<1>6. Min(T) \in T /\ \A t \in T : Min(T) <= t
  BY <1>5, MinIsMember
<1>7. PICK s \in S : Min(T) = MemTop - s
  BY <1>6
<1>8. \A y \in S : s >= y
  <2> TAKE y \in S
  <2>1. MemTop - s <= MemTop - y
    BY <1>6, <1>7
  <2> QED
    BY <2>1, <1>2, MemAssumption
<1>9. Max(S) \in S /\ \A y \in S : Max(S) >= y
  BY <1>8 DEF Max
<1>10. LargestFree(m) = Max(S)
  BY DEF LargestFree, S
<1>11. PICK i \in DOMAIN m.free : m.heap[m.free[i]].size = Max(S)
  BY <1>9 DEF S
<1>12. ASSUME NEW f \in FreeNodes(m)
       PROVE  m.heap[f].size <= Max(S)
  <2>1. m.heap[f].size \in S
    BY DEF S, FreeNodes, Range
  <2> QED
    BY <1>2, <1>9, <2>1
<1> QED
  BY <1>2, <1>9, <1>10, <1>11, <1>12 DEF FreeNodes, Range

(* Rounding up to four bytes gives a size that is no smaller. *)
LEMMA Align4Nat ==
  ASSUME NEW n \in Nat
  PROVE  Align4(n) \in Nat /\ n <= Align4(n) /\ Align4(n) < n + 4 /\ Align4(n) % 4 = 0
  BY DEF Align4

(* The used blocks of m are still used in w, with the same extent. *)
KeepsUsed(m, w, addr) ==
  \A u \in UsedNodes(m) :
    m.heap[u].start # addr => u \in UsedNodes(w) /\ w.heap[u] = m.heap[u]

(* Malloc keeps the lists in order, and puts the rover on the free list for good. *)
LEMMA MallocKeeps ==
  ASSUME NEW m, Sound(m, {}), m.rover = FreeHead \/ RoverOnList(m),
         NEW size \in Nat \cup {-1}, NEW new \in Node \ DOMAIN m.heap,
         NEW addr
  PROVE  /\ Sound(Malloc(m, size, new).mem, {})
         /\ RoverOnList(m) => RoverOnList(Malloc(m, size, new).mem)
         /\ size # -1 /\ m.free # <<>> /\ Fits(m, Align4(size)) # {}
              => RoverOnList(Malloc(m, size, new).mem)
         /\ KeepsUsed(m, Malloc(m, size, new).mem, addr)
<1> DEFINE n == Align4(size)
           r == Malloc(m, size, new)
<1>1. CASE m.free = <<>> \/ size = -1 \/ Fits(m, n) = {}
  <2>1. r.mem = m
    BY <1>1 DEF Malloc
  <2> QED
    BY <1>1, <2>1 DEF KeepsUsed
<1>2. CASE m.free # <<>> /\ size # -1 /\ Fits(m, n) # {}
  <2> DEFINE j == Min(Fits(m, n))
             i == Probe(m, j)
  <2>1. r.mem = Take(m, i, n, new)
    BY <1>2 DEF Malloc
  <2>2. j \in Fits(m, n)
    <3>1. Fits(m, n) \in SUBSET Nat
      BY DEF Fits, Sound, IsLists
    <3> QED
      BY <1>2, <3>1, MinIsMember
  <2> HIDE DEF j
  <2>3. j \in DOMAIN m.free /\ m.heap[m.free[i]].size >= n
    BY <2>2 DEF Fits
  <2>4. i \in DOMAIN m.free
    BY <1>2, <2>3, ProbeInRange DEF Sound, RoverOnList
  <2>5. n \in Nat /\ size \in Nat
    BY <1>2, Align4Nat
  <2> HIDE DEF i, n
  <2>6. m.free[i] \in DOMAIN m.heap
    BY <2>4 DEF Sound, OnOneList, FreeNodes, Range
  <2>7. n <= m.heap[m.free[i]].size
    BY <2>3, <2>5, <2>6 DEF Sound, IsLists, Block
  <2>8. /\ Sound(Take(m, i, n, new), {})
        /\ RoverOnList(Take(m, i, n, new))
        /\ Take(m, i, n, new).used = <<m.free[i]>> \o m.used
        /\ \A u \in UsedNodes(m) : Take(m, i, n, new).heap[u] = m.heap[u]
    BY <2>4, <2>5, <2>7, TakeKeeps
  <2>9. m.used \in Seq(Node) /\ m.free[i] \in Node
    BY <2>4 DEF Sound, IsLists
  <2>10. UsedNodes(Take(m, i, n, new)) = UsedNodes(m) \cup {m.free[i]}
    BY <2>8, <2>9, ConsList DEF UsedNodes
  <2> QED
    BY <2>1, <2>8, <2>10 DEF KeepsUsed
<1> QED
  BY <1>1, <1>2

(* The search of the used list stops at a block with the address asked for. *)
LEMMA UsedAtMin ==
  ASSUME NEW m, IsLists(m), NEW addr, UsedAt(m, addr) # {}
  PROVE  /\ Min(UsedAt(m, addr)) \in DOMAIN m.used
         /\ m.heap[m.used[Min(UsedAt(m, addr))]].start = addr
<1>1. UsedAt(m, addr) \in SUBSET Nat
  BY DEF UsedAt, IsLists
<1>2. Min(UsedAt(m, addr)) \in UsedAt(m, addr)
  BY <1>1, MinIsMember
<1> QED
  BY <1>2 DEF UsedAt

(* Mfree of the address of a reserved block takes that block, and no other, off
   the list.                                                                 *)
LEMMA MfreeTakes ==
  ASSUME NEW m, Sound(m, {}), RoverOnList(m), NEW addr, UsedAt(m, addr) # {}
  PROVE  /\ Sound(Mfree(m, addr).mem, {})
         /\ RoverOnList(Mfree(m, addr).mem)
         /\ \E x \in UsedNodes(m) :
              /\ m.heap[x].start = addr
              /\ UsedNodes(Mfree(m, addr).mem) = UsedNodes(m) \ {x}
              /\ \A u \in UsedNodes(m) \ {x} : Mfree(m, addr).mem.heap[u] = m.heap[u]
<1> DEFINE i == Min(UsedAt(m, addr))
           x == m.used[i]
           w == [m EXCEPT !.used = RemoveAt(@, i)]
<1>1. Mfree(m, addr).mem = FreeBlock(w, x)
  BY DEF Mfree
<1>2. i \in DOMAIN m.used /\ m.heap[x].start = addr
  BY UsedAtMin DEF Sound
<1> HIDE DEF i
<1>3. /\ DOMAIN w = {"free", "used", "heap", "rover"}
      /\ w.free = m.free /\ w.used = RemoveAt(m.used, i)
      /\ w.heap = m.heap /\ w.rover = m.rover
  BY DEF Sound, IsLists
<1>4. m.used \in Seq(Node) /\ IsInjective(m.used) /\ x \in Node /\ x \in UsedNodes(m)
  BY <1>2 DEF Sound, IsLists, OnOneList, UsedNodes, Range
<1>5. /\ w.used \in Seq(Node) /\ IsInjective(w.used)
      /\ UsedNodes(w) = UsedNodes(m) \ {x}
  BY <1>2, <1>3, <1>4, RemoveAtList DEF UsedNodes
<1> HIDE DEF w, x
<1>6. Sound(w, {x})
  BY <1>3, <1>4, <1>5 DEF Sound, IsLists, OnOneList, FreeNodes
<1>7. RoverOnList(w)
  BY <1>3 DEF RoverOnList, FreeNodes
<1>8. /\ Sound(FreeBlock(w, x), {}) /\ RoverOnList(FreeBlock(w, x))
      /\ SameUsed(w, FreeBlock(w, x))
  BY <1>4, <1>6, <1>7, FreeBlockKeeps
<1>9. /\ UsedNodes(FreeBlock(w, x)) = UsedNodes(m) \ {x}
      /\ \A u \in UsedNodes(m) \ {x} : FreeBlock(w, x).heap[u] = m.heap[u]
  BY <1>3, <1>5, <1>8 DEF SameUsed, UsedNodes
<1> QED
  BY <1>1, <1>2, <1>4, <1>8, <1>9

(* Mfree keeps the lists in order and all other blocks. *)
LEMMA MfreeKeeps ==
  ASSUME NEW m, Sound(m, {}), RoverOnList(m), NEW addr
  PROVE  /\ Sound(Mfree(m, addr).mem, {})
         /\ RoverOnList(Mfree(m, addr).mem)
         /\ KeepsUsed(m, Mfree(m, addr).mem, addr)
<1>1. CASE UsedAt(m, addr) = {}
  BY <1>1 DEF Mfree, KeepsUsed
<1>2. CASE UsedAt(m, addr) # {}
  BY <1>2, MfreeTakes DEF KeepsUsed
<1> QED
  BY <1>1, <1>2

(* The upper part of a used block goes to the free list. *)
LEMMA CutKeeps ==
  ASSUME NEW m, Sound(m, {}), RoverOnList(m), NEW x \in UsedNodes(m),
         NEW n \in Nat, n <= m.heap[x].size, NEW new \in Node \ DOMAIN m.heap
  PROVE  /\ Sound(Cut(m, x, n, new), {})
         /\ RoverOnList(Cut(m, x, n, new))
         /\ KeepsUsed(m, Cut(m, x, n, new), m.heap[x].start)
         /\ UsedNodes(Cut(m, x, n, new)) = UsedNodes(m)
         /\ Cut(m, x, n, new).heap[x].start = m.heap[x].start
         /\ Cut(m, x, n, new).heap[x].size = n
         /\ \A u \in UsedNodes(m) \ {x} : Cut(m, x, n, new).heap[u] = m.heap[u]
<1> DEFINE w == [m EXCEPT !.heap = Split(@, x, n, new)]
<1>1. Cut(m, x, n, new) = FreeBlock(w, new)
  BY DEF Cut
<1>2. /\ DOMAIN w = {"free", "used", "heap", "rover"}
      /\ w.free = m.free /\ w.used = m.used
      /\ w.heap = Split(m.heap, x, n, new) /\ w.rover = m.rover
  BY DEF Sound, IsLists
<1> HIDE DEF w
<1>3. Splittable(m.heap, DOMAIN m.heap, x, n, new)
  BY DEF Splittable, Sound, IsLists, OnOneList
<1>4. SplitSound(m.heap, DOMAIN m.heap, x, w.heap, new)
  BY <1>2, <1>3, SplitTiles
<1>5. /\ w.heap \in [DOMAIN m.heap \cup {new} -> Block] /\ Tiles(w.heap)
      /\ \A y \in DOMAIN m.heap \ {x} : w.heap[y] = m.heap[y]
  BY <1>4 DEF SplitSound
<1>6. IsLists(w)
  <2>1. w.heap \in [DOMAIN w.heap -> Block] /\ DOMAIN w.heap \subseteq Node
    BY <1>5 DEF Sound, IsLists
  <2> QED
    BY <2>1, <1>2 DEF Sound, IsLists
<1>7. OnOneList(w, {new})
  <2>1. DOMAIN w.heap = DOMAIN m.heap \cup {new}
    BY <1>5
  <2> QED
    BY <2>1, <1>2 DEF Sound, OnOneList, FreeNodes, UsedNodes
<1>8. RoverOnList(w)
  BY <1>2 DEF RoverOnList, FreeNodes
<1>9. /\ Sound(FreeBlock(w, new), {}) /\ RoverOnList(FreeBlock(w, new))
      /\ SameUsed(w, FreeBlock(w, new))
  BY <1>5, <1>6, <1>7, <1>8, FreeBlockKeeps DEF Sound
<1>10. KeepsUsed(m, FreeBlock(w, new), m.heap[x].start)
  <2>1. UsedNodes(m) \subseteq DOMAIN m.heap
    BY DEF Sound, OnOneList
  <2> QED
    BY <2>1, <1>2, <1>5, <1>9 DEF KeepsUsed, SameUsed, UsedNodes
<1>11. w.heap[x].start = m.heap[x].start /\ w.heap[x].size = n
  BY <1>2 DEF Split, Sound, OnOneList
<1>12. /\ UsedNodes(FreeBlock(w, new)) = UsedNodes(m)
       /\ FreeBlock(w, new).heap[x].start = m.heap[x].start
       /\ FreeBlock(w, new).heap[x].size = n
       /\ \A u \in UsedNodes(m) \ {x} : FreeBlock(w, new).heap[u] = m.heap[u]
  <2>1. UsedNodes(m) \subseteq DOMAIN m.heap
    BY DEF Sound, OnOneList
  <2> QED
    BY <2>1, <1>2, <1>5, <1>9, <1>11 DEF SameUsed, UsedNodes
<1> QED
  BY <1>1, <1>9, <1>10, <1>12

(* Mshrink keeps the lists in order and all other blocks. *)
LEMMA MshrinkKeeps ==
  ASSUME NEW m, Sound(m, {}), RoverOnList(m), NEW addr, NEW newsiz \in Nat,
         NEW new \in Node \ DOMAIN m.heap
  PROVE  /\ Sound(Mshrink(m, addr, newsiz, new).mem, {})
         /\ RoverOnList(Mshrink(m, addr, newsiz, new).mem)
         /\ KeepsUsed(m, Mshrink(m, addr, newsiz, new).mem, addr)
<1> DEFINE n == Align4(newsiz)
           x == m.used[Min(UsedAt(m, addr))]
           r == Mshrink(m, addr, newsiz, new)
<1>1. CASE newsiz = 0
  BY <1>1, MfreeKeeps DEF Mshrink
<1>2. CASE newsiz # 0 /\ (UsedAt(m, addr) = {} \/ m.heap[x].size < n)
  <2>1. r.mem = m
    BY <1>2 DEF Mshrink
  <2> QED
    BY <2>1 DEF KeepsUsed
<1>3. CASE newsiz # 0 /\ UsedAt(m, addr) # {} /\ ~ (m.heap[x].size < n)
  <2>1. r.mem = Cut(m, x, n, new)
    BY <1>3 DEF Mshrink
  <2>2. x \in UsedNodes(m) /\ m.heap[x].start = addr
    BY <1>3, UsedAtMin DEF Sound, UsedNodes, Range
  <2>3. n \in Nat
    BY Align4Nat
  <2> HIDE DEF x, n, r
  <2>4. n <= m.heap[x].size
    BY <1>3, <2>2, <2>3 DEF Sound, IsLists, OnOneList, Block
  <2> QED
    BY <2>1, <2>2, <2>3, <2>4, CutKeeps DEF r
<1> QED
  BY <1>1, <1>2, <1>3

-----------------------------------------------------------------------------
(* The memory that InitMemory leaves.                                        *)
LEMMA InitMemorySound ==
  ASSUME NEW first \in Node
  PROVE  /\ Sound(InitMemory(first), {})
         /\ InitMemory(first).rover = FreeHead
         /\ InitMemory(first).free = <<first>>
<1> DEFINE m == InitMemory(first)
<1>1. /\ DOMAIN m = {"free", "used", "heap", "rover"}
      /\ m.free = <<first>> /\ m.used = <<>> /\ m.rover = FreeHead
      /\ m.heap = [n \in {first} |-> [start |-> MemBot, size |-> MemTop - MemBot]]
  BY DEF InitMemory
<1> HIDE DEF m
<1>2. /\ DOMAIN m.heap = {first}
      /\ m.heap[first] = [start |-> MemBot, size |-> MemTop - MemBot]
      /\ m.heap \in [DOMAIN m.heap -> Block]
  BY <1>1, MemAssumption DEF Block
<1>3. IsLists(m)
  BY <1>1, <1>2 DEF IsLists
<1>4. Range(m.free) = {first} /\ Range(m.used) = {}
  BY <1>1 DEF Range
<1>5. OnOneList(m, {})
  BY <1>1, <1>2, <1>4 DEF OnOneList, FreeNodes, UsedNodes, IsInjective
<1>6. Tiles(m.heap)
  BY <1>2, MemAssumption DEF Tiles, Holds, End
<1> QED
  BY <1>1, <1>3, <1>5, <1>6 DEF Sound, m

(* Whatever is asked of it that is not too much is found, in its only block. *)
LEMMA InitMemoryFits ==
  ASSUME NEW first \in Node, NEW n \in Nat, n <= MemTop - MemBot
  PROVE  /\ Fits(InitMemory(first), n) = {1}
         /\ Probe(InitMemory(first), 1) = 1
<1> DEFINE m == InitMemory(first)
<1>1. /\ m.free = <<first>> /\ m.rover = FreeHead
      /\ m.heap[first].size = MemTop - MemBot
  BY DEF InitMemory
<1> HIDE DEF m
<1>2. DOMAIN m.free = {1} /\ Len(m.free) = 1 /\ m.free[1] = first
  BY <1>1
<1>3. RoverAt(m) = 0
  BY <1>1 DEF RoverAt
<1>4. Probe(m, 1) = 1
  BY <1>2, <1>3 DEF Probe
<1>5. Fits(m, n) = {1}
  BY <1>1, <1>2, <1>4, MemAssumption DEF Fits
<1> QED
  BY <1>4, <1>5 DEF m

(* A block that is not empty holds the byte it starts at, and no other block
   does.                                                                     *)
LEMMA StartsDiffer ==
  ASSUME NEW m, Sound(m, {}), \A n \in DOMAIN m.heap : m.heap[n].size > 0,
         NEW x \in UsedNodes(m), NEW y \in UsedNodes(m),
         m.heap[x].start = m.heap[y].start
  PROVE  x = y
<1>1. /\ x \in DOMAIN m.heap /\ y \in DOMAIN m.heap
      /\ m.heap[x] \in Block /\ m.heap[y] \in Block
  BY DEF Sound, OnOneList, IsLists
<1> DEFINE a == m.heap[x].start
<1>2. /\ a \in Nat /\ m.heap[x].size \in Nat /\ m.heap[y].size \in Nat
      /\ m.heap[x].size > 0 /\ m.heap[y].size > 0 /\ m.heap[y].start = a
  BY <1>1 DEF Block
<1>3. MemBot <= a /\ End(m.heap[x]) <= MemTop
  BY <1>1 DEF Sound, Tiles
<1>4. a \in MemBot .. MemTop - 1 /\ Holds(m.heap, x, a) /\ Holds(m.heap, y, a)
  BY <1>2, <1>3, MemAssumption DEF Holds, End
<1> QED
  BY <1>1, <1>4 DEF Sound, Tiles

-----------------------------------------------------------------------------
(* What a call does to the addresses of the reserved blocks.                 *)

Starts(m) == {m.heap[n].start : n \in UsedNodes(m)}

NoneEmpty(m) == \A n \in DOMAIN m.heap : m.heap[n].size > 0

(* A search that finds a block hands out its front. *)
LEMMA MallocTakes ==
  ASSUME NEW m, Sound(m, {}), m.rover = FreeHead \/ RoverOnList(m), NEW size \in Nat,
         NEW new \in Node \ DOMAIN m.heap, m.free # <<>>, Fits(m, Align4(size)) # {}
  PROVE  \E b \in FreeNodes(m) :
           /\ Align4(size) <= m.heap[b].size
           /\ Malloc(m, size, new).ret = m.heap[b].start
           /\ UsedNodes(Malloc(m, size, new).mem) = UsedNodes(m) \cup {b}
           /\ Malloc(m, size, new).mem.heap[b] =
                [start |-> m.heap[b].start, size |-> Align4(size)]
           /\ \A u \in UsedNodes(m) : Malloc(m, size, new).mem.heap[u] = m.heap[u]
<1> DEFINE n == Align4(size)
           r == Malloc(m, size, new)
           i == Probe(m, Min(Fits(m, n)))
           b == m.free[i]
<1>1. r.mem = Take(m, i, n, new) /\ r.ret = m.heap[b].start
  BY DEF Malloc
<1>2. n \in Nat
  BY Align4Nat
<1>3. Min(Fits(m, n)) \in Fits(m, n)
  <2>1. Fits(m, n) \in SUBSET Nat
    BY DEF Fits, Sound, IsLists
  <2> QED
    BY <2>1, MinIsMember
<1>4. i \in DOMAIN m.free /\ m.heap[b].size >= n
  BY <1>3, ProbeInRange DEF Fits, RoverOnList, Sound
<1> HIDE DEF n, i, r
<1>5. /\ b \in FreeNodes(m) /\ b \in DOMAIN m.heap /\ b \notin UsedNodes(m)
      /\ m.heap[b] \in Block
  BY <1>4 DEF Sound, IsLists, OnOneList, FreeNodes, Range
<1>6. n <= m.heap[b].size
  BY <1>2, <1>4, <1>5 DEF Block
<1> DEFINE w == Take(m, i, n, new)
<1>7. /\ w.used = <<b>> \o m.used
      /\ \A u \in UsedNodes(m) : w.heap[u] = m.heap[u]
  BY <1>2, <1>4, <1>6, TakeKeeps
<1>8. w.heap[b] = [start |-> m.heap[b].start, size |-> n]
  <2>1. CASE m.heap[b].size = n
    BY <1>5, <2>1 DEF Take, Block
  <2>2. CASE m.heap[b].size # n
    BY <1>5, <2>2 DEF Take, Split
  <2> QED
    BY <2>1, <2>2
<1> HIDE DEF w
<1>9. UsedNodes(w) = UsedNodes(m) \cup {b}
  <2>1. m.used \in Seq(Node) /\ b \in Node
    BY <1>5 DEF Sound, IsLists
  <2> QED
    BY <1>7, <2>1, ConsList DEF UsedNodes
<1> QED
  BY <1>1, <1>5, <1>6, <1>7, <1>8, <1>9 DEF r, w, n

(* Malloc answers 0 and does nothing, or answers an address at which no reserved
   block started before.                                                     *)
LEMMA MallocReserves ==
  ASSUME NEW m, Sound(m, {}), RoverOnList(m), NEW size \in Nat,
         NEW new \in Node \ DOMAIN m.heap, NoneEmpty(Malloc(m, size, new).mem)
  PROVE  \/ Malloc(m, size, new).ret = 0 /\ Malloc(m, size, new).mem = m
         \/ /\ Malloc(m, size, new).ret \in MemBot .. MemTop
            /\ Malloc(m, size, new).ret \notin Starts(m)
            /\ Starts(Malloc(m, size, new).mem) = Starts(m) \cup {Malloc(m, size, new).ret}
<1> DEFINE n == Align4(size)
           r == Malloc(m, size, new)
           w == r.mem
<1>1. CASE m.free = <<>> \/ Fits(m, n) = {}
  <2>1. r = [mem |-> m, ret |-> 0]
    BY <1>1 DEF Malloc
  <2> QED
    BY <2>1
<1>2. CASE m.free # <<>> /\ Fits(m, n) # {}
  <2>1. PICK b \in FreeNodes(m) :
          /\ r.ret = m.heap[b].start
          /\ UsedNodes(w) = UsedNodes(m) \cup {b}
          /\ w.heap[b] = [start |-> m.heap[b].start, size |-> n]
          /\ \A u \in UsedNodes(m) : w.heap[u] = m.heap[u]
    BY <1>2, MallocTakes
  <2>2. Sound(w, {}) /\ \A y \in DOMAIN w.heap : w.heap[y].size > 0
    BY MallocKeeps DEF NoneEmpty
  <2>3. b \in DOMAIN m.heap /\ b \notin UsedNodes(m) /\ m.heap[b] \in Block
    BY DEF Sound, IsLists, OnOneList
  <2> HIDE DEF r, w
  <2>4. Starts(w) = Starts(m) \cup {m.heap[b].start}
    BY <2>1 DEF Starts
  <2>5. m.heap[b].start \notin Starts(m)
    <3>1. SUFFICES ASSUME NEW u \in UsedNodes(m), m.heap[u].start = m.heap[b].start
                   PROVE  FALSE
      BY DEF Starts
    <3>2. w.heap[u].start = w.heap[b].start /\ u \in UsedNodes(w) /\ b \in UsedNodes(w)
      BY <2>1, <3>1
    <3>3. u = b
      BY <2>2, <3>2, StartsDiffer
    <3> QED
      BY <2>3, <3>3
  <2>6. m.heap[b].start \in MemBot .. MemTop
    <3>1. MemBot <= m.heap[b].start /\ End(m.heap[b]) <= MemTop
      BY <2>3 DEF Sound, Tiles
    <3> QED
      BY <2>3, <3>1, MemAssumption DEF End, Block
  <2> QED
    BY <2>1, <2>4, <2>5, <2>6 DEF w, r
<1> QED
  BY <1>1, <1>2

(* Mfree of an address at which a reserved block starts works, and leaves no
   reserved block there.                                                     *)
LEMMA MfreeReleases ==
  ASSUME NEW m, Sound(m, {}), RoverOnList(m), NoneEmpty(m), NEW addr \in Starts(m)
  PROVE  /\ Mfree(m, addr).ret = E_OK
         /\ Starts(Mfree(m, addr).mem) = Starts(m) \ {addr}
<1>1. UsedAt(m, addr) # {}
  BY DEF UsedAt, Starts, UsedNodes, Range
<1>2. PICK x \in UsedNodes(m) :
        /\ m.heap[x].start = addr
        /\ UsedNodes(Mfree(m, addr).mem) = UsedNodes(m) \ {x}
        /\ \A u \in UsedNodes(m) \ {x} : Mfree(m, addr).mem.heap[u] = m.heap[u]
  BY <1>1, MfreeTakes
<1>3. \A u \in UsedNodes(m) : m.heap[u].start = addr => u = x
  BY <1>2, StartsDiffer DEF NoneEmpty
<1>4. Mfree(m, addr).ret = E_OK
  BY <1>1 DEF Mfree
<1> QED
  BY <1>2, <1>3, <1>4 DEF Starts

(* Mshrink to more than nothing moves no block. *)
LEMMA MshrinkStays ==
  ASSUME NEW m, Sound(m, {}), RoverOnList(m), NEW addr, NEW newsiz \in Nat \ {0},
         NEW new \in Node \ DOMAIN m.heap
  PROVE  Starts(Mshrink(m, addr, newsiz, new).mem) = Starts(m)
<1> DEFINE n == Align4(newsiz)
           x == m.used[Min(UsedAt(m, addr))]
           r == Mshrink(m, addr, newsiz, new)
<1>1. CASE UsedAt(m, addr) = {} \/ m.heap[x].size < n
  BY <1>1 DEF Mshrink
<1>2. CASE UsedAt(m, addr) # {} /\ ~ (m.heap[x].size < n)
  <2>1. r.mem = Cut(m, x, n, new)
    BY <1>2 DEF Mshrink
  <2>2. x \in UsedNodes(m)
    BY <1>2, UsedAtMin DEF Sound, UsedNodes, Range
  <2>3. n \in Nat
    BY Align4Nat
  <2> HIDE DEF x, n, r
  <2>4. n <= m.heap[x].size
    BY <1>2, <2>2, <2>3 DEF Sound, IsLists, OnOneList, Block
  <2>5. /\ UsedNodes(r.mem) = UsedNodes(m)
        /\ \A u \in UsedNodes(m) : r.mem.heap[u].start = m.heap[u].start
    BY <2>1, <2>2, <2>3, <2>4, CutKeeps
  <2> QED
    BY <2>5 DEF Starts, r
<1> QED
  BY <1>1, <1>2

-----------------------------------------------------------------------------
(* The free list is sorted by address, and neighbours on it do not touch except
   at the positions of T, where a block has just been put in.                *)
Order(m, T) ==
  \A i, j \in DOMAIN m.free : i < j =>
    /\ End(m.heap[m.free[i]]) <= m.heap[m.free[j]].start
    /\ End(m.heap[m.free[i]]) = m.heap[m.free[j]].start => j = i + 1 /\ i \in T

(* Two blocks that are not empty lie one after the other. *)
LEMMA BlocksApart ==
  ASSUME NEW D, NEW h \in [D -> Block], Tiles(h), NEW x \in D, NEW y \in D, x # y,
         h[x].size > 0, h[y].size > 0
  PROVE  End(h[x]) <= h[y].start \/ End(h[y]) <= h[x].start
<1>1. SUFFICES ASSUME End(h[x]) > h[y].start, End(h[y]) > h[x].start
               PROVE  FALSE
  BY DEF End, Block
<1> DEFINE a == IF h[x].start <= h[y].start THEN h[y].start ELSE h[x].start
<1>2. a \in Nat /\ Holds(h, x, a) /\ Holds(h, y, a)
  BY <1>1 DEF Holds, End, Block
<1>3. MemBot <= h[x].start /\ End(h[x]) <= MemTop
  BY DEF Tiles
<1>4. a \in MemBot .. MemTop - 1
  BY <1>2, <1>3, MemAssumption DEF Holds, End, Block
<1> QED
  BY <1>2, <1>4 DEF Tiles

(* The blocks before the slot of x start below x, the others do not. *)
LEMMA SlotIsFirst ==
  ASSUME NEW m, IsLists(m), NEW x
  PROVE  /\ Slot(m, x) \in 1 .. Len(m.free) + 1
         /\ \A i \in DOMAIN m.free :
              i < Slot(m, x) => ~ (m.heap[x].start <= m.heap[m.free[i]].start)
         /\ Slot(m, x) \in DOMAIN m.free =>
              m.heap[x].start <= m.heap[m.free[Slot(m, x)]].start
<1> DEFINE S == {i \in 1 .. Len(m.free) + 1 :
                   i \in DOMAIN m.free => m.heap[x].start <= m.heap[m.free[i]].start}
<1>1. Len(m.free) \in Nat /\ DOMAIN m.free = 1 .. Len(m.free)
  BY DEF IsLists
<1>2. S \in SUBSET Nat /\ Len(m.free) + 1 \in S
  BY <1>1
<1>3. Slot(m, x) = Min(S)
  BY DEF Slot
<1> HIDE DEF S
<1>4. Min(S) \in S /\ \A i \in S : Min(S) <= i
  BY <1>2, MinIsMember
<1>5. ASSUME NEW i \in DOMAIN m.free, i < Slot(m, x)
      PROVE  ~ (m.heap[x].start <= m.heap[m.free[i]].start)
  <2>1. i < Min(S) /\ Min(S) \in Nat
    BY <1>2, <1>3, <1>4, <1>5
  <2>2. i \in 1 .. Len(m.free) + 1
    BY <1>1
  <2>3. i \notin S
    BY <1>4, <2>1, <2>2
  <2> QED
    BY <2>2, <2>3 DEF S
<1>6. Min(S) \in 1 .. Len(m.free) + 1
  BY <1>4 DEF S
<1>7. Min(S) \in DOMAIN m.free => m.heap[x].start <= m.heap[m.free[Min(S)]].start
  BY <1>4 DEF S
<1> QED
  BY <1>3, <1>5, <1>6, <1>7

(* A block inserted at its slot touches at most the blocks on either side. *)
LEMMA InsertOrders ==
  ASSUME NEW m, NEW x \in Node, Sound(m, {x}), Order(m, {}),
         \A f \in FreeNodes(m) :
           /\ m.heap[f].size > 0
           /\ End(m.heap[f]) <= m.heap[x].start \/ End(m.heap[x]) <= m.heap[f].start
  PROVE  Order(Insert(m, x), {Slot(m, x) - 1, Slot(m, x)})
<1> DEFINE k == Slot(m, x)
           w == Insert(m, x)
           L == Len(m.free)
           S(p) == m.heap[m.free[p]].start
           E(p) == End(m.heap[m.free[p]])
           xs == m.heap[x].start
           xe == End(m.heap[x])
<1>1. L \in Nat /\ DOMAIN m.free = 1 .. L /\ m.free \in Seq(Node)
  BY DEF Sound, IsLists
<1>2. /\ k \in 1 .. L + 1
      /\ \A p \in 1 .. L : p < k => ~ (xs <= S(p))
      /\ k \in 1 .. L => xs <= S(k)
  BY <1>1, SlotIsFirst DEF Sound
<1>3. xs \in Nat /\ xe \in Nat /\ xs <= xe
  BY DEF Sound, IsLists, OnOneList, Block, End
<1>4. \A p \in 1 .. L : /\ S(p) \in Nat /\ E(p) \in Nat /\ S(p) < E(p)
                        /\ E(p) <= xs \/ xe <= S(p)
  <2> TAKE p \in 1 .. L
  <2>1. m.free[p] \in FreeNodes(m) /\ m.heap[m.free[p]] \in Block
    BY <1>1 DEF FreeNodes, Range, Sound, OnOneList, IsLists
  <2>2. /\ m.heap[m.free[p]].size > 0
        /\ E(p) <= xs \/ xe <= S(p)
    BY <2>1
  <2> QED
    BY <2>1, <2>2 DEF Block, End
<1>5. \A p, q \in 1 .. L : p < q => E(p) < S(q)
  <2> TAKE p, q \in 1 .. L
  <2> HAVE p < q
  <2>1. E(p) <= S(q) /\ ~ (E(p) = S(q))
    BY <1>1 DEF Order
  <2> QED
    BY <1>4, <2>1
<1>6. /\ w.heap = m.heap /\ w.free = InsertAt(m.free, k, x)
  BY DEF Insert, Sound, IsLists
<1> HIDE DEF k, w, L
<1>7. /\ Len(w.free) = L + 1 /\ w.free \in Seq(Node)
      /\ \A p \in 1 .. L + 1 :
           /\ p < k => w.free[p] = m.free[p]
           /\ p = k => w.free[p] = x
           /\ p > k => w.free[p] = m.free[p - 1]
  <2>1. k \in 1 .. Len(m.free) + 1
    BY <1>2 DEF L
  <2>2. m.free \in Seq(Node) /\ x \in Node
    BY <1>1
  <2>3. InsertAt(m.free, k, x) \in Seq(Node)
    BY ONLY <2>1, <2>2, InsertAtList
  <2>4. Len(InsertAt(m.free, k, x)) = Len(m.free) + 1
    BY ONLY <2>1, <2>2, InsertAtList
  <2>5. \A p \in 1 .. Len(m.free) + 1 :
          /\ p < k => InsertAt(m.free, k, x)[p] = m.free[p]
          /\ p = k => InsertAt(m.free, k, x)[p] = x
          /\ p > k => InsertAt(m.free, k, x)[p] = m.free[p - 1]
    BY ONLY <2>1, <2>2, InsertAtList
  <2> QED
    BY <1>6, <2>3, <2>4, <2>5 DEF L
<1>8. DOMAIN w.free = 1 .. L + 1
  BY <1>7
<1> DEFINE WS(p) == w.heap[w.free[p]].start
           WE(p) == End(w.heap[w.free[p]])
<1>9. \A p \in 1 .. L + 1 :
        /\ p < k => WS(p) = S(p) /\ WE(p) = E(p)
        /\ p = k => WS(p) = xs /\ WE(p) = xe
        /\ p > k => WS(p) = S(p - 1) /\ WE(p) = E(p - 1)
  <2> TAKE p \in 1 .. L + 1
  <2> QED
    BY <1>6, <1>7
<1> HIDE DEF S, E, xs, xe, WS, WE
<1>10. \A p \in 1 .. L : p < k => E(p) <= xs
  BY <1>2, <1>3, <1>4
<1>11. \A p \in 1 .. L : p >= k => xe <= S(p)
  <2> TAKE p \in 1 .. L
  <2> HAVE p >= k
  <2>1. k \in 1 .. L /\ xs <= S(k)
    BY <1>1, <1>2
  <2>2. S(k) <= S(p)
    <3>1. CASE p = k
      BY <1>4, <2>1, <3>1
    <3>2. CASE p > k
      BY <1>4, <1>5, <2>1, <3>2
    <3> QED
      BY <1>1, <1>2, <3>1, <3>2
  <2> QED
    BY <1>3, <1>4, <2>1, <2>2
<1>12. ASSUME NEW p \in 1 .. L + 1, NEW q \in 1 .. L + 1, p < q
       PROVE  /\ WE(p) <= WS(q)
              /\ WE(p) = WS(q) => q = p + 1 /\ p \in {k - 1, k}
  <2>1. CASE q < k
    BY <1>1, <1>2, <1>4, <1>5, <1>9, <1>12, <2>1
  <2>2. CASE q = k
    <3>1. p \in 1 .. L /\ p < k
      BY <1>1, <1>2, <1>12, <2>2
    <3>2. WE(p) = E(p) /\ WS(q) = xs /\ E(p) <= xs
      BY <1>9, <1>10, <1>12, <2>2, <3>1
    <3>3. CASE p = k - 1
      BY <1>2, <2>2, <3>2, <3>3
    <3>4. CASE p < k - 1
      <4>1. k - 1 \in 1 .. L /\ E(p) < S(k - 1) /\ S(k - 1) < E(k - 1) /\ E(k - 1) <= xs
        BY <1>1, <1>2, <1>4, <1>5, <1>10, <3>1, <3>4
      <4>2. E(p) \in Nat /\ E(k - 1) \in Nat /\ S(k - 1) \in Nat
        BY <1>4, <3>1, <4>1
      <4> QED
        BY <1>3, <3>2, <4>1, <4>2
    <3> QED
      BY <1>1, <1>2, <3>1, <3>3, <3>4
  <2>3. CASE q > k
    <3>1. q - 1 \in 1 .. L /\ q - 1 >= k /\ WS(q) = S(q - 1)
      BY <1>1, <1>2, <1>9, <2>3
    <3>2. CASE p < k
      <4>1. p \in 1 .. L /\ p < q - 1 /\ WE(p) = E(p)
        BY <1>1, <1>2, <1>9, <3>1, <3>2
      <4>2. E(p) < S(q - 1) /\ E(p) \in Nat /\ S(q - 1) \in Nat
        BY <1>4, <1>5, <3>1, <4>1
      <4> QED
        BY <3>1, <4>1, <4>2
    <3>3. CASE p = k
      <4>1. WE(p) = xe /\ xe <= S(q - 1)
        BY <1>9, <1>11, <3>1, <3>3
      <4>2. CASE q = k + 1
        BY <3>1, <3>3, <4>1, <4>2
      <4>3. CASE q > k + 1
        <5>1. k \in 1 .. L /\ xe <= S(k) /\ S(k) < E(k) /\ E(k) < S(q - 1)
          BY <1>1, <1>2, <1>4, <1>5, <1>11, <3>1, <4>3
        <5>2. S(k) \in Nat /\ E(k) \in Nat /\ S(q - 1) \in Nat
          BY <1>4, <3>1, <5>1
        <5> QED
          BY <1>3, <3>1, <4>1, <5>1, <5>2
      <4> QED
        BY <1>1, <1>2, <2>3, <4>2, <4>3
    <3>4. CASE p > k
      <4>1. p - 1 \in 1 .. L /\ p - 1 < q - 1 /\ WE(p) = E(p - 1)
        BY <1>1, <1>2, <1>9, <1>12, <3>4
      <4>2. E(p - 1) < S(q - 1) /\ E(p - 1) \in Nat /\ S(q - 1) \in Nat
        BY <1>4, <1>5, <3>1, <4>1
      <4> QED
        BY <3>1, <4>1, <4>2
    <3> QED
      BY <1>1, <1>2, <3>2, <3>3, <3>4
  <2> QED
    BY <1>1, <1>2, <2>1, <2>2, <2>3
<1> QED
  BY <1>8, <1>12 DEF Order, WS, WE, w, k

(* Joining a block with its successor leaves no pair that touches there. *)
LEMMA JoinOrders ==
  ASSUME NEW m, Sound(m, {}), NEW i \in Int, NEW T \in SUBSET Int, Order(m, T),
         \A t \in T : t <= i
  PROVE  Order(Join(m, i), T \ {i})
<1>1. CASE ~ Meets(m, i)
  <2>1. Join(m, i) = m
    BY <1>1 DEF Join
  <2>2. ASSUME NEW p \in DOMAIN m.free, NEW q \in DOMAIN m.free, p < q,
               End(m.heap[m.free[p]]) = m.heap[m.free[q]].start
        PROVE  q = p + 1 /\ p \in T \ {i}
    <3>1. q = p + 1 /\ p \in T
      BY <2>2 DEF Order
    <3>2. p # i
      BY <1>1, <2>2, <3>1 DEF Meets
    <3> QED
      BY <3>1, <3>2
  <2> QED
    BY <2>1, <2>2 DEF Order
<1>2. CASE Meets(m, i)
  <2> DEFINE w == Absorb(m, i)
             L == Len(m.free)
             x == m.free[i]
             y == m.free[i + 1]
             S(p) == m.heap[m.free[p]].start
             E(p) == End(m.heap[m.free[p]])
             WS(p) == w.heap[w.free[p]].start
             WE(p) == End(w.heap[w.free[p]])
  <2>1. /\ L \in Nat /\ DOMAIN m.free = 1 .. L /\ m.free \in Seq(Node)
        /\ i \in 1 .. L /\ i + 1 \in 1 .. L /\ E(i) = S(i + 1)
    BY <1>2 DEF Meets, Sound, IsLists
  <2>2. /\ IsInjective(m.free)
        /\ \A p, q \in 1 .. L : m.free[p] = m.free[q] => p = q
    BY <2>1 DEF Sound, OnOneList, IsInjective
  <2>3. \A p \in 1 .. L : /\ m.free[p] \in DOMAIN m.heap /\ m.heap[m.free[p]] \in Block
                          /\ S(p) \in Nat /\ E(p) \in Nat
    <3> TAKE p \in 1 .. L
    <3>1. m.free[p] \in DOMAIN m.heap
      BY <2>1 DEF Sound, OnOneList, FreeNodes, Range
    <3>2. m.heap[m.free[p]] \in Block
      BY <3>1 DEF Sound, IsLists
    <3> QED
      BY <3>1, <3>2 DEF Block, End
  <2>4. /\ w.free = RemoveAt(m.free, i + 1) /\ w.heap = Merge(m.heap, x, y)
    BY DEF Absorb
  <2> HIDE DEF w, L
  <2>5. /\ Len(w.free) = L - 1 /\ w.free \in Seq(Node)
        /\ \A p \in 1 .. L - 1 :
             w.free[p] = IF p < i + 1 THEN m.free[p] ELSE m.free[p + 1]
    <3>1. i + 1 \in DOMAIN m.free
      BY <2>1
    <3>2. /\ Len(RemoveAt(m.free, i + 1)) = Len(m.free) - 1
          /\ RemoveAt(m.free, i + 1) \in Seq(Node)
          /\ \A p \in 1 .. Len(m.free) - 1 :
               RemoveAt(m.free, i + 1)[p] = IF p < i + 1 THEN m.free[p] ELSE m.free[p + 1]
      BY ONLY <2>1, <2>2, <3>1, RemoveAtList
    <3> QED
      BY <2>4, <3>2 DEF L
  <2>6. DOMAIN w.free = 1 .. L - 1
    BY <2>5
  <2>7. /\ w.heap[x] = [start |-> S(i), size |-> m.heap[x].size + m.heap[y].size]
        /\ \A z \in DOMAIN m.heap \ {x, y} : w.heap[z] = m.heap[z]
    <3>1. x \in DOMAIN m.heap /\ y \in DOMAIN m.heap /\ x # y
      BY <2>1, <2>2, <2>3
    <3> HIDE DEF x, y
    <3>2. /\ Merge(m.heap, x, y)[x] =
               [start |-> m.heap[x].start, size |-> m.heap[x].size + m.heap[y].size]
          /\ \A z \in DOMAIN m.heap \ {x, y} : Merge(m.heap, x, y)[z] = m.heap[z]
      BY ONLY <3>1 DEF Merge
    <3> QED
      BY <2>4, <3>2 DEF x
  <2>8. w.heap[x].start = S(i) /\ End(w.heap[x]) = E(i + 1)
    BY <2>1, <2>3, <2>7 DEF End, Block
  <2>9. \A p \in 1 .. L - 1 :
          /\ p < i => WS(p) = S(p) /\ WE(p) = E(p)
          /\ p = i => WS(p) = S(i) /\ WE(p) = E(i + 1)
          /\ p > i => WS(p) = S(p + 1) /\ WE(p) = E(p + 1)
    <3> TAKE p \in 1 .. L - 1
    <3>1. CASE p < i
      <4>1. p \in 1 .. L /\ p # i /\ p # i + 1 /\ p < i + 1
        BY <2>1, <3>1
      <4>2. w.free[p] = m.free[p]
        BY <2>5, <4>1
      <4>3. m.free[p] \in DOMAIN m.heap /\ m.free[p] # x /\ m.free[p] # y
        BY <2>1, <2>2, <2>3, <4>1
      <4> QED
        BY <2>1, <2>7, <3>1, <4>2, <4>3
    <3>2. CASE p = i
      <4>1. w.free[p] = x
        BY <2>1, <2>5, <3>2
      <4> QED
        BY <2>8, <3>2, <4>1
    <3>3. CASE p > i
      <4>1. p + 1 \in 1 .. L /\ p + 1 # i /\ p + 1 # i + 1 /\ ~ (p < i + 1)
        BY <2>1, <3>3
      <4>2. w.free[p] = m.free[p + 1]
        BY <2>5, <4>1
      <4>3. m.free[p + 1] \in DOMAIN m.heap /\ m.free[p + 1] # x /\ m.free[p + 1] # y
        BY <2>1, <2>2, <2>3, <4>1
      <4> QED
        BY <2>1, <2>7, <3>3, <4>2, <4>3
    <3> QED
      BY <2>1, <3>1, <3>2, <3>3
  <2>10. \A p, q \in 1 .. L : p < q =>
           E(p) <= S(q) /\ (E(p) = S(q) => q = p + 1 /\ p \in T)
    BY <2>1 DEF Order
  <2> HIDE DEF x, y, S, E, WS, WE
  <2>11. ASSUME NEW p \in 1 .. L - 1, NEW q \in 1 .. L - 1, p < q
         PROVE  WE(p) <= WS(q) /\ (WE(p) = WS(q) => q = p + 1 /\ p \in T \ {i})
    <3>1. CASE q <= i
      <4>1. WE(p) = E(p) /\ WS(q) = S(q)
        BY <2>1, <2>9, <2>11, <3>1
      <4> QED
        BY <2>1, <2>10, <2>11, <3>1, <4>1
    <3>2. CASE q > i /\ p < i
      <4>1. WE(p) = E(p) /\ WS(q) = S(q + 1)
        BY <2>1, <2>9, <3>2
      <4>2. p \in 1 .. L /\ q + 1 \in 1 .. L /\ p < q + 1 /\ q + 1 # p + 1
        BY <2>1, <2>11
      <4> QED
        BY <2>10, <4>1, <4>2
    <3>3. CASE q > i /\ p >= i
      <4>1. WE(p) = E(p + 1) /\ WS(q) = S(q + 1)
        BY <2>1, <2>9, <3>3
      <4>2. p + 1 \in 1 .. L /\ q + 1 \in 1 .. L /\ p + 1 < q + 1
        BY <2>1, <2>11
      <4>3. p + 1 \notin T
        BY <2>1, <3>3
      <4> QED
        BY <2>10, <4>1, <4>2, <4>3
    <3> QED
      BY <2>1, <3>1, <3>2, <3>3
  <2>12. Order(w, T \ {i})
    BY <2>6, <2>11 DEF Order, WS, WE
  <2>13. Join(m, i) = w
    BY <1>2 DEF Join, w
  <2> QED
    BY <2>12, <2>13
<1> QED
  BY <1>1, <1>2

(* freeBlock joins the block with both neighbours, so no two free blocks touch. *)
LEMMA FreeBlockOrders ==
  ASSUME NEW m, NEW x \in Node, Sound(m, {x}), RoverOnList(m), Order(m, {}),
         \A f \in FreeNodes(m) :
           /\ m.heap[f].size > 0
           /\ End(m.heap[f]) <= m.heap[x].start \/ End(m.heap[x]) <= m.heap[f].start
  PROVE  Order(FreeBlock(m, x), {})
<1> DEFINE k == Slot(m, x)
           m1 == Insert(m, x)
           m2 == Join(m1, k)
<1>1. k \in Int /\ k - 1 \in Int
  <2>1. k \in 1 .. Len(m.free) + 1 /\ Len(m.free) \in Nat
    BY SlotInRange DEF Sound, IsLists
  <2> QED
    BY <2>1
<1>2. Sound(m1, {}) /\ RoverOnList(m1)
  BY InsertKeeps
<1>3. Order(m1, {k - 1, k})
  BY InsertOrders
<1> HIDE DEF k, m1
<1>4. Sound(m2, {})
  BY <1>1, <1>2, JoinKeeps
<1>5. Order(m2, {k - 1})
  <2>1. {k - 1, k} \in SUBSET Int /\ \A t \in {k - 1, k} : t <= k
    BY <1>1
  <2>2. Order(m2, {k - 1, k} \ {k})
    BY <1>1, <1>2, <1>3, <2>1, JoinOrders
  <2>3. {k - 1, k} \ {k} = {k - 1}
    BY <1>1
  <2> QED
    BY <2>2, <2>3
<1> HIDE DEF m2
<1>6. Order(Join(m2, k - 1), {})
  <2>1. {k - 1} \in SUBSET Int /\ \A t \in {k - 1} : t <= k - 1
    BY <1>1
  <2>2. Order(Join(m2, k - 1), {k - 1} \ {k - 1})
    BY <1>1, <1>4, <1>5, <2>1, JoinOrders
  <2>3. {k - 1} \ {k - 1} = {}
    OBVIOUS
  <2> QED
    BY <2>2, <2>3
<1>7. FreeBlock(m, x) = Join(m2, k - 1)
  BY DEF FreeBlock, k, m1, m2
<1> QED
  BY <1>6, <1>7

(* What is left of a block that Malloc takes lies inside that block. *)
LEMMA TakeOrders ==
  ASSUME NEW m, Sound(m, {}), Order(m, {}), NEW i \in DOMAIN m.free,
         NEW n \in Nat, n <= m.heap[m.free[i]].size,
         NEW new \in Node \ DOMAIN m.heap
  PROVE  Order(Take(m, i, n, new), {})
<1> DEFINE w == Take(m, i, n, new)
           b == m.free[i]
           L == Len(m.free)
           S(p) == m.heap[m.free[p]].start
           E(p) == End(m.heap[m.free[p]])
           WS(p) == w.heap[w.free[p]].start
           WE(p) == End(w.heap[w.free[p]])
<1>1. /\ L \in Nat /\ DOMAIN m.free = 1 .. L /\ m.free \in Seq(Node)
      /\ IsInjective(m.free) /\ i \in 1 .. L
  BY DEF Sound, IsLists, OnOneList
<1>2. \A p \in 1 .. L : /\ m.free[p] \in DOMAIN m.heap /\ m.heap[m.free[p]] \in Block
                        /\ m.free[p] # new
                        /\ S(p) \in Nat /\ E(p) \in Nat
  <2> TAKE p \in 1 .. L
  <2>1. m.free[p] \in DOMAIN m.heap
    BY <1>1 DEF Sound, OnOneList, FreeNodes, Range
  <2>2. m.heap[m.free[p]] \in Block
    BY <2>1 DEF Sound, IsLists
  <2> QED
    BY <2>1, <2>2 DEF Block, End
<1>3. \A p, q \in 1 .. L : p < q => E(p) < S(q)
  <2> TAKE p, q \in 1 .. L
  <2> HAVE p < q
  <2>1. E(p) <= S(q) /\ ~ (E(p) = S(q))
    BY <1>1 DEF Order
  <2> QED
    BY <1>2, <2>1
<1>4. CASE m.heap[b].size = n
  <2>1. w.free = RemoveAt(m.free, i) /\ w.heap = m.heap
    BY <1>4 DEF Take
  <2> HIDE DEF w, L
  <2>2. /\ Len(RemoveAt(m.free, i)) = Len(m.free) - 1
        /\ RemoveAt(m.free, i) \in Seq(Node)
        /\ \A p \in 1 .. Len(m.free) - 1 :
             RemoveAt(m.free, i)[p] = IF p < i THEN m.free[p] ELSE m.free[p + 1]
    BY ONLY <1>1, i \in DOMAIN m.free, RemoveAtList
  <2>3. /\ Len(w.free) = L - 1 /\ DOMAIN w.free = 1 .. L - 1
        /\ \A p \in 1 .. L - 1 : w.free[p] = IF p < i THEN m.free[p] ELSE m.free[p + 1]
    BY <2>1, <2>2 DEF L
  <2>4. \A p \in 1 .. L - 1 : /\ p < i => WS(p) = S(p) /\ WE(p) = E(p)
                              /\ p >= i => WS(p) = S(p + 1) /\ WE(p) = E(p + 1)
    BY <1>1, <2>1, <2>3
  <2> HIDE DEF S, E, WS, WE
  <2>5. ASSUME NEW p \in 1 .. L - 1, NEW q \in 1 .. L - 1, p < q
        PROVE  WE(p) < WS(q) /\ WE(p) \in Nat /\ WS(q) \in Nat
    <3>1. CASE q < i
      <4>1. WE(p) = E(p) /\ WS(q) = S(q)
        BY <1>1, <2>4, <2>5, <3>1
      <4>2. p \in 1 .. L /\ q \in 1 .. L
        BY <1>1
      <4> QED
        BY <1>2, <1>3, <2>5, <4>1, <4>2
    <3>2. CASE p < i /\ q >= i
      <4>1. WE(p) = E(p) /\ WS(q) = S(q + 1)
        BY <2>4, <3>2
      <4>2. p \in 1 .. L /\ q + 1 \in 1 .. L /\ p < q + 1
        BY <1>1, <2>5
      <4> QED
        BY <1>2, <1>3, <4>1, <4>2
    <3>3. CASE p >= i
      <4>1. WE(p) = E(p + 1) /\ WS(q) = S(q + 1)
        BY <1>1, <2>4, <2>5, <3>3
      <4>2. p + 1 \in 1 .. L /\ q + 1 \in 1 .. L /\ p + 1 < q + 1
        BY <1>1, <2>5
      <4> QED
        BY <1>2, <1>3, <4>1, <4>2
    <3> QED
      BY <1>1, <2>5, <3>1, <3>2, <3>3
  <2>6. ASSUME NEW p \in 1 .. L - 1, NEW q \in 1 .. L - 1, p < q
        PROVE  WE(p) <= WS(q) /\ ~ (WE(p) = WS(q))
    BY <2>5, <2>6
  <2> QED
    BY <2>3, <2>6 DEF Order, WS, WE, w
<1>5. CASE m.heap[b].size # n
  <2>1. w.free = ReplaceAt(m.free, i, new) /\ w.heap = Split(m.heap, b, n, new)
    BY <1>5 DEF Take
  <2> HIDE DEF w, L
  <2>2. new \in Node /\ new \notin Range(m.free) /\ i \in DOMAIN m.free
    BY <1>1, <1>2 DEF Range
  <2>3. /\ DOMAIN ReplaceAt(m.free, i, new) = DOMAIN m.free
        /\ \A p \in DOMAIN m.free :
             ReplaceAt(m.free, i, new)[p] = IF p = i THEN new ELSE m.free[p]
    BY ONLY <1>1, <2>2, ReplaceAtList
  <2>4. /\ DOMAIN w.free = 1 .. L
        /\ \A p \in 1 .. L : w.free[p] = IF p = i THEN new ELSE m.free[p]
    BY <1>1, <2>1, <2>3
  <2>5. b \in DOMAIN m.heap /\ m.heap[b] \in Block /\ b # new
    BY <1>1, <1>2
  <2>6. /\ w.heap[new].start = m.heap[b].start + n
        /\ End(w.heap[new]) = E(i)
        /\ \A z \in DOMAIN m.heap \ {b} : w.heap[z] = m.heap[z]
    <3> HIDE DEF b
    <3>1. /\ Split(m.heap, b, n, new)[new] =
               [start |-> m.heap[b].start + n, size |-> m.heap[b].size - n]
          /\ \A z \in DOMAIN m.heap \ {b} : Split(m.heap, b, n, new)[z] = m.heap[z]
      BY ONLY <2>5, new \in Node \ DOMAIN m.heap DEF Split
    <3>2. (m.heap[b].start + n) + (m.heap[b].size - n) = m.heap[b].start + m.heap[b].size
      BY <2>5 DEF Block
    <3> QED
      BY <2>1, <3>1, <3>2 DEF End, b
  <2>7. \A p \in 1 .. L : WE(p) = E(p) /\ WS(p) \in Nat /\ WS(p) >= S(p)
    <3> TAKE p \in 1 .. L
    <3>1. CASE p = i
      <4>1. WE(p) = E(i) /\ WS(p) = S(i) + n
        BY <2>4, <2>6, <3>1
      <4> QED
        BY <1>2, <3>1, <4>1
    <3>2. CASE p # i
      <4>1. w.free[p] = m.free[p] /\ m.free[p] # b /\ m.free[p] \in DOMAIN m.heap
        BY <1>1, <1>2, <2>4, <3>2 DEF IsInjective
      <4>2. w.heap[w.free[p]] = m.heap[m.free[p]]
        BY <2>6, <4>1
      <4> QED
        BY <1>2, <4>2
    <3> QED
      BY <3>1, <3>2
  <2> HIDE DEF S, E, WS, WE
  <2>8. ASSUME NEW p \in 1 .. L, NEW q \in 1 .. L, p < q
        PROVE  WE(p) <= WS(q) /\ ~ (WE(p) = WS(q))
    <3>1. E(p) < S(q) /\ E(p) \in Nat /\ S(q) \in Nat
      BY <1>2, <1>3, <2>8
    <3>2. WE(p) = E(p) /\ WS(q) \in Nat /\ WS(q) >= S(q)
      BY <2>7
    <3> QED
      BY <3>1, <3>2
  <2> QED
    BY <2>4, <2>8 DEF Order, WS, WE, w
<1> QED
  BY <1>4, <1>5

(* Malloc leaves the free list sorted and joined. *)
LEMMA MallocOrders ==
  ASSUME NEW m, Sound(m, {}), m.rover = FreeHead \/ RoverOnList(m), Order(m, {}),
         NEW size \in Nat \cup {-1}, NEW new \in Node \ DOMAIN m.heap
  PROVE  Order(Malloc(m, size, new).mem, {})
<1> DEFINE n == Align4(size)
           r == Malloc(m, size, new)
           i == Probe(m, Min(Fits(m, n)))
<1>1. CASE m.free = <<>> \/ size = -1 \/ Fits(m, n) = {}
  <2>1. r.mem = m
    BY <1>1 DEF Malloc
  <2> QED
    BY <2>1
<1>2. CASE m.free # <<>> /\ size # -1 /\ Fits(m, n) # {}
  <2>1. r.mem = Take(m, i, n, new)
    BY <1>2 DEF Malloc
  <2>2. n \in Nat
    BY <1>2, Align4Nat
  <2>3. Min(Fits(m, n)) \in Fits(m, n)
    <3>1. Fits(m, n) \in SUBSET Nat
      BY DEF Fits, Sound, IsLists
    <3> QED
      BY <1>2, <3>1, MinIsMember
  <2>4. i \in DOMAIN m.free /\ m.heap[m.free[i]].size >= n
    BY <1>2, <2>3, ProbeInRange DEF Fits, RoverOnList, Sound
  <2> HIDE DEF n, i, r
  <2>5. m.heap[m.free[i]] \in Block
    BY <2>4 DEF Sound, IsLists, OnOneList, FreeNodes, Range
  <2>6. n <= m.heap[m.free[i]].size
    BY <2>2, <2>4, <2>5 DEF Block
  <2>7. Order(Take(m, i, n, new), {})
    BY <2>2, <2>4, <2>6, TakeOrders
  <2> QED
    BY <2>1, <2>7 DEF r
<1> QED
  BY <1>1, <1>2

(* So does Mfree: after both joins no neighbours touch. *)
LEMMA MfreeOrders ==
  ASSUME NEW m, Sound(m, {}), RoverOnList(m), NoneEmpty(m), Order(m, {}), NEW addr
  PROVE  Order(Mfree(m, addr).mem, {})
<1>1. CASE UsedAt(m, addr) = {}
  BY <1>1 DEF Mfree
<1>2. CASE UsedAt(m, addr) # {}
  <2> DEFINE i == Min(UsedAt(m, addr))
             x == m.used[i]
             w == [m EXCEPT !.used = RemoveAt(@, i)]
  <2>1. Mfree(m, addr).mem = FreeBlock(w, x)
    BY <1>2 DEF Mfree
  <2>2. i \in DOMAIN m.used
    BY <1>2, UsedAtMin DEF Sound
  <2> HIDE DEF i
  <2>3. /\ DOMAIN w = {"free", "used", "heap", "rover"}
        /\ w.free = m.free /\ w.used = RemoveAt(m.used, i)
        /\ w.heap = m.heap /\ w.rover = m.rover
    BY DEF Sound, IsLists
  <2>4. /\ m.used \in Seq(Node) /\ IsInjective(m.used) /\ x \in Node
        /\ x \in UsedNodes(m) /\ x \notin FreeNodes(m) /\ x \in DOMAIN m.heap
    BY <2>2 DEF Sound, IsLists, OnOneList, UsedNodes, Range
  <2>5. /\ w.used \in Seq(Node) /\ IsInjective(w.used)
        /\ UsedNodes(w) = UsedNodes(m) \ {x}
    BY <2>2, <2>3, <2>4, RemoveAtList DEF UsedNodes
  <2> HIDE DEF w, x
  <2>6. Sound(w, {x}) /\ RoverOnList(w) /\ Order(w, {})
    BY <2>3, <2>4, <2>5 DEF Sound, IsLists, OnOneList, FreeNodes, RoverOnList, Order
  <2>7. ASSUME NEW f \in FreeNodes(m)
        PROVE  /\ m.heap[f].size > 0
               /\ End(m.heap[f]) <= m.heap[x].start \/ End(m.heap[x]) <= m.heap[f].start
    <3>1. f \in DOMAIN m.heap /\ f # x /\ m.heap \in [DOMAIN m.heap -> Block]
      BY <2>4 DEF Sound, OnOneList, IsLists
    <3>2. m.heap[f].size > 0 /\ m.heap[x].size > 0
      BY <2>4, <3>1 DEF NoneEmpty
    <3> QED
      BY <2>4, <3>1, <3>2, BlocksApart DEF Sound
  <2>8. FreeNodes(w) = FreeNodes(m)
    BY <2>3 DEF FreeNodes
  <2>9. Order(FreeBlock(w, x), {})
    BY <2>3, <2>4, <2>6, <2>7, <2>8, FreeBlockOrders
  <2> QED
    BY <2>1, <2>9
<1> QED
  BY <1>1, <1>2

(* So does the release of the upper part of a block, *)
LEMMA CutOrders ==
  ASSUME NEW m, Sound(m, {}), RoverOnList(m), NoneEmpty(m), Order(m, {}),
         NEW x \in UsedNodes(m), NEW n \in Nat, n <= m.heap[x].size,
         NEW new \in Node \ DOMAIN m.heap
  PROVE  Order(Cut(m, x, n, new), {})
<1> DEFINE w == [m EXCEPT !.heap = Split(@, x, n, new)]
<1>1. Cut(m, x, n, new) = FreeBlock(w, new)
  BY DEF Cut
<1>2. /\ DOMAIN w = {"free", "used", "heap", "rover"}
      /\ w.free = m.free /\ w.used = m.used
      /\ w.heap = Split(m.heap, x, n, new) /\ w.rover = m.rover
  BY DEF Sound, IsLists
<1> HIDE DEF w
<1>3. /\ x \in DOMAIN m.heap /\ x \notin FreeNodes(m) /\ x # new
      /\ m.heap \in [DOMAIN m.heap -> Block] /\ m.heap[x] \in Block
      /\ FreeNodes(m) \subseteq DOMAIN m.heap /\ Tiles(m.heap)
  BY DEF Sound, OnOneList, IsLists
<1>4. SplitSound(m.heap, DOMAIN m.heap, x, w.heap, new)
  <2>1. Splittable(m.heap, DOMAIN m.heap, x, n, new)
    BY <1>3 DEF Splittable
  <2> QED
    BY <1>2, <2>1, SplitTiles
<1>5. /\ w.heap \in [DOMAIN m.heap \cup {new} -> Block] /\ Tiles(w.heap)
      /\ \A y \in DOMAIN m.heap \ {x} : w.heap[y] = m.heap[y]
  BY <1>4 DEF SplitSound
<1>6. w.heap[new] = [start |-> m.heap[x].start + n, size |-> m.heap[x].size - n]
  BY <1>2, <1>3 DEF Split
<1>7. /\ w.heap[new].start = m.heap[x].start + n
      /\ End(w.heap[new]) = End(m.heap[x])
  BY <1>3, <1>6 DEF End, Block
<1>8. Sound(w, {new}) /\ RoverOnList(w)
  <2>1. DOMAIN w.heap = DOMAIN m.heap \cup {new}
    BY <1>5
  <2>2. IsLists(w)
    <3>1. w.heap \in [DOMAIN w.heap -> Block] /\ DOMAIN w.heap \subseteq Node
      BY <1>5 DEF Sound, IsLists
    <3> QED
      BY <3>1, <1>2 DEF Sound, IsLists
  <2>3. OnOneList(w, {new})
    BY <2>1, <1>2 DEF Sound, OnOneList, FreeNodes, UsedNodes
  <2> QED
    BY <1>2, <1>5, <2>2, <2>3 DEF Sound, RoverOnList, FreeNodes
<1>9. FreeNodes(w) = FreeNodes(m) /\ \A f \in FreeNodes(m) : w.heap[f] = m.heap[f]
  BY <1>2, <1>3, <1>5 DEF FreeNodes
<1>10. Order(w, {})
  <2>1. \A i \in DOMAIN m.free : m.free[i] \in FreeNodes(m)
    BY DEF FreeNodes, Range
  <2>2. \A i \in DOMAIN w.free : w.heap[w.free[i]] = m.heap[m.free[i]]
    BY <1>2, <1>9, <2>1
  <2> QED
    BY <1>2, <2>2 DEF Order
<1>11. ASSUME NEW f \in FreeNodes(w)
       PROVE  /\ w.heap[f].size > 0
              /\ \/ End(w.heap[f]) <= w.heap[new].start
                 \/ End(w.heap[new]) <= w.heap[f].start
  <2>1. f \in DOMAIN m.heap /\ f # x /\ w.heap[f] = m.heap[f] /\ m.heap[f] \in Block
    BY <1>3, <1>9
  <2>2. m.heap[f].size > 0 /\ m.heap[x].size > 0
    BY <1>3, <2>1 DEF NoneEmpty
  <2>3. End(m.heap[f]) <= m.heap[x].start \/ End(m.heap[x]) <= m.heap[f].start
    BY <1>3, <2>1, <2>2, BlocksApart
  <2> QED
    BY <1>3, <1>7, <2>1, <2>2, <2>3 DEF End, Block
<1>12. Order(FreeBlock(w, new), {})
  BY <1>8, <1>10, <1>11, FreeBlockOrders
<1> QED
  BY <1>1, <1>12

(* and with it Mshrink. *)
LEMMA MshrinkOrders ==
  ASSUME NEW m, Sound(m, {}), RoverOnList(m), NoneEmpty(m), Order(m, {}), NEW addr,
         NEW newsiz \in Nat, NEW new \in Node \ DOMAIN m.heap
  PROVE  Order(Mshrink(m, addr, newsiz, new).mem, {})
<1> DEFINE n == Align4(newsiz)
           x == m.used[Min(UsedAt(m, addr))]
           r == Mshrink(m, addr, newsiz, new)
<1>1. CASE newsiz = 0
  BY <1>1, MfreeOrders DEF Mshrink
<1>2. CASE newsiz # 0 /\ (UsedAt(m, addr) = {} \/ m.heap[x].size < n)
  <2>1. r.mem = m
    BY <1>2 DEF Mshrink
  <2> QED
    BY <2>1
<1>3. CASE newsiz # 0 /\ UsedAt(m, addr) # {} /\ ~ (m.heap[x].size < n)
  <2>1. r.mem = Cut(m, x, n, new)
    BY <1>3 DEF Mshrink
  <2>2. x \in UsedNodes(m)
    BY <1>3, UsedAtMin DEF Sound, UsedNodes, Range
  <2>3. n \in Nat
    BY Align4Nat
  <2> HIDE DEF x, n, r
  <2>4. n <= m.heap[x].size
    BY <1>3, <2>2, <2>3 DEF Sound, IsLists, OnOneList, Block
  <2> QED
    BY <2>1, <2>2, <2>3, <2>4, CutOrders DEF r
<1> QED
  BY <1>1, <1>2, <1>3

-----------------------------------------------------------------------------
(* A stretch of free bytes lies in one free block: when a byte of it is in block
   f and a later one is not, the block that holds the first such byte touches
   f, and no two free blocks do.                                             *)
LEMMA StretchInOneBlock ==
  ASSUME NEW m, Sound(m, {}), Order(m, {}), NEW a \in Nat, NEW n \in Nat \ {0},
         \A x \in a .. a + n - 1 : \E f \in FreeNodes(m) : Holds(m.heap, f, x)
  PROVE  \E f \in FreeNodes(m) : m.heap[f].start <= a /\ a + n <= End(m.heap[f])
<1>1. PICK f \in FreeNodes(m) : Holds(m.heap, f, a)
  <2>1. a \in a .. a + n - 1
    OBVIOUS
  <2> QED
    BY <2>1
<1>2. \A g \in FreeNodes(m) : /\ m.heap[g].start \in Nat /\ End(m.heap[g]) \in Nat
                              /\ m.heap[g].start <= End(m.heap[g])
  <2> TAKE g \in FreeNodes(m)
  <2>1. m.heap[g] \in Block
    BY DEF Sound, OnOneList, IsLists
  <2> QED
    BY <2>1 DEF Block, End
<1>3. SUFFICES ASSUME ~ (a + n <= End(m.heap[f]))
               PROVE  FALSE
  BY <1>1, <1>2 DEF Holds
<1> DEFINE e == End(m.heap[f])
<1>4. e \in a .. a + n - 1 /\ m.heap[f].start < e
  BY <1>1, <1>2, <1>3 DEF Holds
<1>5. PICK g \in FreeNodes(m) : Holds(m.heap, g, e)
  BY <1>4
<1>6. m.heap[g].start <= e /\ e < End(m.heap[g])
  BY <1>5 DEF Holds
<1>7. PICK i \in DOMAIN m.free, j \in DOMAIN m.free : m.free[i] = f /\ m.free[j] = g
  BY DEF FreeNodes, Range
<1>8. i \in Nat /\ j \in Nat
  BY <1>7 DEF Sound, IsLists
<1>9. CASE i < j
  <2>1. End(m.heap[f]) <= m.heap[g].start /\ ~ (End(m.heap[f]) = m.heap[g].start)
    BY <1>7, <1>9 DEF Order
  <2> QED
    BY <1>2, <1>6, <2>1
<1>10. CASE j < i
  <2>1. End(m.heap[g]) <= m.heap[f].start
    BY <1>7, <1>10 DEF Order
  <2> QED
    BY <1>2, <1>4, <1>6, <2>1
<1>11. CASE i = j
  BY <1>2, <1>6, <1>7, <1>11
<1> QED
  BY <1>8, <1>9, <1>10, <1>11

(* Counting round a list of k. *)
LEMMA Wraps ==
  ASSUME NEW k \in Nat \ {0}, NEW a \in 0 .. k - 1
  PROVE  a % k = a /\ (a + k) % k = a
<1>1. a % k = a
  OBVIOUS
<1>2. (a + k) % k = a
  OBVIOUS
<1> QED
  BY <1>1, <1>2

(* The loop of Malloc looks at every block of the list, wherever the rover is. *)
LEMMA ProbeReachesAll ==
  ASSUME NEW m, IsLists(m), m.free # <<>>, m.rover \in FreeNodes(m), m.rover # FreeHead,
         NEW i \in DOMAIN m.free
  PROVE  \E j \in DOMAIN m.free : Probe(m, j) = i
<1> DEFINE k == Len(m.free)
           r == RoverAt(m)
<1>1. k \in Nat \ {0} /\ DOMAIN m.free = 1 .. k /\ i \in 1 .. k
  BY DEF IsLists
<1>2. r \in 1 .. k
  BY <1>1 DEF RoverAt, FreeNodes, Range
<1> HIDE DEF k, r
<1>3. i - 1 \in 0 .. k - 1
  BY <1>1
<1>4. (i - 1) % k = i - 1 /\ ((i - 1) + k) % k = i - 1
  BY <1>1, <1>3, Wraps
<1>5. CASE i > r
  <2> DEFINE j == i - r
  <2>1. j \in 1 .. k /\ r + j - 1 = i - 1
    BY <1>1, <1>2, <1>5
  <2>2. Probe(m, j) = i
    BY <1>1, <1>4, <2>1 DEF Probe, k, r
  <2> QED
    BY <1>1, <2>1, <2>2
<1>6. CASE i <= r
  <2> DEFINE j == i - r + k
  <2>1. j \in 1 .. k /\ r + j - 1 = (i - 1) + k
    BY <1>1, <1>2, <1>6
  <2>2. Probe(m, j) = i
    BY <1>1, <1>4, <2>1 DEF Probe, k, r
  <2> QED
    BY <1>1, <2>1, <2>2
<1> QED
  BY <1>1, <1>2, <1>5, <1>6

(* A search that finds nothing means that every free block is too small. *)
LEMMA NothingFits ==
  ASSUME NEW m, Sound(m, {}), RoverOnList(m), m.free # <<>>, NEW n \in Nat,
         Fits(m, n) = {}, NEW f \in FreeNodes(m)
  PROVE  ~ (m.heap[f].size >= n)
<1>1. PICK i \in DOMAIN m.free : m.free[i] = f
  BY DEF FreeNodes, Range
<1>2. m.rover \in FreeNodes(m) /\ FreeNodes(m) \subseteq Node
  BY DEF RoverOnList, Sound, IsLists, FreeNodes, Range
<1>3. PICK j \in DOMAIN m.free : Probe(m, j) = i
  BY <1>2, ProbeReachesAll, NodeAssumption DEF Sound
<1> QED
  BY <1>1, <1>3 DEF Fits
=============================================================================
