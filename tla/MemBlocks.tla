----------------------------- MODULE MemBlocks -----------------------------
(***************************************************************************)
(* The block lists of gemdos/mem.c as operators on a record                *)
(*                                                                         *)
(*    m.free    the chain that starts at freeMem.next, as a sequence       *)
(*    m.used    the chain that starts at usedMem.next (newest first)       *)
(*    m.heap    what each malloc'ed memblock_t holds: [start, size]        *)
(*    m.rover   a node, FreeHead for &freeMem, or Null                         *)
(*                                                                         *)
(* Every operator returns the record after the call and, for a GEMDOS      *)
(* call, the value the guest finds in D0: [mem |-> .., ret |-> ..].        *)
(* The nodes that malloc() may return are the argument new, chosen by the  *)
(* caller among the nodes that are not in use.                             *)
(***************************************************************************)
EXTENDS Integers, Sequences, FiniteSets, FiniteSetsExt, SequencesExt, Functions

CONSTANTS
  Node,     \* identities of the host's memblock_t objects
  FreeHead,     \* the address of the list head freeMem
  Null,     \* the null pointer
  MemBot,   \* 0x10000 in the code
  MemTop    \* memory_sz in the code

ASSUME NodeAssumption == FreeHead \notin Node /\ Null \notin Node /\ FreeHead # Null
ASSUME MemAssumption  == MemBot \in Nat \ {0} /\ MemTop \in Nat /\ MemBot < MemTop

E_OK  == 0       \* tos_errors.h
EIMBA == -40
EGSBF == -67

Block == [start : Nat, size : Nat]

(* The record m; heap is defined on the nodes malloc() has given out. *)
IsLists(m) ==
  /\ DOMAIN m = {"free", "used", "heap", "rover"}
  /\ m.free \in Seq(Node)
  /\ m.used \in Seq(Node)
  /\ m.heap \in [DOMAIN m.heap -> Block]
  /\ DOMAIN m.heap \subseteq Node
  /\ m.rover \in Node \cup {FreeHead, Null}

FreeNodes(m) == Range(m.free)
UsedNodes(m) == Range(m.used)

-----------------------------------------------------------------------------
(* (size + 3) & ~3 on a size that does not overflow. *)
Align4(n) == ((n + 3) \div 4) * 4

End(b) == b.start + b.size

Holds(h, n, a) == h[n].start <= a /\ a < End(h[n])

(* Mutant of Split: the rest starts where the block starts. *)
SplitSameStart(h, x, n, new) ==
  [y \in DOMAIN h \cup {new} |->
     CASE y = new -> [start |-> h[x].start, size |-> h[x].size - n]
       [] y = x   -> [start |-> h[x].start, size |-> n]
       [] OTHER   -> h[y]]

(* Node x keeps the first n bytes of its block, node new gets the rest. *)
Split(h, x, n, new) ==
  [y \in DOMAIN h \cup {new} |->
     CASE y = new -> [start |-> h[x].start + n, size |-> h[x].size - n]
       [] y = x   -> [start |-> h[x].start, size |-> n]
       [] OTHER   -> h[y]]

(* Mutant of Merge: the sizes are not added up. *)
MergeWithoutSize(h, x, y) == [z \in DOMAIN h \ {y} |-> h[z]]

(* Node x takes over the block of node y, which is freed. *)
Merge(h, x, y) ==
  [z \in DOMAIN h \ {y} |->
     IF z = x THEN [start |-> h[x].start, size |-> h[x].size + h[y].size] ELSE h[z]]

(* The state InitMemory leaves: one free block, rover at the list head. *)
InitMemory(first) ==
  [free  |-> <<first>>,
   used  |-> <<>>,
   heap  |-> [n \in {first} |-> [start |-> MemBot, size |-> MemTop - MemBot]],
   rover |-> FreeHead]

-----------------------------------------------------------------------------
(* Position of the rover in the free list, 0 for the head itself. *)
RoverAt(m) ==
  IF m.rover = FreeHead THEN 0 ELSE CHOOSE i \in DOMAIN m.free : m.free[i] = m.rover

(* The j-th position the loop of Malloc looks at: the block after the rover,
   to the end of the list, then from its front up to the rover.            *)
Probe(m, j) == ((RoverAt(m) + j - 1) % Len(m.free)) + 1

(* Mutant of Fits: a block of exactly the size asked for is passed over. *)
FitsLarger(m, n) == {j \in DOMAIN m.free : m.heap[m.free[Probe(m, j)]].size > n}

Fits(m, n) == {j \in DOMAIN m.free : m.heap[m.free[Probe(m, j)]].size >= n}

(* What Malloc(-1) computes. *)
LargestFree(m) == Max({m.heap[m.free[i]].size : i \in DOMAIN m.free})

(* Mutant of SearchEnds: nothing stops a search that does not find a block. *)
EndsOnlyOnSuccess(m, n) ==
  m.free = <<>> \/ (n # -1 /\ Fits(m, Align4(n)) # {})

(* prev reaches rover only when rover is a block of the list: with the rover
   at the list head a search that finds nothing goes round for ever.       *)
SearchEnds(m, n) ==
  \/ m.free = <<>>
  \/ m.rover # FreeHead
  \/ n # -1 /\ Fits(m, Align4(n)) # {}

(* The free block at position i is handed out: all of it, or its front with
   a new node for the rest.                                                *)
Take(m, i, n, new) ==
  LET b     == m.free[i]
      whole == m.heap[b].size = n
      free  == IF whole THEN RemoveAt(m.free, i) ELSE ReplaceAt(m.free, i, new)
  IN [free  |-> free,
      used  |-> <<b>> \o m.used,
      heap  |-> IF whole THEN m.heap ELSE Split(m.heap, b, n, new),
      rover |-> IF i > 1 THEN m.free[i - 1]
                ELSE IF free = <<>> THEN Null ELSE free[1]]

Malloc(m, size, new) ==
  LET n == Align4(size)
  IN IF m.free = <<>> THEN [mem |-> m, ret |-> 0]
     ELSE IF size = -1 THEN [mem |-> m, ret |-> LargestFree(m)]
     ELSE IF Fits(m, n) = {} THEN [mem |-> m, ret |-> 0]
     ELSE LET i == Probe(m, Min(Fits(m, n)))
          IN [mem |-> Take(m, i, n, new), ret |-> m.heap[m.free[i]].start]

-----------------------------------------------------------------------------
(* freeBlock puts x before the first free block that does not start below
   it.                                                                     *)
Slot(m, x) ==
  Min({i \in 1 .. Len(m.free) + 1 :
         i \in DOMAIN m.free => m.heap[x].start <= m.heap[m.free[i]].start})

Insert(m, x) ==
  [m EXCEPT !.free  = InsertAt(@, Slot(m, x), x),
            !.rover = IF @ = Null THEN x ELSE @]

Meets(m, i) ==
  /\ i \in DOMAIN m.free
  /\ i + 1 \in DOMAIN m.free
  /\ End(m.heap[m.free[i]]) = m.heap[m.free[i + 1]].start

(* Mutants of Absorb: the successor stays linked; the rover is not moved. *)
AbsorbStaysLinked(m, i) ==
  [m EXCEPT !.heap  = Merge(@, m.free[i], m.free[i + 1]),
            !.rover = IF @ = m.free[i + 1] THEN m.free[i] ELSE @]

AbsorbStaleRover(m, i) ==
  [m EXCEPT !.free = RemoveAt(@, i + 1),
            !.heap = Merge(@, m.free[i], m.free[i + 1])]

(* The i-th free block takes over its successor. *)
Absorb(m, i) ==
  LET x == m.free[i]
      y == m.free[i + 1]
  IN [free  |-> RemoveAt(m.free, i + 1),
      used  |-> m.used,
      heap  |-> Merge(m.heap, x, y),
      rover |-> IF m.rover = y THEN x ELSE m.rover]

Join(m, i) == IF Meets(m, i) THEN Absorb(m, i) ELSE m

(* Mutant of FreeBlock: the block is joined with its successor only. *)
FreeBlockNextOnly(m, x) == Join(Insert(m, x), Slot(m, x))

FreeBlock(m, x) ==
  LET i == Slot(m, x)
  IN Join(Join(Insert(m, x), i), i - 1)

-----------------------------------------------------------------------------
(* Mutant of UsedAt: a block that starts above the address matches too. *)
UsedFrom(m, addr) == {i \in DOMAIN m.used : m.heap[m.used[i]].start >= addr}

(* The first used block that starts at the address. *)
UsedAt(m, addr) == {i \in DOMAIN m.used : m.heap[m.used[i]].start = addr}

Mfree(m, addr) ==
  IF UsedAt(m, addr) = {} THEN [mem |-> m, ret |-> EIMBA]
  ELSE LET i == Min(UsedAt(m, addr))
       IN [mem |-> FreeBlock([m EXCEPT !.used = RemoveAt(@, i)], m.used[i]),
           ret |-> E_OK]

(* The tail of used block x beyond n bytes becomes the free block new, also
   when the tail is empty.                                                 *)
Cut(m, x, n, new) == FreeBlock([m EXCEPT !.heap = Split(@, x, n, new)], new)

Mshrink(m, addr, newsiz, new) ==
  LET n == Align4(newsiz)
      x == m.used[Min(UsedAt(m, addr))]
  IN IF newsiz = 0 THEN Mfree(m, addr)
     ELSE IF UsedAt(m, addr) = {} THEN [mem |-> m, ret |-> EIMBA]
     ELSE IF m.heap[x].size < n THEN [mem |-> m, ret |-> EGSBF]
     ELSE [mem |-> Cut(m, x, n, new), ret |-> n]

-----------------------------------------------------------------------------
(* Every node malloc() gave out and that is not in the set loose is on exactly
   one of the two lists, once.                                             *)
OnOneList(m, loose) ==
  /\ IsInjective(m.free)
  /\ IsInjective(m.used)
  /\ FreeNodes(m) \cap UsedNodes(m) = {}
  /\ loose \cap (FreeNodes(m) \cup UsedNodes(m)) = {}
  /\ DOMAIN m.heap = FreeNodes(m) \cup UsedNodes(m) \cup loose

(* Each byte of the memory is in exactly one block of h. *)
Tiles(h) ==
  /\ \A n \in DOMAIN h : MemBot <= h[n].start /\ End(h[n]) <= MemTop
  /\ \A a \in MemBot .. MemTop - 1 : \E n \in DOMAIN h : Holds(h, n, a)
  /\ \A a \in MemBot .. MemTop - 1 : \A x, y \in DOMAIN h :
       Holds(h, x, a) /\ Holds(h, y, a) => x = y

RoverOnList(m) ==
  IF m.free = <<>> THEN m.rover = Null ELSE m.rover \in FreeNodes(m)
=============================================================================
