----------------------------- MODULE GemdosMem -----------------------------
(***************************************************************************)
(* The memory calls of GEMDOS as ParaTos answers them: main() of paratos.c *)
(* initialises the lists, reserves the cookie jar and gives the rest to    *)
(* the program; then the program calls Malloc, Mfree and Mshrink with any  *)
(* arguments it likes.                                                     *)
(***************************************************************************)
EXTENDS MemBlocks

CONSTANTS
  JarSize,   \* bytes of the cookie jar, 0x100 * 8 in the code
  Sizes,     \* sizes the program asks for
  Addrs      \* addresses the program passes to Mfree and Mshrink

ASSUME InputAssumption ==
  /\ Sizes \subseteq Nat
  /\ Addrs \subseteq Int
  /\ JarSize \in Nat \ {0}
  /\ Align4(JarSize) < MemTop - MemBot

VARIABLES
  mem,     \* the lists of mem.c
  phase,   \* how far main() has come; "hung" in a search that never ends
  ret      \* the last memory call and what it returned

vars == <<mem, phase, ret>>

Phases == {"memory", "cookies", "run", "hung"}

-----------------------------------------------------------------------------
Init ==
  /\ \E first \in Node : mem = InitMemory(first)
  /\ phase = "memory"
  /\ ret = [call |-> "none"]

(* One call of Malloc(size) that leads to phase next. *)
DoMalloc(size, next) ==
  IF SearchEnds(mem, size)
  THEN \E new \in Node \ DOMAIN mem.heap :
         LET r == Malloc(mem, size, new)
         IN /\ mem' = r.mem
            /\ ret' = [call |-> "Malloc", size |-> size, res |-> r.ret]
            /\ phase' = next
  ELSE phase' = "hung" /\ UNCHANGED <<mem, ret>>

(* The jar is reserved first; its four cookies fit without a resize. *)
InitCookieJar ==
  /\ phase = "memory"
  /\ DoMalloc(JarSize, "cookies")

(* LoadExe reserves Malloc(Malloc(-1)), all that is left. *)
LoadExe ==
  /\ phase = "cookies"
  /\ IF SearchEnds(mem, -1)
     THEN DoMalloc(Malloc(mem, -1, Null).ret, "run")
     ELSE phase' = "hung" /\ UNCHANGED <<mem, ret>>

GuestMalloc(size) ==
  /\ phase = "run"
  /\ DoMalloc(size, "run")

GuestMfree(addr) ==
  /\ phase = "run"
  /\ LET r == Mfree(mem, addr)
     IN /\ mem' = r.mem
        /\ ret' = [call |-> "Mfree", addr |-> addr, res |-> r.ret]
  /\ UNCHANGED phase

GuestMshrink(addr, newsiz) ==
  /\ phase = "run"
  /\ \E new \in Node \ DOMAIN mem.heap :
       LET r == Mshrink(mem, addr, newsiz, new)
       IN /\ mem' = r.mem
          /\ ret' = [call |-> "Mshrink", addr |-> addr, size |-> newsiz, res |-> r.ret]
  /\ UNCHANGED phase

Next ==
  \/ InitCookieJar
  \/ LoadExe
  \/ \E size \in Sizes \cup {-1} : GuestMalloc(size)
  \/ \E addr \in Addrs : GuestMfree(addr)
  \/ \E addr \in Addrs, newsiz \in Sizes : GuestMshrink(addr, newsiz)

Spec == Init /\ [][Next]_vars

(* A program that never makes an empty block: it asks for at least one byte
   and never shrinks a block to the size it already has.                   *)
NoEmptyBlock == \A n \in DOMAIN mem.heap : mem.heap[n].size > 0

CarefulNext == Next /\ NoEmptyBlock'

CarefulSpec == Init /\ [][CarefulNext]_vars

-----------------------------------------------------------------------------
(* Type invariant: the lists of mem.c have the types the code declares, no
   size is ever negative, and main() is in one of its phases.              *)
TypeOK == IsLists(mem) /\ phase \in Phases

(* Every memblock_t that malloc() gave out is on exactly one of the two
   lists, once: Malloc, Mfree and Mshrink neither leak nor duplicate a node
   nor keep one that freeBlock has freed.                                  *)
NodesOnOneList == OnOneList(mem, {})

(* The blocks tile the memory: whatever sequence of calls the program makes,
   each byte between MemBot and MemTop belongs to exactly one block and no
   block reaches outside.                                                  *)
Tiling == Tiles(mem.heap)

(* The rover is safe to follow at the next Malloc: it is Null exactly when
   there is no free block, never a node that was handed out or freed, and
   points to the list head only before the first Malloc.                   *)
RoverValid ==
  /\ phase = "memory" => mem.rover = FreeHead
  /\ phase # "memory" => RoverOnList(mem)

(* No Malloc searches for ever: the order of main() moves the rover off the
   list head before the first search that can come back empty-handed.      *)
SearchesEnd == phase # "hung"

(* A reserved block stays as it is until a call names its address: no Malloc
   and no Mfree or Mshrink of another block moves, resizes or releases it. *)
OthersUntouched ==
  [][\A n \in UsedNodes(mem) :
       (n \notin UsedNodes(mem') \/ mem'.heap[n] # mem.heap[n]) =>
         ret'.call \in {"Mfree", "Mshrink"} /\ ret'.addr = mem.heap[n].start]_vars

(* An address identifies one reserved block: two blocks the program holds at
   the same time never start at the same address.                          *)
DistinctAddresses ==
  \A m, n \in UsedNodes(mem) : mem.heap[m].start = mem.heap[n].start => m = n

(* Malloc(-1) is the size of the largest stretch of memory that is free. *)
Longest ==
  Max({n \in 0 .. MemTop - MemBot : \E a \in MemBot .. MemTop - n :
         \A x \in a .. a + n - 1 : \E f \in FreeNodes(mem) : Holds(mem.heap, f, x)})

MaxIsLongestStretch ==
  ret.call = "Malloc" /\ ret.size = -1 => ret.res = Longest

(* The promise of MemAbs, with the used blocks as the reserved ones. *)
Abs == INSTANCE MemAbs WITH held <- {mem.heap[n] : n \in UsedNodes(mem)}

KeepsPromise == Abs!Spec
=============================================================================
