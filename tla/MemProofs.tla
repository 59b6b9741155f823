----------------------------- MODULE MemProofs -----------------------------
(* Proofs about the allocator, for every memory, every set of nodes and every
   input.                                                                    *)
EXTENDS GemdosMem, MemBlocksProofs, TLAPS

-----------------------------------------------------------------------------
(* The inductive invariant: the properties themselves and, while main() has
   not yet reserved the cookie jar, the exact state InitMemory left.         *)
BootState == phase = "memory" => \E first \in Node : mem = InitMemory(first)

IndInv ==
  /\ TypeOK /\ NodesOnOneList /\ Tiling /\ RoverValid /\ SearchesEnd /\ BootState

(* InitMemory establishes the invariant. *)
LEMMA IndInvInit == Init => IndInv
<1> SUFFICES ASSUME Init PROVE IndInv
  OBVIOUS
<1>1. PICK first \in Node : mem = InitMemory(first)
  BY DEF Init
<1>2. Sound(mem, {}) /\ mem.rover = FreeHead
  BY <1>1, InitMemorySound
<1>3. phase = "memory"
  BY DEF Init
<1> QED
  BY <1>1, <1>2, <1>3
  DEF IndInv, Sound, TypeOK, Phases, NodesOnOneList, Tiling, RoverValid, SearchesEnd,
      BootState

(* One call of Malloc in a state where its search is known to end. *)
LEMMA DoMallocStep ==
  ASSUME IndInv, NEW size \in Nat \cup {-1}, NEW next \in {"cookies", "run"},
         DoMalloc(size, next), SearchEnds(mem, size),
         phase = "memory" => size # -1 /\ mem.free # <<>> /\ Fits(mem, Align4(size)) # {}
  PROVE  IndInv'
<1>1. PICK new \in Node \ DOMAIN mem.heap :
        mem' = Malloc(mem, size, new).mem /\ phase' = next
  BY DEF DoMalloc
<1>2. Sound(mem, {}) /\ (mem.rover = FreeHead \/ RoverOnList(mem))
  BY DEF IndInv, Sound, TypeOK, NodesOnOneList, Tiling, RoverValid
<1>3. /\ Sound(mem', {})
      /\ RoverOnList(mem) => RoverOnList(mem')
      /\ phase = "memory" => RoverOnList(mem')
  BY <1>1, <1>2, MallocKeeps
<1>4. RoverOnList(mem')
  BY <1>3 DEF IndInv, RoverValid
<1> QED
  BY <1>1, <1>3, <1>4
  DEF IndInv, Sound, TypeOK, Phases, NodesOnOneList, Tiling, RoverValid, SearchesEnd,
      BootState

(* Every call keeps it. *)
LEMMA IndInvNext == IndInv /\ [Next]_vars => IndInv'
<1> SUFFICES ASSUME IndInv, [Next]_vars PROVE IndInv'
  OBVIOUS
<1>0. Sound(mem, {}) /\ (phase # "memory" => RoverOnList(mem) /\ mem.rover # FreeHead)
  <2>1. phase # "memory" => RoverOnList(mem)
    BY DEF IndInv, RoverValid
  <2>2. FreeNodes(mem) \subseteq Node
    BY DEF IndInv, TypeOK, IsLists, FreeNodes, Range
  <2> QED
    BY <2>1, <2>2, NodeAssumption
    DEF IndInv, Sound, TypeOK, NodesOnOneList, Tiling, RoverOnList
<1>1. CASE InitCookieJar
  <2>1. PICK first \in Node : mem = InitMemory(first)
    BY <1>1 DEF IndInv, BootState, InitCookieJar
  <2>2. mem.free # <<>> /\ Fits(mem, Align4(JarSize)) # {}
    <3>1. mem.free = <<first>> /\ <<first>> # <<>>
      BY <2>1, InitMemorySound
    <3>2. Align4(JarSize) \in Nat /\ Align4(JarSize) <= MemTop - MemBot
      BY InputAssumption, MemAssumption, Align4Nat
    <3> QED
      BY <2>1, <3>1, <3>2, InitMemoryFits
  <2>3. JarSize \in Nat /\ JarSize # -1
    BY InputAssumption
  <2>4. SearchEnds(mem, JarSize)
    BY <2>2, <2>3 DEF SearchEnds
  <2> QED
    BY <1>1, <2>2, <2>3, <2>4, DoMallocStep DEF InitCookieJar
<1>2. CASE LoadExe
  <2>1. phase = "cookies"
    BY <1>2 DEF LoadExe
  <2>2. \A n : SearchEnds(mem, n)
    BY <1>0, <2>1 DEF SearchEnds
  <2> DEFINE t == Malloc(mem, -1, Null).ret
  <2>3. DoMalloc(t, "run")
    BY <1>2, <2>2 DEF LoadExe
  <2>4. t \in Nat
    <3>1. CASE mem.free = <<>>
      BY <3>1 DEF Malloc
    <3>2. CASE mem.free # <<>>
      <4>1. t = LargestFree(mem)
        BY <3>2 DEF Malloc
      <4> QED
        BY <3>2, <4>1, <1>0, LargestFreeNat
    <3> QED
      BY <3>1, <3>2
  <2> HIDE DEF t
  <2> QED
    BY <2>1, <2>2, <2>3, <2>4, DoMallocStep
<1>3. ASSUME NEW size \in Sizes \cup {-1}, GuestMalloc(size)
      PROVE  IndInv'
  <2>1. size \in Nat \cup {-1} /\ phase = "run" /\ DoMalloc(size, "run")
    BY <1>3, InputAssumption DEF GuestMalloc
  <2>2. SearchEnds(mem, size)
    BY <1>0, <2>1 DEF SearchEnds
  <2> QED
    BY <2>1, <2>2, DoMallocStep
<1>4. ASSUME NEW addr \in Addrs, GuestMfree(addr)
      PROVE  IndInv'
  <2>1. phase = "run" /\ phase' = "run" /\ mem' = Mfree(mem, addr).mem
    BY <1>4 DEF GuestMfree
  <2>2. Sound(mem', {}) /\ RoverOnList(mem')
    BY <1>0, <2>1, MfreeKeeps
  <2> QED
    BY <2>1, <2>2
    DEF IndInv, Sound, TypeOK, Phases, NodesOnOneList, Tiling, RoverValid, SearchesEnd,
        BootState
<1>5. ASSUME NEW addr \in Addrs, NEW newsiz \in Sizes, GuestMshrink(addr, newsiz)
      PROVE  IndInv'
  <2>1. phase = "run" /\ phase' = "run"
    BY <1>5 DEF GuestMshrink
  <2>2. PICK new \in Node \ DOMAIN mem.heap : mem' = Mshrink(mem, addr, newsiz, new).mem
    BY <1>5 DEF GuestMshrink
  <2>3. newsiz \in Nat
    BY InputAssumption
  <2>4. Sound(mem', {}) /\ RoverOnList(mem')
    BY <1>0, <2>1, <2>2, <2>3, MshrinkKeeps
  <2> QED
    BY <2>1, <2>4
    DEF IndInv, Sound, TypeOK, Phases, NodesOnOneList, Tiling, RoverValid, SearchesEnd,
        BootState
<1>6. CASE UNCHANGED vars
  BY <1>6
  DEF vars, IndInv, TypeOK, NodesOnOneList, Tiling, RoverValid, SearchesEnd, BootState
<1> QED
  BY <1>1, <1>2, <1>3, <1>4, <1>5, <1>6 DEF Next

(* Every reachable state satisfies the inductive invariant. *)
THEOREM Invariance == Spec => []IndInv
<1>1. Init => IndInv
  BY IndInvInit
<1>2. IndInv /\ [Next]_vars => IndInv'
  BY IndInvNext
<1> QED
  BY <1>1, <1>2, PTL DEF Spec

(* Whatever memory calls the program makes, the lists keep their types. *)
THEOREM TypeCorrect == Spec => []TypeOK
<1>1. IndInv => TypeOK
  BY DEF IndInv
<1> QED
  BY <1>1, Invariance, PTL

(* Malloc, Mfree and Mshrink never lose, duplicate or reuse a freed memblock_t. *)
THEOREM NodesSafe == Spec => []NodesOnOneList
<1>1. IndInv => NodesOnOneList
  BY DEF IndInv
<1> QED
  BY <1>1, Invariance, PTL

(* No byte of the memory is ever lost or given out twice. *)
THEOREM MemoryTiled == Spec => []Tiling
<1>1. IndInv => Tiling
  BY DEF IndInv
<1> QED
  BY <1>1, Invariance, PTL

(* The rover can always be followed by the next Malloc. *)
THEOREM RoverSafe == Spec => []RoverValid
<1>1. IndInv => RoverValid
  BY DEF IndInv
<1> QED
  BY <1>1, Invariance, PTL

(* No call of Malloc loops for ever. *)
THEOREM MallocReturns == Spec => []SearchesEnd
<1>1. IndInv => SearchesEnd
  BY DEF IndInv
<1> QED
  BY <1>1, Invariance, PTL

(* No memory call disturbs a block that it does not name. *)
THEOREM BlocksStable == Spec => OthersUntouched
<1> DEFINE A == \A n \in UsedNodes(mem) :
                  (n \notin UsedNodes(mem') \/ mem'.heap[n] # mem.heap[n]) =>
                    ret'.call \in {"Mfree", "Mshrink"} /\ ret'.addr = mem.heap[n].start
<1>1. ASSUME IndInv, [Next]_vars
      PROVE  [A]_vars
  <2>0. /\ Sound(mem, {}) /\ (mem.rover = FreeHead \/ RoverOnList(mem))
        /\ phase = "run" => RoverOnList(mem)
    BY <1>1 DEF IndInv, Sound, TypeOK, NodesOnOneList, Tiling, RoverValid
  <2>1. \A n \in UsedNodes(mem) : mem.heap[n].start # -1
    BY <2>0 DEF Sound, IsLists, OnOneList, Block
  <2>2. ASSUME NEW size \in Nat \cup {-1}, NEW next, DoMalloc(size, next)
        PROVE  A
    <3>1. CASE SearchEnds(mem, size)
      <4>1. PICK new \in Node \ DOMAIN mem.heap : mem' = Malloc(mem, size, new).mem
        BY <2>2, <3>1 DEF DoMalloc
      <4>2. KeepsUsed(mem, mem', -1)
        BY <2>0, <4>1, MallocKeeps
      <4> QED
        BY <2>1, <4>2 DEF KeepsUsed
    <3>2. CASE ~ SearchEnds(mem, size)
      BY <2>2, <3>2 DEF DoMalloc
    <3> QED
      BY <3>1, <3>2
  <2>3. CASE InitCookieJar
    BY <2>2, <2>3, InputAssumption DEF InitCookieJar
  <2>4. CASE LoadExe
    <3> DEFINE t == Malloc(mem, -1, Null).ret
    <3>1. CASE SearchEnds(mem, -1)
      <4>1. DoMalloc(t, "run")
        BY <2>4, <3>1 DEF LoadExe
      <4>2. t \in Nat
        <5>1. CASE mem.free = <<>>
          BY <5>1 DEF Malloc
        <5>2. CASE mem.free # <<>>
          BY <5>2, <2>0, LargestFreeNat DEF Malloc
        <5> QED
          BY <5>1, <5>2
      <4> HIDE DEF t
      <4> QED
        BY <2>2, <4>1, <4>2
    <3>2. CASE ~ SearchEnds(mem, -1)
      BY <2>4, <3>2 DEF LoadExe
    <3> QED
      BY <3>1, <3>2
  <2>5. ASSUME NEW size \in Sizes \cup {-1}, GuestMalloc(size)
        PROVE  A
    BY <2>2, <2>5, InputAssumption DEF GuestMalloc
  <2>6. ASSUME NEW addr \in Addrs, GuestMfree(addr)
        PROVE  A
    <3>1. /\ mem' = Mfree(mem, addr).mem /\ phase = "run"
          /\ ret'.call = "Mfree" /\ ret'.addr = addr
      BY <2>6 DEF GuestMfree
    <3>2. KeepsUsed(mem, mem', addr)
      BY <2>0, <3>1, MfreeKeeps
    <3> QED
      BY <3>1, <3>2 DEF KeepsUsed
  <2>7. ASSUME NEW addr \in Addrs, NEW newsiz \in Sizes, GuestMshrink(addr, newsiz)
        PROVE  A
    <3>1. PICK new \in Node \ DOMAIN mem.heap :
            /\ mem' = Mshrink(mem, addr, newsiz, new).mem
            /\ ret'.call = "Mshrink" /\ ret'.addr = addr
      BY <2>7 DEF GuestMshrink
    <3>2. phase = "run" /\ newsiz \in Nat
      BY <2>7, InputAssumption DEF GuestMshrink
    <3>3. KeepsUsed(mem, mem', addr)
      BY <2>0, <3>1, <3>2, MshrinkKeeps
    <3> QED
      BY <3>1, <3>3 DEF KeepsUsed
  <2> HIDE DEF A
  <2> QED
    BY <1>1, <2>3, <2>4, <2>5, <2>6, <2>7 DEF Next
<1> QED
  BY <1>1, Invariance, PTL DEF Spec, OthersUntouched

-----------------------------------------------------------------------------
(* Programs that make no empty block.                                        *)

(* The inductive invariant of such a program: also, the free list is sorted and
   no two free blocks touch.                                                 *)
CarefulInv == IndInv /\ NoEmptyBlock /\ Order(mem, {})

(* The parts of the invariant that the lemmas on the lists ask for. *)
LEMMA CarefulFacts ==
  ASSUME CarefulInv
  PROVE  /\ Sound(mem, {}) /\ NoneEmpty(mem) /\ Order(mem, {})
         /\ mem.rover = FreeHead \/ RoverOnList(mem)
         /\ phase # "memory" => RoverOnList(mem) /\ mem.rover # FreeHead
<1>1. phase # "memory" => RoverOnList(mem)
  BY DEF CarefulInv, IndInv, RoverValid
<1>2. FreeNodes(mem) \subseteq Node
  BY DEF CarefulInv, IndInv, TypeOK, IsLists, FreeNodes, Range
<1> QED
  BY <1>1, <1>2, NodeAssumption
  DEF CarefulInv, IndInv, Sound, TypeOK, NodesOnOneList, Tiling, RoverOnList, RoverValid,
      NoEmptyBlock, NoneEmpty

(* One free block is sorted, joined and not empty. *)
LEMMA CarefulInit == Init => CarefulInv
<1> SUFFICES ASSUME Init PROVE NoEmptyBlock /\ Order(mem, {})
  BY IndInvInit DEF CarefulInv
<1>1. PICK first \in Node : mem = InitMemory(first)
  BY DEF Init
<1>2. /\ mem.heap = [n \in {first} |-> [start |-> MemBot, size |-> MemTop - MemBot]]
      /\ mem.free = <<first>>
  BY <1>1 DEF InitMemory
<1>3. DOMAIN mem.free = {1}
  BY <1>2
<1> QED
  BY <1>2, <1>3, MemAssumption DEF NoEmptyBlock, Order

(* What a step of such a program is: a call of Malloc, Mfree or Mshrink that
   returns, or nothing at all.                                               *)
MallocCall(size) ==
  \E new \in Node \ DOMAIN mem.heap :
    /\ mem' = Malloc(mem, size, new).mem
    /\ ret' = [call |-> "Malloc", size |-> size, res |-> Malloc(mem, size, new).ret]
    /\ \/ RoverOnList(mem)
       \/ size # -1 /\ mem.free # <<>> /\ Fits(mem, Align4(size)) # {}

MfreeCall(addr) ==
  /\ RoverOnList(mem)
  /\ mem' = Mfree(mem, addr).mem
  /\ ret' = [call |-> "Mfree", addr |-> addr, res |-> Mfree(mem, addr).ret]

MshrinkCall(addr, newsiz) ==
  \E new \in Node \ DOMAIN mem.heap :
    /\ RoverOnList(mem)
    /\ mem' = Mshrink(mem, addr, newsiz, new).mem
    /\ ret' = [call |-> "Mshrink", addr |-> addr, size |-> newsiz,
               res |-> Mshrink(mem, addr, newsiz, new).ret]

(* Every action, the calls of the boot included, is one of the three calls. *)
LEMMA StepIsCall ==
  ASSUME CarefulInv, Next
  PROVE  \/ \E size \in Nat \cup {-1} : MallocCall(size)
         \/ \E addr \in Int : MfreeCall(addr)
         \/ \E addr \in Int, newsiz \in Nat : MshrinkCall(addr, newsiz)
<1>0. /\ Sound(mem, {})
      /\ phase # "memory" => RoverOnList(mem) /\ mem.rover # FreeHead
  BY CarefulFacts
<1>1. ASSUME NEW size, NEW next, DoMalloc(size, next), SearchEnds(mem, size),
             \/ RoverOnList(mem)
             \/ size # -1 /\ mem.free # <<>> /\ Fits(mem, Align4(size)) # {}
      PROVE  MallocCall(size)
  BY <1>1 DEF DoMalloc, MallocCall
<1>2. CASE InitCookieJar
  <2>1. PICK first \in Node : mem = InitMemory(first)
    BY <1>2 DEF CarefulInv, IndInv, BootState, InitCookieJar
  <2>2. mem.free = <<first>> /\ <<first>> # <<>>
    BY <2>1, InitMemorySound
  <2>3. Align4(JarSize) \in Nat /\ Align4(JarSize) <= MemTop - MemBot
    BY InputAssumption, MemAssumption, Align4Nat
  <2>4. JarSize \in Nat /\ JarSize # -1 /\ mem.free # <<>> /\ Fits(mem, Align4(JarSize)) # {}
    BY <2>1, <2>2, <2>3, InitMemoryFits, InputAssumption
  <2>5. SearchEnds(mem, JarSize)
    BY <2>4 DEF SearchEnds
  <2>6. MallocCall(JarSize)
    BY <1>1, <1>2, <2>4, <2>5 DEF InitCookieJar
  <2> QED
    BY <2>4, <2>6
<1>3. CASE LoadExe
  <2>1. phase = "cookies"
    BY <1>3 DEF LoadExe
  <2>2. RoverOnList(mem) /\ \A n : SearchEnds(mem, n)
    BY <1>0, <2>1 DEF SearchEnds
  <2> DEFINE t == Malloc(mem, -1, Null).ret
  <2>3. DoMalloc(t, "run")
    BY <1>3, <2>2 DEF LoadExe
  <2>4. t \in Nat
    <3>1. CASE mem.free = <<>>
      BY <3>1 DEF Malloc
    <3>2. CASE mem.free # <<>>
      BY <1>0, <3>2, LargestFreeNat DEF Malloc
    <3> QED
      BY <3>1, <3>2
  <2> HIDE DEF t
  <2>5. MallocCall(t)
    BY <1>1, <2>2, <2>3
  <2> QED
    BY <2>4, <2>5
<1>4. ASSUME NEW size \in Sizes \cup {-1}, GuestMalloc(size)
      PROVE  size \in Nat \cup {-1} /\ MallocCall(size)
  <2>1. phase = "run" /\ DoMalloc(size, "run") /\ size \in Nat \cup {-1}
    BY <1>4, InputAssumption DEF GuestMalloc
  <2>2. RoverOnList(mem) /\ SearchEnds(mem, size)
    BY <1>0, <2>1 DEF SearchEnds
  <2> QED
    BY <1>1, <2>1, <2>2
<1>5. ASSUME NEW addr \in Addrs, GuestMfree(addr)
      PROVE  addr \in Int /\ MfreeCall(addr)
  BY <1>0, <1>5, InputAssumption DEF GuestMfree, MfreeCall
<1>6. ASSUME NEW addr \in Addrs, NEW newsiz \in Sizes, GuestMshrink(addr, newsiz)
      PROVE  addr \in Int /\ newsiz \in Nat /\ MshrinkCall(addr, newsiz)
  BY <1>0, <1>6, InputAssumption DEF GuestMshrink, MshrinkCall
<1> QED
  BY <1>2, <1>3, <1>4, <1>5, <1>6 DEF Next

(* Every call that makes no empty block keeps the order of the free list. *)
LEMMA CarefulStep == CarefulInv /\ [CarefulNext]_vars => CarefulInv'
<1> SUFFICES ASSUME CarefulInv, [CarefulNext]_vars
             PROVE  CarefulInv'
  OBVIOUS
<1>1. IndInv'
  <2>1. [Next]_vars
    BY DEF CarefulNext
  <2> QED
    BY <2>1, IndInvNext DEF CarefulInv
<1>2. NoEmptyBlock'
  BY DEF CarefulInv, CarefulNext, NoEmptyBlock, vars
<1>3. Order(mem, {})'
  <2>0. /\ Sound(mem, {}) /\ NoneEmpty(mem) /\ Order(mem, {})
        /\ mem.rover = FreeHead \/ RoverOnList(mem)
    BY CarefulFacts
  <2>1. CASE UNCHANGED vars
    BY <2>0, <2>1 DEF vars, Order
  <2>2. ASSUME NEW size \in Nat \cup {-1}, MallocCall(size)
        PROVE  Order(mem', {})
    BY <2>0, <2>2, MallocOrders DEF MallocCall
  <2>3. ASSUME NEW addr \in Int, MfreeCall(addr)
        PROVE  Order(mem', {})
    BY <2>0, <2>3, MfreeOrders DEF MfreeCall
  <2>4. ASSUME NEW addr \in Int, NEW newsiz \in Nat, MshrinkCall(addr, newsiz)
        PROVE  Order(mem', {})
    BY <2>0, <2>4, MshrinkOrders DEF MshrinkCall
  <2>5. CASE Next
    <3>1. Order(mem', {})
      BY <2>2, <2>3, <2>4, <2>5, StepIsCall
    <3> QED
      BY <3>1 DEF Order
  <2> QED
    BY <2>1, <2>5 DEF CarefulNext
<1> QED
  BY <1>1, <1>2, <1>3 DEF CarefulInv

(* The free list stays sorted and coalesced for a program that makes no empty
   block.                                                                    *)
THEOREM CarefulInvariance == CarefulSpec => []CarefulInv
<1>1. Init => CarefulInv
  BY CarefulInit
<1>2. CarefulInv /\ [CarefulNext]_vars => CarefulInv'
  BY CarefulStep
<1> QED
  BY <1>1, <1>2, PTL DEF CarefulSpec

(* The address of a reserved block tells which block a program means: of all
   that it holds only one starts there, so the search of usedMem in Mfree and
   Mshrink finds the block that Malloc gave out.                             *)
THEOREM AddressesIdentify == CarefulSpec => []DistinctAddresses
<1>1. CarefulInv => DistinctAddresses
  <2> SUFFICES ASSUME CarefulInv,
                      NEW x \in UsedNodes(mem), NEW y \in UsedNodes(mem),
                      mem.heap[x].start = mem.heap[y].start
               PROVE  x = y
    BY DEF DistinctAddresses
  <2> QED
    BY CarefulFacts, StartsDiffer DEF NoneEmpty
<1> QED
  BY <1>1, CarefulInvariance, PTL

-----------------------------------------------------------------------------
(* What is free: the bytes of the free blocks, and a stretch of them is no longer
   than some free block.                                                     *)
LEMMA FreeBytesAreFree ==
  ASSUME CarefulInv, NEW a \in MemBot .. MemTop - 1
  PROVE  a \in Abs!FreeBytes <=> \E f \in FreeNodes(mem) : Holds(mem.heap, f, a)
<1>1. /\ Sound(mem, {}) /\ a \in Int
      /\ DOMAIN mem.heap = FreeNodes(mem) \cup UsedNodes(mem)
      /\ FreeNodes(mem) \cap UsedNodes(mem) = {}
  BY CarefulFacts, MemAssumption DEF Sound, OnOneList
<1>2. \A n \in UsedNodes(mem) : a \in Abs!Bytes(mem.heap[n]) <=> Holds(mem.heap, n, a)
  <2> TAKE n \in UsedNodes(mem)
  <2>1. mem.heap[n] \in Block
    BY <1>1 DEF Sound, IsLists
  <2> QED
    BY <1>1, <2>1 DEF Abs!Bytes, Holds, End, Block
<1>3. PICK x \in DOMAIN mem.heap : Holds(mem.heap, x, a)
  BY <1>1 DEF Sound, Tiles
<1>4. \A y \in DOMAIN mem.heap : Holds(mem.heap, y, a) => y = x
  BY <1>1, <1>3 DEF Sound, Tiles
<1>5. a \in Abs!FreeBytes <=> \A n \in UsedNodes(mem) : a \notin Abs!Bytes(mem.heap[n])
  BY DEF Abs!FreeBytes
<1> QED
  BY <1>1, <1>2, <1>3, <1>4, <1>5

(* The front of a free block is free. *)
LEMMA RoomInBlock ==
  ASSUME CarefulInv, NEW f \in FreeNodes(mem), NEW n \in Nat, n <= mem.heap[f].size
  PROVE  mem.heap[f].start \in Abs!Runs(n)
<1> DEFINE s == mem.heap[f].start
<1>1. f \in DOMAIN mem.heap /\ mem.heap[f] \in Block
  BY CarefulFacts DEF Sound, OnOneList, IsLists
<1>2. MemBot <= s /\ End(mem.heap[f]) <= MemTop
  BY <1>1, CarefulFacts DEF Sound, Tiles
<1>3. s \in Nat /\ s \in MemBot .. MemTop - n
  BY <1>1, <1>2, MemAssumption DEF End, Block
<1>4. ASSUME NEW a \in s .. s + n - 1
      PROVE  a \in Abs!FreeBytes
  <2>1. Holds(mem.heap, f, a)
    BY <1>1, <1>3 DEF Holds, End, Block
  <2>2. a \in MemBot .. MemTop - 1
    BY <1>3, MemAssumption
  <2> QED
    BY <2>1, <2>2, FreeBytesAreFree
<1> QED
  BY <1>3, <1>4 DEF Abs!Runs

(* More than any free block holds is nowhere free in one piece. *)
LEMMA NoRoomBeyond ==
  ASSUME CarefulInv, NEW n \in Nat \ {0}, NEW a \in MemBot .. MemTop - n,
         \A x \in a .. a + n - 1 : \E f \in FreeNodes(mem) : Holds(mem.heap, f, x)
  PROVE  \E f \in FreeNodes(mem) : n <= mem.heap[f].size
<1>1. a \in Nat
  BY MemAssumption
<1>2. PICK f \in FreeNodes(mem) : mem.heap[f].start <= a /\ a + n <= End(mem.heap[f])
  BY <1>1, CarefulFacts, StretchInOneBlock
<1>3. mem.heap[f] \in Block
  BY CarefulFacts DEF Sound, OnOneList, IsLists
<1> QED
  BY <1>1, <1>2, <1>3 DEF End, Block

(* Where no free block is large enough there is no room: free blocks never touch. *)
LEMMA NoRuns ==
  ASSUME CarefulInv, NEW n \in Nat \ {0}, \A f \in FreeNodes(mem) : ~ (n <= mem.heap[f].size)
  PROVE  Abs!Runs(n) = {}
<1> SUFFICES ASSUME NEW a \in Abs!Runs(n)
             PROVE  FALSE
  OBVIOUS
<1>1. a \in MemBot .. MemTop - n /\ a .. a + n - 1 \subseteq Abs!FreeBytes
  BY DEF Abs!Runs
<1>2. ASSUME NEW x \in a .. a + n - 1
      PROVE  \E f \in FreeNodes(mem) : Holds(mem.heap, f, x)
  <2>1. x \in Abs!FreeBytes /\ x \in MemBot .. MemTop - 1
    BY <1>1, MemAssumption
  <2> QED
    BY <2>1, FreeBytesAreFree
<1> QED
  BY <1>1, <1>2, NoRoomBeyond

(* The answer of Malloc(-1) to a program that runs. *)
LEMMA LargestAnswer ==
  ASSUME CarefulInv, NEW new
  PROVE  LET n == Malloc(mem, -1, new).ret
         IN /\ n \in Nat
            /\ n = 0 \/ \E f \in FreeNodes(mem) : n <= mem.heap[f].size
            /\ \A f \in FreeNodes(mem) : mem.heap[f].size <= n
<1>1. CASE mem.free = <<>>
  <2>1. FreeNodes(mem) = {}
    BY <1>1 DEF FreeNodes, Range
  <2> QED
    BY <1>1, <2>1 DEF Malloc
<1>2. CASE mem.free # <<>>
  <2>1. Malloc(mem, -1, new).ret = LargestFree(mem)
    BY <1>2 DEF Malloc
  <2>2. /\ LargestFree(mem) \in Nat
        /\ \E f \in FreeNodes(mem) : mem.heap[f].size = LargestFree(mem)
        /\ \A f \in FreeNodes(mem) : mem.heap[f].size <= LargestFree(mem)
    BY <1>2, CarefulFacts, LargestFreeNat
  <2> QED
    BY <2>1, <2>2
<1> QED
  BY <1>1, <1>2

(* Malloc(-1) tells a program the longest stretch that one Malloc could have:
   what is free is never hidden in blocks that touch and were not joined.    *)
THEOREM MaxIsLongest == CarefulSpec => []MaxIsLongestStretch
<1>1. Init => MaxIsLongestStretch
  BY DEF Init, MaxIsLongestStretch
<1>2. ASSUME CarefulInv, MaxIsLongestStretch, [CarefulNext]_vars, CarefulInv'
      PROVE  MaxIsLongestStretch'
  <2>1. CASE UNCHANGED vars
    BY <1>2, <2>1 DEF vars, MaxIsLongestStretch, Longest
  <2>2. ASSUME NEW size \in Nat, MallocCall(size)
        PROVE  MaxIsLongestStretch'
    BY <2>2 DEF MallocCall, MaxIsLongestStretch
  <2>3. CASE MallocCall(-1)
    <3> DEFINE Free(n) == \E a \in MemBot .. MemTop - n :
                            \A x \in a .. a + n - 1 :
                              \E f \in FreeNodes(mem) : Holds(mem.heap, f, x)
               S == {n \in 0 .. MemTop - MemBot : Free(n)}
    <3>1. PICK new \in Node \ DOMAIN mem.heap :
            /\ mem' = Malloc(mem, -1, new).mem
            /\ ret' = [call |-> "Malloc", size |-> -1, res |-> Malloc(mem, -1, new).ret]
      BY <2>3 DEF MallocCall
    <3> DEFINE r == Malloc(mem, -1, new).ret
    <3>2. mem' = mem /\ ret'.res = r
      BY <3>1 DEF Malloc
    <3>3. /\ r \in Nat
          /\ r = 0 \/ \E f \in FreeNodes(mem) : r <= mem.heap[f].size
          /\ \A f \in FreeNodes(mem) : mem.heap[f].size <= r
      BY <1>2, LargestAnswer
    <3> HIDE DEF r
    <3>4. \A f \in FreeNodes(mem) : mem.heap[f] \in Block
      BY <1>2, CarefulFacts DEF Sound, OnOneList, IsLists
    <3>5. r \in S
      <4>1. CASE r = 0
        <5>1. MemBot \in MemBot .. MemTop - r /\ MemBot .. MemBot + r - 1 = {}
          BY <4>1, MemAssumption
        <5>2. Free(r)
          BY <5>1
        <5> QED
          BY <4>1, <5>2, MemAssumption
      <4>2. CASE r # 0
        <5>1. PICK f \in FreeNodes(mem) : r <= mem.heap[f].size
          BY <3>3, <4>2
        <5> DEFINE s == mem.heap[f].start
        <5>2. MemBot <= s /\ End(mem.heap[f]) <= MemTop
          BY <1>2, CarefulFacts DEF Sound, Tiles, OnOneList
        <5>3. s \in MemBot .. MemTop - r /\ r \in 0 .. MemTop - MemBot /\ s \in Nat
          BY <3>3, <3>4, <5>1, <5>2, MemAssumption DEF End, Block
        <5>4. \A x \in s .. s + r - 1 : Holds(mem.heap, f, x)
          BY <3>3, <3>4, <5>1, <5>3 DEF Holds, End, Block
        <5> HIDE DEF s
        <5>5. Free(r)
          BY <5>3, <5>4
        <5> QED
          BY <5>3, <5>5
      <4> QED
        BY <4>1, <4>2
    <3>6. ASSUME NEW n \in S
          PROVE  n <= r
      <4>1. n \in Nat /\ Free(n)
        BY MemAssumption
      <4>2. CASE n = 0
        BY <3>3, <4>2
      <4>3. CASE n # 0
        <5>1. PICK a \in MemBot .. MemTop - n :
                \A x \in a .. a + n - 1 : \E f \in FreeNodes(mem) : Holds(mem.heap, f, x)
          BY <4>1
        <5>2. PICK f \in FreeNodes(mem) : n <= mem.heap[f].size
          BY <1>2, <4>1, <4>3, <5>1, NoRoomBeyond
        <5>3. mem.heap[f].size \in Nat /\ mem.heap[f].size <= r
          BY <3>3, <3>4 DEF Block
        <5> QED
          BY <3>3, <4>1, <5>2, <5>3
      <4> QED
        BY <4>2, <4>3
    <3>7. Longest = Max(S)
      BY DEF Longest
    <3>8. \A n \in S : n \in Nat
      BY MemAssumption
    <3> HIDE DEF S
    <3>9. Max(S) \in S /\ \A n \in S : Max(S) >= n
      BY <3>3, <3>5, <3>6, <3>8 DEF Max
    <3>10. Max(S) = r
      BY <3>3, <3>5, <3>6, <3>8, <3>9
    <3>11. Longest' = Longest
      BY <3>2 DEF Longest
    <3> QED
      BY <3>2, <3>7, <3>10, <3>11 DEF MaxIsLongestStretch
  <2>4. ASSUME NEW addr \in Int, MfreeCall(addr)
        PROVE  MaxIsLongestStretch'
    BY <2>4 DEF MfreeCall, MaxIsLongestStretch
  <2>5. ASSUME NEW addr \in Int, NEW newsiz \in Nat, MshrinkCall(addr, newsiz)
        PROVE  MaxIsLongestStretch'
    BY <2>5 DEF MshrinkCall, MaxIsLongestStretch
  <2> QED
    BY <1>2, <2>1, <2>2, <2>3, <2>4, <2>5, StepIsCall DEF CarefulNext
<1> QED
  BY <1>1, <1>2, CarefulInvariance, PTL DEF CarefulSpec

-----------------------------------------------------------------------------
(* The refinement: every call does what MemAbs says of it. *)
Held(m) == {m.heap[n] : n \in UsedNodes(m)}

(* Malloc answers as MemAbs promises, *)
LEMMA MallocRefines ==
  ASSUME CarefulInv, NEW size \in Nat \cup {-1}, MallocCall(size)
  PROVE  Abs!Next
<1>0. /\ Sound(mem, {}) /\ (mem.rover = FreeHead \/ RoverOnList(mem))
      /\ \A f \in FreeNodes(mem) : mem.heap[f] \in Block
  BY CarefulFacts DEF Sound, OnOneList, IsLists
<1>1. PICK new \in Node \ DOMAIN mem.heap :
        /\ mem' = Malloc(mem, size, new).mem
        /\ ret' = [call |-> "Malloc", size |-> size, res |-> Malloc(mem, size, new).ret]
        /\ \/ RoverOnList(mem)
           \/ size # -1 /\ mem.free # <<>> /\ Fits(mem, Align4(size)) # {}
  BY DEF MallocCall
<1> DEFINE r == Malloc(mem, size, new)
           n == Align4(size)
<1>2. ret'.call = "Malloc" /\ ret'.size = size /\ ret'.res = r.ret
  BY <1>1
<1>3. CASE size = -1
  <2>1. r.mem = mem
    BY <1>3 DEF Malloc
  <2>2. /\ r.ret \in Nat
        /\ r.ret = 0 \/ \E f \in FreeNodes(mem) : r.ret <= mem.heap[f].size
        /\ \A f \in FreeNodes(mem) : mem.heap[f].size <= r.ret
    BY <1>3, LargestAnswer
  <2> DEFINE a == r.ret
  <2> HIDE DEF r, n
  <2>3. Abs!Runs(a) # {} /\ a \in 0 .. MemTop - MemBot
    <3>1. CASE a = 0
      <4>1. MemBot .. MemBot + 0 - 1 = {} /\ MemBot \in MemBot .. MemTop - 0
        BY MemAssumption
      <4>2. MemBot \in Abs!Runs(0)
        BY <4>1 DEF Abs!Runs
      <4> QED
        BY <3>1, <4>2, MemAssumption
    <3>2. CASE a # 0
      <4>1. PICK f \in FreeNodes(mem) : a <= mem.heap[f].size
        BY <2>2, <3>2
      <4>2. mem.heap[f].start \in Abs!Runs(a)
        BY <2>2, <4>1, RoomInBlock
      <4>3. mem.heap[f].start \in MemBot .. MemTop - a
        BY <4>2 DEF Abs!Runs
      <4> QED
        BY <2>2, <4>2, <4>3, MemAssumption
    <3> QED
      BY <3>1, <3>2
  <2>4. Abs!Runs(a + 1) = {}
    <3>1. a + 1 \in Nat \ {0} /\ \A f \in FreeNodes(mem) : ~ (a + 1 <= mem.heap[f].size)
      BY <1>0, <2>2 DEF Block
    <3> QED
      BY <3>1, NoRuns
  <2>5. Held(mem') = Held(mem)
    BY <1>1, <2>1 DEF r
  <2>6. Abs!Largest
    BY <1>2, <1>3, <2>3, <2>4, <2>5 DEF Abs!Largest, Held, r
  <2> QED
    BY <2>6 DEF Abs!Next
<1>4. CASE size # -1
  <2>1. size \in Nat /\ n \in size .. size + 3 /\ Abs!Granted(size, n) /\ n \in Nat
    BY <1>4, Align4Nat DEF Abs!Granted
  <2>2. CASE mem.free = <<>> \/ Fits(mem, n) = {}
    <3>1. r = [mem |-> mem, ret |-> 0]
      BY <1>4, <2>2 DEF Malloc
    <3>2. Abs!Runs(n) = {} \/ n = 0
      <4>1. CASE mem.free = <<>>
        <5>1. FreeNodes(mem) = {}
          BY <4>1 DEF FreeNodes, Range
        <5> QED
          BY <2>1, <5>1, NoRuns
      <4>2. CASE mem.free # <<>>
        <5>1. RoverOnList(mem) /\ Fits(mem, n) = {}
          BY <1>1, <2>2, <4>2
        <5>2. \A f \in FreeNodes(mem) : ~ (mem.heap[f].size >= n)
          BY <1>0, <2>1, <4>2, <5>1, NothingFits
        <5>3. \A f \in FreeNodes(mem) : ~ (n <= mem.heap[f].size)
          BY <1>0, <2>1, <5>2 DEF Block
        <5> QED
          BY <2>1, <5>3, NoRuns
      <4> QED
        BY <4>1, <4>2
    <3>3. Held(mem') = Held(mem) /\ ret'.res = 0
      BY <1>1, <1>2, <3>1
    <3> HIDE DEF r, n
    <3>4. Abs!Reserve
      BY <1>2, <1>4, <2>1, <3>2, <3>3 DEF Abs!Reserve, Held
    <3> QED
      BY <3>4 DEF Abs!Next
  <2>3. CASE mem.free # <<>> /\ Fits(mem, n) # {}
    <3>1. PICK b \in FreeNodes(mem) :
            /\ n <= mem.heap[b].size
            /\ r.ret = mem.heap[b].start
            /\ UsedNodes(r.mem) = UsedNodes(mem) \cup {b}
            /\ r.mem.heap[b] = [start |-> mem.heap[b].start, size |-> n]
            /\ \A u \in UsedNodes(mem) : r.mem.heap[u] = mem.heap[u]
      BY <1>0, <2>1, <2>3, MallocTakes
    <3> HIDE DEF r, n
    <3>2. mem.heap[b].start \in Abs!Runs(n)
      BY <2>1, <3>1, RoomInBlock
    <3>3. mem' = r.mem
      BY <1>1 DEF r
    <3>4. Held(mem') = Held(mem) \cup {[start |-> r.ret, size |-> n]}
      BY <3>1, <3>3 DEF Held
    <3>5. Abs!Reserve
      BY <1>2, <1>4, <2>1, <3>1, <3>2, <3>4 DEF Abs!Reserve, Held
    <3> QED
      BY <3>5 DEF Abs!Next
  <2> QED
    BY <2>2, <2>3
<1> QED
  BY <1>3, <1>4

(* Mfree releases the block that starts at the address, and there is only one. *)
LEMMA MfreeHeld ==
  ASSUME CarefulInv, RoverOnList(mem), NEW addr
  PROVE  \/ /\ \A b \in Held(mem) : b.start # addr
            /\ Mfree(mem, addr) = [mem |-> mem, ret |-> EIMBA]
         \/ /\ Mfree(mem, addr).ret = E_OK
            /\ \E b \in Held(mem) :
                 b.start = addr /\ Held(Mfree(mem, addr).mem) = Held(mem) \ {b}
<1>0. Sound(mem, {}) /\ \A z \in DOMAIN mem.heap : mem.heap[z].size > 0
  BY CarefulFacts DEF NoneEmpty
<1>1. CASE UsedAt(mem, addr) = {}
  <2>1. \A b \in Held(mem) : b.start # addr
    BY <1>1 DEF UsedAt, Held, UsedNodes, Range
  <2> QED
    BY <1>1, <2>1 DEF Mfree
<1>2. CASE UsedAt(mem, addr) # {}
  <2>1. PICK x \in UsedNodes(mem) :
          /\ mem.heap[x].start = addr
          /\ UsedNodes(Mfree(mem, addr).mem) = UsedNodes(mem) \ {x}
          /\ \A u \in UsedNodes(mem) \ {x} : Mfree(mem, addr).mem.heap[u] = mem.heap[u]
    BY <1>0, <1>2, MfreeTakes
  <2>2. \A u \in UsedNodes(mem) : mem.heap[u] = mem.heap[x] => u = x
    BY <1>0, StartsDiffer
  <2>3. Held(Mfree(mem, addr).mem) = Held(mem) \ {mem.heap[x]}
    BY <2>1, <2>2 DEF Held
  <2>4. Mfree(mem, addr).ret = E_OK
    BY <1>2 DEF Mfree
  <2>5. mem.heap[x] \in Held(mem)
    BY DEF Held
  <2> QED
    BY <2>1, <2>3, <2>4, <2>5
<1> QED
  BY <1>1, <1>2

(* so does Mfree, *)
LEMMA MfreeRefines ==
  ASSUME CarefulInv, NEW addr \in Int, MfreeCall(addr)
  PROVE  Abs!Next
<1>1. /\ RoverOnList(mem) /\ mem' = Mfree(mem, addr).mem
      /\ ret'.call = "Mfree" /\ ret'.addr = addr /\ ret'.res = Mfree(mem, addr).ret
  BY DEF MfreeCall
<1>2. CASE /\ \A b \in Held(mem) : b.start # addr
           /\ Mfree(mem, addr) = [mem |-> mem, ret |-> EIMBA]
  <2>1. Held(mem') = Held(mem) /\ ret'.res = -40
    BY <1>1, <1>2 DEF EIMBA
  <2>2. Abs!Release
    BY <1>1, <1>2, <2>1 DEF Abs!Release, Held
  <2> QED
    BY <2>2 DEF Abs!Next
<1>3. CASE /\ Mfree(mem, addr).ret = E_OK
           /\ \E b \in Held(mem) :
                b.start = addr /\ Held(Mfree(mem, addr).mem) = Held(mem) \ {b}
  <2>1. ret'.res = 0 /\ \E b \in Held(mem) : b.start = ret'.addr /\ Held(mem') = Held(mem) \ {b}
    BY <1>1, <1>3 DEF E_OK
  <2>2. Abs!Release
    BY <1>1, <2>1 DEF Abs!Release, Held
  <2> QED
    BY <2>2 DEF Abs!Next
<1> QED
  BY <1>1, <1>2, <1>3, MfreeHeld

(* and so does Mshrink. *)
LEMMA MshrinkRefines ==
  ASSUME CarefulInv, NEW addr \in Int, NEW newsiz \in Nat, MshrinkCall(addr, newsiz)
  PROVE  Abs!Next
<1>0. /\ Sound(mem, {}) /\ \A z \in DOMAIN mem.heap : mem.heap[z].size > 0
      /\ \A u \in UsedNodes(mem) : mem.heap[u] \in Block
  BY CarefulFacts DEF NoneEmpty, Sound, OnOneList, IsLists
<1>1. PICK new \in Node \ DOMAIN mem.heap :
        /\ RoverOnList(mem)
        /\ mem' = Mshrink(mem, addr, newsiz, new).mem
        /\ ret' = [call |-> "Mshrink", addr |-> addr, size |-> newsiz,
                   res |-> Mshrink(mem, addr, newsiz, new).ret]
  BY DEF MshrinkCall
<1> DEFINE r == Mshrink(mem, addr, newsiz, new)
           n == Align4(newsiz)
           x == mem.used[Min(UsedAt(mem, addr))]
<1>2. /\ ret'.call = "Mshrink" /\ ret'.addr = addr /\ ret'.size = newsiz
      /\ ret'.res = r.ret /\ mem' = r.mem
  BY <1>1
<1>3. n \in newsiz .. newsiz + 3 /\ Abs!Granted(newsiz, n) /\ n \in Nat
  BY Align4Nat DEF Abs!Granted
<1>4. ASSUME \A b \in Held(mem) : b.start # addr, r = [mem |-> mem, ret |-> EIMBA]
      PROVE  Abs!Next
  <2>1. Held(mem') = Held(mem) /\ ret'.res = -40
    BY <1>2, <1>4 DEF EIMBA
  <2>2. Abs!Shrink
    BY <1>2, <1>4, <2>1 DEF Abs!Shrink, Held
  <2> QED
    BY <2>2 DEF Abs!Next
<1>5. CASE newsiz = 0
  <2>1. r = Mfree(mem, addr) /\ 0 \in newsiz .. newsiz + 3 /\ Abs!Granted(newsiz, 0)
    BY <1>5 DEF Mshrink, Abs!Granted
  <2>2. CASE /\ Mfree(mem, addr).ret = E_OK
             /\ \E b \in Held(mem) :
                  b.start = addr /\ Held(Mfree(mem, addr).mem) = Held(mem) \ {b}
    <3>1. PICK b \in Held(mem) : b.start = addr /\ Held(mem') = Held(mem) \ {b}
      BY <1>2, <2>1, <2>2
    <3>2. ret'.res = 0
      BY <1>2, <2>1, <2>2 DEF E_OK
    <3>3. 0 <= b.size
      BY <1>0 DEF Held, Block
    <3>4. Held(mem') = (Held(mem) \ {b}) \cup {}
      BY <3>1
    <3> HIDE DEF r, n, x
    <3>5. Abs!Shrink
      BY <1>2, <2>1, <3>1, <3>2, <3>3, <3>4 DEF Abs!Shrink, Held
    <3> QED
      BY <3>5 DEF Abs!Next
  <2> QED
    BY <1>1, <1>4, <2>1, <2>2, MfreeHeld
<1>6. CASE newsiz # 0 /\ UsedAt(mem, addr) = {}
  <2>1. \A b \in Held(mem) : b.start # addr
    BY <1>6 DEF UsedAt, Held, UsedNodes, Range
  <2>2. r = [mem |-> mem, ret |-> EIMBA]
    BY <1>6 DEF Mshrink
  <2> QED
    BY <1>4, <2>1, <2>2
<1>7. CASE newsiz # 0 /\ UsedAt(mem, addr) # {}
  <2>1. x \in UsedNodes(mem) /\ mem.heap[x].start = addr
    BY <1>0, <1>7, UsedAtMin DEF Sound, UsedNodes, Range
  <2>2. mem.heap[x] \in Held(mem) /\ mem.heap[x] \in Block
    BY <1>0, <2>1 DEF Held
  <2>3. CASE mem.heap[x].size < n
    <3>1. r = [mem |-> mem, ret |-> EGSBF]
      BY <1>7, <2>3 DEF Mshrink
    <3>2. Held(mem') = Held(mem) /\ ret'.res = -67
      BY <1>2, <3>1 DEF EGSBF
    <3> HIDE DEF r, n, x
    <3>3. n > mem.heap[x].size
      BY <1>3, <2>2, <2>3 DEF Block
    <3>4. Abs!Shrink
      BY <1>2, <1>3, <2>1, <2>2, <3>2, <3>3 DEF Abs!Shrink, Held
    <3> QED
      BY <3>4 DEF Abs!Next
  <2>4. CASE ~ (mem.heap[x].size < n)
    <3>1. r.mem = Cut(mem, x, n, new) /\ r.ret = n
      BY <1>7, <2>4 DEF Mshrink
    <3> HIDE DEF r, n, x
    <3>2. n <= mem.heap[x].size
      BY <1>3, <2>2, <2>4 DEF Block
    <3> DEFINE w == Cut(mem, x, n, new)
    <3>3. /\ Sound(w, {}) /\ UsedNodes(w) = UsedNodes(mem)
          /\ w.heap[x].start = addr /\ w.heap[x].size = n
          /\ \A u \in UsedNodes(mem) \ {x} : w.heap[u] = mem.heap[u]
      BY <1>0, <1>1, <1>3, <2>1, <3>2, CutKeeps
    <3> HIDE DEF w
    <3>4. w.heap[x] = [start |-> addr, size |-> n]
      <4>1. w.heap[x] \in Block
        BY <2>1, <3>3 DEF Sound, OnOneList, IsLists
      <4> QED
        BY <3>3, <4>1 DEF Block
    <3>5. \A u \in UsedNodes(mem) : mem.heap[u] = mem.heap[x] => u = x
      BY <1>0, <2>1, StartsDiffer
    <3>6. Held(w) = (Held(mem) \ {mem.heap[x]}) \cup {[start |-> addr, size |-> n]}
      BY <2>1, <3>3, <3>4, <3>5 DEF Held
    <3>7. mem' = w /\ ret'.res = n /\ n # 0
      <4>1. n # 0
        BY <1>3, <1>7
      <4> QED
        BY <1>2, <3>1, <4>1 DEF w
    <3>8. Abs!Shrink
      <4> DEFINE b == mem.heap[x]
      <4>1. b \in Held(mem) /\ b.start = addr /\ n <= b.size
        BY <2>1, <2>2, <3>2
      <4>2. Held(mem') = (Held(mem) \ {b}) \cup
                           (IF n = 0 THEN {} ELSE {[start |-> b.start, size |-> n]})
        BY <3>6, <3>7, <4>1
      <4> HIDE DEF b
      <4> QED
        BY <1>2, <1>3, <3>7, <4>1, <4>2 DEF Abs!Shrink, Held
    <3> QED
      BY <3>8 DEF Abs!Next
  <2> QED
    BY <2>3, <2>4
<1> QED
  BY <1>5, <1>6, <1>7

(* The lists, the nodes and the rover implement the promise of MemAbs: for a
   program that makes no empty block, every answer of Malloc, Mfree and Mshrink
   is the one that the set of reserved blocks alone determines.              *)
THEOREM PromiseKept == CarefulSpec => KeepsPromise
<1>1. Init => Abs!Init
  <2> SUFFICES ASSUME Init PROVE Abs!Init
    OBVIOUS
  <2>1. PICK first \in Node : mem = InitMemory(first)
    BY DEF Init
  <2>2. UsedNodes(mem) = {}
    BY <2>1 DEF InitMemory, UsedNodes, Range
  <2> QED
    BY <2>2 DEF Init, Abs!Init
<1>2. ASSUME CarefulInv, [CarefulNext]_vars
      PROVE  [Abs!Next]_<<{mem.heap[n] : n \in UsedNodes(mem)}, ret>>
  <2>1. CASE UNCHANGED vars
    BY <2>1 DEF vars, UsedNodes
  <2>2. CASE CarefulNext
    <3>1. Next
      BY <2>2 DEF CarefulNext
    <3>2. Abs!Next
      BY <1>2, <3>1, StepIsCall, MallocRefines, MfreeRefines, MshrinkRefines
    <3> QED
      BY <3>2
  <2> QED
    BY <1>2, <2>1, <2>2
<1> QED
  BY <1>1, <1>2, CarefulInvariance, PTL DEF CarefulSpec, KeepsPromise, Abs!Spec
=============================================================================
