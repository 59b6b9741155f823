----------------------------- MODULE DirProofs -----------------------------
(* Proofs about directory handles, for every memory, any number of host
   streams and entries and any memory calls of the program in between.       *)
EXTENDS GemdosDir, MemBlocksProofs, TLAPS

Handles == {e.h : e \in opened}

(* The lists of mem.c are in order. *)
Memory == Sound(mem, {}) /\ RoverOnList(mem) /\ NoEmptyBlock

(* No two open directories share a stream, and no handle is memory that the
   program reserved for itself.                                              *)
Apart ==
  /\ \A e, f \in opened : e.s = f.s => e = f
  /\ own \cap Handles = {}

(* The inductive invariant.  HandlesSound alone is not: without Apart a close
   could take the stream of another directory with it, and an Mfree of the
   program's own block could release a handle.                               *)
IInv == Memory /\ HandlesSound /\ Apart

-----------------------------------------------------------------------------
(* The reserved blocks are the handles and what the program has of its own. *)
LEMMA HandlesAreStarts ==
  ASSUME IInv
  PROVE  Starts(mem) = own \cup Handles
  BY DEF IInv, HandlesSound, HandlesReserved, Starts, Handles

(* Two directories never have the same handle. *)
LEMMA HandlesDiffer ==
  ASSUME IInv, NEW e \in opened, NEW f \in opened, e.h = f.h
  PROVE  e = f
  BY DEF IInv, HandlesSound, HandlesWork, Apart

(* No directory is open at the start. *)
LEMMA InitIInv == Init => IInv
<1> SUFFICES ASSUME Init PROVE IInv
  OBVIOUS
<1>1. PICK first \in Node :
        mem = [Malloc(InitMemory(first), MemTop - MemBot, Null).mem EXCEPT !.rover = Null]
  BY DEF Init
<1> DEFINE m == InitMemory(first)
           n == MemTop - MemBot
<1>2. /\ Sound(m, {}) /\ m.free = <<first>> /\ m.used = <<>>
      /\ m.heap = [x \in {first} |-> [start |-> MemBot, size |-> n]]
  BY InitMemorySound DEF InitMemory
<1>3. n \in Nat \ {0} /\ Align4(n) = n
  BY MemAssumption, DirAssumption DEF Align4
<1>4. Fits(m, n) = {1} /\ Probe(m, 1) = 1
  BY <1>3, InitMemoryFits
<1> HIDE DEF m, n
<1>5. Min({1}) = 1
  BY MinIsMember
<1>6. Malloc(m, n, Null).mem = Take(m, 1, n, Null)
  <2>1. m.free # <<>> /\ n # -1 /\ Fits(m, Align4(n)) # {}
    BY <1>2, <1>3, <1>4
  <2>2. Probe(m, Min(Fits(m, Align4(n)))) = 1
    BY <1>3, <1>4, <1>5
  <2> QED
    BY <1>3, <2>1, <2>2 DEF Malloc
<1>7. m.free[1] = first /\ 1 \in DOMAIN m.free /\ m.heap[first].size = n
  BY <1>2
<1>8. /\ Take(m, 1, n, Null).used = <<first>> \o m.used
      /\ Take(m, 1, n, Null).free = RemoveAt(m.free, 1)
      /\ Take(m, 1, n, Null).heap = m.heap
      /\ DOMAIN Take(m, 1, n, Null) = {"free", "used", "heap", "rover"}
  BY <1>7 DEF Take
<1>9. RemoveAt(m.free, 1) = <<>> /\ <<first>> \o m.used = <<first>>
  BY <1>2 DEF RemoveAt
<1>10. mem = [free |-> <<>>, used |-> <<first>>, heap |-> m.heap, rover |-> Null]
  BY <1>1, <1>6, <1>8, <1>9 DEF m, n
<1>11. /\ mem.free = <<>> /\ mem.used = <<first>> /\ mem.heap = m.heap /\ mem.rover = Null
       /\ DOMAIN mem = {"free", "used", "heap", "rover"}
  BY <1>10
<1>12. FreeNodes(mem) = {} /\ UsedNodes(mem) = {first}
  BY <1>11 DEF FreeNodes, UsedNodes, Range
<1>13. /\ DOMAIN mem.heap = {first}
       /\ mem.heap[first] = [start |-> MemBot, size |-> n]
       /\ mem.heap \in [DOMAIN mem.heap -> Block]
  BY <1>2, <1>3, <1>11, MemAssumption DEF Block
<1>14. IsLists(mem)
  BY <1>11, <1>13 DEF IsLists
<1>15. OnOneList(mem, {})
  BY <1>11, <1>12, <1>13 DEF OnOneList, IsInjective
<1>16. Memory
  BY <1>2, <1>3, <1>11, <1>13, <1>14, <1>15 DEF Memory, Sound, RoverOnList, NoEmptyBlock
<1>17. HandlesReserved
  BY <1>12, <1>13 DEF HandlesReserved, Init
<1>18. TypeOK
  <2>1. ptr \in [Addr -> Stream \cup {NoStream}] /\ MemBot \in Addr
    BY MemAssumption DEF Init, Addr
  <2>2. DOMAIN pos = {}
    BY DEF Init
  <2>3. errno = 0 /\ opened = {} /\ own = {MemBot} /\ failed = FALSE
    BY DEF Init
  <2> QED
    BY <1>14, <2>1, <2>2, <2>3 DEF TypeOK
<1>19. HandlesWork /\ StreamsOwned /\ Apart
  BY DEF HandlesWork, StreamsOwned, Apart, Handles, Init
<1> QED
  BY <1>16, <1>17, <1>18, <1>19 DEF IInv, HandlesSound

-----------------------------------------------------------------------------
(* The new handle is an address that was neither a handle nor the program's, so
   that the pointer written there destroys none of another directory.        *)
LEMMA DopendirKeeps ==
  ASSUME IInv, NEW scanned \in BOOLEAN, Dopendir(scanned), NoEmptyBlock', Roomy
  PROVE  IInv'
<1>1. PICK s \in Stream \ DOMAIN pos, new \in Free :
        /\ mem' = Malloc(mem, HandleSize, new).mem
        /\ ptr' = [ptr EXCEPT ![Malloc(mem, HandleSize, new).ret] = s]
        /\ pos' = [t \in DOMAIN pos \cup {s} |-> IF t = s THEN 0 ELSE pos[t]]
        /\ opened' = opened \cup {[h |-> Malloc(mem, HandleSize, new).ret, s |-> s]}
        /\ ret' = [call |-> "Dopendir", h |-> Malloc(mem, HandleSize, new).ret,
                   res |-> Malloc(mem, HandleSize, new).ret]
  BY DEF Dopendir
<1> DEFINE r == Malloc(mem, HandleSize, new)
<1>2. own' = own /\ errno' \in {0, ENOENT} /\ failed' \in BOOLEAN
  BY DEF Dopendir, HostFails, HostWorks, IInv, HandlesSound, TypeOK
<1>3. HandleSize \in Nat /\ new \in Node \ DOMAIN mem.heap
  BY DirAssumption DEF Free
<1>4. Sound(mem, {}) /\ RoverOnList(mem)
  BY DEF IInv, Memory
<1>5. Sound(mem', {}) /\ RoverOnList(mem')
  BY <1>1, <1>3, <1>4, MallocKeeps
<1>6. NoneEmpty(r.mem)
  BY <1>1 DEF NoEmptyBlock, NoneEmpty
<1>7. r.ret # 0
  BY <1>1 DEF Roomy
<1>8. /\ r.ret \in MemBot .. MemTop /\ r.ret \notin Starts(mem)
      /\ Starts(r.mem) = Starts(mem) \cup {r.ret}
  BY <1>3, <1>4, <1>6, <1>7, MallocReserves
<1> DEFINE h == r.ret
<1> HIDE DEF r
<1>9. /\ mem' = r.mem /\ ptr' = [ptr EXCEPT ![h] = s]
      /\ opened' = opened \cup {[h |-> h, s |-> s]}
      /\ DOMAIN pos' = DOMAIN pos \cup {s}
      /\ pos'[s] = 0 /\ \A t \in DOMAIN pos \ {s} : pos'[t] = pos[t]
  BY <1>1 DEF r
<1>10. h \in Addr /\ Starts(mem) = own \cup Handles /\ h \notin own \cup Handles
  BY <1>8, HandlesAreStarts DEF Addr
<1> HIDE DEF h
<1> DEFINE o == [h |-> h, s |-> s]
<1>a. o.h = h /\ o.s = s /\ opened' = opened \cup {o}
  BY <1>9
<1> HIDE DEF o
<1>11. /\ ptr \in [Addr -> Stream \cup {NoStream}] /\ DOMAIN pos \subseteq Stream
       /\ opened \subseteq [h : Addr, s : Stream] /\ own \subseteq Addr
       /\ \A t \in DOMAIN pos : pos[t] \in 0 .. Entries
       /\ 0 \in 0 .. Entries
  BY DirAssumption DEF IInv, HandlesSound, TypeOK
<1>12. TypeOK'
  <2>1. IsLists(mem')
    BY <1>5 DEF Sound
  <2>2. \A t \in DOMAIN pos' : pos'[t] \in 0 .. Entries
    BY <1>9, <1>11
  <2>3. [h |-> h, s |-> s] \in [h : Addr, s : Stream]
    BY <1>10
  <2>4. ptr' \in [Addr -> Stream \cup {NoStream}]
    BY <1>9, <1>10, <1>11
  <2> QED
    BY <1>2, <1>9, <1>11, <2>1, <2>2, <2>3, <2>4 DEF TypeOK
<1>13. \A e \in opened : e.h # h /\ e.h \in Addr /\ ptr[e.h] = e.s /\ e.s \in DOMAIN pos
  BY <1>10, <1>11 DEF Handles, IInv, HandlesSound, HandlesWork
<1>14. HandlesWork'
  <2>1. ptr'[h] = s /\ \A a \in Addr \ {h} : ptr'[a] = ptr[a]
    BY <1>9, <1>10, <1>11
  <2>2. \A e \in opened : ptr'[e.h] = e.s /\ e.s \in DOMAIN pos'
    BY <1>9, <1>13, <2>1
  <2> QED
    BY <1>9, <1>a, <2>1, <2>2 DEF HandlesWork
<1>15. StreamsOwned'
  <2>1. DOMAIN pos = {e.s : e \in opened}
    BY DEF IInv, HandlesSound, StreamsOwned
  <2>2. {e.s : e \in opened'} = {e.s : e \in opened} \cup {s}
    BY <1>a
  <2> QED
    BY <1>9, <2>1, <2>2 DEF StreamsOwned
<1>16. Handles' = Handles \cup {h}
  BY <1>a DEF Handles
<1>17. HandlesReserved'
  <2>1. Starts(mem') = own' \cup Handles'
    BY <1>2, <1>8, <1>9, <1>10, <1>16 DEF h
  <2> QED
    BY <2>1 DEF HandlesReserved, Starts, Handles
<1>18. Apart'
  <2>1. \A e, f \in opened' : e.s = f.s => e = f
    BY <1>9, <1>13 DEF IInv, Apart
  <2> QED
    BY <1>2, <1>10, <1>16, <2>1 DEF IInv, Apart
<1> QED
  BY <1>5, <1>12, <1>14, <1>15, <1>17, <1>18 DEF IInv, Memory, HandlesSound

(* Calls that touch neither memory nor handles. *)
LEMMA OnlyPositions ==
  ASSUME IInv, UNCHANGED <<mem, ptr, opened, own>>, DOMAIN pos' = DOMAIN pos,
         \A s \in DOMAIN pos : pos'[s] \in 0 .. Entries,
         errno' \in {0, ENOENT}, failed' \in BOOLEAN
  PROVE  IInv'
<1>1. TypeOK'
  BY DEF IInv, HandlesSound, TypeOK
<1>2. Memory' /\ Apart'
  BY DEF IInv, Memory, NoEmptyBlock, Apart, Handles
<1>3. HandlesWork' /\ StreamsOwned' /\ HandlesReserved'
  BY DEF IInv, HandlesSound, HandlesWork, StreamsOwned, HandlesReserved
<1> QED
  BY <1>1, <1>2, <1>3 DEF IInv, HandlesSound

(* The handle that Dopendir returned is a reserved block, so Mfree takes it and
   the stream of that directory, of which there is no other handle, is closed. *)
LEMMA DclosedirKeeps ==
  ASSUME IInv, NEW e \in opened, Dclosedir(e.h), NoEmptyBlock'
  PROVE  /\ IInv'
         /\ ret' = [call |-> "Dclosedir", h |-> e.h, res |-> E_OK]
         /\ ptr[e.h] \notin DOMAIN pos'
<1> DEFINE r == Mfree(mem, e.h)
<1>1. Sound(mem, {}) /\ RoverOnList(mem) /\ NoneEmpty(mem)
  BY DEF IInv, Memory, NoEmptyBlock, NoneEmpty
<1>2. Starts(mem) = own \cup Handles /\ e.h \in Starts(mem)
  BY HandlesAreStarts DEF Handles
<1>3. /\ r.ret = E_OK /\ Starts(r.mem) = Starts(mem) \ {e.h}
      /\ Sound(r.mem, {}) /\ RoverOnList(r.mem)
  BY <1>1, <1>2, MfreeReleases, MfreeKeeps
<1>4. ptr[e.h] = e.s /\ e.s \in DOMAIN pos
  BY DEF IInv, HandlesSound, HandlesWork
<1>5. (CHOOSE f \in opened : f.h = e.h) = e
  BY HandlesDiffer
<1>6. ~ (E_OK < 0)
  BY DEF E_OK
<1>7. /\ mem' = r.mem
      /\ pos' = [s \in DOMAIN pos \ {e.s} |-> pos[s]]
      /\ ret' = [call |-> "Dclosedir", h |-> e.h, res |-> E_OK]
      /\ opened' = opened \ {e}
      /\ UNCHANGED <<ptr, errno, own, failed>>
  BY <1>3, <1>4, <1>5, <1>6 DEF Dclosedir
<1> HIDE DEF r
<1>8. TypeOK'
  BY <1>3, <1>7 DEF IInv, HandlesSound, TypeOK, Sound
<1>9. \A f \in opened' : f \in opened /\ f.s # e.s /\ f.h # e.h
  BY <1>7, HandlesDiffer DEF IInv, Apart
<1>10. HandlesWork'
  BY <1>7, <1>9 DEF IInv, HandlesSound, HandlesWork
<1>11. StreamsOwned'
  BY <1>7, <1>9 DEF IInv, HandlesSound, StreamsOwned
<1>12. Handles' = Handles \ {e.h}
  BY <1>7, <1>9 DEF Handles
<1>13. HandlesReserved'
  <2>1. e.h \notin own
    BY DEF IInv, Apart, Handles
  <2>2. Starts(mem') = own' \cup Handles'
    BY <1>2, <1>3, <1>7, <1>12, <2>1
  <2> QED
    BY <2>2 DEF HandlesReserved, Starts, Handles
<1>14. Apart'
  BY <1>7, <1>9, <1>12 DEF IInv, Apart
<1> QED
  BY <1>3, <1>4, <1>7, <1>8, <1>10, <1>11, <1>13, <1>14 DEF IInv, Memory, HandlesSound

(* The program's own memory calls leave every handle where it is. *)
LEMMA OnlyMemory ==
  ASSUME IInv, UNCHANGED <<ptr, pos, errno, opened, failed>>, NoEmptyBlock',
         Sound(mem', {}), RoverOnList(mem'), own' \subseteq Addr,
         Starts(mem') = own' \cup Handles, own' \cap Handles = {}
  PROVE  IInv'
<1>1. Handles' = Handles
  BY DEF Handles
<1>2. HandlesReserved'
  BY <1>1 DEF HandlesReserved, Starts, Handles
<1>3. TypeOK'
  BY DEF IInv, HandlesSound, TypeOK, Sound
<1>4. HandlesWork' /\ StreamsOwned' /\ Apart'
  BY <1>1 DEF IInv, HandlesSound, HandlesWork, StreamsOwned, Apart
<1> QED
  BY <1>2, <1>3, <1>4 DEF IInv, Memory, HandlesSound

(* The memory calls of the program leave its handles alone. *)
LEMMA GuestKeeps ==
  ASSUME IInv, NoEmptyBlock',
         \/ \E size \in Sizes : GuestMalloc(size)
         \/ \E addr \in own \ {MemBot} : GuestMfree(addr)
         \/ \E addr \in own, size \in Sizes : GuestMshrink(addr, size)
  PROVE  IInv'
<1>1. Sound(mem, {}) /\ RoverOnList(mem) /\ NoneEmpty(mem)
  BY DEF IInv, Memory, NoEmptyBlock, NoneEmpty
<1>2. Starts(mem) = own \cup Handles /\ own \cap Handles = {} /\ own \subseteq Addr
  BY HandlesAreStarts DEF IInv, Apart, HandlesSound, TypeOK
<1>3. ASSUME NEW size \in Sizes, GuestMalloc(size)
      PROVE  IInv'
  <2>1. PICK new \in Free :
          /\ mem' = Malloc(mem, size, new).mem
          /\ own' = own \cup ({Malloc(mem, size, new).ret} \ {0})
    BY <1>3 DEF GuestMalloc
  <2> DEFINE r == Malloc(mem, size, new)
  <2>2. size \in Nat /\ new \in Node \ DOMAIN mem.heap
    BY DirAssumption DEF Free
  <2>3. Sound(mem', {}) /\ RoverOnList(mem')
    BY <1>1, <2>1, <2>2, MallocKeeps
  <2>4. NoneEmpty(r.mem)
    BY <2>1 DEF NoEmptyBlock, NoneEmpty
  <2>5. \/ r.ret = 0 /\ r.mem = mem
        \/ /\ r.ret \in MemBot .. MemTop /\ r.ret \notin Starts(mem)
           /\ Starts(r.mem) = Starts(mem) \cup {r.ret}
    BY <1>1, <2>2, <2>4, MallocReserves
  <2> HIDE DEF r
  <2>6. mem' = r.mem /\ own' = own \cup ({r.ret} \ {0})
    BY <2>1 DEF r
  <2>7. /\ Starts(mem') = own' \cup Handles /\ own' \cap Handles = {}
        /\ own' \subseteq Addr
    <3>1. CASE r.ret = 0 /\ r.mem = mem
      BY <1>2, <2>6, <3>1
    <3>2. CASE /\ r.ret \in MemBot .. MemTop /\ r.ret \notin Starts(mem)
               /\ Starts(r.mem) = Starts(mem) \cup {r.ret}
      <4>1. r.ret # 0 /\ r.ret \in Addr
        BY <3>2, MemAssumption DEF Addr
      <4> QED
        BY <1>2, <2>6, <3>2, <4>1
    <3> QED
      BY <2>5, <3>1, <3>2
  <2> QED
    BY <1>3, <2>3, <2>7, OnlyMemory DEF GuestMalloc
<1>4. ASSUME NEW addr \in own \ {MemBot}, GuestMfree(addr)
      PROVE  IInv'
  <2>1. mem' = Mfree(mem, addr).mem /\ own' = own \ {addr}
    BY <1>4 DEF GuestMfree
  <2>2. Sound(mem', {}) /\ RoverOnList(mem') /\ Starts(mem') = Starts(mem) \ {addr}
    BY <1>1, <1>2, <2>1, MfreeKeeps, MfreeReleases
  <2>3. Starts(mem') = own' \cup Handles
    BY <1>2, <2>1, <2>2
  <2> QED
    BY <1>2, <1>4, <2>1, <2>2, <2>3, OnlyMemory DEF GuestMfree
<1>5. ASSUME NEW addr \in own, NEW size \in Sizes, GuestMshrink(addr, size)
      PROVE  IInv'
  <2>1. PICK new \in Free : mem' = Mshrink(mem, addr, size, new).mem
    BY <1>5 DEF GuestMshrink
  <2>2. size \in Nat \ {0} /\ new \in Node \ DOMAIN mem.heap
    BY DirAssumption DEF Free
  <2>3. Sound(mem', {}) /\ RoverOnList(mem') /\ Starts(mem') = Starts(mem)
    BY <1>1, <2>1, <2>2, MshrinkKeeps, MshrinkStays
  <2> QED
    BY <1>2, <1>5, <2>3, OnlyMemory DEF GuestMshrink
<1> QED
  BY <1>3, <1>4, <1>5

-----------------------------------------------------------------------------
(* Every action keeps the invariant while there is room for the handles. *)
LEMMA NextIInv == IInv /\ [Next /\ NoEmptyBlock' /\ Roomy]_vars => IInv'
<1> SUFFICES ASSUME IInv, [Next /\ NoEmptyBlock' /\ Roomy]_vars
             PROVE  IInv'
  OBVIOUS
<1>0. /\ errno \in {0, ENOENT} /\ failed \in BOOLEAN
      /\ \A s \in DOMAIN pos : pos[s] \in 0 .. Entries
  BY DEF IInv, HandlesSound, TypeOK
<1>1. CASE UNCHANGED vars
  BY <1>0, <1>1, OnlyPositions DEF vars
<1>2. CASE Next /\ NoEmptyBlock' /\ Roomy
  <2>1. ASSUME NEW scanned \in BOOLEAN, Dopendir(scanned)
        PROVE  IInv'
    BY <1>2, <2>1, DopendirKeeps
  <2>2. CASE DopendirFails
    BY <1>0, <2>2, OnlyPositions DEF DopendirFails, HostFails
  <2>3. ASSUME NEW e \in opened, Dreaddir(e.h) \/ Drewinddir(e.h)
        PROVE  IInv'
    <3>1. ptr[e.h] \in DOMAIN pos
      BY DEF IInv, HandlesSound, HandlesWork
    <3>2. /\ DOMAIN pos' = DOMAIN pos
          /\ \A s \in DOMAIN pos : pos'[s] \in 0 .. Entries
      BY <1>0, <2>3, <3>1, DirAssumption DEF Dreaddir, Drewinddir
    <3>3. UNCHANGED <<mem, ptr, errno, opened, own, failed>>
      BY <2>3 DEF Dreaddir, Drewinddir
    <3> QED
      BY <1>0, <3>2, <3>3, OnlyPositions
  <2>4. ASSUME NEW e \in opened, Dclosedir(e.h)
        PROVE  IInv'
    BY <1>2, <2>4, DclosedirKeeps
  <2>5. CASE \/ \E size \in Sizes : GuestMalloc(size)
             \/ \E addr \in own \ {MemBot} : GuestMfree(addr)
             \/ \E addr \in own, size \in Sizes : GuestMshrink(addr, size)
    BY <1>2, <2>5, GuestKeeps
  <2>6. CASE OtherCallFails
    BY <1>0, <2>6, OnlyPositions DEF OtherCallFails, HostFails
  <2> QED
    BY <1>2, <2>1, <2>2, <2>3, <2>4, <2>5, <2>6 DEF Next
<1> QED
  BY <1>1, <1>2

(* The inductive invariant holds for a program that leaves memory for handles. *)
THEOREM RoomyInvariance == RoomySpec => []IInv
<1>1. Init => IInv
  BY InitIInv
<1>2. IInv /\ [Next /\ NoEmptyBlock' /\ Roomy]_vars => IInv'
  BY NextIInv
<1> QED
  BY <1>1, <1>2, PTL DEF RoomySpec

(* Each handle of Dopendir leads to its own open stream, no stream is leaked,
   and the block behind the handle is reserved exactly as long as the directory
   is open, whatever the program's own Malloc, Mfree and Mshrink do between.   *)
THEOREM HandlesStaySound == RoomySpec => []HandlesSound
<1>1. IInv => HandlesSound
  BY DEF IInv
<1> QED
  BY <1>1, RoomyInvariance, PTL

(* As long as Malloc(16) of Dopendir finds memory, Dclosedir does what its
   comment says: it answers E_OK and the host's stream is closed.            *)
THEOREM ClosesWithRoom == RoomySpec => CloseCloses
<1> DEFINE A == ret'.call = "Dclosedir" => ret'.res = E_OK /\ ptr[ret'.h] \notin DOMAIN pos'
<1>1. ASSUME IInv, [Next /\ NoEmptyBlock' /\ Roomy]_vars
      PROVE  [A]_vars
  <2>1. CASE UNCHANGED vars
    BY <2>1
  <2>2. CASE Next /\ NoEmptyBlock' /\ Roomy
    <3>1. ASSUME NEW e \in opened, Dclosedir(e.h)
          PROVE  A
      <4>1. /\ ret' = [call |-> "Dclosedir", h |-> e.h, res |-> E_OK]
            /\ ptr[e.h] \notin DOMAIN pos'
        BY <1>1, <2>2, <3>1, DclosedirKeeps
      <4> QED
        BY <4>1
    <3>2. ASSUME NEW e \in opened, Dreaddir(e.h) \/ Drewinddir(e.h)
          PROVE  ret'.call # "Dclosedir"
      BY <3>2 DEF Dreaddir, Drewinddir
    <3>3. CASE \/ \E scanned \in BOOLEAN : Dopendir(scanned)
               \/ DopendirFails
               \/ \E size \in Sizes : GuestMalloc(size)
               \/ \E addr \in own \ {MemBot} : GuestMfree(addr)
               \/ \E addr \in own, size \in Sizes : GuestMshrink(addr, size)
               \/ OtherCallFails
      <4>1. ASSUME NEW scanned \in BOOLEAN, Dopendir(scanned)
            PROVE  ret'.call # "Dclosedir"
        BY <4>1 DEF Dopendir
      <4>2. ASSUME NEW size \in Sizes, GuestMalloc(size)
            PROVE  ret'.call # "Dclosedir"
        BY <4>2 DEF GuestMalloc
      <4>3. ASSUME NEW addr, GuestMfree(addr)
            PROVE  ret'.call # "Dclosedir"
        BY <4>3 DEF GuestMfree
      <4>4. ASSUME NEW addr, NEW size, GuestMshrink(addr, size)
            PROVE  ret'.call # "Dclosedir"
        BY <4>4 DEF GuestMshrink
      <4>5. CASE DopendirFails \/ OtherCallFails
        BY <4>5 DEF DopendirFails, OtherCallFails
      <4> QED
        BY <3>3, <4>1, <4>2, <4>3, <4>4, <4>5
    <3> QED
      BY <2>2, <3>1, <3>2, <3>3 DEF Next
  <2> QED
    BY <1>1, <2>1, <2>2
<1> QED
  BY <1>1, RoomyInvariance, PTL DEF RoomySpec, CloseCloses

-----------------------------------------------------------------------------
(* errno is set by a host call that failed, and by nothing else. *)
Blame == errno # 0 => failed = TRUE

(* Dreaddir never calls a good handle bad before some host call has failed, and
   delivers every entry whatever errno says.  No memory is needed for this.    *)
THEOREM BadHandleNeedsFailure == Spec => BadHandleMeansFailure
<1> DEFINE A == ret'.call = "Dreaddir" =>
                  /\ ret'.res = EIHNDL => failed
                  /\ ret'.res = E_OK <=> pos[ptr[ret'.h]] < Entries
<1>1. Init => Blame
  BY DEF Init, Blame
<1>2. ASSUME Blame, [Next /\ NoEmptyBlock']_vars
      PROVE  Blame' /\ [A]_vars
  <2>1. CASE UNCHANGED vars
    BY <1>2, <2>1 DEF vars, Blame
  <2>2. CASE Next
    <3>1. ASSUME NEW h, Dreaddir(h)
          PROVE  Blame' /\ A
      <4>1. errno' = errno /\ failed' = failed
        BY <3>1 DEF Dreaddir
      <4>2. CASE pos[ptr[h]] < Entries
        <5>1. ret' = [call |-> "Dreaddir", h |-> h, res |-> E_OK]
          BY <3>1, <4>2 DEF Dreaddir
        <5> QED
          BY <1>2, <4>1, <4>2, <5>1 DEF Blame, E_OK, EIHNDL
      <4>3. CASE ~ (pos[ptr[h]] < Entries)
        <5>1. ret' = [call |-> "Dreaddir", h |-> h,
                      res |-> IF errno # 0 THEN EIHNDL ELSE ENMFIL]
          BY <3>1, <4>3 DEF Dreaddir
        <5> QED
          BY <1>2, <4>1, <4>3, <5>1 DEF Blame, E_OK, EIHNDL, ENMFIL
      <4> QED
        BY <4>2, <4>3
    <3>2. ASSUME NEW h, Drewinddir(h) \/ Dclosedir(h)
          PROVE  Blame' /\ A
      BY <1>2, <3>2 DEF Drewinddir, Dclosedir, Blame
    <3>3. ASSUME NEW scanned \in BOOLEAN, Dopendir(scanned)
          PROVE  Blame' /\ A
      <4>1. Blame'
        BY <1>2, <3>3 DEF Dopendir, HostFails, HostWorks, Blame
      <4>2. ret'.call # "Dreaddir"
        BY <3>3 DEF Dopendir
      <4> QED
        BY <4>1, <4>2
    <3>4. CASE DopendirFails \/ OtherCallFails
      BY <1>2, <3>4 DEF DopendirFails, OtherCallFails, HostFails, Blame
    <3>5. ASSUME NEW size \in Sizes, GuestMalloc(size)
          PROVE  Blame' /\ A
      BY <1>2, <3>5 DEF GuestMalloc, Blame
    <3>6. ASSUME NEW addr, GuestMfree(addr)
          PROVE  Blame' /\ A
      BY <1>2, <3>6 DEF GuestMfree, Blame
    <3>7. ASSUME NEW addr, NEW size, GuestMshrink(addr, size)
          PROVE  Blame' /\ A
      BY <1>2, <3>7 DEF GuestMshrink, Blame
    <3> HIDE DEF A
    <3> QED
      BY <2>2, <3>1, <3>2, <3>3, <3>4, <3>5, <3>6, <3>7 DEF Next
  <2> QED
    BY <1>2, <2>1, <2>2
<1> QED
  BY <1>1, <1>2, PTL DEF Spec, BadHandleMeansFailure
=============================================================================
