----------------------------- MODULE GemdosDir -----------------------------
(***************************************************************************)
(* Directory handles: Dopendir, Dreaddir, Drewinddir and Dclosedir of      *)
(* gemdos/dir.c.  A handle is the address of a block of guest memory that  *)
(* Dopendir takes from Malloc and fills with the host's DIR pointer, so    *)
(* the calls depend on the memory lists of mem.c, on the host's streams    *)
(* and on the host's errno, which the code reads but never clears.         *)
(***************************************************************************)
EXTENDS MemBlocks

CONSTANTS
  Stream,      \* the host's DIR objects
  NoStream,    \* what a word of guest memory holds before a pointer is put there
  Entries,     \* number of entries of each directory
  HandleSize,  \* 16 in the code
  Sizes        \* sizes of the program's own Malloc and Mshrink calls

ASSUME DirAssumption ==
  /\ NoStream \notin Stream
  /\ Entries \in Nat
  /\ HandleSize \in Nat \ {0}
  /\ Sizes \subseteq Nat \ {0}
  /\ (MemTop - MemBot) % 4 = 0   \* 16 MiB less 64 KiB: the program gets all of it

VARIABLES
  mem,      \* the lists of mem.c
  ptr,      \* the 64-bit word of guest memory at each address
  pos,      \* position of each open host stream: DOMAIN pos is the open ones
  errno,    \* 0, or the error of the last host call that failed
  opened,   \* the program's view: [h, s] for each directory it has not closed
  own,      \* addresses of the blocks the program reserved itself
  failed,   \* has any host call of this process failed
  ret       \* the last call and its answer

vars == <<mem, ptr, pos, errno, opened, own, failed, ret>>

EPTHNF == -34
EIHNDL == -37
ENMFIL == -49
ENOENT == 2

Addr == {0} \cup MemBot .. MemTop

Free == Node \ DOMAIN mem.heap

-----------------------------------------------------------------------------
(* The program runs in the one block that LoadExe reserved. *)
Init ==
  /\ \E first \in Node :
       mem = [Malloc(InitMemory(first), MemTop - MemBot, Null).mem EXCEPT !.rover = Null]
  /\ ptr = [a \in Addr |-> NoStream]
  /\ pos = [s \in {} |-> 0]
  /\ errno = 0
  /\ opened = {}
  /\ own = {MemBot}
  /\ failed = FALSE
  /\ ret = [call |-> "none"]

HostFails == errno' = ENOENT /\ failed' = TRUE
HostWorks == UNCHANGED <<errno, failed>>

(* Dopendir of a directory that exists.  Finding it may take a scan of its
   parent (tos_path_to_unix), after an lstat that failed.                  *)
Dopendir(scanned) ==
  /\ IF scanned THEN HostFails ELSE HostWorks
  /\ \E s \in Stream \ DOMAIN pos, new \in Free :
       LET r == Malloc(mem, HandleSize, new)
       IN /\ mem' = r.mem
          /\ ptr' = [ptr EXCEPT ![r.ret] = s]
          /\ pos' = [t \in DOMAIN pos \cup {s} |-> IF t = s THEN 0 ELSE pos[t]]
          /\ opened' = opened \cup {[h |-> r.ret, s |-> s]}
          /\ ret' = [call |-> "Dopendir", h |-> r.ret, res |-> r.ret]
  /\ UNCHANGED own

(* No such directory, or one that cannot be read. *)
DopendirFails ==
  /\ HostFails
  /\ ret' = [call |-> "Dopendir", h |-> 0, res |-> EPTHNF]
  /\ UNCHANGED <<mem, ptr, pos, opened, own>>

(* Mutant: the answer at the end does not depend on errno. *)
DreaddirAlwaysBad(h) ==
  LET s == ptr[h]
  IN /\ IF pos[s] < Entries
        THEN /\ pos' = [pos EXCEPT ![s] = @ + 1]
             /\ ret' = [call |-> "Dreaddir", h |-> h, res |-> E_OK]
        ELSE /\ ret' = [call |-> "Dreaddir", h |-> h, res |-> EIHNDL]
             /\ UNCHANGED pos
     /\ UNCHANGED <<mem, ptr, errno, opened, own, failed>>

(* readdir answers NULL at the end and leaves errno alone. *)
Dreaddir(h) ==
  LET s == ptr[h]
  IN /\ IF pos[s] < Entries
        THEN /\ pos' = [pos EXCEPT ![s] = @ + 1]
             /\ ret' = [call |-> "Dreaddir", h |-> h, res |-> E_OK]
        ELSE /\ ret' = [call |-> "Dreaddir", h |-> h,
                        res |-> IF errno # 0 THEN EIHNDL ELSE ENMFIL]
             /\ UNCHANGED pos
     /\ UNCHANGED <<mem, ptr, errno, opened, own, failed>>

Drewinddir(h) ==
  /\ pos' = [pos EXCEPT ![ptr[h]] = 0]
  /\ ret' = [call |-> "Drewinddir", h |-> h, res |-> E_OK]
  /\ UNCHANGED <<mem, ptr, errno, opened, own, failed>>

(* Mutant of Dclosedir: the stream stays open. *)
DclosedirKeepsStream(h) ==
  LET r == Mfree(mem, h)
  IN /\ mem' = r.mem
     /\ pos' = pos
     /\ ret' = [call |-> "Dclosedir", h |-> h, res |-> r.ret]
     /\ opened' = opened \ {CHOOSE e \in opened : e.h = h}
     /\ UNCHANGED <<ptr, errno, own, failed>>

(* The pointer is read, the block is given back, and only if that works is
   the stream closed.                                                      *)
Dclosedir(h) ==
  LET r == Mfree(mem, h)
  IN /\ mem' = r.mem
     /\ pos' = IF r.ret < 0 THEN pos ELSE [s \in DOMAIN pos \ {ptr[h]} |-> pos[s]]
     /\ ret' = [call |-> "Dclosedir", h |-> h, res |-> r.ret]
     /\ opened' = opened \ {CHOOSE e \in opened : e.h = h}
     /\ UNCHANGED <<ptr, errno, own, failed>>

-----------------------------------------------------------------------------
(* The program's own use of memory, and its other calls. *)
GuestMalloc(size) ==
  /\ \E new \in Free :
       LET r == Malloc(mem, size, new)
       IN /\ mem' = r.mem
          /\ own' = own \cup ({r.ret} \ {0})
          /\ ret' = [call |-> "Malloc", h |-> 0, res |-> r.ret]
  /\ UNCHANGED <<ptr, pos, errno, opened, failed>>

GuestMfree(addr) ==
  /\ LET r == Mfree(mem, addr)
     IN mem' = r.mem /\ ret' = [call |-> "Mfree", h |-> addr, res |-> r.ret]
  /\ own' = own \ {addr}
  /\ UNCHANGED <<ptr, pos, errno, opened, failed>>

GuestMshrink(addr, size) ==
  /\ \E new \in Free :
       LET r == Mshrink(mem, addr, size, new)
       IN mem' = r.mem /\ ret' = [call |-> "Mshrink", h |-> addr, res |-> r.ret]
  /\ UNCHANGED <<ptr, pos, errno, opened, own, failed>>

(* Any other call, of any file, whose host call fails. *)
OtherCallFails ==
  /\ HostFails
  /\ ret' = [call |-> "other", h |-> 0, res |-> EPTHNF]
  /\ UNCHANGED <<mem, ptr, pos, opened, own>>

(* The program passes the handles it was given and frees what it reserved; it
   shrinks a block to less than its size, so that no block is empty.       *)
Next ==
  \/ \E scanned \in BOOLEAN : Dopendir(scanned)
  \/ DopendirFails
  \/ \E e \in opened : Dreaddir(e.h) \/ Drewinddir(e.h) \/ Dclosedir(e.h)
  \/ \E size \in Sizes : GuestMalloc(size)
  \/ \E addr \in own \ {MemBot} : GuestMfree(addr)
  \/ \E addr \in own, size \in Sizes : GuestMshrink(addr, size)
  \/ OtherCallFails

NoEmptyBlock == \A n \in DOMAIN mem.heap : mem.heap[n].size > 0

Spec == Init /\ [][Next /\ NoEmptyBlock']_vars

(* A program that leaves enough memory for its directory handles. *)
Roomy == ret'.call = "Dopendir" => ret'.res # 0

RoomySpec == Init /\ [][Next /\ NoEmptyBlock' /\ Roomy]_vars

-----------------------------------------------------------------------------
(* Type invariant of the lists, the streams and the words of guest memory. *)
TypeOK ==
  /\ IsLists(mem)
  /\ ptr \in [Addr -> Stream \cup {NoStream}]
  /\ DOMAIN pos \subseteq Stream /\ \A s \in DOMAIN pos : pos[s] \in 0 .. Entries
  /\ errno \in {0, ENOENT}
  /\ opened \subseteq [h : Addr, s : Stream]
  /\ own \subseteq Addr
  /\ failed \in BOOLEAN

(* A handle leads to the stream it was opened for, and that stream is open:
   no close of another directory and no reuse of the memory of a closed
   handle comes between.                                                   *)
HandlesWork == \A e \in opened : ptr[e.h] = e.s /\ e.s \in DOMAIN pos

(* No host stream outlives the handles of the program. *)
StreamsOwned == DOMAIN pos = {e.s : e \in opened}

(* A handle is reserved memory as long as its directory is open and at no
   other time: Dclosedir gives the block back to Malloc.                   *)
HandlesReserved ==
  {mem.heap[n].start : n \in UsedNodes(mem)} = own \cup {e.h : e \in opened}

(* Handles, streams and guest memory agree: all of the above. *)
HandlesSound == TypeOK /\ HandlesWork /\ StreamsOwned /\ HandlesReserved

(* Dclosedir of a handle that Dopendir returned closes the directory. *)
CloseCloses ==
  [][ret'.call = "Dclosedir" => ret'.res = E_OK /\ ptr[ret'.h] \notin DOMAIN pos']_vars

(* Dreaddir calls a good handle bad only after some host call has failed: as
   errno is never cleared, one failed call is enough to spoil the end of
   every later listing, and none is needed to list the entries.            *)
BadHandleMeansFailure ==
  [][ret'.call = "Dreaddir" =>
       /\ ret'.res = EIHNDL => failed
       /\ ret'.res = E_OK <=> pos[ptr[ret'.h]] < Entries]_vars
=============================================================================
