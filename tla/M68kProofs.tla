----------------------------- MODULE M68kProofs -----------------------------
(***************************************************************************)
(* Proofs about the emulator.  About M68kArith: the flag macros of         *)
(* m68kcpu.h are right at every width, where the half range h may be any   *)
(* positive number, 2^7, 2^15 and 2^31 among them; M68kCpu model-checks    *)
(* the handlers that use them on narrow integers.  About M68kExc, for      *)
(* stacks of any depth, programs of any size and exceptions nested to any  *)
(* depth: the type of the cpu, that no interrupt request above the mask is *)
(* left waiting, that the stacks are kept apart, that supervisor mode is   *)
(* entered at a handler only, and that every exception in progress finds   *)
(* its way back.                                                           *)
(***************************************************************************)
EXTENDS M68kArith, M68kExc, TLAPS

(***************************************************************************)
(* Flags.                                                                  *)
(***************************************************************************)

\* The unsigned numbers of a width.
Range(h) == 0 .. 2 * h - 1

\* The signed numbers of a width.
SRange(h) == -h .. h - 1

\* A number of the width is its own remainder.
LEMMA ModWithin ==
    ASSUME NEW m \in Nat \ {0}, NEW r \in 0 .. m - 1
    PROVE  r % m = r /\ r \div m = 0
OBVIOUS

\* One carry: the remainder of a sum of two numbers of the width.
LEMMA ModAbove ==
    ASSUME NEW m \in Nat \ {0}, NEW r \in m .. 2 * m - 1
    PROVE  r % m = r - m /\ r \div m = 1
OBVIOUS

\* One borrow: the remainder of a difference of two numbers of the width.
LEMMA ModBelow ==
    ASSUME NEW m \in Nat \ {0}, NEW r \in (-m) .. -1
    PROVE  r % m = r + m /\ r \div m = -1
OBVIOUS

\* What MASK_OUT_ABOVE, NFLAG and CFLAG_8/16 make of the unmasked result of an
\* addition or a subtraction.
LEMMA FlagsOfResult ==
    ASSUME NEW h \in Nat \ {0}, NEW r \in (-2 * h) .. 4 * h - 1
    PROVE  /\ Low(h, r) = IF r < 0 THEN r + 2 * h ELSE IF r < 2 * h THEN r ELSE r - 2 * h
           /\ NFlag(h, r) <=> \/ r \in (-h) .. -1
                              \/ r \in h .. 2 * h - 1
                              \/ r \in 3 * h .. 4 * h - 1
           /\ CFlag(h, r) <=> r \notin Range(h)
<1> DEFINE m == 2 * h
<1>1. m \in Nat \ {0}
  OBVIOUS
<1>2. CASE r \in (-m) .. -1
  <2>1. r % m = r + m /\ r \div m = -1
    BY <1>1, <1>2, ModBelow
  <2> QED BY <2>1, <1>2 DEF Low, NFlag, CFlag, Range
<1>3. CASE r \in 0 .. m - 1
  <2>1. r % m = r /\ r \div m = 0
    BY <1>1, <1>3, ModWithin
  <2> QED BY <2>1, <1>3 DEF Low, NFlag, CFlag, Range
<1>4. CASE r \in m .. 2 * m - 1
  <2>1. r % m = r - m /\ r \div m = 1
    BY <1>1, <1>4, ModAbove
  <2> QED BY <2>1, <1>4 DEF Low, NFlag, CFlag, Range
<1> QED BY <1>1, <1>2, <1>3, <1>4

\* A flag is on or off.
LEMMA Booleans ==
    ASSUME NEW h, NEW r
    PROVE  NFlag(h, r) \in BOOLEAN
BY DEF NFlag

\* MAKE_INT and NFLAG of an operand.
LEMMA OperandSigned ==
    ASSUME NEW h \in Nat \ {0}, NEW v \in Range(h)
    PROVE  /\ NFlag(h, v) <=> v >= h
           /\ Signed(h, v) = IF v >= h THEN v - 2 * h ELSE v
<1>1. Low(h, v) = v
  BY FlagsOfResult DEF Range
<1> QED BY <1>1 DEF NFlag, Signed, Range

\* ADD and ADDX (x the extend bit): VFLAG_ADD is signed overflow, and
\* CFLAG_ADD_32, which has no bit above the result to look at, is the carry
\* that CFLAG_8 and CFLAG_16 read off the unmasked sum.
THEOREM AdditionFlags ==
    ASSUME NEW h \in Nat \ {0}, NEW s \in Range(h), NEW d \in Range(h), NEW x \in 0 .. 1
    PROVE  /\ VFlagAdd(h, s, d, s + d + x) <=> Signed(h, s) + Signed(h, d) + x \notin SRange(h)
           /\ CFlagAdd32(h, s, d, s + d + x) <=> s + d + x >= 2 * h
           /\ CFlag(h, s + d + x) <=> s + d + x >= 2 * h
<1> DEFINE r == s + d + x
<1>1. r \in 0 .. 4 * h - 1
  BY DEF Range
<1>2. /\ NFlag(h, r) <=> r \in h .. 2 * h - 1 \/ r \in 3 * h .. 4 * h - 1
      /\ CFlag(h, r) <=> r >= 2 * h
  BY <1>1, FlagsOfResult DEF Range
<1>3. /\ NFlag(h, s) <=> s >= h
      /\ Signed(h, s) = IF s >= h THEN s - 2 * h ELSE s
  BY OperandSigned
<1>4. /\ NFlag(h, d) <=> d >= h
      /\ Signed(h, d) = IF d >= h THEN d - 2 * h ELSE d
  BY OperandSigned
<1>5. VFlagAdd(h, s, d, r) <=> Signed(h, s) + Signed(h, d) + x \notin SRange(h)
  <2>1. VFlagAdd(h, s, d, r) <=> \/ s >= h /\ d >= h /\ ~NFlag(h, r)
                                 \/ s < h /\ d < h /\ NFlag(h, r)
    BY <1>3, <1>4, Booleans DEF VFlagAdd, Range
  <2>2. CASE s >= h
    BY <1>1, <1>2, <1>3, <1>4, <2>1, <2>2 DEF SRange, Range
  <2>3. CASE s < h
    BY <1>1, <1>2, <1>3, <1>4, <2>1, <2>3 DEF SRange, Range
  <2> QED BY <2>2, <2>3 DEF Range
<1>6. CFlagAdd32(h, s, d, r) <=> r >= 2 * h
  BY <1>1, <1>2, <1>3, <1>4 DEF CFlagAdd32, Range
<1> QED BY <1>2, <1>5, <1>6

\* SUB, SUBX, NEG and CMP: VFLAG_SUB is signed overflow and CFLAG_SUB_32 the
\* borrow.
THEOREM SubtractionFlags ==
    ASSUME NEW h \in Nat \ {0}, NEW s \in Range(h), NEW d \in Range(h), NEW x \in 0 .. 1
    PROVE  /\ VFlagSub(h, s, d, d - s - x) <=> Signed(h, d) - Signed(h, s) - x \notin SRange(h)
           /\ CFlagSub32(h, s, d, d - s - x) <=> d < s + x
           /\ CFlag(h, d - s - x) <=> d < s + x
<1> DEFINE r == d - s - x
<1>1. r \in (-2 * h) .. 2 * h - 1
  BY DEF Range
<1>2. /\ NFlag(h, r) <=> r \in (-h) .. -1 \/ r \in h .. 2 * h - 1
      /\ CFlag(h, r) <=> r < 0
  BY <1>1, FlagsOfResult DEF Range
<1>3. /\ NFlag(h, s) <=> s >= h
      /\ Signed(h, s) = IF s >= h THEN s - 2 * h ELSE s
  BY OperandSigned
<1>4. /\ NFlag(h, d) <=> d >= h
      /\ Signed(h, d) = IF d >= h THEN d - 2 * h ELSE d
  BY OperandSigned
<1>5. VFlagSub(h, s, d, r) <=> Signed(h, d) - Signed(h, s) - x \notin SRange(h)
  <2>1. VFlagSub(h, s, d, r) <=> \/ s >= h /\ d < h /\ NFlag(h, r)
                                 \/ s < h /\ d >= h /\ ~NFlag(h, r)
    BY <1>3, <1>4, Booleans DEF VFlagSub, Range
  <2>2. CASE s >= h
    BY <1>1, <1>2, <1>3, <1>4, <2>1, <2>2 DEF SRange, Range
  <2>3. CASE s < h
    BY <1>1, <1>2, <1>3, <1>4, <2>1, <2>3 DEF SRange, Range
  <2> QED BY <2>2, <2>3 DEF Range
<1>6. CFlagSub32(h, s, d, r) <=> d < s + x
  BY <1>1, <1>2, <1>3, <1>4 DEF CFlagSub32, Range
<1>7. CFlag(h, r) <=> d < s + x
  BY <1>2 DEF Range
<1> QED BY <1>5, <1>6, <1>7

\* The flags CMP leaves for a destination d and a source s.
Compared(h, s, d) ==
    [n |-> NFlag(h, d - s), z |-> Low(h, d - s) = 0,
     v |-> VFlagSub(h, s, d, d - s), c |-> CFlagSub32(h, s, d, d - s)]

\* After CMP every COND_ macro that names an order of the operands, signed or
\* unsigned, is true exactly in that order, for operands of either sign and
\* whether or not their difference overflows.
THEOREM ConditionsOrder ==
    ASSUME NEW h \in Nat \ {0}, NEW s \in Range(h), NEW d \in Range(h)
    PROVE  /\ Cond(Compared(h, s, d)).eq <=> (d = s)
           /\ Cond(Compared(h, s, d)).ne <=> (d # s)
           /\ Cond(Compared(h, s, d)).cs <=> (d < s)
           /\ Cond(Compared(h, s, d)).cc <=> (d >= s)
           /\ Cond(Compared(h, s, d)).hi <=> (d > s)
           /\ Cond(Compared(h, s, d)).ls <=> (d <= s)
           /\ Cond(Compared(h, s, d)).lt <=> (Signed(h, d) < Signed(h, s))
           /\ Cond(Compared(h, s, d)).ge <=> (Signed(h, d) >= Signed(h, s))
           /\ Cond(Compared(h, s, d)).gt <=> (Signed(h, d) > Signed(h, s))
           /\ Cond(Compared(h, s, d)).le <=> (Signed(h, d) <= Signed(h, s))
<1> DEFINE r == d - s
           f == Compared(h, s, d)
           sd == Signed(h, d)
           ss == Signed(h, s)
<1>1. r \in (1 - 2 * h) .. 2 * h - 1
  BY DEF Range
<1>2. /\ NFlag(h, r) <=> r \in (-h) .. -1 \/ r \in h .. 2 * h - 1
      /\ Low(h, r) = IF r < 0 THEN r + 2 * h ELSE r
  BY <1>1, FlagsOfResult DEF Range
<1>3. /\ NFlag(h, s) <=> s >= h
      /\ ss = IF s >= h THEN s - 2 * h ELSE s
  BY OperandSigned
<1>4. /\ NFlag(h, d) <=> d >= h
      /\ sd = IF d >= h THEN d - 2 * h ELSE d
  BY OperandSigned
<1>5. /\ sd \in Int
      /\ ss \in Int
      /\ (d = s) <=> (sd = ss)
  BY <1>3, <1>4 DEF Range
<1>6. /\ f.n \in BOOLEAN
      /\ f.v \in BOOLEAN
      /\ f.n <=> NFlag(h, r)
      /\ f.v <=> VFlagSub(h, s, d, r)
  BY Booleans DEF Compared, VFlagSub
<1>7. f.z <=> (d = s)
  <2>1. f.z <=> (Low(h, r) = 0)
    BY DEF Compared
  <2>2. (Low(h, r) = 0) <=> (d = s)
    BY <1>1, <1>2 DEF Range
  <2> QED BY <2>1, <2>2
<1>8. f.c <=> (d < s)
  <2>1. f.c <=> CFlagSub32(h, s, d, r)
    BY DEF Compared
  <2>2. CFlagSub32(h, s, d, r) <=> (d < s)
    BY <1>1, <1>2, <1>3, <1>4 DEF CFlagSub32, Range
  <2> QED BY <2>1, <2>2
<1>9. (f.n <=> f.v) <=> (sd >= ss)
  <2>1. VFlagSub(h, s, d, r) <=> \/ s >= h /\ d < h /\ NFlag(h, r)
                                 \/ s < h /\ d >= h /\ ~NFlag(h, r)
    BY <1>3, <1>4, Booleans DEF VFlagSub, Range
  <2> HIDE DEF f
  <2>2. CASE s >= h
    BY <1>1, <1>2, <1>3, <1>4, <1>6, <2>1, <2>2 DEF Range
  <2>3. CASE s < h
    BY <1>1, <1>2, <1>3, <1>4, <1>6, <2>1, <2>3 DEF Range
  <2> QED BY <2>2, <2>3 DEF Range
<1>10. (f.n = f.v) <=> (sd >= ss)
  BY <1>6, <1>9
<1> HIDE DEF f, sd, ss
<1>11. /\ Cond(f).eq <=> (d = s)
       /\ Cond(f).ne <=> (d # s)
       /\ Cond(f).cs <=> (d < s)
       /\ Cond(f).cc <=> (d >= s)
       /\ Cond(f).hi <=> (d > s)
       /\ Cond(f).ls <=> (d <= s)
  <2>1. /\ Cond(f).eq <=> f.z
        /\ Cond(f).ne <=> ~f.z
        /\ Cond(f).cs <=> f.c
        /\ Cond(f).cc <=> ~f.c
        /\ Cond(f).hi <=> ~f.c /\ ~f.z
        /\ Cond(f).ls <=> f.c \/ f.z
    BY Zenon DEF Cond
  <2> QED BY <1>7, <1>8, <2>1 DEF Range
<1>12. /\ Cond(f).lt <=> (sd < ss)
       /\ Cond(f).ge <=> (sd >= ss)
       /\ Cond(f).gt <=> (sd > ss)
       /\ Cond(f).le <=> (sd <= ss)
  <2>1. /\ Cond(f).lt <=> ~(f.n = f.v)
        /\ Cond(f).ge <=> f.n = f.v
        /\ Cond(f).gt <=> f.n = f.v /\ ~f.z
        /\ Cond(f).le <=> ~(f.n = f.v) \/ f.z
    BY Zenon DEF Cond
  <2> QED BY <1>5, <1>7, <1>10, <2>1
<1> QED BY <1>11, <1>12 DEF f, sd, ss


(***************************************************************************)
(* The operators of the model, one lemma each.                             *)
(***************************************************************************)

\* The kinds of cells can be told apart.
LEMMA CellsApart ==
    /\ PcCells \cap SrCells = {} /\ PcCells \cap FormatCells = {}
    /\ SrCells \cap FormatCells = {}
BY DEF PcCells, SrCells, FormatCells

\* The active stack pointer is one of the three, and the user's only outside
\* supervisor mode.
LEMMA BankType == \A s, m \in BOOLEAN : Bank(s, m) \in Banks /\ (Bank(s, m) = "usp" <=> ~s)
BY DEF Bank, Banks

\* m68k_get_reg gives an address for each stack pointer.
LEMMA PointerType == \A c \in Cpus : /\ \A b \in Banks : Pointer(c, b) \in Int
                                     /\ Pointers(c) \in [Banks -> Int]
                                     /\ Sr(c) \in StatusRegs
BY BankType DEF Cpus, Pointer, Pointers, Sr, StatusRegs

\* What an operator leaves alone.
Quiet(c, d) == /\ d.pc = c.pc /\ d.stopped = c.stopped /\ d.halted = c.halted
               /\ d.irq = c.irq /\ d.trail = c.trail

\* m68ki_set_sm_flag changes the flags and no stack pointer.
Switched(c, s, m, d) ==
    /\ d \in Cpus /\ Quiet(c, d)
    /\ d.s = s /\ d.m = m /\ d.mem = c.mem /\ d.mask = c.mask
    /\ \A b \in Banks : Pointer(d, b) = Pointer(c, b)

\* m68ki_set_sm_flag swaps the active pointer and moves none of the three.
LEMMA SetSMKeeps ==
    ASSUME NEW c \in Cpus, NEW s \in BOOLEAN, NEW m \in BOOLEAN
    PROVE  Switched(c, s, m, SetSM(c, s, m))
<1> DEFINE away == [c.sp EXCEPT ![Active(c)] = c.a7]
           d == [c EXCEPT !.sp = away, !.s = s, !.m = m, !.a7 = away[Bank(s, m)]]
<1>1. Active(c) \in Banks /\ Bank(s, m) \in Banks
  BY BankType DEF Cpus, Active
<1>2. away \in [Banks -> Int] /\ away[Bank(s, m)] \in Int
  BY <1>1 DEF Cpus
<1>3. d \in Cpus /\ Quiet(c, d) /\ d.s = s /\ d.m = m /\ d.mem = c.mem /\ d.mask = c.mask
  BY <1>2 DEF Cpus, Quiet
<1>4. ASSUME NEW b \in Banks PROVE Pointer(d, b) = Pointer(c, b)
  BY <1>1, <1>2 DEF Cpus, Pointer, Active
<1> QED
  BY <1>3, <1>4 DEF SetSM, Switched

\* A push or a pull moves the active pointer only.
OnStack(c, d) ==
    /\ d \in Cpus /\ Quiet(c, d) /\ d.s = c.s /\ d.m = c.m /\ d.mask = c.mask
    /\ \A b \in Banks : b # Active(c) => Pointer(d, b) = Pointer(c, b)

Pushed(c, cell, d) ==
    /\ OnStack(c, d) /\ d.a7 = c.a7 - 1
    /\ \A k \in Memory : d.mem[k] = IF k = c.a7 - 1 THEN cell ELSE c.mem[k]

\* A push writes one cell below the active pointer and moves that pointer only.
LEMMA PushKeeps ==
    ASSUME NEW c \in Cpus, NEW cell \in Cells
    PROVE  Pushed(c, cell, Push(c, cell))
<1> DEFINE mem == [c.mem EXCEPT ![c.a7 - 1] = cell]
           a7 == c.a7 - 1
           d == [c EXCEPT !.a7 = a7, !.mem = mem]
<1>1. mem \in [Memory -> Cells] /\ a7 \in Int
  <2>1. c.mem \in [Memory -> Cells] /\ c.a7 \in Int
    BY DEF Cpus
  <2>2. \A f \in [Memory -> Cells] : \A k : [f EXCEPT ![k] = cell] \in [Memory -> Cells]
    OBVIOUS
  <2>3. a7 \in Int
    BY <2>1
  <2> QED
    BY <2>1, <2>2, <2>3
<1>2. /\ d \in Cpus /\ Quiet(c, d) /\ d.s = c.s /\ d.m = c.m /\ d.mask = c.mask
      /\ d.a7 = a7 /\ d.sp = c.sp /\ d.mem = mem
  <2> HIDE DEF mem, a7
  <2> QED
    BY <1>1 DEF Cpus, Quiet
<1>3. \A b \in Banks : b # Active(c) => Pointer(d, b) = Pointer(c, b)
  <2> HIDE DEF d
  <2> QED
    BY <1>2 DEF Pointer, Active
<1>4. \A k \in Memory : mem[k] = IF k = c.a7 - 1 THEN cell ELSE c.mem[k]
  BY DEF Cpus
<1>5. Push(c, cell) = d
  BY DEF Push
<1> HIDE DEF mem, d
<1> QED
  BY <1>2, <1>3, <1>4, <1>5 DEF Pushed, OnStack

\* A pull moves the active pointer only and leaves no new cell behind.
LEMMA PulledKeeps ==
    ASSUME NEW c \in Cpus, NEW cells \in Nat
    PROVE  /\ OnStack(c, Pulled(c, cells))
           /\ \A k \in Memory : Pulled(c, cells).mem[k] \in {c.mem[k], <<>>}
<1> DEFINE mem == Forget(c.mem, c.a7, c.a7 + cells - 1)
           a7 == c.a7 + cells
           d == [c EXCEPT !.a7 = a7, !.mem = mem]
<1>1. mem \in [Memory -> Cells] /\ a7 \in Int /\ \A k \in Memory : mem[k] \in {c.mem[k], <<>>}
  BY DEF Forget, Cpus, Cells
<1>2. /\ d \in Cpus /\ Quiet(c, d) /\ d.s = c.s /\ d.m = c.m /\ d.mask = c.mask
      /\ d.a7 = a7 /\ d.sp = c.sp /\ d.mem = mem
  <2> HIDE DEF mem, a7
  <2> QED
    BY <1>1 DEF Cpus, Quiet
<1>3. \A b \in Banks : b # Active(c) => Pointer(d, b) = Pointer(c, b)
  <2> HIDE DEF d
  <2> QED
    BY <1>2 DEF Pointer, Active
<1>4. Pulled(c, cells) = d
  BY DEF Pulled
<1> HIDE DEF mem, d
<1> QED
  BY <1>1, <1>2, <1>3, <1>4 DEF OnStack

(***************************************************************************)
(* The strengthening: a throwaway frame gives back a supervisor's status   *)
(* register, so that the RTE that goes on to the master stack does not     *)
(* pull the rest of the frame from the stack of the user.                  *)
(***************************************************************************)
Supervising(mem) ==
    \A k \in Memory : /\ k + 2 \in Memory
                      /\ mem[k] \in SrCells
                      /\ mem[k + 2] \in FormatCells
                      /\ mem[k + 2].fmt = 1
                      => mem[k].sr.s

\* Three pushes in a row.
Framed(c, fmt, vec, pc, sr, d) ==
    /\ OnStack(c, d) /\ d.a7 = c.a7 - 3
    /\ \A k \in Memory : d.mem[k] = IF k = d.a7 THEN [sr |-> sr]
                                    ELSE IF k = d.a7 + 1 THEN [pc |-> pc]
                                    ELSE IF k = d.a7 + 2 THEN [fmt |-> fmt, vec |-> vec]
                                    ELSE c.mem[k]

\* A stack frame is its three cells, and no other pointer than the active moves.
LEMMA FrameKeeps ==
    ASSUME NEW c \in Cpus, NEW fmt \in 0 .. 9, NEW vec \in Nat, NEW pc \in PCs,
           NEW sr \in StatusRegs
    PROVE  Framed(c, fmt, vec, pc, sr, Frame(c, fmt, vec, pc, sr))
<1> DEFINE c1 == Push(c, [fmt |-> fmt, vec |-> vec])
           c2 == Push(c1, [pc |-> pc])
           c3 == Push(c2, [sr |-> sr])
<1>1. [fmt |-> fmt, vec |-> vec] \in Cells /\ [pc |-> pc] \in Cells /\ [sr |-> sr] \in Cells
  BY DEF Cells, FormatCells, PcCells, SrCells
<1>2. Pushed(c, [fmt |-> fmt, vec |-> vec], c1)
  BY <1>1, PushKeeps
<1>3. Pushed(c1, [pc |-> pc], c2)
  BY <1>1, <1>2, PushKeeps DEF Pushed, OnStack
<1>4. Pushed(c2, [sr |-> sr], c3)
  BY <1>1, <1>3, PushKeeps DEF Pushed, OnStack
<1>5. Frame(c, fmt, vec, pc, sr) = c3
  BY DEF Frame
<1> HIDE DEF c1, c2, c3
<1>6. c.a7 \in Int
  BY DEF Cpus
<1>7. /\ c1.a7 - 1 = c3.a7 + 1 /\ c2.a7 - 1 = c3.a7 /\ c.a7 - 1 = c3.a7 + 2
      /\ c3.a7 = c.a7 - 3
  BY <1>2, <1>3, <1>4, <1>6 DEF Pushed
<1>8. \A k \in Memory : c3.mem[k] = IF k = c3.a7 THEN [sr |-> sr]
                                    ELSE IF k = c3.a7 + 1 THEN [pc |-> pc]
                                    ELSE IF k = c3.a7 + 2 THEN [fmt |-> fmt, vec |-> vec]
                                    ELSE c.mem[k]
  <2> TAKE k \in Memory
  <2>1. /\ c3.mem[k] = IF k = c3.a7 THEN [sr |-> sr] ELSE c2.mem[k]
        /\ c2.mem[k] = IF k = c3.a7 + 1 THEN [pc |-> pc] ELSE c1.mem[k]
        /\ c1.mem[k] = IF k = c3.a7 + 2 THEN [fmt |-> fmt, vec |-> vec] ELSE c.mem[k]
    BY <1>2, <1>3, <1>4, <1>7, Zenon DEF Pushed
  <2> QED
    BY <2>1, Zenon
<1>9. OnStack(c, c3)
  <2>1. OnStack(c, c1) /\ OnStack(c1, c2) /\ OnStack(c2, c3)
    BY <1>2, <1>3, <1>4 DEF Pushed
  <2>2. Active(c1) = Active(c) /\ Active(c2) = Active(c)
    BY <2>1 DEF OnStack, Active
  <2> QED
    BY <2>1, <2>2 DEF OnStack, Quiet
<1> QED
  BY <1>5, <1>7, <1>8, <1>9 DEF Framed

\* A frame other than a throwaway one, or with a supervisor's status register,
\* keeps the strengthening.
LEMMA FrameSupervises ==
    ASSUME NEW c \in Cpus, NEW fmt \in 0 .. 9, NEW vec \in Nat, NEW pc \in PCs,
           NEW sr \in StatusRegs, Supervising(c.mem), fmt = 1 => sr.s,
           NEW d \in Cpus, Framed(c, fmt, vec, pc, sr, d)
    PROVE  Supervising(d.mem)
<1> DEFINE mem == d.mem
           low == d.a7
<1>1. low \in Int /\ \A k \in Memory : mem[k] = IF k = low THEN [sr |-> sr]
                                 ELSE IF k = low + 1 THEN [pc |-> pc]
                                 ELSE IF k = low + 2 THEN [fmt |-> fmt, vec |-> vec]
                                 ELSE c.mem[k]
  BY DEF Cpus, Framed
<1>2. /\ [pc |-> pc] \notin SrCells /\ [pc |-> pc] \notin FormatCells
      /\ [fmt |-> fmt, vec |-> vec] \notin SrCells
      /\ [sr |-> sr] \notin FormatCells
  BY CellsApart DEF SrCells, FormatCells, PcCells
<1>3. ASSUME NEW k \in Memory, k + 2 \in Memory, mem[k] \in SrCells,
             mem[k + 2] \in FormatCells, mem[k + 2].fmt = 1
      PROVE  mem[k].sr.s
  <2>1. k \in Int
    BY DEF Memory
  <2> HIDE DEF mem, low
  <2>2. CASE k = low
    <3>1. mem[k] = [sr |-> sr] /\ mem[k + 2] = [fmt |-> fmt, vec |-> vec]
      BY <2>1, <2>2, <1>1, <1>3
    <3> QED
      BY <3>1, <1>3
  <2>3. CASE k # low
    <3>1. k # low + 1 /\ k # low + 2
      BY <1>2, <1>1, <1>3, <2>1
    <3>2. mem[k] = c.mem[k]
      BY <3>1, <2>3, <1>1
    <3>3. k + 2 # low /\ k + 2 # low + 1 /\ k + 2 # low + 2
      BY <1>2, <1>1, <1>3, <2>1, <2>3
    <3>4. mem[k + 2] = c.mem[k + 2]
      BY <3>3, <1>1, <1>3
    <3> QED
      BY <3>2, <3>4, <1>3 DEF Supervising
  <2> QED
    BY <2>2, <2>3
<1> QED
  BY <1>3 DEF Supervising

\* A step that changes neither the stacks nor the status register.
Alike(c, d) == /\ d \in Cpus /\ d.mem = c.mem /\ d.s = c.s /\ d.m = c.m /\ d.a7 = c.a7
               /\ d.mask = c.mask /\ d.irq = c.irq /\ d.halted = c.halted
               /\ \A b \in Banks : Pointer(d, b) = Pointer(c, b)

\* m68ki_jump changes the program counter only.
LEMMA JumpKeeps ==
    ASSUME NEW c \in Cpus, NEW pc \in PCs
    PROVE  Alike(c, Jump(c, pc)) /\ Jump(c, pc).trail = c.trail
BY DEF Alike, Jump, Cpus, Pointer, Active

\* The formats of the frames the code builds.
LEMMA Formats == /\ 0 \in 0 .. 9 /\ 1 \in 0 .. 9 /\ 2 \in 0 .. 9
                 /\ 0 # 1 /\ 2 # 1
OBVIOUS

\* A vector leads to the start of a handler.
LEMMA HandlerType == \A vec \in Nat : Handler(vec) \in PCs
BY ExcAssumption DEF Handler, PC, PCs

\* The history is no part of the emulator.
LEMMA NotedKeeps ==
    ASSUME NEW c \in Cpus, NEW pc \in PCs, NEW d \in Cpus
    PROVE  Alike(d, Noted(c, pc, d))
<1> DEFINE entry == [back |-> Context(c, pc), m |-> d.m, a7 |-> d.a7]
           trail == Append(d.trail, entry)
           e == [d EXCEPT !.trail = trail]
<1>1. Context(c, pc) \in [pc : PCs, sr : StatusRegs, p : [Banks -> Int]]
  BY PointerType DEF Context
<1>2. entry \in Entries
  BY <1>1 DEF Entries, Cpus
<1>3. trail \in Seq(Entries)
  <2>1. d.trail \in Seq(Entries)
    BY DEF Cpus
  <2> HIDE DEF entry
  <2> QED
    BY <1>2, <2>1
<1> HIDE DEF trail
<1>4. /\ e \in Cpus /\ e.mem = d.mem /\ e.s = d.s /\ e.m = d.m /\ e.a7 = d.a7 /\ e.sp = d.sp
      /\ e.mask = d.mask /\ e.irq = d.irq /\ e.halted = d.halted
  BY <1>3 DEF Cpus
<1> HIDE DEF e
<1>5. \A b \in Banks : Pointer(e, b) = Pointer(d, b)
  BY <1>4 DEF Pointer, Active
<1>6. Noted(c, pc, d) = e
  BY DEF Noted, e, trail
<1> QED
  BY <1>4, <1>5, <1>6 DEF Alike

\* From c an exception has led to d: supervisor mode, the user's stack pointer
\* as it was, and sound frames.
Entered(c, d) == /\ d \in Cpus /\ Supervising(d.mem) /\ d.s = TRUE /\ d.halted = c.halted
                 /\ Pointer(d, "usp") = Pointer(c, "usp")

\* A further step of the exception, from d to e.
Onward(c, d, e) == Entered(c, e) /\ e.irq = d.irq /\ e.mask = d.mask /\ e.m = d.m

\* m68ki_init_exception goes to supervisor mode and leaves the user's stack alone.
LEMMA InitEnters ==
    ASSUME NEW c \in Cpus, Supervising(c.mem)
    PROVE  Onward(c, c, InitException(c))
<1> DEFINE d == InitException(c)
<1>1. c.m \in BOOLEAN /\ TRUE \in BOOLEAN /\ "usp" \in Banks
  BY DEF Cpus, Banks
<1>2. Switched(c, TRUE, c.m, SetSM(c, TRUE, c.m))
  BY <1>1, SetSMKeeps, Zenon
<1>3. Switched(c, TRUE, c.m, d)
  BY <1>2 DEF InitException
<1> HIDE DEF d
<1>4. Onward(c, c, d)
  BY <1>1, <1>3 DEF Switched, Entered, Quiet, Onward
<1> QED
  BY <1>4 DEF d

\* In supervisor mode the stack of the user is not the active one.
LEMMA NotTheUsers ==
    ASSUME NEW c \in Cpus, c.s
    PROVE  Active(c) # "usp" /\ "usp" \in Banks
BY BankType DEF Active, Banks, Cpus

\* A frame pushed by an exception.
LEMMA FrameEntered ==
    ASSUME NEW c \in Cpus, NEW d \in Cpus, NEW fmt \in 0 .. 9, NEW vec \in Nat,
           NEW pc \in PCs, NEW sr \in StatusRegs, Entered(c, d), fmt = 1 => sr.s
    PROVE  Onward(c, d, Frame(d, fmt, vec, pc, sr))
<1> DEFINE f == Frame(d, fmt, vec, pc, sr)
<1>1. Framed(d, fmt, vec, pc, sr, f)
  BY FrameKeeps
<1> HIDE DEF f
<1>2. OnStack(d, f) /\ f \in Cpus
  BY <1>1 DEF Framed, OnStack
<1>3. Supervising(f.mem)
  BY <1>1, <1>2, FrameSupervises DEF Entered
<1>4. Active(d) # "usp" /\ "usp" \in Banks
  BY NotTheUsers DEF Entered
<1>5. Onward(c, d, f)
  BY <1>2, <1>3, <1>4 DEF OnStack, Entered, Quiet, Onward
<1> QED
  BY <1>5 DEF f

\* The jump to its handler.
LEMMA HandlerEntered ==
    ASSUME NEW c \in Cpus, NEW d \in Cpus, NEW ret \in PCs, NEW handler \in PCs, Entered(c, d)
    PROVE  Onward(c, d, Noted(c, ret, Jump(d, handler)))
<1> DEFINE j == Jump(d, handler)
           e == Noted(c, ret, j)
<1>1. Alike(d, j) /\ j \in Cpus
  BY JumpKeeps DEF Alike
<1> HIDE DEF j
<1>2. Alike(j, e)
  BY <1>1, NotedKeeps
<1> HIDE DEF e
<1>3. Onward(c, d, e)
  <2>1. "usp" \in Banks
    BY DEF Banks
  <2> QED
    BY <1>1, <1>2, <2>1 DEF Alike, Entered, Onward
<1> QED
  BY <1>3 DEF e, j

\* An exception of format 0 does too, its frame included.
LEMMA ExceptionEnters ==
    ASSUME NEW c \in Cpus, Supervising(c.mem), NEW vec \in Nat, NEW pc \in PCs
    PROVE  Onward(c, c, Exception(c, vec, pc))
<1> DEFINE i == InitException(c)
           f == Frame(i, 0, vec, pc, Sr(c))
           e == Noted(c, pc, Jump(f, Handler(vec)))
<1>1. Onward(c, c, i)
  BY InitEnters
<1>2. Sr(c) \in StatusRegs /\ Handler(vec) \in PCs
  BY PointerType, HandlerType
<1> HIDE DEF i
<1>3. Onward(c, i, f)
  <2>1. Entered(c, i) /\ i \in Cpus
    BY <1>1 DEF Onward, Entered
  <2> QED
    BY <2>1, <1>2, FrameEntered, Formats, Zenon
<1> HIDE DEF f
<1>4. Onward(c, f, e)
  <2>1. Entered(c, f) /\ f \in Cpus
    BY <1>3 DEF Onward, Entered
  <2> QED
    BY <2>1, <1>2, HandlerEntered, Zenon
<1>5. Exception(c, vec, pc) = e
  BY DEF Exception, i, f
<1> HIDE DEF e
<1> QED
  BY <1>1, <1>3, <1>4, <1>5 DEF Onward

\* And so does one of format 2, with the address of the instruction.
LEMMA TrapEnters ==
    ASSUME NEW c \in Cpus, Supervising(c.mem), NEW vec \in Nat, NEW ppc \in PCs
    PROVE  Onward(c, c, ExceptionTrap(c, vec, ppc))
<1> DEFINE i == InitException(c)
           p == Push(i, [pc |-> ppc])
           f == Frame(p, 2, vec, c.pc, Sr(c))
           e == Noted(c, c.pc, Jump(f, Handler(vec)))
<1>1. Onward(c, c, i) /\ i \in Cpus
  BY InitEnters DEF Onward, Entered
<1>2. Sr(c) \in StatusRegs /\ Handler(vec) \in PCs /\ c.pc \in PCs
  BY PointerType, HandlerType DEF Cpus
<1> HIDE DEF i
<1>3. [pc |-> ppc] \in Cells /\ [pc |-> ppc] \notin SrCells /\ [pc |-> ppc] \notin FormatCells
  BY CellsApart DEF Cells, PcCells
<1>4. Pushed(i, [pc |-> ppc], p)
  BY <1>1, <1>3, PushKeeps
<1> HIDE DEF p
<1>5. Supervising(p.mem)
  BY <1>1, <1>3, <1>4 DEF Supervising, Pushed, Onward, Entered
<1>6. Active(i) # "usp" /\ "usp" \in Banks
  BY <1>1, NotTheUsers DEF Onward, Entered
<1>7. Onward(c, c, p)
  BY <1>1, <1>4, <1>5, <1>6 DEF Onward, Entered, Pushed, OnStack, Quiet
<1>8. Onward(c, p, f)
  <2>1. Entered(c, p) /\ p \in Cpus
    BY <1>7 DEF Onward, Entered
  <2> QED
    BY <2>1, <1>2, FrameEntered, Formats, Zenon
<1> HIDE DEF f
<1>9. Onward(c, f, e)
  <2>1. Entered(c, f) /\ f \in Cpus
    BY <1>8 DEF Onward, Entered
  <2> QED
    BY <2>1, <1>2, HandlerEntered, Zenon
<1>10. ExceptionTrap(c, vec, ppc) = e
  BY DEF ExceptionTrap, i, p, f
<1> HIDE DEF e
<1> QED
  BY <1>7, <1>8, <1>9, <1>10 DEF Onward

\* Fields of no consequence here.
LEMMA IrqLowered ==
    ASSUME NEW c \in Cpus
    PROVE  LET d == [c EXCEPT !.stopped = FALSE, !.irq = 0]
           IN  /\ d \in Cpus /\ d.mem = c.mem /\ d.halted = c.halted /\ d.irq = 0
               /\ \A b \in Banks : Pointer(d, b) = Pointer(c, b)
<1> DEFINE d == [c EXCEPT !.stopped = FALSE, !.irq = 0]
<1>1. /\ d \in Cpus /\ d.mem = c.mem /\ d.halted = c.halted /\ d.irq = 0
      /\ d.s = c.s /\ d.m = c.m /\ d.a7 = c.a7 /\ d.sp = c.sp
  <2>1. 0 \in 0 .. 7 /\ FALSE \in BOOLEAN
    OBVIOUS
  <2> QED
    BY <2>1, Zenon DEF Cpus
<1> HIDE DEF d
<1>2. \A b \in Banks : Pointer(d, b) = Pointer(c, b)
  BY <1>1 DEF Pointer, Active
<1> QED
  BY <1>1, <1>2 DEF d

\* Setting the interrupt mask changes nothing else.
LEMMA MaskSet ==
    ASSUME NEW c \in Cpus, NEW level \in 0 .. 7
    PROVE  LET d == [c EXCEPT !.mask = level]
           IN  /\ d \in Cpus /\ d.mem = c.mem /\ d.halted = c.halted /\ d.irq = c.irq
               /\ d.s = c.s /\ d.m = c.m /\ d.mask = level
               /\ \A b \in Banks : Pointer(d, b) = Pointer(c, b)
BY DEF Cpus, Pointer, Active

\* The throwaway frame goes to the interrupt stack, with a supervisor's status.
LEMMA ThrowawayEnters ==
    ASSUME NEW c \in Cpus, NEW d \in Cpus, NEW vec \in Nat, NEW pc \in PCs,
           NEW sr \in StatusRegs, Entered(c, d)
    PROVE  LET e == Throwaway(d, vec, pc, sr)
           IN  Entered(c, e) /\ e.irq = d.irq /\ e.mask = d.mask
<1> DEFINE w == SetSM(d, d.s, FALSE)
           forced == [sr EXCEPT !.s = TRUE]
           f == Frame(w, 1, vec, pc, forced)
<1>1. CASE ~d.m
  BY <1>1 DEF Throwaway
<1>2. CASE d.m
  <2>1. forced \in StatusRegs /\ forced.s
    BY DEF StatusRegs
  <2>2. d.s \in BOOLEAN /\ FALSE \in BOOLEAN /\ "usp" \in Banks
    BY DEF Cpus, Banks
  <2>3. Switched(d, d.s, FALSE, w)
    BY <2>2, SetSMKeeps, Zenon
  <2> HIDE DEF w, forced
  <2>4. Entered(c, w) /\ w \in Cpus /\ w.irq = d.irq /\ w.mask = d.mask
    BY <2>2, <2>3 DEF Switched, Entered, Quiet
  <2>5. Onward(c, w, f)
    BY <2>1, <2>4, FrameEntered, Formats, Zenon
  <2>6. Throwaway(d, vec, pc, sr) = f
    BY <1>2 DEF Throwaway, w, forced
  <2> HIDE DEF f
  <2> QED
    BY <2>4, <2>5, <2>6 DEF Onward
<1> QED
  BY <1>1, <1>2

\* m68ki_exception_interrupt: the request is answered and the mask is its
\* level, unless the cpu is halted.
Interrupted(c, level, d) ==
    /\ d \in Cpus /\ Supervising(d.mem) /\ d.halted = c.halted
    /\ Pointer(d, "usp") = Pointer(c, "usp")
    /\ \/ c.halted /\ \A b \in Banks : Pointer(d, b) = Pointer(c, b)
       \/ d.s = TRUE /\ d.irq = 0 /\ d.mask = level

\* Taking an interrupt sets the mask to its level and clears the request.
LEMMA InterruptEnters ==
    ASSUME NEW c \in Cpus, Supervising(c.mem), NEW level \in 0 .. 7
    PROVE  Interrupted(c, level, Interrupt(c, level))
<1>0. "usp" \in Banks
  BY DEF Banks
<1>1. CASE c.halted
  <2> DEFINE d == [c EXCEPT !.stopped = FALSE]
  <2>1. /\ d \in Cpus /\ d.mem = c.mem /\ d.halted = c.halted
        /\ \A b \in Banks : Pointer(d, b) = Pointer(c, b)
    BY DEF Cpus, Pointer, Active
  <2>2. Interrupt(c, level) = d
    BY <1>1 DEF Interrupt
  <2> HIDE DEF d
  <2> QED
    BY <1>0, <1>1, <2>1, <2>2 DEF Interrupted
<1>2. CASE ~c.halted
  <2> DEFINE vec == AUTOVECTOR + level
             handler == Handler(IF vec \in Installed THEN vec ELSE UNINITIALIZED_INTERRUPT)
             l == [c EXCEPT !.stopped = FALSE, !.irq = 0]
             i == InitException(l)
             n == [i EXCEPT !.mask = level]
             f == Frame(n, 0, vec, l.pc, Sr(l))
             t == Throwaway(f, vec, l.pc, Sr(l))
             e == Noted(l, l.pc, Jump(t, handler))
  <2>1. vec \in Nat /\ handler \in PCs
    BY HandlerType DEF AUTOVECTOR, UNINITIALIZED_INTERRUPT
  <2>2. /\ l \in Cpus /\ l.mem = c.mem /\ l.halted = c.halted /\ l.irq = 0
        /\ \A b \in Banks : Pointer(l, b) = Pointer(c, b)
    BY IrqLowered
  <2>3. Interrupt(c, level) = e
    BY <1>2 DEF Interrupt, TakeInterrupt
  <2> HIDE DEF vec, handler, l
  <2>4. l.pc \in PCs /\ Sr(l) \in StatusRegs
    BY <2>2, PointerType DEF Cpus
  <2>5. Onward(l, l, i) /\ i \in Cpus
    BY <2>2, InitEnters DEF Onward, Entered
  <2> HIDE DEF i
  <2>6. /\ n \in Cpus /\ n.mem = i.mem /\ n.halted = i.halted /\ n.irq = i.irq
        /\ n.s = i.s /\ n.mask = level
        /\ \A b \in Banks : Pointer(n, b) = Pointer(i, b)
    BY <2>5, MaskSet
  <2> HIDE DEF n
  <2>7. Entered(l, n) /\ n.irq = 0 /\ n.mask = level
    BY <1>0, <2>2, <2>5, <2>6 DEF Onward, Entered
  <2>8. Onward(l, n, f)
    BY <2>1, <2>2, <2>4, <2>6, <2>7, FrameEntered, Formats, Zenon
  <2> HIDE DEF f
  <2>9. Entered(l, f) /\ f \in Cpus /\ f.irq = 0 /\ f.mask = level
    BY <2>7, <2>8 DEF Onward, Entered
  <2>10. Entered(l, t) /\ t.irq = f.irq /\ t.mask = f.mask
    BY <2>1, <2>2, <2>4, <2>9, ThrowawayEnters
  <2> HIDE DEF t
  <2>11. t \in Cpus
    BY <2>10 DEF Entered
  <2>12. Onward(l, t, e)
    BY <2>1, <2>2, <2>4, <2>10, <2>11, HandlerEntered, Zenon
  <2> HIDE DEF e
  <2>13. Interrupted(c, level, e)
    BY <1>0, <2>2, <2>9, <2>10, <2>12 DEF Onward, Entered, Interrupted
  <2> QED
    BY <2>3, <2>13
<1> QED
  BY <1>1, <1>2

\* m68ki_set_sr_noint moves no stack pointer.
StatusSet(c, sr, d) ==
    /\ d \in Cpus /\ d.mem = c.mem /\ d.halted = c.halted /\ d.irq = c.irq
    /\ d.s = sr.s /\ d.m = sr.m /\ d.mask = sr.mask
    /\ \A b \in Banks : Pointer(d, b) = Pointer(c, b)

\* Setting the status register swaps stacks and moves none of the pointers.
LEMMA SetSrNointKeeps ==
    ASSUME NEW c \in Cpus, NEW sr \in StatusRegs
    PROVE  StatusSet(c, sr, SetSrNoint(c, sr))
<1> DEFINE n == [c EXCEPT !.mask = sr.mask]
           d == SetSM(n, sr.s, sr.m)
<1>1. sr.s \in BOOLEAN /\ sr.m \in BOOLEAN /\ sr.mask \in 0 .. 7
  BY DEF StatusRegs
<1>2. /\ n \in Cpus /\ n.mem = c.mem /\ n.halted = c.halted /\ n.irq = c.irq
      /\ n.mask = sr.mask
      /\ \A b \in Banks : Pointer(n, b) = Pointer(c, b)
  BY <1>1, MaskSet
<1>3. SetSrNoint(c, sr) = d
  BY DEF SetSrNoint
<1> HIDE DEF n
<1>4. Switched(n, sr.s, sr.m, d)
  BY <1>1, <1>2, SetSMKeeps, Zenon
<1> HIDE DEF d
<1> QED
  BY <1>2, <1>3, <1>4 DEF Switched, Quiet, StatusSet

\* A cpu that m68ki_check_interrupts has seen: nothing waits, the user's stack
\* pointer has not moved, and in user mode no other has.
Checked(c, d) ==
    /\ d \in Cpus /\ Supervising(d.mem)
    /\ d.halted \/ d.irq <= d.mask
    /\ Pointer(d, "usp") = Pointer(c, "usp")
    /\ d.s \/ \A b \in Banks : Pointer(d, b) = Pointer(c, b)

\* After m68ki_check_interrupts no level above the mask is left waiting.
LEMMA CheckInterruptsChecks ==
    ASSUME NEW c \in Cpus, Supervising(c.mem)
    PROVE  Checked(c, CheckInterrupts(c))
<1>0. "usp" \in Banks /\ c.irq \in 0 .. 7 /\ c.mask \in 0 .. 7
  BY DEF Banks, Cpus
<1>1. CASE c.irq > c.mask
  <2> DEFINE d == Interrupt(c, c.irq)
  <2>1. Interrupted(c, c.irq, d)
    BY <1>0, InterruptEnters
  <2>2. CheckInterrupts(c) = d
    BY <1>1 DEF CheckInterrupts
  <2> HIDE DEF d
  <2> QED
    BY <1>0, <2>1, <2>2 DEF Interrupted, Checked
<1>2. CASE ~(c.irq > c.mask)
  <2>1. CheckInterrupts(c) = c
    BY <1>2 DEF CheckInterrupts
  <2>2. c.irq <= c.mask
    BY <1>0, <1>2
  <2> QED
    BY <2>1, <2>2 DEF Checked
<1> QED
  BY <1>1, <1>2

\* m68ki_set_sr ends with that check, under the new mask.
LEMMA SetSrChecks ==
    ASSUME NEW c \in Cpus, NEW sr \in StatusRegs, Supervising(c.mem)
    PROVE  Checked(c, SetSr(c, sr))
<1> DEFINE n == SetSrNoint(c, sr)
           d == CheckInterrupts(n)
<1>1. StatusSet(c, sr, n) /\ "usp" \in Banks
  BY SetSrNointKeeps DEF Banks
<1>2. SetSr(c, sr) = d
  BY DEF SetSr
<1> HIDE DEF n
<1>3. Checked(n, d)
  BY <1>1, CheckInterruptsChecks DEF StatusSet
<1> HIDE DEF d
<1> QED
  BY <1>1, <1>2, <1>3 DEF StatusSet, Checked

(***************************************************************************)
(* The theorems.                                                           *)
(***************************************************************************)

\* The inductive invariant.
IInv == TypeOK /\ Supervising(cpu.mem) /\ NoneLeftWaiting

\* What every step does: it keeps the invariant and the stacks apart.
Apart(c, d) ==
    /\ ~c.s /\ ~d.s => \A b \in {"isp", "msp"} : Pointer(d, b) = Pointer(c, b)
    /\ c.s # d.s => Pointer(d, "usp") = Pointer(c, "usp")

Good(c, d) == /\ d \in Cpus /\ Supervising(d.mem) /\ (d.halted \/ d.irq <= d.mask)
              /\ Apart(c, d)

\* A step is good that leaves the stacks and the status register alone,
LEMMA AlikeIsGood ==
    ASSUME NEW c \in Cpus, NEW d, Alike(c, d), Supervising(c.mem),
           c.halted \/ c.irq <= c.mask
    PROVE  Good(c, d)
BY DEF Alike, Good, Apart, Banks

\* that enters an exception,
LEMMA OnwardIsGood ==
    ASSUME NEW c \in Cpus, NEW d \in Cpus, NEW e, Alike(c, d), Onward(d, d, e),
           c.halted \/ c.irq <= c.mask
    PROVE  Good(c, e)
BY DEF Alike, Onward, Entered, Good, Apart, Banks

\* or that changes the status register of a cpu with the same user's stack
\* pointer, in supervisor mode or with the same stack pointers.
LEMMA CheckedIsGood ==
    ASSUME NEW c \in Cpus, NEW d \in Cpus, NEW e, Checked(d, e),
           Pointer(d, "usp") = Pointer(c, "usp"),
           c.s \/ \A b \in Banks : Pointer(d, b) = Pointer(c, b)
    PROVE  Good(c, e)
BY DEF Checked, Good, Apart, Banks

\* The next instruction is one of the same routine.
LEMMA NextPc == \A pc \in PCs : [pc EXCEPT !.n = (@ + 1) % Steps] \in PCs
<1> SUFFICES ASSUME NEW pc \in PCs PROVE [pc EXCEPT !.n = (@ + 1) % Steps] \in PCs
  OBVIOUS
<1>1. pc.n \in Int
  BY ExcAssumption DEF PCs
<1>2. (pc.n + 1) % Steps \in 0 .. Steps - 1
  BY <1>1, ExcAssumption
<1> QED
  BY <1>2 DEF PCs

\* Fetching an opcode changes the program counter only.
LEMMA FetchedKeeps ==
    ASSUME TypeOK
    PROVE  Alike(cpu, Fetched) /\ Fetched \in Cpus /\ cpu.pc \in PCs /\ Fetched.pc \in PCs
<1>1. cpu.pc \in PCs /\ cpu \in Cpus
  BY DEF TypeOK, Cpus
<1>2. [cpu.pc EXCEPT !.n = (@ + 1) % Steps] \in PCs
  BY <1>1, NextPc
<1>3. Alike(cpu, Fetched)
  BY <1>1, <1>2, JumpKeeps DEF Fetched
<1> QED
  BY <1>1, <1>3 DEF Alike, Cpus

\* A return address pushed is no part of a frame.
LEMMA PushPcSupervises ==
    ASSUME NEW c \in Cpus, NEW pc \in PCs, Supervising(c.mem)
    PROVE  Supervising(Push(c, [pc |-> pc]).mem) /\ OnStack(c, Push(c, [pc |-> pc]))
<1> DEFINE d == Push(c, [pc |-> pc])
<1>1. [pc |-> pc] \in Cells /\ [pc |-> pc] \notin SrCells /\ [pc |-> pc] \notin FormatCells
  BY CellsApart DEF Cells, PcCells
<1>2. Pushed(c, [pc |-> pc], d)
  BY <1>1, PushKeeps
<1> HIDE DEF d
<1>3. Supervising(d.mem) /\ OnStack(c, d)
  BY <1>1, <1>2 DEF Supervising, Pushed
<1> QED
  BY <1>3 DEF d

\* What is left after a pull is still made of supervisors' frames.
LEMMA PulledSupervises ==
    ASSUME NEW c \in Cpus, NEW cells \in Nat, Supervising(c.mem)
    PROVE  Supervising(Pulled(c, cells).mem) /\ OnStack(c, Pulled(c, cells))
<1> DEFINE d == Pulled(c, cells)
<1>1. OnStack(c, d) /\ \A k \in Memory : d.mem[k] \in {c.mem[k], <<>>}
  BY PulledKeeps
<1>2. <<>> \notin SrCells /\ <<>> \notin FormatCells
  BY DEF SrCells, FormatCells
<1> HIDE DEF d
<1>3. Supervising(d.mem)
  BY <1>1, <1>2 DEF Supervising
<1> QED
  BY <1>1, <1>3 DEF d

\* What an RTE does with the frame of a supervisor.
LEMMA RteFromIsGood ==
    ASSUME NEW c \in Cpus, Supervising(c.mem), HasFrame(c), c.s, c.trail # <<>>,
           NEW cells \in Nat
    PROVE  Good(c, RteFrom(c, cells))
<1> DEFINE p == Pulled(c, cells)
           j == Jump(p, c.mem[c.a7 + 1].pc)
           r == Returned(j)
           d == SetSr(r, c.mem[c.a7].sr)
<1>1. c.mem[c.a7 + 1].pc \in PCs /\ c.mem[c.a7].sr \in StatusRegs
  BY DEF HasFrame, PcCells, SrCells
<1>2. Supervising(p.mem) /\ OnStack(c, p)
  BY PulledSupervises
<1>3. RteFrom(c, cells) = d
  BY DEF RteFrom
<1> HIDE DEF p
<1>4. p \in Cpus /\ p.trail # <<>>
  BY <1>2 DEF OnStack, Quiet
<1>5. Alike(p, j) /\ j.trail = p.trail
  BY <1>1, <1>4, JumpKeeps
<1> HIDE DEF j
<1>6. j \in Cpus /\ j.trail # <<>>
  BY <1>4, <1>5 DEF Alike
<1>7. /\ r \in Cpus /\ r.mem = j.mem
      /\ \A b \in Banks : Pointer(r, b) = Pointer(j, b)
  <2> DEFINE trail == SubSeq(j.trail, 1, Len(j.trail) - 1)
  <2>1. trail \in Seq(Entries)
    <3>1. j.trail \in Seq(Entries)
      BY <1>6 DEF Cpus
    <3> QED
      BY <3>1, <1>6
  <2> HIDE DEF trail
  <2>2. r = [j EXCEPT !.trail = trail]
    BY DEF Returned, trail
  <2> HIDE DEF r
  <2>3. /\ r \in Cpus /\ r.mem = j.mem /\ r.s = j.s /\ r.m = j.m /\ r.a7 = j.a7 /\ r.sp = j.sp
    BY <2>1, <2>2, <1>6 DEF Cpus
  <2> QED
    BY <2>3 DEF Pointer, Active
<1> HIDE DEF r
<1>8. Checked(r, d)
  BY <1>1, <1>2, <1>5, <1>7, SetSrChecks DEF Alike
<1> HIDE DEF d
<1>9. Active(c) # "usp" /\ "usp" \in Banks
  BY NotTheUsers
<1>10. Pointer(r, "usp") = Pointer(c, "usp")
  BY <1>2, <1>5, <1>7, <1>9 DEF OnStack, Alike
<1> QED
  BY <1>3, <1>7, <1>8, <1>10, CheckedIsGood

\* Every action keeps the type, the frames and the rule on interrupts, and
\* keeps the stacks apart.
LEMMA StepIsGood ==
    ASSUME IInv, Next
    PROVE  Good(cpu, cpu')
<1>0. cpu \in Cpus /\ Supervising(cpu.mem) /\ (cpu.halted \/ cpu.irq <= cpu.mask)
  BY DEF IInv, TypeOK, NoneLeftWaiting
<1>F. Alike(cpu, Fetched) /\ Fetched \in Cpus /\ cpu.pc \in PCs /\ Fetched.pc \in PCs
  BY FetchedKeeps DEF IInv
<1>M. Supervising(Fetched.mem)
  BY <1>0, <1>F DEF Alike
<1>U. "usp" \in Banks
  BY DEF Banks
<1>1. CASE Plain
  BY <1>0, <1>F, <1>1, AlikeIsGood DEF Plain
<1>2. ASSUME NEW n \in Traps, Trap(n) PROVE Good(cpu, cpu')
  <2>1. CASE n \in Hooks
    BY <1>0, <1>F, <1>2, <2>1, AlikeIsGood DEF Trap
  <2>2. CASE n \notin Hooks
    <3> DEFINE e == Exception(Fetched, TRAP_BASE + n, Fetched.pc)
    <3>1. TRAP_BASE + n \in Nat
      BY ExcAssumption DEF TRAP_BASE
    <3>2. Onward(Fetched, Fetched, e)
      BY <1>F, <1>M, <3>1, ExceptionEnters
    <3>3. cpu' = e
      BY <1>2, <2>2 DEF Trap
    <3> HIDE DEF e
    <3> QED
      BY <1>0, <1>F, <3>2, <3>3, OnwardIsGood
  <2> QED
    BY <2>1, <2>2
<1>3. CASE Supexec
  <2> DEFINE p == Push(Fetched, [pc |-> Fetched.pc])
             e == Jump(p, PC(1, 0))
  <2>1. Supervising(p.mem) /\ OnStack(Fetched, p) /\ p \in Cpus
    BY <1>F, <1>M, PushPcSupervises DEF OnStack
  <2>2. PC(1, 0) \in PCs
    BY HandlerType DEF Handler
  <2>3. cpu' = e
    BY <1>3 DEF Supexec
  <2> HIDE DEF p
  <2>4. Alike(p, e)
    BY <2>1, <2>2, JumpKeeps
  <2> HIDE DEF e
  <2>5. ~cpu.s => Active(Fetched) = "usp"
    BY <1>0, <1>F, BankType DEF Alike, Active, Cpus
  <2>6. e \in Cpus /\ Supervising(e.mem) /\ (e.halted \/ e.irq <= e.mask) /\ e.s = cpu.s
    BY <1>0, <1>F, <2>1, <2>4 DEF Alike, OnStack, Quiet
  <2>7. ~cpu.s => \A b \in {"isp", "msp"} : Pointer(e, b) = Pointer(cpu, b)
    BY <1>F, <2>1, <2>4, <2>5 DEF Alike, OnStack, Banks
  <2> QED
    BY <2>3, <2>6, <2>7 DEF Good, Apart
<1>4. CASE Rts
  <2> DEFINE p == Pulled(cpu, 1)
             e == Jump(p, cpu.mem[cpu.a7].pc)
  <2>1. Supervising(p.mem) /\ OnStack(cpu, p) /\ p \in Cpus
    BY <1>0, PulledSupervises DEF OnStack
  <2>2. cpu.mem[cpu.a7].pc \in PCs
    BY <1>4 DEF Rts, PcCells
  <2>3. cpu' = e
    BY <1>4 DEF Rts
  <2> HIDE DEF p
  <2>4. Alike(p, e)
    BY <2>1, <2>2, JumpKeeps
  <2> HIDE DEF e
  <2>5. ~cpu.s => Active(cpu) = "usp"
    BY <1>0, BankType DEF Active, Cpus
  <2>6. e \in Cpus /\ Supervising(e.mem) /\ (e.halted \/ e.irq <= e.mask) /\ e.s = cpu.s
    BY <1>0, <2>1, <2>4 DEF Alike, OnStack, Quiet
  <2>7. ~cpu.s => \A b \in {"isp", "msp"} : Pointer(e, b) = Pointer(cpu, b)
    BY <2>1, <2>4, <2>5 DEF Alike, OnStack, Banks
  <2> QED
    BY <2>3, <2>6, <2>7 DEF Good, Apart
<1>5. CASE TrapOnCondition
  <2> DEFINE e == ExceptionTrap(Fetched, TRAPV, cpu.pc)
  <2>1. Onward(Fetched, Fetched, e)
    BY <1>F, <1>M, TrapEnters DEF TRAPV
  <2>2. cpu' = e
    BY <1>5 DEF TrapOnCondition
  <2> HIDE DEF e
  <2> QED
    BY <1>0, <1>F, <2>1, <2>2, OnwardIsGood
<1>6. CASE Illegal
  <2> DEFINE e == Exception(Fetched, ILLEGAL_INSTRUCTION, cpu.pc)
  <2>1. Onward(Fetched, Fetched, e)
    BY <1>F, <1>M, ExceptionEnters DEF ILLEGAL_INSTRUCTION
  <2>2. cpu' = e
    BY <1>6 DEF Illegal
  <2> HIDE DEF e
  <2> QED
    BY <1>0, <1>F, <2>1, <2>2, OnwardIsGood
<1>7. CASE Violation
  <2> DEFINE e == Exception(Fetched, PRIVILEGE_VIOLATION, cpu.pc)
  <2>1. Onward(Fetched, Fetched, e)
    BY <1>F, <1>M, ExceptionEnters DEF PRIVILEGE_VIOLATION
  <2>2. cpu' = e
    BY <1>7 DEF Violation
  <2> HIDE DEF e
  <2> QED
    BY <1>0, <1>F, <2>1, <2>2, OnwardIsGood
<1>8. ASSUME NEW sr \in SRs, MoveToSr(sr) PROVE Good(cpu, cpu')
  <2> DEFINE e == SetSr(Fetched, sr)
  <2>1. sr \in StatusRegs
    BY ExcAssumption DEF SRs, StatusRegs
  <2>2. Checked(Fetched, e)
    BY <1>F, <1>M, <2>1, SetSrChecks
  <2>3. cpu' = e /\ cpu.s
    BY <1>8 DEF MoveToSr
  <2> HIDE DEF e
  <2> QED
    BY <1>0, <1>F, <1>U, <2>2, <2>3, CheckedIsGood DEF Alike
<1>9. ASSUME NEW sr \in SRs, Stop(sr) PROVE Good(cpu, cpu')
  <2> DEFINE s == [Fetched EXCEPT !.stopped = TRUE]
             e == SetSr(s, sr)
  <2>1. sr \in StatusRegs
    BY ExcAssumption DEF SRs, StatusRegs
  <2>2. s \in Cpus /\ s.mem = Fetched.mem /\ \A b \in Banks : Pointer(s, b) = Pointer(Fetched, b)
    BY <1>F DEF Cpus, Pointer, Active
  <2>3. cpu' = e /\ cpu.s
    BY <1>9 DEF Stop
  <2> HIDE DEF s
  <2>4. Checked(s, e)
    BY <1>M, <2>1, <2>2, SetSrChecks
  <2> HIDE DEF e
  <2> QED
    BY <1>0, <1>F, <1>U, <2>2, <2>3, <2>4, CheckedIsGood DEF Alike
<1>10. CASE RteNormal
  <2>1. HasFrame(cpu) /\ cpu.s /\ cpu.trail # <<>> /\ cpu' = RteFrom(cpu, 3)
    BY <1>10 DEF RteNormal, Rte, InHandler
  <2> QED
    BY <1>0, <2>1, RteFromIsGood
<1>11. CASE RteTrap
  <2>1. HasFrame(cpu) /\ cpu.s /\ cpu.trail # <<>> /\ cpu' = RteFrom(cpu, 4)
    BY <1>11 DEF RteTrap, Rte, InHandler
  <2> QED
    BY <1>0, <2>1, RteFromIsGood
<1>12. CASE RteFormatError
  <2> DEFINE e == Exception(Fetched, FORMAT_ERROR, Fetched.pc)
  <2>1. Onward(Fetched, Fetched, e)
    BY <1>F, <1>M, ExceptionEnters DEF FORMAT_ERROR
  <2>2. cpu' = e
    BY <1>12 DEF RteFormatError
  <2> HIDE DEF e
  <2> QED
    BY <1>0, <1>F, <2>1, <2>2, OnwardIsGood
<1>13. CASE RteThrowaway
  <2> DEFINE p == Pulled(cpu, 3)
             t == AfterThrowaway(cpu)
             e == RteFrom(t, 3)
  <2>1. HasFrame(cpu) /\ cpu.s /\ cpu.trail # <<>> /\ Format(cpu) = 1 /\ HasFrame(t) /\ cpu' = e
    BY <1>13 DEF RteThrowaway, Rte, InHandler
  <2>2. cpu.mem[cpu.a7].sr \in StatusRegs
    BY <2>1 DEF HasFrame, SrCells
  <2>3. cpu.mem[cpu.a7].sr.s
    BY <1>0, <2>1 DEF HasFrame, Format, Supervising
  <2>4. Supervising(p.mem) /\ OnStack(cpu, p) /\ p \in Cpus
    BY <1>0, PulledSupervises DEF OnStack
  <2>5. t = SetSrNoint(p, cpu.mem[cpu.a7].sr)
    BY DEF AfterThrowaway
  <2> HIDE DEF p
  <2>6. StatusSet(p, cpu.mem[cpu.a7].sr, t)
    BY <2>2, <2>4, <2>5, SetSrNointKeeps
  <2>7. t.trail = cpu.trail
    <3> DEFINE n == [p EXCEPT !.mask = cpu.mem[cpu.a7].sr.mask]
    <3>1. n \in Cpus /\ n.trail = p.trail
      BY <2>2, <2>4 DEF StatusRegs, Cpus
    <3>2. t = SetSM(n, cpu.mem[cpu.a7].sr.s, cpu.mem[cpu.a7].sr.m)
      BY <2>5 DEF SetSrNoint
    <3> HIDE DEF n, t
    <3>3. Switched(n, cpu.mem[cpu.a7].sr.s, cpu.mem[cpu.a7].sr.m, t)
      BY <2>2, <3>1, <3>2, SetSMKeeps DEF StatusRegs
    <3> QED
      BY <2>4, <3>1, <3>3 DEF Switched, Quiet, OnStack
  <2> HIDE DEF t
  <2>8. t \in Cpus /\ Supervising(t.mem) /\ t.s /\ t.trail # <<>>
    BY <2>1, <2>3, <2>4, <2>6, <2>7 DEF StatusSet
  <2>9. Good(t, e)
    BY <2>1, <2>8, RteFromIsGood
  <2>10. Pointer(t, "usp") = Pointer(cpu, "usp")
    <3>1. Active(cpu) # "usp"
      BY <1>0, <2>1, NotTheUsers
    <3> QED
      BY <1>U, <2>4, <2>6, <3>1 DEF StatusSet, OnStack
  <2> HIDE DEF e
  <2>11. cpu.s = TRUE /\ t.s = TRUE
    BY <1>0, <2>1, <2>8 DEF Cpus
  <2> QED
    BY <2>1, <2>9, <2>10, <2>11 DEF Good, Apart
<1>14. ASSUME NEW b \in Banks, MovecTo(b) PROVE Good(cpu, cpu')
  <2> DEFINE trail == [k \in DOMAIN Fetched.trail |->
                          [Fetched.trail[k] EXCEPT !.back.p[b] = Top(b)]]
             c == [Fetched EXCEPT !.trail = trail]
             e == IF b = Active(cpu) THEN [c EXCEPT !.a7 = Top(b)] ELSE [c EXCEPT !.sp[b] = Top(b)]
  <2>1. cpu' = e /\ cpu.s
    BY <1>14 DEF MovecTo
  <2>2. Top(b) \in Int
    BY ExcAssumption DEF Top, Bottom, Banks
  <2>3. trail \in Seq(Entries)
    <3>1. Fetched.trail \in Seq(Entries)
      BY <1>F DEF Cpus
    <3>2. ASSUME NEW x \in Entries PROVE [x EXCEPT !.back.p[b] = Top(b)] \in Entries
      BY <2>2 DEF Entries
    <3>3. \A k \in DOMAIN Fetched.trail : Fetched.trail[k] \in Entries
      BY <3>1
    <3>4. DOMAIN Fetched.trail = 1 .. Len(Fetched.trail) /\ Len(Fetched.trail) \in Nat
      BY <3>1
    <3>5. trail \in [1 .. Len(Fetched.trail) -> Entries]
      BY <3>2, <3>3, <3>4
    <3> HIDE DEF trail
    <3> QED
      BY <3>4, <3>5
  <2> HIDE DEF trail
  <2>4. /\ c \in Cpus /\ c.mem = Fetched.mem /\ c.s = Fetched.s /\ c.halted = Fetched.halted
        /\ c.irq = Fetched.irq /\ c.mask = Fetched.mask
    BY <1>F, <2>3 DEF Cpus
  <2> HIDE DEF c
  <2>5. CASE b = Active(cpu)
    <3> DEFINE d == [c EXCEPT !.a7 = Top(b)]
    <3>1. /\ d \in Cpus /\ d.mem = c.mem /\ d.s = c.s /\ d.halted = c.halted
          /\ d.irq = c.irq /\ d.mask = c.mask
      BY <2>2, <2>4 DEF Cpus
    <3>2. e = d
      BY <2>5
    <3> HIDE DEF d, e
    <3> QED
      BY <1>0, <1>F, <2>1, <2>4, <3>1, <3>2 DEF Alike, Good, Apart
  <2>6. CASE b # Active(cpu)
    <3> DEFINE sp == [c.sp EXCEPT ![b] = Top(b)]
               d == [c EXCEPT !.sp = sp]
    <3>1. sp \in [Banks -> Int]
      BY <2>2, <2>4 DEF Cpus
    <3>2. e = d
      BY <2>6
    <3> HIDE DEF sp, e
    <3>3. /\ d \in Cpus /\ d.mem = c.mem /\ d.s = c.s /\ d.halted = c.halted
          /\ d.irq = c.irq /\ d.mask = c.mask
      BY <2>4, <3>1 DEF Cpus
    <3> HIDE DEF d
    <3> QED
      BY <1>0, <1>F, <2>1, <2>4, <3>2, <3>3 DEF Alike, Good, Apart
  <2> QED
    BY <2>5, <2>6
<1>15. CASE Spoil
  <2> DEFINE k == cpu.a7 + 2
             cell == [Fetched.mem[k] EXCEPT !.fmt = 9]
             mem == [Fetched.mem EXCEPT ![k] = cell]
             e == [Fetched EXCEPT !.mem = mem]
  <2>1. cpu' = e /\ HasFrame(cpu)
    BY <1>15 DEF Spoil
  <2>2. Fetched.mem = cpu.mem
    BY <1>F DEF Alike
  <2>3. k \in Memory /\ Fetched.mem[k] \in FormatCells
    BY <2>1, <2>2 DEF HasFrame
  <2>4. cell \in FormatCells /\ cell.fmt = 9
    BY <2>3 DEF FormatCells
  <2> HIDE DEF cell, k
  <2>5. cell \in Cells /\ cell \notin SrCells
    BY <2>4, CellsApart DEF Cells
  <2>6. mem \in [Memory -> Cells] /\ \A j \in Memory : mem[j] = IF j = k THEN cell ELSE cpu.mem[j]
    BY <1>F, <2>2, <2>3, <2>5 DEF Cpus
  <2> HIDE DEF mem
  <2>7. Supervising(mem)
    BY <1>0, <2>4, <2>5, <2>6 DEF Supervising
  <2>8. /\ e \in Cpus /\ e.mem = mem /\ e.s = Fetched.s /\ e.m = Fetched.m /\ e.a7 = Fetched.a7
        /\ e.sp = Fetched.sp /\ e.halted = Fetched.halted /\ e.irq = Fetched.irq
        /\ e.mask = Fetched.mask
    BY <1>F, <2>6 DEF Cpus
  <2> HIDE DEF e
  <2>9. \A b \in Banks : Pointer(e, b) = Pointer(Fetched, b)
    BY <2>8 DEF Pointer, Active
  <2> QED
    BY <1>0, <1>F, <2>1, <2>7, <2>8, <2>9 DEF Alike, Good, Apart, Banks
<1>16. CASE PulseHalt
  <2> DEFINE e == [cpu EXCEPT !.halted = TRUE]
  <2>1. /\ e \in Cpus /\ e.mem = cpu.mem /\ e.halted /\ e.s = cpu.s /\ e.m = cpu.m
        /\ e.a7 = cpu.a7 /\ e.sp = cpu.sp
    BY <1>0 DEF Cpus
  <2>2. cpu' = e
    BY <1>16 DEF PulseHalt
  <2> HIDE DEF e
  <2>3. \A b \in Banks : Pointer(e, b) = Pointer(cpu, b)
    BY <2>1 DEF Pointer, Active
  <2> QED
    BY <1>0, <2>1, <2>2, <2>3 DEF Good, Apart, Banks
<1>17. ASSUME NEW level \in Levels, SetIrq(level) PROVE Good(cpu, cpu')
  <2> DEFINE c == [cpu EXCEPT !.irq = level]
             e == IF cpu.irq # 7 /\ level = 7 THEN Interrupt(c, 7) ELSE CheckInterrupts(c)
  <2>1. level \in 0 .. 7
    BY ExcAssumption
  <2>2. /\ c \in Cpus /\ c.mem = cpu.mem /\ c.s = cpu.s /\ c.m = cpu.m /\ c.halted = cpu.halted
        /\ c.a7 = cpu.a7 /\ c.sp = cpu.sp
    BY <1>0, <2>1 DEF Cpus
  <2>3. cpu' = e
    BY <1>17 DEF SetIrq
  <2> HIDE DEF c
  <2>4. \A b \in Banks : Pointer(c, b) = Pointer(cpu, b)
    BY <2>2 DEF Pointer, Active
  <2>5. CASE cpu.irq # 7 /\ level = 7
    <3> DEFINE d == Interrupt(c, 7)
    <3>1. Interrupted(c, 7, d)
      BY <1>0, <2>2, InterruptEnters
    <3>2. cpu' = d
      BY <2>3, <2>5
    <3> HIDE DEF d
    <3> QED
      BY <1>0, <1>U, <2>2, <2>4, <3>1, <3>2 DEF Interrupted, Good, Apart, Banks
  <2>6. CASE ~(cpu.irq # 7 /\ level = 7)
    <3> DEFINE d == CheckInterrupts(c)
    <3>1. Checked(c, d)
      BY <1>0, <2>2, CheckInterruptsChecks
    <3>2. cpu' = d
      BY <2>3, <2>6
    <3> HIDE DEF d
    <3> QED
      BY <1>0, <1>U, <2>2, <2>4, <3>1, <3>2, CheckedIsGood
  <2> QED
    BY <2>5, <2>6
<1> QED
  BY <1>1, <1>2, <1>3, <1>4, <1>5, <1>6, <1>7, <1>8, <1>9, <1>10, <1>11, <1>12, <1>13, <1>14,
     <1>15, <1>16, <1>17 DEF Next

\* The cpu after m68k_pulse_reset and main's set-up.
LEMMA InitHolds == Init => IInv
<1> SUFFICES ASSUME Init PROVE IInv
  OBVIOUS
<1> DEFINE empty == [k \in Memory |-> <<>>]
           zero == [a7 |-> 0, s |-> FALSE, m |-> FALSE, mask |-> 0, sp |-> [b \in Banks |-> 0],
                    mem |-> empty, pc |-> PC(0, 0), stopped |-> FALSE, halted |-> FALSE,
                    irq |-> 0, trail |-> <<>>]
           up == [zero EXCEPT !.stopped = FALSE, !.halted = FALSE, !.mask = 7]
           reset == SetSM(up, TRUE, FALSE)
           stacked == [reset EXCEPT !.a7 = Top("isp")]
           sr == [s |-> FALSE, m |-> FALSE, mask |-> 3]
           user == SetSr(stacked, sr)
           last == [user EXCEPT !.a7 = Top("usp")]
<1>1. cpu = last
  BY DEF Init, Boot
<1>2. /\ Top("isp") \in Int /\ Top("usp") \in Int /\ PC(0, 0) \in PCs
      /\ empty \in [Memory -> Cells] /\ <<>> \in Seq(Entries) /\ sr \in StatusRegs
      /\ [b \in Banks |-> 0] \in [Banks -> Int]
  BY ExcAssumption, HandlerType DEF Top, Bottom, Handler, Cells, StatusRegs
<1>3. Supervising(empty)
  <2>1. <<>> \notin SrCells
    BY DEF SrCells
  <2> QED
    BY <2>1 DEF Supervising
<1> HIDE DEF empty, sr
<1>4. zero \in Cpus /\ zero.mem = empty
  BY <1>2 DEF Cpus
<1> HIDE DEF zero
<1>5. up \in Cpus /\ up.mem = empty
  <2>1. 7 \in 0 .. 7 /\ FALSE \in BOOLEAN
    OBVIOUS
  <2> QED
    BY <1>4, <2>1, Zenon DEF Cpus
<1> HIDE DEF up
<1>6. reset \in Cpus /\ reset.mem = empty
  <2>1. TRUE \in BOOLEAN /\ FALSE \in BOOLEAN
    OBVIOUS
  <2>2. Switched(up, TRUE, FALSE, reset)
    BY <1>5, <2>1, SetSMKeeps, Zenon
  <2> QED
    BY <1>5, <2>2 DEF Switched
<1> HIDE DEF reset
<1>7. stacked \in Cpus /\ stacked.mem = empty
  BY <1>2, <1>6 DEF Cpus
<1> HIDE DEF stacked
<1>8. Checked(stacked, user)
  BY <1>2, <1>3, <1>7, SetSrChecks
<1> HIDE DEF user
<1>9. /\ last \in Cpus /\ last.mem = user.mem /\ last.halted = user.halted
      /\ last.irq = user.irq /\ last.mask = user.mask
  BY <1>2, <1>8 DEF Checked, Cpus
<1> HIDE DEF last
<1> QED
  BY <1>1, <1>8, <1>9 DEF Checked, IInv, TypeOK, NoneLeftWaiting

\* The invariant is inductive, and every step keeps the stacks apart.
LEMMA StepHolds == IInv /\ [Next]_cpu => IInv' /\ (cpu' = cpu \/ Apart(cpu, cpu'))
<1> SUFFICES ASSUME IInv, [Next]_cpu PROVE IInv' /\ (cpu' = cpu \/ Apart(cpu, cpu'))
  OBVIOUS
<1>1. CASE Next
  BY <1>1, StepIsGood DEF Good, IInv, TypeOK, NoneLeftWaiting
<1>2. CASE UNCHANGED cpu
  BY <1>2 DEF IInv, TypeOK, NoneLeftWaiting
<1> QED
  BY <1>1, <1>2

\* The inductive invariant holds in every reachable state.
LEMMA InvariantHolds == Spec => []IInv
BY InitHolds, StepHolds, PTL DEF Spec

\* The cpu keeps its type: its three stack pointers are addresses, its stacks
\* hold what a push writes (m68kcpu.h, rte and the privileged handlers).
THEOREM TypeCorrect == Spec => []TypeOK
<1>1. IInv => TypeOK
  BY DEF IInv
<1> QED
  BY <1>1, InvariantHolds, PTL

\* m68ki_set_sr, rte, stop and m68k_set_irq never leave a request above the
\* mask waiting, unless the cpu is halted.
THEOREM NothingWaits == Spec => []NoneLeftWaiting
<1>1. IInv => NoneLeftWaiting
  BY DEF IInv
<1> QED
  BY <1>1, InvariantHolds, PTL

\* User code never moves a supervisor's stack pointer, and no exception, RTE or
\* change of the status register moves the user's (m68ki_set_sm_flag and the
\* forced S of the throwaway frame in m68ki_exception_interrupt).
THEOREM StacksStayApart == Spec => StacksApart
<1>1. IInv /\ [Next]_cpu =>
        [/\ ~cpu.s /\ ~cpu'.s => \A b \in {"isp", "msp"} : Pointer(cpu', b) = Pointer(cpu, b)
         /\ cpu.s # cpu'.s => Pointer(cpu', "usp") = Pointer(cpu, "usp")]_cpu
  BY StepHolds DEF Apart
<1> QED
  BY <1>1, InvariantHolds, PTL DEF Spec, StacksApart

(***************************************************************************)
(* Supervisor mode is entered at a handler, on top of a frame that holds   *)
(* the user's status register.                                             *)
(***************************************************************************)

\* A cpu that stands at the start of a handler, above a frame that says user
\* mode, or a throwaway one that says supervisor mode.
AtHandler(d) == /\ d.pc = Handler(d.pc.in) /\ d.pc.in > 1
                /\ d.mem[d.a7].sr.s = (d.mem[d.a7 + 2].fmt = 1)

\* The same of the frame alone, of a cpu on its way to the handler.
OnFrame(d) == d.mem[d.a7].sr.s = (d.mem[d.a7 + 2].fmt = 1)

\* A stack with room holds a frame, and the longer one of a trap.
LEMMA RoomForFrame ==
    ASSUME NEW c \in Cpus, NEW b \in Banks, HasRoom(c, b)
    PROVE  /\ Pointer(c, b) - 3 \in Memory /\ Pointer(c, b) - 1 \in Memory
           /\ Pointer(c, b) - 4 \in Memory /\ Pointer(c, b) - 2 \in Memory
BY ExcAssumption DEF HasRoom, Banks, Bottom, Top, Memory

\* The stack that an exception finds when it has entered supervisor mode.
LEMMA InitStands ==
    ASSUME NEW c \in Cpus
    PROVE  LET d == InitException(c)
           IN  /\ d \in Cpus /\ d.s = TRUE /\ d.m = c.m
               /\ d.a7 = Pointer(c, IF c.m THEN "msp" ELSE "isp")
               /\ \A b \in Banks : Pointer(d, b) = Pointer(c, b)
<1> DEFINE d == InitException(c)
<1>1. c.m \in BOOLEAN /\ TRUE \in BOOLEAN
  BY DEF Cpus
<1>2. Switched(c, TRUE, c.m, d)
  BY <1>1, SetSMKeeps, Zenon DEF InitException
<1> HIDE DEF d
<1>3. Active(d) = IF c.m THEN "msp" ELSE "isp"
  BY <1>1, <1>2 DEF Switched, Active, Bank
<1>4. d.a7 = Pointer(d, Active(d)) /\ Active(d) \in Banks
  BY <1>3 DEF Pointer, Banks
<1> QED
  BY <1>2, <1>3, <1>4 DEF Switched, d

\* A frame is found where it was pushed.
LEMMA FrameStands ==
    ASSUME NEW c \in Cpus, NEW fmt \in 0 .. 9, NEW vec \in Nat, NEW pc \in PCs,
           NEW sr \in StatusRegs, sr.s = (fmt = 1), c.a7 - 3 \in Memory, c.a7 - 1 \in Memory
    PROVE  OnFrame(Frame(c, fmt, vec, pc, sr)) /\ OnStack(c, Frame(c, fmt, vec, pc, sr))
<1> DEFINE d == Frame(c, fmt, vec, pc, sr)
<1>1. Framed(c, fmt, vec, pc, sr, d)
  BY FrameKeeps
<1> HIDE DEF d
<1>2. c.a7 \in Int /\ d.a7 = c.a7 - 3
  BY <1>1 DEF Cpus, Framed
<1>3. d.a7 \in Memory /\ d.a7 + 2 \in Memory /\ d.a7 + 2 # d.a7 /\ d.a7 + 2 # d.a7 + 1
  BY <1>2
<1>4. d.mem[d.a7] = [sr |-> sr] /\ d.mem[d.a7 + 2] = [fmt |-> fmt, vec |-> vec]
  BY <1>1, <1>3 DEF Framed
<1> QED
  BY <1>1, <1>4 DEF OnFrame, Framed, d

\* The jump to the handler ends on the frame that was pushed.
LEMMA HandlerStands ==
    ASSUME NEW c \in Cpus, NEW d \in Cpus, NEW ret \in PCs, NEW vec \in Nat, vec > 1, OnFrame(d)
    PROVE  AtHandler(Noted(c, ret, Jump(d, Handler(vec))))
<1> DEFINE j == Jump(d, Handler(vec))
           e == Noted(c, ret, j)
<1>1. Alike(d, j) /\ j \in Cpus /\ j.pc = Handler(vec)
  BY HandlerType, JumpKeeps DEF Alike, Jump, Cpus
<1> HIDE DEF j
<1>2. Alike(j, e) /\ e.pc = j.pc
  BY <1>1, NotedKeeps DEF Noted, Cpus
<1> HIDE DEF e
<1>3. e.pc = Handler(vec) /\ e.pc.in = vec
  BY <1>1, <1>2 DEF Handler, PC
<1> QED
  BY <1>1, <1>2, <1>3 DEF Alike, OnFrame, AtHandler, e, j

\* m68ki_exception_trapN and its like, from user mode.
LEMMA ExceptionStands ==
    ASSUME NEW c \in Cpus, Room(c), ~c.s, NEW vec \in Nat, vec > 1, NEW pc \in PCs
    PROVE  AtHandler(Exception(c, vec, pc))
<1> DEFINE i == InitException(c)
           f == Frame(i, 0, vec, pc, Sr(c))
<1>1. /\ i \in Cpus /\ i.s = TRUE /\ i.m = c.m
      /\ i.a7 = Pointer(c, IF c.m THEN "msp" ELSE "isp")
  BY InitStands
<1>2. Exception(c, vec, pc) = Noted(c, pc, Jump(f, Handler(vec)))
  BY DEF Exception
<1> HIDE DEF i
<1>3. i.a7 - 3 \in Memory /\ i.a7 - 1 \in Memory
  BY <1>1, RoomForFrame DEF Room, Banks
<1>4. Sr(c) \in StatusRegs /\ Sr(c).s = FALSE
  BY PointerType DEF Sr, Cpus
<1>5. OnFrame(f) /\ OnStack(i, f)
  BY <1>1, <1>3, <1>4, FrameStands, Formats
<1> HIDE DEF f
<1>6. f \in Cpus
  BY <1>5 DEF OnStack
<1> QED
  BY <1>2, <1>5, <1>6, HandlerStands

\* m68ki_exception_trap, from user mode.
LEMMA TrapStands ==
    ASSUME NEW c \in Cpus, Room(c), ~c.s, NEW vec \in Nat, vec > 1, NEW ppc \in PCs
    PROVE  AtHandler(ExceptionTrap(c, vec, ppc))
<1> DEFINE i == InitException(c)
           p == Push(i, [pc |-> ppc])
           f == Frame(p, 2, vec, c.pc, Sr(c))
<1>1. /\ i \in Cpus /\ i.s = TRUE /\ i.m = c.m
      /\ i.a7 = Pointer(c, IF c.m THEN "msp" ELSE "isp")
  BY InitStands
<1>2. ExceptionTrap(c, vec, ppc) = Noted(c, c.pc, Jump(f, Handler(vec)))
  BY DEF ExceptionTrap
<1> HIDE DEF i
<1>3. Pushed(i, [pc |-> ppc], p)
  BY <1>1, PushKeeps DEF Cells, PcCells
<1> HIDE DEF p
<1>4. p \in Cpus /\ p.a7 - 3 \in Memory /\ p.a7 - 1 \in Memory
  <2>1. i.a7 - 4 \in Memory /\ i.a7 - 2 \in Memory /\ i.a7 \in Int
    BY <1>1, RoomForFrame DEF Room, Banks, Cpus
  <2>2. p.a7 - 3 = i.a7 - 4 /\ p.a7 - 1 = i.a7 - 2
    BY <1>3, <2>1 DEF Pushed
  <2> QED
    BY <1>3, <2>1, <2>2 DEF Pushed, OnStack
<1>5. Sr(c) \in StatusRegs /\ Sr(c).s = FALSE /\ c.pc \in PCs
  BY PointerType DEF Sr, Cpus
<1>6. OnFrame(f) /\ OnStack(p, f)
  BY <1>4, <1>5, FrameStands, Formats
<1> HIDE DEF f
<1>7. f \in Cpus
  BY <1>6 DEF OnStack
<1> QED
  BY <1>2, <1>5, <1>6, <1>7, HandlerStands

\* The throwaway frame of an interrupt, or the one below it.
LEMMA ThrowawayStands ==
    ASSUME NEW c \in Cpus, NEW vec \in Nat, NEW pc \in PCs, NEW sr \in StatusRegs,
           c.s = TRUE, HasRoom(c, "isp") \/ ~c.m, ~c.m => OnFrame(c)
    PROVE  OnFrame(Throwaway(c, vec, pc, sr)) /\ Throwaway(c, vec, pc, sr) \in Cpus
<1> DEFINE w == SetSM(c, c.s, FALSE)
           forced == [sr EXCEPT !.s = TRUE]
           f == Frame(w, 1, vec, pc, forced)
<1>1. CASE ~c.m
  BY <1>1 DEF Throwaway
<1>2. CASE c.m
  <2>1. forced \in StatusRegs /\ forced.s = TRUE
    BY DEF StatusRegs
  <2>2. c.s \in BOOLEAN /\ FALSE \in BOOLEAN /\ "isp" \in Banks
    BY DEF Cpus, Banks
  <2>3. Switched(c, c.s, FALSE, w)
    BY <2>2, SetSMKeeps, Zenon
  <2>4. Throwaway(c, vec, pc, sr) = f
    BY <1>2 DEF Throwaway
  <2> HIDE DEF w, forced
  <2>5. w \in Cpus /\ w.a7 = Pointer(c, "isp")
    <3>1. Active(w) = "isp"
      BY <2>3 DEF Switched, Active, Bank
    <3> QED
      BY <2>2, <2>3, <3>1 DEF Switched, Pointer
  <2>6. w.a7 - 3 \in Memory /\ w.a7 - 1 \in Memory
    BY <1>2, <2>2, <2>5, RoomForFrame
  <2>7. OnFrame(f) /\ OnStack(w, f)
    BY <2>1, <2>5, <2>6, FrameStands, Formats
  <2> HIDE DEF f
  <2> QED
    BY <2>4, <2>7 DEF OnStack
<1> QED
  BY <1>1, <1>2

\* m68ki_exception_interrupt, from user mode.
LEMMA InterruptStands ==
    ASSUME NEW c \in Cpus, Room(c), ~c.s, ~c.halted, NEW level \in 0 .. 7
    PROVE  AtHandler(Interrupt(c, level))
<1> DEFINE vec == AUTOVECTOR + level
           to == IF vec \in Installed THEN vec ELSE UNINITIALIZED_INTERRUPT
           l == [c EXCEPT !.stopped = FALSE, !.irq = 0]
           i == InitException(l)
           n == [i EXCEPT !.mask = level]
           f == Frame(n, 0, vec, l.pc, Sr(l))
           t == Throwaway(f, vec, l.pc, Sr(l))
<1>1. vec \in Nat /\ to \in Nat /\ to > 1
  BY DEF AUTOVECTOR, UNINITIALIZED_INTERRUPT
<1>2. /\ l \in Cpus /\ l.s = c.s /\ l.m = c.m
      /\ \A b \in Banks : Pointer(l, b) = Pointer(c, b)
  <2>1. l.s = c.s /\ l.m = c.m
    BY DEF Cpus
  <2> QED
    BY <2>1, IrqLowered
<1>3. Interrupt(c, level) = Noted(l, l.pc, Jump(t, Handler(to)))
  BY DEF Interrupt, TakeInterrupt
<1> HIDE DEF vec, to, l
<1>4. l.pc \in PCs /\ Sr(l) \in StatusRegs /\ Sr(l).s = FALSE
  BY <1>2, PointerType DEF Sr, Cpus
<1>5. /\ i \in Cpus /\ i.s = TRUE /\ i.m = l.m
      /\ i.a7 = Pointer(l, IF l.m THEN "msp" ELSE "isp")
      /\ \A b \in Banks : Pointer(i, b) = Pointer(l, b)
  BY <1>2, InitStands
<1> HIDE DEF i
<1>6. /\ n \in Cpus /\ n.s = TRUE /\ n.m = l.m /\ n.a7 = i.a7
      /\ \A b \in Banks : Pointer(n, b) = Pointer(l, b)
  <2>1. n.a7 = i.a7
    BY <1>5 DEF Cpus
  <2>2. /\ n \in Cpus /\ n.s = i.s /\ n.m = i.m
        /\ \A b \in Banks : Pointer(n, b) = Pointer(i, b)
    BY <1>5, MaskSet
  <2> HIDE DEF n
  <2> QED
    BY <1>5, <2>1, <2>2
<1> HIDE DEF n
<1>7. n.a7 - 3 \in Memory /\ n.a7 - 1 \in Memory /\ {"isp", "msp"} \subseteq Banks
  <2>1. n.a7 = Pointer(c, IF c.m THEN "msp" ELSE "isp") /\ {"isp", "msp"} \subseteq Banks
    BY <1>2, <1>5, <1>6 DEF Banks
  <2> QED
    BY <2>1, RoomForFrame DEF Room
<1>8. OnFrame(f) /\ OnStack(n, f)
  BY <1>1, <1>4, <1>6, <1>7, FrameStands, Formats
<1> HIDE DEF f
<1>9. f \in Cpus /\ f.s = TRUE /\ f.m = l.m
  BY <1>6, <1>8 DEF OnStack
<1>10. HasRoom(f, "isp") \/ ~f.m
  <2> SUFFICES ASSUME f.m PROVE HasRoom(f, "isp")
    OBVIOUS
  <2>1. Active(n) = "msp"
    BY <1>6, <1>9 DEF Active, Bank
  <2>2. Pointer(f, "isp") = Pointer(c, "isp")
    BY <1>2, <1>6, <1>7, <1>8, <2>1 DEF OnStack
  <2> QED
    BY <2>2 DEF Room, HasRoom
<1>11. OnFrame(t) /\ t \in Cpus
  BY <1>1, <1>4, <1>8, <1>9, <1>10, ThrowawayStands
<1> HIDE DEF t
<1> QED
  BY <1>1, <1>2, <1>3, <1>4, <1>11, HandlerStands

\* Room is a matter of the stack pointers and the history.
LEMMA RoomKept ==
    ASSUME NEW c, NEW d, Room(c), d.trail = c.trail, d.m = c.m,
           \A b \in Banks : Pointer(d, b) = Pointer(c, b)
    PROVE  Room(d)
BY DEF Room, HasRoom, Banks

\* Of all actions only exceptions and interrupts lead from user mode to
\* supervisor mode.
LEMMA StepEnters ==
    ASSUME IInv, Next, ~cpu.s, cpu'.s
    PROVE  AtHandler(cpu')
<1>0. cpu \in Cpus /\ Supervising(cpu.mem)
  BY DEF IInv, TypeOK
<1>F. /\ Alike(cpu, Fetched) /\ Fetched \in Cpus /\ cpu.pc \in PCs /\ Fetched.pc \in PCs
      /\ Fetched.trail = cpu.trail /\ ~Fetched.s
  <2>1. Fetched.trail = cpu.trail
    BY <1>0 DEF Fetched, Jump, Cpus
  <2> QED
    BY <2>1, FetchedKeeps DEF IInv, Alike
<1>R. Room(cpu) => Room(Fetched)
  BY <1>F, RoomKept DEF Alike
<1>1. CASE Plain
  BY <1>1, <1>F DEF Plain
<1>2. ASSUME NEW n \in Traps, Trap(n) PROVE AtHandler(cpu')
  <2>1. n \notin Hooks
    BY <1>2, <1>F DEF Trap
  <2>2. TRAP_BASE + n \in Nat /\ TRAP_BASE + n > 1
    BY ExcAssumption DEF TRAP_BASE
  <2>3. Room(cpu) /\ cpu' = Exception(Fetched, TRAP_BASE + n, Fetched.pc)
    BY <1>2, <2>1 DEF Trap
  <2> QED
    BY <1>F, <1>R, <2>2, <2>3, ExceptionStands
<1>3. CASE Supexec
  <2> DEFINE p == Push(Fetched, [pc |-> Fetched.pc])
  <2>1. OnStack(Fetched, p) /\ p \in Cpus
    <3>1. Supervising(Fetched.mem)
      BY <1>0, <1>F DEF Alike
    <3> QED
      BY <1>F, <3>1, PushPcSupervises DEF OnStack
  <2>2. cpu' = Jump(p, PC(1, 0))
    BY <1>3 DEF Supexec
  <2> HIDE DEF p
  <2>3. cpu'.s = p.s
    BY <2>1, <2>2 DEF Jump, Cpus
  <2> QED
    BY <1>F, <2>1, <2>3 DEF OnStack
<1>4. CASE Rts
  <2> DEFINE p == Pulled(cpu, 1)
  <2>1. OnStack(cpu, p) /\ p \in Cpus
    BY <1>0, PulledSupervises DEF OnStack
  <2>2. cpu' = Jump(p, cpu.mem[cpu.a7].pc)
    BY <1>4 DEF Rts
  <2> HIDE DEF p
  <2>3. cpu'.s = p.s
    BY <2>1, <2>2 DEF Jump, Cpus
  <2> QED
    BY <2>1, <2>3 DEF OnStack
<1>5. CASE TrapOnCondition
  <2>1. Room(cpu) /\ cpu' = ExceptionTrap(Fetched, TRAPV, cpu.pc) /\ TRAPV \in Nat /\ TRAPV > 1
    BY <1>5 DEF TrapOnCondition, TRAPV
  <2> QED
    BY <1>F, <1>R, <2>1, TrapStands
<1>6. CASE Illegal \/ Violation
  <2>1. Room(cpu) /\ \E vec \in {ILLEGAL_INSTRUCTION, PRIVILEGE_VIOLATION} :
                        cpu' = Exception(Fetched, vec, cpu.pc)
    BY <1>6 DEF Illegal, Violation
  <2>2. \A vec \in {ILLEGAL_INSTRUCTION, PRIVILEGE_VIOLATION} : vec \in Nat /\ vec > 1
    BY DEF ILLEGAL_INSTRUCTION, PRIVILEGE_VIOLATION
  <2> QED
    BY <1>F, <1>R, <2>1, <2>2, ExceptionStands
<1>7. CASE PulseHalt
  BY <1>0, <1>7 DEF PulseHalt, Cpus
<1>8. CASE Spoil \/ RteNormal \/ RteTrap \/ RteThrowaway \/ RteFormatError
  BY <1>8 DEF Spoil, RteNormal, RteTrap, RteThrowaway, RteFormatError, Rte, InHandler
<1>9. CASE \/ \E sr \in SRs : MoveToSr(sr) \/ Stop(sr)
           \/ \E b \in Banks : MovecTo(b)
  BY <1>9 DEF MoveToSr, Stop, MovecTo
<1>10. ASSUME NEW level \in Levels, SetIrq(level) PROVE AtHandler(cpu')
  <2> DEFINE c == [cpu EXCEPT !.irq = level]
  <2>1. level \in 0 .. 7
    BY ExcAssumption
  <2>2. /\ c \in Cpus /\ c.s = cpu.s /\ c.m = cpu.m /\ c.a7 = cpu.a7 /\ c.sp = cpu.sp
        /\ c.trail = cpu.trail /\ c.halted = cpu.halted
    BY <1>0, <2>1 DEF Cpus
  <2>3. Room(cpu) /\ (cpu' = Interrupt(c, 7) \/ cpu' = CheckInterrupts(c))
    BY <1>10 DEF SetIrq
  <2> HIDE DEF c
  <2>4. Room(c)
    <3>1. \A b \in Banks : Pointer(c, b) = Pointer(cpu, b)
      BY <2>2 DEF Pointer, Active
    <3> QED
      BY <2>2, <2>3, <3>1, RoomKept
  <2>5. PICK l \in 0 .. 7 : cpu' = Interrupt(c, l)
    <3>1. cpu' # c
      BY <2>2
    <3>2. c.irq \in 0 .. 7 /\ 7 \in 0 .. 7
      BY <2>2 DEF Cpus
    <3> QED
      BY <2>3, <3>1, <3>2 DEF CheckInterrupts
  <2>6. ~c.halted
    <3> SUFFICES ASSUME c.halted PROVE FALSE
      OBVIOUS
    <3>1. cpu' = [c EXCEPT !.stopped = FALSE]
      BY <2>5 DEF Interrupt
    <3>2. [c EXCEPT !.stopped = FALSE].s = c.s
      BY <2>2 DEF Cpus
    <3> QED
      BY <2>2, <3>1, <3>2
  <2> QED
    BY <2>2, <2>4, <2>5, <2>6, InterruptStands
<1> QED
  BY <1>1, <1>2, <1>3, <1>4, <1>5, <1>6, <1>7, <1>8, <1>9, <1>10 DEF Next

\* A program gets into supervisor mode only at the start of a handler, with its
\* stack pointer kept and its status register on the supervisor's stack, so
\* that the handler's RTE leads back to user mode (m68ki_init_exception and the
\* stack frames); Supexec and RTS do not change the mode.
THEOREM SupervisorByVector == Spec => EntersByVector
<1>1. IInv /\ [Next]_cpu =>
        [~cpu.s /\ cpu'.s =>
            /\ cpu'.pc = Handler(cpu'.pc.in) /\ cpu'.pc.in > 1
            /\ Pointer(cpu', "usp") = Pointer(cpu, "usp")
            /\ cpu'.mem[cpu'.a7].sr.s = (cpu'.mem[cpu'.a7 + 2].fmt = 1)]_cpu
  <2> SUFFICES ASSUME IInv, Next, ~cpu.s, cpu'.s
               PROVE  /\ cpu'.pc = Handler(cpu'.pc.in) /\ cpu'.pc.in > 1
                      /\ Pointer(cpu', "usp") = Pointer(cpu, "usp")
                      /\ cpu'.mem[cpu'.a7].sr.s = (cpu'.mem[cpu'.a7 + 2].fmt = 1)
    OBVIOUS
  <2>1. AtHandler(cpu')
    BY StepEnters
  <2>2. Pointer(cpu', "usp") = Pointer(cpu, "usp")
    <3>1. cpu'.s # cpu.s
      OBVIOUS
    <3> QED
      BY <3>1, StepIsGood DEF Good, Apart
  <2> QED
    BY <2>1, <2>2 DEF AtHandler
<1> QED
  BY <1>1, InvariantHolds, PTL DEF Spec, EntersByVector

(***************************************************************************)
(* The unwinding of nested exceptions.  The inductive invariant says where *)
(* the frame of each exception in progress is, what it holds and that no   *)
(* two frames overlap.                                                     *)
(***************************************************************************)
Supers == {"isp", "msp"}

Backs == [pc : PCs, sr : StatusRegs, p : [Banks -> Int]]

Region(b) == Bottom(b) .. Top(b) - 1

\* The three cells at a are what an RTE needs to go back.
Whole(mem, a, back) ==
    mem[a] = [sr |-> back.sr] /\ mem[a + 1] = [pc |-> back.pc] /\ mem[a + 2] \in FormatCells

\* The frame of exception e, when the exceptions inside it have returned and
\* the stack pointers are p: spoiled, normal, with an address, or a throwaway
\* one with a normal one on the master stack.
Standing(mem, p, e) ==
    LET b == Bank(TRUE, e.m) IN
    /\ p[b] = e.a7 /\ Bottom(b) <= e.a7 /\ e.a7 + 3 <= e.back.p[b] /\ e.back.p[b] <= Top(b)
    /\ mem[e.a7] \in SrCells /\ mem[e.a7 + 1] \in PcCells /\ mem[e.a7 + 2] \in FormatCells
    /\ \/ mem[e.a7 + 2].fmt = 9
       \/ /\ Whole(mem, e.a7, e.back) /\ \A o \in Banks \ {b} : p[o] = e.back.p[o]
          /\ \/ mem[e.a7 + 2].fmt = 0 /\ e.a7 + 3 = e.back.p[b]
             \/ mem[e.a7 + 2].fmt = 2 /\ e.a7 + 4 = e.back.p[b]
       \/ /\ mem[e.a7 + 2].fmt = 1 /\ ~e.m /\ mem[e.a7].sr.s /\ mem[e.a7].sr.m
          /\ e.a7 + 3 = e.back.p[b] /\ p["usp"] = e.back.p["usp"]
          /\ Bottom("msp") <= p["msp"] /\ p["msp"] + 3 = e.back.p["msp"]
          /\ e.back.p["msp"] <= Top("msp")
          /\ Whole(mem, p["msp"], e.back) /\ mem[p["msp"] + 2].fmt = 0

\* The stack pointers when the exceptions inside the k-th have returned.
After(c, k) == IF k = Len(c.trail) THEN Pointers(c) ELSE c.trail[k + 1].back.p

\* There is room for the frames of an interrupt that follows a return.
Roomy(back) == /\ back.p["isp"] \in Bottom("isp") + 7 .. Top("isp")
               /\ back.sr.m => back.p["msp"] \in Bottom("msp") + 7 .. Top("msp")

\* Supexec's routine, the only one that returns by RTS, is not a handler.
Stacked(c) ==
    /\ \A k \in DOMAIN c.trail : /\ Standing(c.mem, After(c, k), c.trail[k])
                                 /\ Roomy(c.trail[k].back)
                                 /\ k > 1 => c.trail[k].back.pc.in # 1
                                 /\ c.pc.in # 1
                                 /\ \A b \in Banks : Pointer(c, b) <= c.trail[k].back.p[b]
    /\ \A i, j \in DOMAIN c.trail : i < j =>
          \A b \in Banks : c.trail[j].back.p[b] <= c.trail[i].back.p[b]

\* Memory is the same above the stack pointers p of the supervisor.
Agree(mem, new, p) ==
    \A b \in Supers : \A x \in Region(b) : x >= p[b] => new[x] = mem[x]

\* The regions of the stacks are apart.
LEMMA RegionsApart ==
    /\ Supers \subseteq Banks
    /\ \A b \in Banks : Bottom(b) \in Int /\ Top(b) \in Int /\ Region(b) \subseteq Memory
    /\ \A b, o \in Banks : b # o => Region(b) \cap Region(o) = {}
    /\ \A m \in BOOLEAN : Bank(TRUE, m) \in Supers
BY ExcAssumption DEF Supers, Banks, Region, Bottom, Top, Memory, Bank

\* A frame stands as long as no memory above the stack pointers changes.
LEMMA StandsOn ==
    ASSUME NEW mem, NEW new, NEW p \in [Banks -> Int], NEW e \in Entries,
           Standing(mem, p, e), Agree(mem, new, p)
    PROVE  Standing(new, p, e)
<1> DEFINE b == Bank(TRUE, e.m)
           a == e.a7
<1>0. /\ b \in Supers /\ b \in Banks /\ "msp" \in Supers /\ "msp" \in Banks /\ a \in Int
      /\ p[b] \in Int /\ p["msp"] \in Int /\ e.back.p[b] \in Int /\ e.back.p["msp"] \in Int
      /\ Bottom(b) \in Int /\ Top(b) \in Int /\ Bottom("msp") \in Int /\ Top("msp") \in Int
  BY RegionsApart DEF Entries, Supers, Banks
<1>1. /\ p[b] = a /\ Bottom(b) <= a /\ a + 3 <= e.back.p[b] /\ e.back.p[b] <= Top(b)
  BY DEF Standing
<1>2. new[a] = mem[a] /\ new[a + 1] = mem[a + 1] /\ new[a + 2] = mem[a + 2]
  <2> HIDE DEF a, b
  <2>1. /\ a \in Region(b) /\ a + 1 \in Region(b) /\ a + 2 \in Region(b)
        /\ a >= p[b] /\ a + 1 >= p[b] /\ a + 2 >= p[b]
    BY <1>0, <1>1 DEF Region
  <2> QED
    BY <1>0, <2>1 DEF Agree
<1>3. ASSUME Bottom("msp") <= p["msp"], p["msp"] + 3 = e.back.p["msp"],
             e.back.p["msp"] <= Top("msp")
      PROVE  \A i \in {0, 1, 2} : new[p["msp"] + i] = mem[p["msp"] + i]
  <2>1. \A i \in {0, 1, 2} : p["msp"] + i \in Region("msp") /\ p["msp"] + i >= p["msp"]
    BY <1>0, <1>3 DEF Region
  <2> QED
    BY <1>0, <2>1 DEF Agree
<1>4. ASSUME Bottom("msp") <= p["msp"], p["msp"] + 3 = e.back.p["msp"],
             e.back.p["msp"] <= Top("msp")
      PROVE  /\ new[p["msp"]] = mem[p["msp"]] /\ new[p["msp"] + 1] = mem[p["msp"] + 1]
             /\ new[p["msp"] + 2] = mem[p["msp"] + 2]
  <2>1. p["msp"] + 0 = p["msp"]
    BY <1>0
  <2> QED
    BY <1>3, <1>4, <2>1
<1> QED
  BY <1>1, <1>2, <1>4 DEF Standing, Whole

\* Setting the status register changes nothing else.
LEMMA SettlesAs ==
    ASSUME NEW c \in Cpus, NEW sr \in StatusRegs
    PROVE  LET d == SetSrNoint(c, sr)
           IN  /\ d \in Cpus /\ Pointers(d) = Pointers(c) /\ Sr(d) = sr /\ d.mem = c.mem
               /\ d.pc = c.pc /\ d.trail = c.trail /\ d.irq = c.irq /\ d.halted = c.halted
               /\ d.s = sr.s /\ d.m = sr.m
<1> DEFINE n == [c EXCEPT !.mask = sr.mask]
           d == SetSM(n, sr.s, sr.m)
<1>1. sr.s \in BOOLEAN /\ sr.m \in BOOLEAN /\ sr.mask \in 0 .. 7
  BY DEF StatusRegs
<1>2. /\ n \in Cpus /\ n.mem = c.mem /\ n.mask = sr.mask
      /\ \A b \in Banks : Pointer(n, b) = Pointer(c, b)
  BY <1>1, MaskSet
<1>3. n.pc = c.pc /\ n.trail = c.trail /\ n.irq = c.irq /\ n.halted = c.halted
  BY DEF Cpus
<1>4. SetSrNoint(c, sr) = d
  BY DEF SetSrNoint
<1> HIDE DEF n
<1>5. Switched(n, sr.s, sr.m, d)
  BY <1>1, <1>2, SetSMKeeps, Zenon
<1> HIDE DEF d
<1>6. Pointers(d) = Pointers(c)
  BY <1>2, <1>5 DEF Switched, Pointers
<1>7. Sr(d) = sr
  BY <1>2, <1>5 DEF Switched, Sr, StatusRegs
<1> QED
  BY <1>2, <1>3, <1>4, <1>5, <1>6, <1>7 DEF Switched, Quiet

\* A pull moves the active pointer and forgets the cells it passes.
LEMMA PullsTo ==
    ASSUME NEW c \in Cpus, NEW cells \in Nat
    PROVE  LET d == Pulled(c, cells)
           IN  /\ d \in Cpus /\ d.a7 = c.a7 + cells /\ d.s = c.s /\ d.m = c.m
               /\ Pointers(d) = [Pointers(c) EXCEPT ![Active(c)] = c.a7 + cells]
               /\ d.trail = c.trail /\ d.pc = c.pc /\ d.irq = c.irq /\ d.halted = c.halted
               /\ \A x \in Memory : x < c.a7 \/ x >= c.a7 + cells => d.mem[x] = c.mem[x]
<1> DEFINE d == Pulled(c, cells)
<1>1. OnStack(c, d)
  BY PulledKeeps
<1>2. d.a7 = c.a7 + cells /\ d.mem = Forget(c.mem, c.a7, c.a7 + cells - 1)
  BY DEF Pulled, Cpus
<1>3. \A x \in Memory : x < c.a7 \/ x >= c.a7 + cells => d.mem[x] = c.mem[x]
  <2> SUFFICES ASSUME NEW x \in Memory, x < c.a7 \/ x >= c.a7 + cells
               PROVE  x \notin c.a7 .. c.a7 + cells - 1 /\ x \in DOMAIN c.mem
    BY <1>2 DEF Forget
  <2>1. x \in Int /\ c.a7 \in Int /\ DOMAIN c.mem = Memory
    BY DEF Memory, Cpus
  <2> QED
    BY <2>1
<1> HIDE DEF d
<1>4. Active(d) = Active(c) /\ Pointer(d, Active(c)) = d.a7
  BY <1>1 DEF OnStack, Active, Pointer
<1>5. Pointers(d) = [Pointers(c) EXCEPT ![Active(c)] = c.a7 + cells]
  BY <1>1, <1>2, <1>4 DEF OnStack, Pointers
<1> QED
  BY <1>1, <1>2, <1>3, <1>5 DEF OnStack, Quiet, d

\* A normal frame, or one with an address, is pulled from the stack it is on.
LEMMA PullsBack ==
    ASSUME NEW c \in Cpus, NEW back \in Backs, NEW b \in Supers, Active(c) = b,
           NEW cells \in 3 .. 4, c.a7 + cells = back.p[b],
           Bottom(b) <= c.a7, back.p[b] <= Top(b), Whole(c.mem, c.a7, back),
           \A o \in Banks \ {b} : Pointer(c, o) = back.p[o]
    PROVE  LET d == Pulled(c, cells)
           IN  /\ HasFrame(c) /\ c.mem[c.a7].sr = back.sr /\ c.mem[c.a7 + 1].pc = back.pc
               /\ d \in Cpus /\ Pointers(d) = back.p /\ Agree(c.mem, d.mem, back.p)
               /\ d.trail = c.trail /\ d.irq = c.irq /\ d.halted = c.halted
<1> DEFINE d == Pulled(c, cells)
           low == c.a7
<1>0. /\ b \in Banks /\ low \in Int /\ Bottom(b) \in Int /\ Top(b) \in Int
      /\ Region(b) \subseteq Memory /\ cells \in Nat /\ back.p \in [Banks -> Int]
  BY RegionsApart DEF Cpus, Backs
<1>1. /\ d \in Cpus /\ Pointers(d) = [Pointers(c) EXCEPT ![b] = low + cells]
      /\ d.trail = c.trail /\ d.irq = c.irq /\ d.halted = c.halted
      /\ \A x \in Memory : x < low \/ x >= low + cells => d.mem[x] = c.mem[x]
  BY <1>0, PullsTo
<1> HIDE DEF d
<1>2. HasFrame(c) /\ c.mem[low].sr = back.sr /\ c.mem[low + 1].pc = back.pc
  <2>1. low \in Memory /\ low + 1 \in Memory /\ low + 2 \in Memory
    <3> HIDE DEF low
    <3>1. low \in Region(b) /\ low + 1 \in Region(b) /\ low + 2 \in Region(b)
      BY <1>0 DEF Region, low
    <3> QED
      BY <1>0, <3>1
  <2>2. c.mem[low] \in SrCells /\ c.mem[low + 1] \in PcCells /\ c.mem[low + 2] \in FormatCells
    BY DEF Whole, Backs, SrCells, PcCells
  <2> QED
    BY <2>1, <2>2 DEF Whole, HasFrame
<1>3. Pointers(d) = back.p
  <2>1. \A o \in Banks : Pointers(d)[o] = back.p[o]
    BY <1>0, <1>1 DEF Pointers
  <2>2. Pointers(d) \in [Banks -> Int]
    BY <1>1, PointerType
  <2> QED
    BY <1>0, <2>1, <2>2
<1>4. Agree(c.mem, d.mem, back.p)
  <2> SUFFICES ASSUME NEW o \in Supers, NEW x \in Region(o), x >= back.p[o]
               PROVE  d.mem[x] = c.mem[x]
    BY DEF Agree
  <2>1. x \in Memory /\ x \in Int /\ o \in Banks /\ back.p[o] \in Int
    BY <1>0, RegionsApart DEF Memory
  <2>2. CASE o = b
    <3>1. x >= low + cells
      BY <2>1, <2>2
    <3> QED
      BY <1>1, <2>1, <3>1
  <2>3. CASE o # b
    <3>1. x \notin Region(b)
      BY <1>0, <2>1, <2>3, RegionsApart
    <3>2. x < low \/ x >= low + cells
      BY <1>0, <2>1, <3>1 DEF Region
    <3> QED
      BY <1>1, <2>1, <3>2
  <2> QED
    BY <2>2, <2>3
<1> QED
  BY <1>1, <1>2, <1>3, <1>4 DEF d

\* A throwaway frame leads to the normal one on the master stack.
LEMMA ThrowsAway ==
    ASSUME NEW c \in Cpus, NEW e \in Entries, Standing(c.mem, Pointers(c), e),
           c.s = TRUE, c.m = e.m, c.mem[e.a7 + 2].fmt = 1
    PROVE  LET d == AfterThrowaway(c)
           IN  /\ HasFrame(c) /\ d \in Cpus /\ Active(d) = "msp" /\ d.s = TRUE
               /\ d.a7 + 3 = e.back.p["msp"] /\ Bottom("msp") <= d.a7
               /\ e.back.p["msp"] <= Top("msp")
               /\ Whole(d.mem, d.a7, e.back) /\ Format(d) = 0
               /\ \A o \in Banks \ {"msp"} : Pointer(d, o) = e.back.p[o]
               /\ Agree(c.mem, d.mem, e.back.p)
               /\ d.trail = c.trail /\ d.irq = c.irq /\ d.halted = c.halted
<1> DEFINE p == Pulled(c, 3)
           d == AfterThrowaway(c)
           sr == c.mem[c.a7].sr
           low == c.a7
           q == Pointer(c, "msp")
<1>0. /\ "isp" \in Banks /\ "msp" \in Banks /\ "usp" \in Banks /\ low \in Int /\ q \in Int
      /\ Bottom("isp") \in Int /\ Top("isp") \in Int /\ Bottom("msp") \in Int
      /\ Top("msp") \in Int /\ e.back.p \in [Banks -> Int]
      /\ Region("isp") \subseteq Memory /\ Region("msp") \subseteq Memory
  BY RegionsApart, PointerType DEF Cpus, Entries, Banks
<1>1. /\ ~e.m /\ c.mem[e.a7].sr.s /\ c.mem[e.a7].sr.m /\ Whole(c.mem, q, e.back)
      /\ e.a7 + 3 = e.back.p["isp"] /\ Pointer(c, "usp") = e.back.p["usp"]
      /\ Bottom("msp") <= q /\ q + 3 = e.back.p["msp"] /\ e.back.p["msp"] <= Top("msp")
      /\ c.mem[q + 2].fmt = 0
      /\ Pointer(c, "isp") = e.a7 /\ Bottom("isp") <= e.a7 /\ e.back.p["isp"] <= Top("isp")
      /\ c.mem[e.a7] \in SrCells /\ c.mem[e.a7 + 1] \in PcCells /\ c.mem[e.a7 + 2] \in FormatCells
  <2>1. ~e.m
    BY DEF Standing
  <2>2. Bank(TRUE, e.m) = "isp"
    BY <2>1 DEF Bank
  <2>3. \A o \in Banks : Pointers(c)[o] = Pointer(c, o)
    BY DEF Pointers
  <2>4. /\ c.mem[e.a7].sr.s /\ c.mem[e.a7].sr.m
        /\ e.a7 + 3 = e.back.p[Bank(TRUE, e.m)] /\ Pointers(c)["usp"] = e.back.p["usp"]
        /\ Bottom("msp") <= Pointers(c)["msp"] /\ Pointers(c)["msp"] + 3 = e.back.p["msp"]
        /\ e.back.p["msp"] <= Top("msp")
        /\ Whole(c.mem, Pointers(c)["msp"], e.back) /\ c.mem[Pointers(c)["msp"] + 2].fmt = 0
    <3>1. /\ c.mem[e.a7 + 2].fmt # 9 /\ c.mem[e.a7 + 2].fmt # 0 /\ c.mem[e.a7 + 2].fmt # 2
      OBVIOUS
    <3> QED
      BY <3>1, Zenon DEF Standing
  <2>5. /\ Pointers(c)[Bank(TRUE, e.m)] = e.a7 /\ Bottom(Bank(TRUE, e.m)) <= e.a7
        /\ e.back.p[Bank(TRUE, e.m)] <= Top(Bank(TRUE, e.m))
        /\ c.mem[e.a7] \in SrCells /\ c.mem[e.a7 + 1] \in PcCells
        /\ c.mem[e.a7 + 2] \in FormatCells
    BY DEF Standing
  <2> QED
    BY <1>0, <2>1, <2>2, <2>3, <2>4, <2>5, Zenon
<1>2. Active(c) = "isp" /\ low = e.a7
  BY <1>0, <1>1 DEF Active, Bank, Pointer
<1>3. /\ p \in Cpus /\ Pointers(p) = [Pointers(c) EXCEPT !["isp"] = low + 3]
      /\ p.trail = c.trail /\ p.irq = c.irq /\ p.halted = c.halted
      /\ \A x \in Memory : x < low \/ x >= low + 3 => p.mem[x] = c.mem[x]
  <2>1. 3 \in Nat
    OBVIOUS
  <2>2. /\ p \in Cpus /\ Pointers(p) = [Pointers(c) EXCEPT ![Active(c)] = low + 3]
        /\ p.trail = c.trail /\ p.irq = c.irq /\ p.halted = c.halted
        /\ \A x \in Memory : x < low \/ x >= low + 3 => p.mem[x] = c.mem[x]
    BY <2>1, PullsTo, Zenon
  <2> QED
    BY <1>2, <2>2
<1>4. sr \in StatusRegs /\ sr.s = TRUE /\ sr.m = TRUE
  BY <1>1, <1>2 DEF SrCells, StatusRegs
<1>5. d = SetSrNoint(p, sr)
  BY DEF AfterThrowaway
<1> HIDE DEF p, d, sr
<1>6. /\ d \in Cpus /\ Pointers(d) = Pointers(p) /\ d.mem = p.mem
      /\ d.trail = p.trail /\ d.irq = p.irq /\ d.halted = p.halted /\ d.s = TRUE /\ d.m = TRUE
  BY <1>3, <1>4, <1>5, SettlesAs
<1>7. Active(d) = "msp" /\ d.a7 = Pointer(d, "msp")
  BY <1>6 DEF Active, Bank, Pointer
<1>8. /\ Pointers(d)["msp"] = q /\ Pointers(d)["usp"] = e.back.p["usp"]
      /\ Pointers(d)["isp"] = e.back.p["isp"]
  BY <1>0, <1>1, <1>2, <1>3, <1>6 DEF Pointers
<1>9. d.a7 = q /\ \A o \in Banks \ {"msp"} : Pointer(d, o) = e.back.p[o]
  BY <1>0, <1>7, <1>8 DEF Pointers, Banks
<1>10. ASSUME NEW x \in Memory, x \notin Region("isp") \/ x >= e.back.p["isp"]
       PROVE  d.mem[x] = c.mem[x]
  <2>1. x \in Int
    BY DEF Memory
  <2>2. x < low \/ x >= low + 3
    BY <1>0, <1>1, <1>2, <1>10, <2>1 DEF Region
  <2> QED
    BY <1>3, <1>6, <2>2
<1>11. Agree(c.mem, d.mem, e.back.p)
  <2> SUFFICES ASSUME NEW o \in Supers, NEW x \in Region(o), x >= e.back.p[o]
               PROVE  d.mem[x] = c.mem[x]
    BY DEF Agree
  <2>1. x \in Memory /\ (x \notin Region("isp") \/ x >= e.back.p["isp"])
    BY <1>0, RegionsApart DEF Supers
  <2> QED
    BY <2>1, <1>10
<1>12. /\ q \in Region("msp") /\ q + 1 \in Region("msp") /\ q + 2 \in Region("msp")
  <2> HIDE DEF q
  <2> QED
    BY <1>0, <1>1 DEF Region
<1>13. d.mem[q] = c.mem[q] /\ d.mem[q + 1] = c.mem[q + 1] /\ d.mem[q + 2] = c.mem[q + 2]
  <2>1. \A x \in Region("msp") : x \in Memory /\ x \notin Region("isp")
    BY <1>0, RegionsApart
  <2> QED
    BY <1>10, <1>12, <2>1
<1>14. Whole(d.mem, d.a7, e.back) /\ Format(d) = 0
  BY <1>1, <1>9, <1>13 DEF Whole, Format
<1>15. HasFrame(c)
  <2>1. low \in Region("isp") /\ low + 1 \in Region("isp") /\ low + 2 \in Region("isp")
    BY <1>0, <1>1, <1>2 DEF Region
  <2> QED
    BY <1>0, <1>1, <1>2, <2>1 DEF HasFrame
<1> QED
  BY <1>0, <1>1, <1>3, <1>6, <1>7, <1>9, <1>11, <1>14, <1>15 DEF d

\* A frame of the other kinds that is not spoiled is one to pull.
LEMMA StandsNormal ==
    ASSUME NEW c \in Cpus, NEW e \in Entries, Standing(c.mem, Pointers(c), e),
           c.s = TRUE, c.m = e.m, c.mem[e.a7 + 2].fmt \notin {1, 9}
    PROVE  LET b == Bank(TRUE, e.m)
               cells == IF Format(c) = 2 THEN 4 ELSE 3
           IN  /\ b \in Supers /\ Active(c) = b /\ c.a7 = e.a7 /\ Format(c) \in {0, 2}
               /\ cells \in 3 .. 4 /\ c.a7 + cells = e.back.p[b]
               /\ Bottom(b) <= c.a7 /\ e.back.p[b] <= Top(b) /\ Whole(c.mem, c.a7, e.back)
               /\ \A o \in Banks \ {b} : Pointer(c, o) = e.back.p[o]
<1> DEFINE b == Bank(TRUE, e.m)
<1>1. b \in Supers /\ b \in Banks /\ Active(c) = b
  BY RegionsApart DEF Entries, Active
<1>2. c.a7 = e.a7
  BY <1>1 DEF Standing, Pointers, Pointer
<1>3. /\ Whole(c.mem, e.a7, e.back) /\ \A o \in Banks \ {b} : Pointers(c)[o] = e.back.p[o]
      /\ \/ c.mem[e.a7 + 2].fmt = 0 /\ e.a7 + 3 = e.back.p[b]
         \/ c.mem[e.a7 + 2].fmt = 2 /\ e.a7 + 4 = e.back.p[b]
      /\ Bottom(b) <= e.a7 /\ e.back.p[b] <= Top(b)
  BY DEF Standing
<1> HIDE DEF b
<1>4. \A o \in Banks \ {b} : Pointer(c, o) = e.back.p[o]
  BY <1>3 DEF Pointers
<1>5. /\ Format(c) \in {0, 2} /\ (IF Format(c) = 2 THEN 4 ELSE 3) \in 3 .. 4
      /\ c.a7 + (IF Format(c) = 2 THEN 4 ELSE 3) = e.back.p[b]
  BY <1>2, <1>3 DEF Format
<1>6. Bottom(b) <= c.a7 /\ e.back.p[b] <= Top(b) /\ Whole(c.mem, c.a7, e.back)
  BY <1>2, <1>3
<1> QED
  BY <1>1, <1>2, <1>4, <1>5, <1>6 DEF b

\* What a jump and a new status register make of a cpu that has pulled a frame.
LEMMA GoesBack ==
    ASSUME NEW c \in Cpus, NEW back \in Backs, Pointers(c) = back.p
    PROVE  LET d == SetSrNoint(Jump(c, back.pc), back.sr)
           IN  /\ d \in Cpus /\ Context(d, d.pc) = back /\ d.mem = c.mem /\ d.trail = c.trail
               /\ d.irq = c.irq /\ d.halted = c.halted
<1> DEFINE j == Jump(c, back.pc)
           d == SetSrNoint(j, back.sr)
<1>1. back.pc \in PCs /\ back.sr \in StatusRegs
  BY DEF Backs
<1>2. Alike(c, j) /\ j.trail = c.trail /\ j.pc = back.pc
  BY <1>1, JumpKeeps DEF Jump, Cpus
<1>3. j \in Cpus /\ Pointers(j) = Pointers(c)
  BY <1>2 DEF Alike, Pointers
<1> HIDE DEF j
<1>4. /\ d \in Cpus /\ Pointers(d) = Pointers(j) /\ Sr(d) = back.sr /\ d.mem = j.mem
      /\ d.pc = j.pc /\ d.trail = j.trail /\ d.irq = j.irq /\ d.halted = j.halted
  BY <1>1, <1>3, SettlesAs
<1> HIDE DEF d
<1>5. Context(d, d.pc) = back
  BY <1>2, <1>3, <1>4 DEF Context, Backs
<1> QED
  BY <1>2, <1>4, <1>5 DEF Alike, d, j

\* An RTE from a frame that stands leads back.
LEMMA Unwinds ==
    ASSUME NEW c \in Cpus, NEW e \in Entries, Standing(c.mem, Pointers(c), e),
           c.s = TRUE, c.m = e.m, c.mem[e.a7 + 2].fmt # 9
    PROVE  Context(Return(c), Return(c).pc) = e.back
<1> DEFINE pull(d) == IF HasFrame(d)
                      THEN SetSrNoint(Jump(Pulled(d, IF Format(d) = 2 THEN 4 ELSE 3),
                                           d.mem[d.a7 + 1].pc), d.mem[d.a7].sr)
                      ELSE d
<1>0. e.back \in Backs /\ "msp" \in Supers
  BY DEF Entries, Backs, Supers
<1>1. Return(c) = IF HasFrame(c) /\ Format(c) = 1 THEN pull(AfterThrowaway(c)) ELSE pull(c)
  BY DEF Return
<1>2. ASSUME NEW d \in Cpus, NEW b \in Supers, Active(d) = b,
             d.a7 + (IF Format(d) = 2 THEN 4 ELSE 3) = e.back.p[b],
             Bottom(b) <= d.a7, e.back.p[b] <= Top(b), Whole(d.mem, d.a7, e.back),
             \A o \in Banks \ {b} : Pointer(d, o) = e.back.p[o]
      PROVE  Context(pull(d), pull(d).pc) = e.back
  <2> DEFINE cells == IF Format(d) = 2 THEN 4 ELSE 3
             p == Pulled(d, cells)
  <2>1. cells \in 3 .. 4
    OBVIOUS
  <2> HIDE DEF cells
  <2>2. /\ HasFrame(d) /\ d.mem[d.a7].sr = e.back.sr /\ d.mem[d.a7 + 1].pc = e.back.pc
        /\ p \in Cpus /\ Pointers(p) = e.back.p
    <3>1. d.a7 + cells = e.back.p[b]
      BY <1>2 DEF cells
    <3> QED
      BY <1>0, <1>2, <2>1, <3>1, PullsBack
  <2>3. pull(d) = SetSrNoint(Jump(p, e.back.pc), e.back.sr)
    BY <2>2 DEF cells
  <2> HIDE DEF p, pull
  <2> QED
    BY <1>0, <2>2, <2>3, GoesBack
<1>3. CASE c.mem[e.a7 + 2].fmt = 1
  <2> DEFINE d == AfterThrowaway(c)
  <2>1. /\ HasFrame(c) /\ d \in Cpus /\ Active(d) = "msp"
        /\ d.a7 + 3 = e.back.p["msp"] /\ Bottom("msp") <= d.a7
        /\ e.back.p["msp"] <= Top("msp")
        /\ Whole(d.mem, d.a7, e.back) /\ Format(d) = 0
        /\ \A o \in Banks \ {"msp"} : Pointer(d, o) = e.back.p[o]
    BY <1>3, ThrowsAway
  <2>2. Format(c) = 1
    <3>1. c.a7 = e.a7
      BY RegionsApart DEF Standing, Pointers, Pointer, Active, Entries
    <3> QED
      BY <1>3, <3>1 DEF Format
  <2>3. Return(c) = pull(d)
    BY <1>1, <2>1, <2>2
  <2> HIDE DEF d, pull
  <2>4. d.a7 + (IF Format(d) = 2 THEN 4 ELSE 3) = e.back.p["msp"]
    BY <2>1
  <2> QED
    BY <1>0, <1>2, <2>1, <2>3, <2>4
<1>4. CASE c.mem[e.a7 + 2].fmt # 1
  <2> DEFINE b == Bank(TRUE, e.m)
  <2>1. /\ b \in Supers /\ Active(c) = b /\ Format(c) \in {0, 2}
        /\ c.a7 + (IF Format(c) = 2 THEN 4 ELSE 3) = e.back.p[b]
        /\ Bottom(b) <= c.a7 /\ e.back.p[b] <= Top(b) /\ Whole(c.mem, c.a7, e.back)
        /\ \A o \in Banks \ {b} : Pointer(c, o) = e.back.p[o]
    BY <1>4, StandsNormal
  <2>2. Return(c) = pull(c)
    BY <1>1, <2>1
  <2> HIDE DEF b, pull
  <2> QED
    BY <1>2, <2>1, <2>2
<1> QED
  BY <1>3, <1>4

\* The invariant is what the property asks for.
LEMMA StackedUnwinds ==
    ASSUME TypeOK, Stacked(cpu)
    PROVE  UnwindsInOrder
<1> SUFFICES ASSUME NEW k \in DOMAIN cpu.trail, cpu.mem[cpu.trail[k].a7 + 2].fmt # 9
             PROVE  LET e == cpu.trail[k]
                        d == Return(SetSM(Unwound(k), TRUE, e.m))
                    IN  Context(d, d.pc) = e.back
  BY DEF UnwindsInOrder
<1> DEFINE e == cpu.trail[k]
           u == Unwound(k)
           w == SetSM(u, TRUE, e.m)
<1>0. cpu \in Cpus /\ cpu.trail \in Seq(Entries)
  BY DEF TypeOK, Cpus
<1>1. e \in Entries /\ Standing(cpu.mem, After(cpu, k), e)
  BY <1>0 DEF Stacked
<1>2. u \in Cpus /\ u.mem = cpu.mem /\ Pointers(u) = After(cpu, k)
  <2>1. CASE k = Len(cpu.trail)
    BY <1>0, <2>1 DEF Unwound, After
  <2>2. CASE k # Len(cpu.trail)
    <3> DEFINE back == cpu.trail[k + 1].back
               p == back.p
               a7 == p[Bank(back.sr.s, back.sr.m)]
               r == [cpu EXCEPT !.pc = back.pc, !.s = back.sr.s, !.m = back.sr.m,
                                !.mask = back.sr.mask, !.sp = p, !.a7 = a7]
    <3>1. k + 1 \in DOMAIN cpu.trail
      BY <1>0, <2>2
    <3>2. cpu.trail[k + 1] \in Entries
      BY <1>0, <3>1
    <3>3. /\ back.pc \in PCs /\ back.sr.s \in BOOLEAN /\ back.sr.m \in BOOLEAN
          /\ back.sr.mask \in 0 .. 7 /\ p \in [Banks -> Int]
      BY <3>2 DEF Entries, StatusRegs
    <3>4. a7 \in Int
      BY <3>3, BankType
    <3>5. u = r /\ After(cpu, k) = p
      BY <2>2 DEF Unwound, After
    <3> HIDE DEF back, p, a7
    <3>6. /\ r \in Cpus /\ r.mem = cpu.mem /\ r.s = back.sr.s /\ r.m = back.sr.m
          /\ r.sp = p /\ r.a7 = a7
      BY <1>0, <3>3, <3>4 DEF Cpus
    <3> HIDE DEF r, u
    <3>7. \A b \in Banks : Pointer(r, b) = p[b]
      BY <3>6 DEF Pointer, Active, a7
    <3>8. Pointers(r) = p
      BY <3>3, <3>7 DEF Pointers
    <3> QED
      BY <3>5, <3>6, <3>8
  <2> QED
    BY <2>1, <2>2
<1> HIDE DEF u
<1>3. e.m \in BOOLEAN /\ TRUE \in BOOLEAN
  BY <1>1 DEF Entries
<1>4. Switched(u, TRUE, e.m, w)
  BY <1>2, <1>3, SetSMKeeps, Zenon
<1> HIDE DEF w
<1>5. w \in Cpus /\ w.s = TRUE /\ w.m = e.m /\ w.mem = cpu.mem /\ Pointers(w) = After(cpu, k)
  BY <1>2, <1>4 DEF Switched, Pointers
<1>6. Context(Return(w), Return(w).pc) = e.back
  BY <1>1, <1>5, Unwinds
<1> QED
  BY <1>6 DEF w, u

\* The stack pointers only rise as exceptions return.
LEMMA AfterAbove ==
    ASSUME NEW c \in Cpus, Stacked(c), NEW k \in DOMAIN c.trail
    PROVE  /\ After(c, k) \in [Banks -> Int] /\ c.trail[k] \in Entries
           /\ \A b \in Banks : Pointer(c, b) <= After(c, k)[b]
<1>1. c.trail \in Seq(Entries) /\ c.trail[k] \in Entries
  BY DEF Cpus
<1>2. CASE k = Len(c.trail)
  <2>1. After(c, k) = Pointers(c)
    BY <1>2 DEF After
  <2> QED
    BY <1>1, <2>1, PointerType DEF Pointers
<1>3. CASE k # Len(c.trail)
  <2>1. k + 1 \in DOMAIN c.trail
    BY <1>1, <1>3
  <2>2. After(c, k) = c.trail[k + 1].back.p /\ c.trail[k + 1] \in Entries
    BY <1>1, <1>3, <2>1 DEF After
  <2> QED
    BY <1>1, <2>1, <2>2 DEF Entries, Stacked
<1> QED
  BY <1>2, <1>3

\* A lower agreement is one above as well.
LEMMA AgreeAbove ==
    ASSUME NEW mem, NEW new, NEW p \in [Banks -> Int], NEW q \in [Banks -> Int],
           \A b \in Supers : p[b] <= q[b], Agree(mem, new, p)
    PROVE  Agree(mem, new, q)
<1> SUFFICES ASSUME NEW b \in Supers, NEW x \in Region(b), x >= q[b]
             PROVE  new[x] = mem[x]
  BY DEF Agree
<1>1. x \in Int /\ p[b] \in Int /\ q[b] \in Int /\ p[b] <= q[b]
  BY RegionsApart DEF Region
<1>2. x >= p[b]
  BY <1>1
<1> QED
  BY <1>2 DEF Agree

\* An exception puts its frame below all others.
LEMMA AppendStacks ==
    ASSUME NEW c \in Cpus, NEW d \in Cpus, NEW e \in Entries, Stacked(c),
           d.trail = Append(c.trail, e), e.back.p = Pointers(c), Roomy(e.back),
           Agree(c.mem, d.mem, Pointers(c)), Standing(d.mem, Pointers(d), e),
           \A b \in Banks : Pointer(d, b) <= Pointer(c, b),
           d.pc.in # 1, c.trail # <<>> => e.back.pc.in # 1
    PROVE  Stacked(d)
<1> DEFINE n == Len(c.trail)
<1>0. c.trail \in Seq(Entries) /\ n \in Nat /\ DOMAIN c.trail = 1 .. n
  BY DEF Cpus
<1>1. /\ DOMAIN d.trail = 1 .. n + 1 /\ Len(d.trail) = n + 1 /\ d.trail[n + 1] = e
      /\ \A k \in 1 .. n : d.trail[k] = c.trail[k]
  BY <1>0
<1> HIDE DEF n
<1>2. /\ \A b \in Banks : Pointer(c, b) \in Int /\ Pointer(d, b) \in Int
      /\ \A b \in Banks : Pointers(c)[b] = Pointer(c, b)
      /\ Pointers(c) \in [Banks -> Int]
  BY PointerType DEF Pointers
<1>3. ASSUME NEW k \in 1 .. n
      PROVE  /\ Standing(d.mem, After(d, k), d.trail[k])
             /\ Roomy(d.trail[k].back) /\ (k > 1 => d.trail[k].back.pc.in # 1)
             /\ \A b \in Banks : Pointer(d, b) <= d.trail[k].back.p[b]
             /\ \A b \in Banks : e.back.p[b] <= d.trail[k].back.p[b]
  <2>1. k \in DOMAIN c.trail /\ k \in Int /\ k # n + 1 /\ d.trail[k] = c.trail[k]
    BY <1>0, <1>1
  <2>2. After(d, k) = After(c, k)
    <3>1. CASE k = n
      BY <1>1, <2>1, <3>1 DEF After, n
    <3>2. CASE k # n
      <4>1. k + 1 \in 1 .. n
        BY <1>0, <3>2
      <4> QED
        BY <1>1, <2>1, <3>2, <4>1 DEF After, n
    <3> QED
      BY <3>1, <3>2
  <2>3. /\ After(c, k) \in [Banks -> Int] /\ c.trail[k] \in Entries
        /\ \A b \in Banks : Pointer(c, b) <= After(c, k)[b]
    BY <2>1, AfterAbove
  <2>4. Agree(c.mem, d.mem, After(c, k))
    <3>1. \A b \in Supers : Pointers(c)[b] <= After(c, k)[b]
      BY <1>2, <2>3, RegionsApart
    <3> QED
      BY <1>2, <2>3, <3>1, AgreeAbove
  <2>5. /\ Standing(c.mem, After(c, k), c.trail[k]) /\ Roomy(c.trail[k].back)
        /\ k > 1 => c.trail[k].back.pc.in # 1
        /\ \A b \in Banks : Pointer(c, b) <= c.trail[k].back.p[b]
    BY <2>1 DEF Stacked
  <2>6. Standing(d.mem, After(c, k), c.trail[k])
    BY <2>3, <2>4, <2>5, StandsOn
  <2>7. \A b \in Banks : c.trail[k].back.p[b] \in Int
    BY <2>3 DEF Entries
  <2>8. \A b \in Banks : /\ Pointer(d, b) <= c.trail[k].back.p[b]
                         /\ e.back.p[b] <= c.trail[k].back.p[b]
    BY <1>2, <2>5, <2>7
  <2> QED
    BY <2>1, <2>2, <2>5, <2>6, <2>8
<1>4. /\ Standing(d.mem, After(d, n + 1), d.trail[n + 1]) /\ Roomy(d.trail[n + 1].back)
      /\ n + 1 > 1 => d.trail[n + 1].back.pc.in # 1
      /\ \A b \in Banks : Pointer(d, b) <= d.trail[n + 1].back.p[b]
  <2>1. After(d, n + 1) = Pointers(d)
    BY <1>1 DEF After
  <2>2. n + 1 > 1 => c.trail # <<>>
    BY <1>0 DEF n
  <2> QED
    BY <1>1, <1>2, <2>1, <2>2
<1>5. ASSUME NEW i \in 1 .. n + 1, NEW j \in 1 .. n + 1, i < j, NEW b \in Banks
      PROVE  d.trail[j].back.p[b] <= d.trail[i].back.p[b]
  <2>1. i \in 1 .. n
    BY <1>0, <1>5
  <2>2. CASE j = n + 1
    BY <1>1, <1>3, <2>1, <2>2
  <2>3. CASE j # n + 1
    <3>1. j \in 1 .. n
      BY <1>0, <2>3
    <3> QED
      BY <1>0, <1>1, <1>5, <2>1, <3>1 DEF Stacked
  <2> QED
    BY <2>2, <2>3
<1>6. \A k \in 1 .. n + 1 : k \in 1 .. n \/ k = n + 1
  BY <1>0
<1> QED
  BY <1>1, <1>3, <1>4, <1>5, <1>6 DEF Stacked

\* The innermost exception returns to below what the others return to.
LEMMA AfterOuter ==
    ASSUME NEW c \in Cpus, Stacked(c), NEW k \in DOMAIN c.trail, k # Len(c.trail)
    PROVE  \A b \in Banks : c.trail[Len(c.trail)].back.p[b] <= After(c, k)[b]
<1> DEFINE n == Len(c.trail)
<1>1. c.trail \in Seq(Entries) /\ n \in Nat /\ DOMAIN c.trail = 1 .. n
  BY DEF Cpus
<1>2. k + 1 \in DOMAIN c.trail /\ n \in DOMAIN c.trail /\ (k + 1 = n \/ k + 1 < n)
  BY <1>1
<1>3. After(c, k) = c.trail[k + 1].back.p /\ c.trail[n] \in Entries
  BY <1>1, <1>2 DEF After
<1> HIDE DEF n
<1>4. CASE k + 1 = n
  BY <1>3, <1>4 DEF Entries, n
<1>5. CASE k + 1 < n
  BY <1>2, <1>3, <1>5 DEF Stacked, n
<1> QED
  BY <1>2, <1>4, <1>5

\* A return takes the innermost frame away and leaves the others.
LEMMA ReturnStacks ==
    ASSUME NEW c \in Cpus, NEW d \in Cpus, Stacked(c), c.trail # <<>>,
           d.trail = SubSeq(c.trail, 1, Len(c.trail) - 1),
           Context(d, d.pc) = c.trail[Len(c.trail)].back,
           Agree(c.mem, d.mem, c.trail[Len(c.trail)].back.p)
    PROVE  Stacked(d)
<1> DEFINE n == Len(c.trail)
           back == c.trail[n].back
<1>0. c.trail \in Seq(Entries) /\ n \in Nat \ {0} /\ DOMAIN c.trail = 1 .. n /\ n \in 1 .. n
  BY DEF Cpus
<1>1. /\ DOMAIN d.trail = 1 .. n - 1 /\ Len(d.trail) = n - 1
      /\ \A k \in 1 .. n - 1 : d.trail[k] = c.trail[k]
  BY <1>0
<1>2. d.pc = back.pc /\ Pointers(d) = back.p /\ back.p \in [Banks -> Int]
  <2>1. c.trail[n] \in Entries
    BY <1>0
  <2> QED
    BY <2>1 DEF Context, Entries
<1> HIDE DEF n
<1>3. \A b \in Banks : Pointer(d, b) = back.p[b]
  BY <1>2 DEF Pointers
<1>4. ASSUME NEW k \in 1 .. n - 1
      PROVE  /\ Standing(d.mem, After(d, k), d.trail[k])
             /\ Roomy(d.trail[k].back) /\ (k > 1 => d.trail[k].back.pc.in # 1)
             /\ \A b \in Banks : Pointer(d, b) <= d.trail[k].back.p[b]
             /\ d.pc.in # 1
  <2>1. k \in 1 .. n /\ k \in DOMAIN c.trail /\ n \in DOMAIN c.trail /\ k < n /\ k # n /\ n > 1
    BY <1>0
  <2>2. After(d, k) = After(c, k)
    <3>1. CASE k = n - 1
      <4>1. k + 1 = n
        BY <1>0, <3>1
      <4> QED
        BY <1>1, <1>2, <2>1, <3>1, <4>1 DEF After, n
    <3>2. CASE k # n - 1
      <4>1. k + 1 \in 1 .. n - 1
        BY <1>0, <3>2
      <4> QED
        BY <1>1, <2>1, <3>2, <4>1 DEF After, n
    <3> QED
      BY <3>1, <3>2
  <2>3. After(c, k) \in [Banks -> Int] /\ c.trail[k] \in Entries
    BY <2>1, AfterAbove
  <2>4. \A b \in Banks : back.p[b] <= After(c, k)[b]
    BY <2>1, AfterOuter DEF n
  <2>5. Agree(c.mem, d.mem, After(c, k))
    <3>1. \A b \in Supers : back.p[b] <= After(c, k)[b]
      BY <2>4, RegionsApart
    <3>2. Agree(c.mem, d.mem, back.p)
      BY DEF n
    <3> HIDE DEF back
    <3> QED
      BY <1>2, <2>3, <3>1, <3>2, AgreeAbove
  <2>6. /\ Standing(c.mem, After(c, k), c.trail[k]) /\ Roomy(c.trail[k].back)
        /\ k > 1 => c.trail[k].back.pc.in # 1
        /\ c.trail[n].back.pc.in # 1
    BY <2>1 DEF Stacked
  <2>7. Standing(d.mem, After(c, k), c.trail[k])
    BY <2>3, <2>5, <2>6, StandsOn
  <2>8. \A b \in Banks : back.p[b] <= c.trail[k].back.p[b]
    BY <2>1 DEF Stacked
  <2> QED
    BY <1>1, <1>2, <1>3, <2>2, <2>6, <2>7, <2>8
<1>5. ASSUME NEW i \in 1 .. n - 1, NEW j \in 1 .. n - 1, i < j, NEW b \in Banks
      PROVE  d.trail[j].back.p[b] <= d.trail[i].back.p[b]
  <2>1. i \in DOMAIN c.trail /\ j \in DOMAIN c.trail
    BY <1>0
  <2> QED
    BY <1>1, <1>5, <2>1 DEF Stacked
<1> QED
  BY <1>1, <1>4, <1>5 DEF Stacked

\* What touches neither stacks nor history leaves the frames standing.
LEMMA SameStacks ==
    ASSUME NEW c \in Cpus, NEW d \in Cpus, Stacked(c), d.trail = c.trail, d.mem = c.mem,
           Pointers(d) = Pointers(c), d.pc.in = c.pc.in
    PROVE  Stacked(d)
<1>1. \A b \in Banks : Pointer(d, b) = Pointer(c, b)
  BY DEF Pointers
<1>2. \A k : After(d, k) = After(c, k)
  BY DEF After
<1> QED
  BY <1>1, <1>2 DEF Stacked

\* Room for the frames of any exception.
Deep(c) == HasRoom(c, "isp") /\ (c.m => HasRoom(c, "msp"))

\* The history of an exception in detail.
LEMMA NotedIs ==
    ASSUME NEW c \in Cpus, NEW pc \in PCs, NEW f \in Cpus, NEW handler \in PCs
    PROVE  LET d == Noted(c, pc, Jump(f, handler))
               e == [back |-> Context(c, pc), m |-> f.m, a7 |-> f.a7]
           IN  /\ d \in Cpus /\ e \in Entries /\ d.trail = Append(f.trail, e) /\ d.pc = handler
               /\ d.mem = f.mem /\ \A b \in Banks : Pointer(d, b) = Pointer(f, b)
<1> DEFINE j == Jump(f, handler)
           d == Noted(c, pc, j)
           e == [back |-> Context(c, pc), m |-> f.m, a7 |-> f.a7]
<1>1. Alike(f, j) /\ j.trail = f.trail /\ j.pc = handler /\ j \in Cpus
  BY JumpKeeps DEF Alike, Jump, Cpus
<1> HIDE DEF j
<1>2. Alike(j, d)
  BY <1>1, NotedKeeps
<1>3. d.trail = Append(f.trail, e) /\ d.pc = handler
  BY <1>1 DEF Noted, Alike, Cpus
<1>4. e \in Entries
  BY PointerType DEF Entries, Context, Cpus
<1> HIDE DEF d, e
<1>5. d \in Cpus /\ d.mem = f.mem /\ \A b \in Banks : Pointer(d, b) = Pointer(f, b)
  BY <1>1, <1>2 DEF Alike
<1> QED
  BY <1>3, <1>4, <1>5 DEF d, e, j

\* A handler, unlike Supexec's routine, is never returned to by RTS.
LEMMA InHandlerCode ==
    ASSUME NEW c \in Cpus, Stacked(c), c.trail # <<>>
    PROVE  c.pc.in # 1
<1>1. Len(c.trail) \in DOMAIN c.trail
  BY DEF Cpus
<1> QED
  BY <1>1 DEF Stacked

\* A frame pushed on a stack with room changes nothing above its pointer.
LEMMA FrameAgrees ==
    ASSUME NEW i \in Cpus, NEW f, NEW fmt, NEW vec, NEW pc, NEW sr, Framed(i, fmt, vec, pc, sr, f),
           NEW b \in Supers, Active(i) = b, Bottom(b) <= i.a7 - 3, i.a7 <= Top(b),
           NEW p \in [Banks -> Int], i.a7 <= p[b]
    PROVE  Agree(i.mem, f.mem, p)
<1> SUFFICES ASSUME NEW o \in Supers, NEW x \in Region(o), x >= p[o]
             PROVE  f.mem[x] = i.mem[x]
  BY DEF Agree
<1> DEFINE low == f.a7
<1>1. /\ x \in Memory /\ x \in Int /\ o \in Banks /\ b \in Banks /\ p[o] \in Int /\ p[b] \in Int
      /\ Bottom(b) \in Int /\ Top(b) \in Int /\ i.a7 \in Int /\ low = i.a7 - 3
  BY RegionsApart DEF Region, Framed, Cpus
<1>2. x # low /\ x # low + 1 /\ x # low + 2
  <2> HIDE DEF low
  <2>1. CASE o = b
    BY <1>1, <2>1
  <2>2. CASE o # b
    <3>1. x \notin Region(b)
      BY <1>1, <2>2, RegionsApart
    <3>2. low \in Region(b) /\ low + 1 \in Region(b) /\ low + 2 \in Region(b)
      BY <1>1 DEF Region
    <3> QED
      BY <3>1, <3>2
  <2> QED
    BY <2>1, <2>2
<1> QED
  BY <1>1, <1>2 DEF Framed

\* Two changes below the stack pointers are one.
LEMMA AgreeTwice ==
    ASSUME NEW m1, NEW m2, NEW m3, NEW p, Agree(m1, m2, p), Agree(m2, m3, p)
    PROVE  Agree(m1, m3, p)
BY DEF Agree

\* An exception that leaves a frame of format 0, or of format 2 with an address
\* above it.
LEMMA FrameStacks ==
    ASSUME NEW c \in Cpus, Stacked(c), Deep(c),
           NEW i \in Cpus, i.s = TRUE, i.m = c.m, i.trail = c.trail,
           NEW x \in 0 .. 1, i.a7 = Pointer(c, Bank(TRUE, c.m)) - x,
           \A o \in Banks \ {Bank(TRUE, c.m)} : Pointer(i, o) = Pointer(c, o),
           Agree(c.mem, i.mem, Pointers(c)),
           NEW fmt \in {0, 2}, fmt = IF x = 0 THEN 0 ELSE 2,
           NEW vec \in Nat, NEW pc \in PCs, pc.in = c.pc.in, NEW handler \in PCs, handler.in # 1
    PROVE  Stacked(Noted(c, pc, Jump(Frame(i, fmt, vec, pc, Sr(c)), handler)))
<1> DEFINE b == Bank(TRUE, c.m)
           top == Pointer(c, b)
           f == Frame(i, fmt, vec, pc, Sr(c))
           d == Noted(c, pc, Jump(f, handler))
           e == [back |-> Context(c, pc), m |-> f.m, a7 |-> f.a7]
<1>0. /\ c.m \in BOOLEAN /\ b \in Supers /\ b \in Banks /\ Sr(c) \in StatusRegs
      /\ top \in Int /\ Bottom(b) \in Int /\ Top(b) \in Int /\ Pointers(c) \in [Banks -> Int]
      /\ fmt \in 0 .. 9 /\ Active(i) = b /\ "isp" \in Banks /\ "msp" \in Banks
  <2>1. c.m \in BOOLEAN /\ "isp" \in Banks /\ "msp" \in Banks /\ fmt \in 0 .. 9
    BY DEF Cpus, Banks
  <2> QED
    BY <2>1, RegionsApart, PointerType DEF Active
<1>1. Bottom(b) + 7 <= top /\ top <= Top(b)
  <2>1. b = IF c.m THEN "msp" ELSE "isp"
    BY <1>0 DEF Bank
  <2>2. HasRoom(c, b)
    BY <1>0, <2>1 DEF Deep
  <2> HIDE DEF b
  <2> QED
    BY <1>0, <2>2 DEF HasRoom
<1> HIDE DEF b, top
<1>T. i.a7 = top - x /\ (\A o \in Banks \ {b} : Pointer(i, o) = Pointer(c, o)) /\ Pointer(c, b) = top
  BY DEF b, top
<1>2. Framed(i, fmt, vec, pc, Sr(c), f)
  BY <1>0, FrameKeeps
<1> HIDE DEF f
<1>3. f \in Cpus /\ OnStack(i, f) /\ f.trail = c.trail /\ f.m = c.m /\ f.a7 = top - x - 3
  BY <1>2, <1>T DEF Framed, OnStack, Quiet
<1>4. /\ d \in Cpus /\ e \in Entries /\ d.trail = Append(c.trail, e) /\ d.pc = handler
      /\ d.mem = f.mem /\ \A o \in Banks : Pointer(d, o) = Pointer(f, o)
  BY <1>3, NotedIs
<1>5. /\ e.back = Context(c, pc) /\ e.m = c.m /\ e.a7 = top - x - 3
      /\ e.back.p = Pointers(c) /\ e.back.sr = Sr(c) /\ e.back.pc = pc /\ e.back.sr.m = c.m
  BY <1>3 DEF Context, Sr
<1> HIDE DEF d, e
<1>6. /\ \A o \in Banks \ {b} : Pointer(f, o) = Pointer(c, o)
      /\ Pointer(f, b) = f.a7
  <2>1. Active(f) = b
    BY <1>0, <1>3 DEF OnStack, Active
  <2> QED
    BY <1>0, <1>3, <1>T, <2>1 DEF OnStack, Pointer
<1>7. Agree(c.mem, d.mem, Pointers(c))
  <2>1. Bottom(b) <= i.a7 - 3 /\ i.a7 <= Top(b) /\ i.a7 <= Pointers(c)[b]
    <3>1. Pointers(c)[b] = top
      BY <1>0, <1>T DEF Pointers
    <3>2. x \in Int /\ 0 <= x /\ x <= 1
      OBVIOUS
    <3>3. Bottom(b) <= top - x - 3 /\ top - x <= Top(b) /\ top - x <= top
      BY <1>0, <1>1, <3>2
    <3> QED
      BY <1>T, <3>1, <3>3, Zenon
  <2>2. Agree(i.mem, f.mem, Pointers(c))
    BY <1>0, <1>2, <2>1, FrameAgrees
  <2> QED
    BY <1>4, <2>2, AgreeTwice
<1>8. Roomy(e.back)
  <2>1. /\ e.back.p["isp"] = Pointer(c, "isp") /\ e.back.p["msp"] = Pointer(c, "msp")
    BY <1>0, <1>5 DEF Pointers
  <2> QED
    BY <1>5, <2>1 DEF Roomy, Deep, HasRoom
<1>9. Standing(d.mem, Pointers(d), e)
  <2> DEFINE a == e.a7
  <2>1. /\ Pointers(d)[b] = a /\ Bottom(b) <= a /\ a + 3 <= e.back.p[b] /\ e.back.p[b] <= Top(b)
        /\ a + 3 = e.back.p[b] - x /\ e.back.p[b] = top /\ a \in Int
    <3>1. Pointers(d)[b] = a /\ e.back.p[b] = top /\ a = top - x - 3
      BY <1>0, <1>3, <1>4, <1>5, <1>6, <1>T DEF Pointers
    <3> HIDE DEF a
    <3> QED
      BY <1>0, <1>1, <3>1
  <2>2. /\ d.mem[a] = [sr |-> e.back.sr] /\ d.mem[a + 1] = [pc |-> e.back.pc]
        /\ d.mem[a + 2] = [fmt |-> fmt, vec |-> vec]
    <3>1. a = f.a7
      BY <1>3, <1>5
    <3> HIDE DEF a
    <3>2. a \in Region(b) /\ a + 1 \in Region(b) /\ a + 2 \in Region(b)
      BY <1>0, <2>1 DEF Region
    <3>3. a \in Memory /\ a + 1 \in Memory /\ a + 2 \in Memory
      BY <1>0, <3>2, RegionsApart
    <3>4. a + 1 # a /\ a + 2 # a /\ a + 2 # a + 1
      BY <2>1
    <3>5. f.mem[a] = [sr |-> Sr(c)]
      BY <1>2, <3>1, <3>3, Zenon DEF Framed
    <3>6. f.mem[a + 1] = [pc |-> pc]
      BY <1>2, <3>1, <3>3, <3>4, Zenon DEF Framed
    <3>7. f.mem[a + 2] = [fmt |-> fmt, vec |-> vec]
      BY <1>2, <3>1, <3>3, <3>4, Zenon DEF Framed
    <3> QED
      BY <1>4, <1>5, <3>5, <3>6, <3>7, Zenon
  <2>3. /\ d.mem[a] \in SrCells /\ d.mem[a + 1] \in PcCells /\ d.mem[a + 2] \in FormatCells
        /\ d.mem[a + 2].fmt = fmt
    BY <1>0, <1>5, <2>2 DEF SrCells, PcCells, FormatCells
  <2>4. \A o \in Banks \ {b} : Pointers(d)[o] = e.back.p[o]
    BY <1>4, <1>5, <1>6 DEF Pointers
  <2>5. \/ d.mem[a + 2].fmt = 0 /\ a + 3 = e.back.p[b]
        \/ d.mem[a + 2].fmt = 2 /\ a + 4 = e.back.p[b]
    <3> HIDE DEF a
    <3>1. CASE x = 0
      BY <1>0, <2>1, <2>3, <3>1
    <3>2. CASE x = 1
      BY <1>0, <2>1, <2>3, <3>2
    <3> QED
      BY <3>1, <3>2
  <2>6. Whole(d.mem, a, e.back)
    BY <2>2, <2>3 DEF Whole
  <2>7. Bank(TRUE, e.m) = b
    BY <1>5 DEF b
  <2> QED
    BY <2>1, <2>3, <2>4, <2>5, <2>6, <2>7 DEF Standing
<1>10. \A o \in Banks : Pointer(d, o) <= Pointer(c, o)
  <2>1. \A o \in Banks : Pointer(c, o) \in Int
    BY PointerType
  <2>2. Pointer(d, b) <= Pointer(c, b)
    BY <1>0, <1>3, <1>4, <1>6, <1>T
  <2> QED
    BY <1>4, <1>6, <2>1, <2>2
<1>11. d.pc.in # 1 /\ (c.trail # <<>> => e.back.pc.in # 1)
  BY <1>4, <1>5, InHandlerCode
<1>12. Stacked(d)
  BY <1>4, <1>5, <1>7, <1>8, <1>9, <1>10, <1>11, AppendStacks
<1> QED
  BY <1>12 DEF d, f

\* What m68ki_init_exception leaves for the frame.
LEMMA InitReady ==
    ASSUME NEW c \in Cpus
    PROVE  LET i == InitException(c)
           IN  /\ i \in Cpus /\ i.s = TRUE /\ i.m = c.m /\ i.trail = c.trail /\ i.mem = c.mem
               /\ i.a7 = Pointer(c, Bank(TRUE, c.m)) /\ Active(i) = Bank(TRUE, c.m)
               /\ \A o \in Banks : Pointer(i, o) = Pointer(c, o)
<1> DEFINE i == InitException(c)
<1>1. c.m \in BOOLEAN /\ TRUE \in BOOLEAN
  BY DEF Cpus
<1>2. Switched(c, TRUE, c.m, i)
  BY <1>1, SetSMKeeps, Zenon DEF InitException
<1> HIDE DEF i
<1>3. Active(i) = Bank(TRUE, c.m)
  BY <1>2 DEF Switched, Active
<1>4. i.a7 = Pointer(i, Active(i)) /\ Active(i) \in Banks
  BY <1>1, <1>3, BankType DEF Pointer
<1> QED
  BY <1>2, <1>3, <1>4 DEF Switched, Quiet, i

\* m68ki_exception_trapN and its like.
LEMMA ExceptionStacks ==
    ASSUME NEW c \in Cpus, Stacked(c), Deep(c), NEW vec \in Nat, vec # 1, NEW pc \in PCs,
           pc.in = c.pc.in
    PROVE  Stacked(Exception(c, vec, pc))
<1> DEFINE i == InitException(c)
<1>1. /\ i \in Cpus /\ i.s = TRUE /\ i.m = c.m /\ i.trail = c.trail /\ i.mem = c.mem
      /\ i.a7 = Pointer(c, Bank(TRUE, c.m)) /\ \A o \in Banks : Pointer(i, o) = Pointer(c, o)
  BY InitReady
<1>2. Exception(c, vec, pc) = Noted(c, pc, Jump(Frame(i, 0, vec, pc, Sr(c)), Handler(vec)))
  BY DEF Exception
<1> HIDE DEF i
<1>3. Handler(vec) \in PCs /\ Handler(vec).in # 1
  BY HandlerType DEF Handler, PC
<1>4. i.a7 = Pointer(c, Bank(TRUE, c.m)) - 0 /\ Agree(c.mem, i.mem, Pointers(c))
  <2>1. i.a7 \in Int
    BY <1>1 DEF Cpus
  <2>2. i.a7 = i.a7 - 0
    BY <2>1
  <2>3. Agree(c.mem, i.mem, Pointers(c))
    BY <1>1, Zenon DEF Agree
  <2> QED
    BY <1>1, <2>2, <2>3, Zenon
<1>5. 0 \in 0 .. 1 /\ 0 \in {0, 2} /\ 0 = IF 0 = 0 THEN 0 ELSE 2
  OBVIOUS
<1> QED
  BY <1>1, <1>2, <1>3, <1>4, <1>5, FrameStacks, Zenon

\* m68ki_exception_trap.
LEMMA TrapStacks ==
    ASSUME NEW c \in Cpus, Stacked(c), Deep(c), NEW vec \in Nat, vec # 1, NEW ppc \in PCs
    PROVE  Stacked(ExceptionTrap(c, vec, ppc))
<1> DEFINE i == InitException(c)
           p == Push(i, [pc |-> ppc])
           b == Bank(TRUE, c.m)
<1>0. c.m \in BOOLEAN /\ b \in Supers /\ b \in Banks /\ c.pc \in PCs
  BY RegionsApart DEF Cpus
<1>1. /\ i \in Cpus /\ i.s = TRUE /\ i.m = c.m /\ i.trail = c.trail /\ i.mem = c.mem
      /\ i.a7 = Pointer(c, b) /\ Active(i) = b /\ \A o \in Banks : Pointer(i, o) = Pointer(c, o)
  BY InitReady
<1>2. ExceptionTrap(c, vec, ppc)
        = Noted(c, c.pc, Jump(Frame(p, 2, vec, c.pc, Sr(c)), Handler(vec)))
  BY DEF ExceptionTrap
<1> HIDE DEF i
<1>3. Pushed(i, [pc |-> ppc], p)
  BY <1>1, PushKeeps DEF Cells, PcCells
<1> HIDE DEF p
<1>4. /\ p \in Cpus /\ p.s = TRUE /\ p.m = c.m /\ p.trail = c.trail
      /\ p.a7 = Pointer(c, b) - 1 /\ \A o \in Banks \ {b} : Pointer(p, o) = Pointer(c, o)
  BY <1>1, <1>3 DEF Pushed, OnStack, Quiet
<1>5. Agree(c.mem, p.mem, Pointers(c))
  <2> SUFFICES ASSUME NEW o \in Supers, NEW x \in Region(o), x >= Pointers(c)[o]
               PROVE  p.mem[x] = c.mem[x]
    BY DEF Agree
  <2> DEFINE top == Pointer(c, b)
  <2>1. /\ x \in Memory /\ x \in Int /\ o \in Banks /\ top \in Int /\ Bottom(b) \in Int
        /\ Top(b) \in Int
    <3>1. x \in Memory /\ x \in Int /\ o \in Banks
      BY RegionsApart DEF Region
    <3>2. top \in Int
      BY <1>0, PointerType, Zenon
    <3>3. Bottom(b) \in Int /\ Top(b) \in Int
      BY <1>0, RegionsApart, Zenon
    <3> QED
      BY <3>1, <3>2, <3>3, Zenon
  <2>2. x # top - 1
    <3>1. CASE o = b
      <4>1. x >= top
        BY <2>1, <3>1 DEF Pointers
      <4> HIDE DEF top
      <4> QED
        BY <2>1, <4>1
    <3>2. CASE o # b
      <4>1. x \notin Region(b)
        BY <1>0, <2>1, <3>2, RegionsApart
      <4>2. HasRoom(c, b)
        <5>1. b = IF c.m THEN "msp" ELSE "isp"
          BY <1>0 DEF Bank
        <5> QED
          BY <1>0, <5>1 DEF Deep
      <4>3. top \in Bottom(b) + 7 .. Top(b)
        BY <4>2 DEF HasRoom
      <4> HIDE DEF top, b
      <4>4. top - 1 \in Region(b)
        BY <2>1, <4>3 DEF Region
      <4> QED
        BY <4>1, <4>4
    <3> QED
      BY <3>1, <3>2
  <2> QED
    BY <1>1, <1>3, <2>1, <2>2 DEF Pushed
<1>6. Handler(vec) \in PCs /\ Handler(vec).in # 1
  BY HandlerType DEF Handler, PC
<1>7. 1 \in 0 .. 1 /\ 2 \in {0, 2} /\ 2 = IF 1 = 0 THEN 0 ELSE 2
  OBVIOUS
<1> HIDE DEF b
<1> QED
  BY <1>0, <1>2, <1>4, <1>5, <1>6, <1>7, FrameStacks, Zenon DEF b

\* An interrupt on the master stack leaves two frames: a normal one there and a
\* throwaway one on the interrupt stack.
LEMMA ThrowawayStacks ==
    ASSUME NEW c \in Cpus, Stacked(c), Deep(c), c.m = TRUE,
           NEW i \in Cpus, i.s = TRUE, i.m = TRUE, i.trail = c.trail, i.mem = c.mem,
           \A o \in Banks : Pointer(i, o) = Pointer(c, o),
           NEW vec \in Nat, NEW handler \in PCs, handler.in # 1
    PROVE  Stacked(Noted(c, c.pc, Jump(Throwaway(Frame(i, 0, vec, c.pc, Sr(c)),
                                                 vec, c.pc, Sr(c)), handler)))
<1> DEFINE top == Pointer(c, "msp")
           low == Pointer(c, "isp")
           sr == [Sr(c) EXCEPT !.s = TRUE]
           f == Frame(i, 0, vec, c.pc, Sr(c))
           w == SetSM(f, f.s, FALSE)
           g == Frame(w, 1, vec, c.pc, sr)
           t == Throwaway(f, vec, c.pc, Sr(c))
           d == Noted(c, c.pc, Jump(g, handler))
           e == [back |-> Context(c, c.pc), m |-> g.m, a7 |-> g.a7]
<1>0. /\ "isp" \in Banks /\ "msp" \in Banks /\ "usp" \in Banks /\ "isp" \in Supers /\ "msp" \in Supers
      /\ \A o \in Banks : o = "usp" \/ o = "isp" \/ o = "msp"
      /\ "isp" # "msp" /\ "usp" # "msp" /\ "usp" # "isp"
      /\ Bank(TRUE, TRUE) = "msp" /\ Bank(TRUE, FALSE) = "isp"
      /\ TRUE \in BOOLEAN /\ FALSE \in BOOLEAN
  BY DEF Banks, Supers, Bank
<1>B. /\ Bottom("isp") \in Int /\ Top("isp") \in Int /\ Bottom("msp") \in Int /\ Top("msp") \in Int
  BY <1>0, RegionsApart, Zenon
<1>P. /\ top \in Int /\ low \in Int /\ Pointers(c) \in [Banks -> Int]
      /\ \A o \in Banks : Pointers(c)[o] = Pointer(c, o)
  <2>1. \A o \in Banks : Pointers(c)[o] = Pointer(c, o)
    BY DEF Pointers
  <2> QED
    BY <1>0, <2>1, PointerType, Zenon
<1>S. /\ Sr(c) \in StatusRegs /\ sr \in StatusRegs /\ sr.s = TRUE /\ sr.m = TRUE /\ c.pc \in PCs
      /\ Sr(c).m = TRUE
  <2>1. Sr(c) \in StatusRegs /\ c.pc \in PCs /\ Sr(c).m = TRUE
    BY PointerType DEF Cpus, Sr
  <2> QED
    BY <2>1 DEF StatusRegs
<1>R. /\ Bottom("msp") + 7 <= top /\ top <= Top("msp")
      /\ Bottom("isp") + 7 <= low /\ low <= Top("isp")
  <2>1. HasRoom(c, "isp") /\ HasRoom(c, "msp")
    BY DEF Deep
  <2>2. top \in Bottom("msp") + 7 .. Top("msp") /\ low \in Bottom("isp") + 7 .. Top("isp")
    BY <2>1, Zenon DEF HasRoom
  <2> HIDE DEF top, low
  <2> QED
    BY <1>B, <1>P, <2>2
<1> HIDE DEF sr, top, low
<1>1. Active(i) = "msp" /\ i.a7 = top
  <2>1. Active(i) = "msp"
    BY <1>0 DEF Active
  <2> QED
    BY <1>0, <2>1 DEF Pointer, top
<1>2. Framed(i, 0, vec, c.pc, Sr(c), f)
  BY <1>S, Formats, FrameKeeps, Zenon
<1> HIDE DEF f
<1>3. /\ f \in Cpus /\ f.s = TRUE /\ f.m = TRUE /\ f.trail = c.trail /\ f.a7 = top - 3
      /\ Pointer(f, "msp") = top - 3 /\ Pointer(f, "isp") = low
      /\ Pointer(f, "usp") = Pointer(c, "usp")
  <2>1. f \in Cpus /\ f.s = TRUE /\ f.m = TRUE /\ f.trail = c.trail /\ f.a7 = top - 3
    BY <1>1, <1>2 DEF Framed, OnStack, Quiet
  <2>2. Active(f) = "msp"
    BY <1>0, <2>1 DEF Active
  <2>3. Pointer(f, "msp") = f.a7
    BY <2>2 DEF Pointer
  <2>4. Pointer(f, "isp") = Pointer(i, "isp") /\ Pointer(f, "usp") = Pointer(i, "usp")
    BY <1>0, <1>1, <1>2 DEF Framed, OnStack
  <2> QED
    BY <1>0, <2>1, <2>3, <2>4 DEF low
<1>4. Switched(f, TRUE, FALSE, w)
  BY <1>0, <1>3, SetSMKeeps, Zenon
<1>G. t = g
  BY <1>3 DEF Throwaway, sr
<1> HIDE DEF w
<1>5. /\ w \in Cpus /\ w.s = TRUE /\ w.m = FALSE /\ w.trail = c.trail /\ w.mem = f.mem
      /\ Active(w) = "isp" /\ w.a7 = low /\ Pointer(w, "isp") = low
      /\ Pointer(w, "msp") = top - 3 /\ Pointer(w, "usp") = Pointer(c, "usp")
  <2>1. /\ w \in Cpus /\ w.s = TRUE /\ w.m = FALSE /\ w.trail = c.trail /\ w.mem = f.mem
        /\ \A o \in Banks : Pointer(w, o) = Pointer(f, o)
    BY <1>3, <1>4 DEF Switched, Quiet
  <2>2. Active(w) = "isp"
    BY <1>0, <2>1 DEF Active
  <2>3. Pointer(w, "isp") = w.a7
    BY <2>2 DEF Pointer
  <2> QED
    BY <1>0, <1>3, <2>1, <2>2, <2>3
<1>6. Framed(w, 1, vec, c.pc, sr, g)
  BY <1>5, <1>S, Formats, FrameKeeps, Zenon
<1> HIDE DEF g
<1>7. /\ g \in Cpus /\ g.s = TRUE /\ g.m = FALSE /\ g.trail = c.trail /\ g.a7 = low - 3
      /\ Pointer(g, "isp") = low - 3 /\ Pointer(g, "msp") = top - 3
      /\ Pointer(g, "usp") = Pointer(c, "usp")
  <2>1. g \in Cpus /\ g.s = TRUE /\ g.m = FALSE /\ g.trail = c.trail /\ g.a7 = low - 3
    BY <1>5, <1>6 DEF Framed, OnStack, Quiet
  <2>2. Active(g) = "isp"
    BY <1>0, <2>1 DEF Active
  <2>3. Pointer(g, "isp") = g.a7
    BY <2>2 DEF Pointer
  <2>4. Pointer(g, "msp") = Pointer(w, "msp") /\ Pointer(g, "usp") = Pointer(w, "usp")
    BY <1>0, <1>5, <1>6 DEF Framed, OnStack
  <2> QED
    BY <1>5, <2>1, <2>3, <2>4
<1>8. /\ d \in Cpus /\ e \in Entries /\ d.trail = Append(c.trail, e) /\ d.pc = handler
      /\ d.mem = g.mem /\ \A o \in Banks : Pointer(d, o) = Pointer(g, o)
  BY <1>7, <1>S, NotedIs
<1>9. /\ e.back = Context(c, c.pc) /\ e.m = FALSE /\ e.a7 = low - 3
      /\ e.back.p = Pointers(c) /\ e.back.sr = Sr(c) /\ e.back.pc = c.pc /\ e.back.sr.m = TRUE
  BY <1>7, <1>S DEF Context
<1> HIDE DEF d, e
<1>10. Agree(c.mem, f.mem, Pointers(c)) /\ Agree(w.mem, g.mem, Pointers(c))
  <2>1. Bottom("msp") <= i.a7 - 3 /\ i.a7 <= Top("msp") /\ i.a7 <= Pointers(c)["msp"]
    <3>1. Bottom("msp") <= top - 3 /\ top <= Top("msp") /\ top <= top
      BY <1>B, <1>P, <1>R
    <3> QED
      BY <1>0, <1>1, <1>P, <3>1 DEF top
  <2>2. Bottom("isp") <= w.a7 - 3 /\ w.a7 <= Top("isp") /\ w.a7 <= Pointers(c)["isp"]
    <3>1. Bottom("isp") <= low - 3 /\ low <= Top("isp") /\ low <= low
      BY <1>B, <1>P, <1>R
    <3> QED
      BY <1>0, <1>5, <1>P, <3>1 DEF low
  <2>3. Agree(i.mem, f.mem, Pointers(c))
    BY <1>0, <1>1, <1>2, <1>P, <2>1, FrameAgrees
  <2>4. Agree(w.mem, g.mem, Pointers(c))
    BY <1>0, <1>5, <1>6, <1>P, <2>2, FrameAgrees
  <2> QED
    BY <2>3, <2>4
<1>11. Agree(c.mem, d.mem, Pointers(c))
  BY <1>5, <1>8, <1>10, AgreeTwice
<1>12. Roomy(e.back)
  <2>1. /\ e.back.p["isp"] = Pointer(c, "isp") /\ e.back.p["msp"] = Pointer(c, "msp")
    BY <1>0, <1>9, <1>P
  <2> QED
    BY <1>9, <2>1 DEF Roomy, Deep, HasRoom
<1>13. Standing(d.mem, Pointers(d), e)
  <2> DEFINE a == low - 3
             z == top - 3
  <2>1. /\ a \in Int /\ z \in Int /\ a + 3 = low /\ z + 3 = top
        /\ Bottom("isp") <= a /\ Bottom("msp") <= z
        /\ a + 1 # a /\ a + 2 # a /\ a + 2 # a + 1 /\ z + 1 # z /\ z + 2 # z /\ z + 2 # z + 1
        /\ a + 3 <= low
    BY <1>B, <1>P, <1>R
  <2>2. /\ a \in Region("isp") /\ a + 1 \in Region("isp") /\ a + 2 \in Region("isp")
        /\ z \in Region("msp") /\ z + 1 \in Region("msp") /\ z + 2 \in Region("msp")
    <3> HIDE DEF a, z
    <3> QED
      BY <1>B, <1>P, <1>R, <2>1 DEF Region
  <2>3. /\ a \in Memory /\ a + 1 \in Memory /\ a + 2 \in Memory
        /\ z \in Memory /\ z + 1 \in Memory /\ z + 2 \in Memory
    <3> HIDE DEF a, z
    <3> QED
      BY <1>0, <2>2, RegionsApart
  <2>4. f.a7 = z /\ g.a7 = a /\ e.a7 = a
    BY <1>3, <1>7, <1>9
  <2> HIDE DEF a, z
  <2>5. /\ d.mem[a] = [sr |-> sr] /\ d.mem[a + 1] = [pc |-> c.pc]
        /\ d.mem[a + 2] = [fmt |-> 1, vec |-> vec]
    BY <1>6, <1>8, <2>1, <2>3, <2>4 DEF Framed
  <2>6. /\ f.mem[z] = [sr |-> Sr(c)] /\ f.mem[z + 1] = [pc |-> c.pc]
        /\ f.mem[z + 2] = [fmt |-> 0, vec |-> vec]
    BY <1>2, <2>1, <2>3, <2>4 DEF Framed
  <2>7. \A x \in Region("msp") : d.mem[x] = f.mem[x]
    <3> SUFFICES ASSUME NEW x \in Region("msp") PROVE d.mem[x] = f.mem[x]
      OBVIOUS
    <3>1. x \in Memory /\ x \notin Region("isp")
      BY <1>0, RegionsApart
    <3>2. x # a /\ x # a + 1 /\ x # a + 2
      BY <2>2, <3>1
    <3> QED
      BY <1>5, <1>6, <1>8, <2>4, <3>1, <3>2 DEF Framed
  <2>8. /\ d.mem[z] = [sr |-> e.back.sr] /\ d.mem[z + 1] = [pc |-> e.back.pc]
        /\ d.mem[z + 2] = [fmt |-> 0, vec |-> vec]
    BY <1>9, <2>2, <2>6, <2>7
  <2>9. Whole(d.mem, z, e.back) /\ d.mem[z + 2].fmt = 0
    BY <2>8, Formats DEF Whole, FormatCells
  <2>10. /\ d.mem[a] \in SrCells /\ d.mem[a + 1] \in PcCells /\ d.mem[a + 2] \in FormatCells
         /\ d.mem[a + 2].fmt = 1 /\ d.mem[a].sr.s /\ d.mem[a].sr.m
    <3>1. d.mem[a].sr = sr
      BY <2>5
    <3> QED
      BY <1>S, <2>5, <3>1, Formats DEF SrCells, PcCells, FormatCells
  <2>11. /\ Pointers(d)["isp"] = a /\ Pointers(d)["msp"] = z
         /\ Pointers(d)["usp"] = Pointer(c, "usp")
    BY <1>0, <1>7, <1>8 DEF Pointers, a, z
  <2>12. /\ e.back.p["isp"] = low /\ e.back.p["msp"] = top /\ e.back.p["usp"] = Pointer(c, "usp")
    BY <1>0, <1>9, <1>P DEF low, top
  <2>13. Bank(TRUE, e.m) = "isp"
    BY <1>0, <1>9
  <2> QED
    BY <1>9, <1>R, <2>1, <2>4, <2>9, <2>10, <2>11, <2>12, <2>13 DEF Standing
<1>14. \A o \in Banks : Pointer(d, o) <= Pointer(c, o)
  <2>1. \A o \in Banks : Pointer(c, o) \in Int
    BY PointerType
  <2>2. top - 3 <= top /\ low - 3 <= low
    BY <1>P
  <2>3. Pointer(d, "msp") <= Pointer(c, "msp") /\ Pointer(d, "isp") <= Pointer(c, "isp")
    BY <1>0, <1>7, <1>8, <2>2 DEF top, low
  <2>4. Pointer(d, "usp") <= Pointer(c, "usp")
    BY <1>0, <1>7, <1>8, <2>1
  <2> QED
    BY <1>0, <2>3, <2>4
<1>15. d.pc.in # 1 /\ (c.trail # <<>> => e.back.pc.in # 1)
  BY <1>8, <1>9, InHandlerCode
<1>16. Stacked(d)
  BY <1>8, <1>9, <1>11, <1>12, <1>13, <1>14, <1>15, AppendStacks
<1> QED
  BY <1>16, <1>G DEF d, g, t, f

\* m68ki_exception_interrupt.
LEMMA InterruptStacks ==
    ASSUME NEW c \in Cpus, Stacked(c), Deep(c), NEW level \in 0 .. 7
    PROVE  Stacked(Interrupt(c, level))
<1>1. CASE c.halted
  <2> DEFINE d == [c EXCEPT !.stopped = FALSE]
  <2>1. /\ d \in Cpus /\ d.mem = c.mem /\ d.trail = c.trail /\ d.pc = c.pc
        /\ Pointers(d) = Pointers(c)
    BY DEF Cpus, Pointers, Pointer, Active
  <2>2. Interrupt(c, level) = d
    BY <1>1 DEF Interrupt
  <2> HIDE DEF d
  <2> QED
    BY <2>1, <2>2, SameStacks
<1>2. CASE ~c.halted
  <2> DEFINE vec == AUTOVECTOR + level
             handler == Handler(IF vec \in Installed THEN vec ELSE UNINITIALIZED_INTERRUPT)
             l == [c EXCEPT !.stopped = FALSE, !.irq = 0]
             i == InitException(l)
             n == [i EXCEPT !.mask = level]
             f == Frame(n, 0, vec, l.pc, Sr(l))
  <2>1. vec \in Nat /\ handler \in PCs /\ handler.in # 1
    <3>1. vec \in Nat /\ vec # 1
      BY DEF AUTOVECTOR
    <3> QED
      BY <3>1, HandlerType DEF UNINITIALIZED_INTERRUPT, Handler, PC
  <2>2. /\ l \in Cpus /\ l.mem = c.mem /\ l.trail = c.trail /\ l.pc = c.pc /\ l.m = c.m
        /\ \A b \in Banks : Pointer(l, b) = Pointer(c, b)
    <3>1. l.trail = c.trail /\ l.pc = c.pc /\ l.m = c.m
      BY DEF Cpus
    <3> QED
      BY <3>1, IrqLowered
  <2>3. Interrupt(c, level) = Noted(l, l.pc, Jump(Throwaway(f, vec, l.pc, Sr(l)), handler))
    BY <1>2 DEF Interrupt, TakeInterrupt
  <2> HIDE DEF vec, handler, l
  <2>4. Stacked(l) /\ Deep(l) /\ l.m \in BOOLEAN /\ l.pc \in PCs /\ Sr(l) \in StatusRegs
    <3>1. Pointers(l) = Pointers(c)
      BY <2>2 DEF Pointers
    <3>2. Stacked(l)
      BY <2>2, <3>1, SameStacks
    <3>3. Deep(l)
      BY <2>2 DEF Deep, HasRoom, Banks
    <3> QED
      BY <2>2, <3>2, <3>3, PointerType DEF Cpus
  <2>5. /\ i \in Cpus /\ i.s = TRUE /\ i.m = l.m /\ i.trail = l.trail /\ i.mem = l.mem
        /\ i.a7 = Pointer(l, Bank(TRUE, l.m)) /\ Active(i) = Bank(TRUE, l.m)
        /\ \A o \in Banks : Pointer(i, o) = Pointer(l, o)
    BY <2>2, InitReady
  <2> HIDE DEF i
  <2>6. /\ n \in Cpus /\ n.s = TRUE /\ n.m = l.m /\ n.trail = l.trail /\ n.mem = l.mem
        /\ n.a7 = Pointer(l, Bank(TRUE, l.m))
        /\ \A o \in Banks : Pointer(n, o) = Pointer(l, o)
    <3>1. n.trail = i.trail /\ n.a7 = i.a7
      BY <2>5 DEF Cpus
    <3> QED
      BY <2>5, <3>1, MaskSet
  <2> HIDE DEF n
  <2>7. CASE l.m = TRUE
    BY <2>1, <2>2, <2>3, <2>4, <2>6, <2>7, ThrowawayStacks, Zenon
  <2>8. CASE l.m = FALSE
    <3>1. Framed(n, 0, vec, l.pc, Sr(l), f)
      BY <2>1, <2>4, <2>6, Formats, FrameKeeps, Zenon
    <3>2. f.m = FALSE
      BY <2>6, <2>8, <3>1 DEF Framed, OnStack
    <3>3. Throwaway(f, vec, l.pc, Sr(l)) = f
      BY <3>2, Zenon DEF Throwaway
    <3>4. n.a7 = Pointer(l, Bank(TRUE, l.m)) - 0 /\ Agree(l.mem, n.mem, Pointers(l))
      <4>1. n.a7 \in Int
        BY <2>6 DEF Cpus
      <4>2. n.a7 = n.a7 - 0
        BY <4>1
      <4>3. Agree(l.mem, n.mem, Pointers(l))
        BY <2>6, Zenon DEF Agree
      <4> QED
        BY <2>6, <4>2, <4>3, Zenon
    <3>5. 0 \in 0 .. 1 /\ 0 \in {0, 2} /\ 0 = IF 0 = 0 THEN 0 ELSE 2
      OBVIOUS
    <3>6. Stacked(Noted(l, l.pc, Jump(f, handler)))
      BY <2>1, <2>2, <2>4, <2>6, <3>4, <3>5, FrameStacks, Zenon
    <3> QED
      BY <2>3, <3>3, <3>6, Zenon
  <2> QED
    BY <2>4, <2>7, <2>8
<1> QED
  BY <1>1, <1>2

\* m68ki_check_interrupts.
LEMMA CheckStacks ==
    ASSUME NEW c \in Cpus, Stacked(c), Deep(c)
    PROVE  Stacked(CheckInterrupts(c))
<1>1. c.irq \in 0 .. 7
  BY DEF Cpus
<1> QED
  BY <1>1, InterruptStacks DEF CheckInterrupts

\* m68ki_set_sr, when what it makes active has room.
LEMMA SetSrStacks ==
    ASSUME NEW c \in Cpus, Stacked(c), NEW sr \in StatusRegs,
           HasRoom(c, "isp"), sr.m => HasRoom(c, "msp")
    PROVE  Stacked(SetSr(c, sr))
<1> DEFINE n == SetSrNoint(c, sr)
<1>1. /\ n \in Cpus /\ Pointers(n) = Pointers(c) /\ n.mem = c.mem /\ n.pc = c.pc
      /\ n.trail = c.trail /\ n.m = sr.m
  BY SettlesAs
<1>2. SetSr(c, sr) = CheckInterrupts(n)
  BY DEF SetSr
<1> HIDE DEF n
<1>3. Stacked(n)
  BY <1>1, SameStacks
<1>4. \A b \in Banks : Pointer(n, b) = Pointer(c, b)
  BY <1>1 DEF Pointers
<1>5. Deep(n)
  BY <1>1, <1>4 DEF Deep, HasRoom, Banks
<1> QED
  BY <1>1, <1>2, <1>3, <1>5, CheckStacks

\* RTE pulls the innermost frame, from c itself or from where a throwaway frame
\* has led, and an interrupt may follow at once.
LEMMA RteStacks ==
    ASSUME NEW c \in Cpus, Stacked(c), c.trail # <<>>, NEW back \in Backs,
           back = c.trail[Len(c.trail)].back,
           NEW d \in Cpus, d.trail = c.trail, Agree(c.mem, d.mem, back.p),
           NEW b \in Supers, Active(d) = b, NEW cells \in 3 .. 4, d.a7 + cells = back.p[b],
           Bottom(b) <= d.a7, back.p[b] <= Top(b), Whole(d.mem, d.a7, back),
           \A o \in Banks \ {b} : Pointer(d, o) = back.p[o]
    PROVE  Stacked(RteFrom(d, cells))
<1> DEFINE p == Pulled(d, cells)
           j == Jump(p, back.pc)
           r == Returned(j)
           n == SetSrNoint(r, back.sr)
<1>0. back.pc \in PCs /\ back.sr \in StatusRegs /\ back.p \in [Banks -> Int]
  BY DEF Backs
<1>1. /\ d.mem[d.a7].sr = back.sr /\ d.mem[d.a7 + 1].pc = back.pc
      /\ p \in Cpus /\ Pointers(p) = back.p /\ Agree(d.mem, p.mem, back.p)
      /\ p.trail = d.trail
  BY PullsBack
<1>2. RteFrom(d, cells) = CheckInterrupts(n)
  BY <1>1 DEF RteFrom, SetSr
<1> HIDE DEF p
<1>3. /\ j \in Cpus /\ j.trail = p.trail /\ j.pc = back.pc /\ j.mem = p.mem
      /\ Pointers(j) = Pointers(p)
  <2>1. j.pc = back.pc
    BY <1>1 DEF Jump, Cpus
  <2> QED
    BY <1>0, <1>1, <2>1, JumpKeeps DEF Alike, Pointers
<1> HIDE DEF j
<1>4. /\ r \in Cpus /\ r.trail = SubSeq(c.trail, 1, Len(c.trail) - 1) /\ r.pc = back.pc
      /\ r.mem = p.mem /\ Pointers(r) = back.p
  <2> DEFINE trail == SubSeq(j.trail, 1, Len(j.trail) - 1)
  <2>1. trail \in Seq(Entries)
    <3>1. j.trail \in Seq(Entries) /\ j.trail # <<>>
      BY <1>1, <1>3 DEF Cpus
    <3> QED
      BY <3>1
  <2>2. trail = SubSeq(c.trail, 1, Len(c.trail) - 1)
    BY <1>1, <1>3
  <2>3. r = [j EXCEPT !.trail = trail]
    BY DEF Returned
  <2> HIDE DEF r, trail
  <2>4. /\ r \in Cpus /\ r.mem = j.mem /\ r.s = j.s /\ r.m = j.m /\ r.a7 = j.a7 /\ r.sp = j.sp
        /\ r.trail = trail /\ r.pc = j.pc
    BY <1>3, <2>1, <2>3 DEF Cpus
  <2>5. Pointers(r) = Pointers(j)
    BY <2>4 DEF Pointers, Pointer, Active
  <2> QED
    BY <1>1, <1>3, <2>2, <2>4, <2>5
<1> HIDE DEF r
<1>5. /\ n \in Cpus /\ Pointers(n) = back.p /\ Sr(n) = back.sr /\ n.mem = p.mem
      /\ n.pc = back.pc /\ n.trail = SubSeq(c.trail, 1, Len(c.trail) - 1) /\ n.m = back.sr.m
  BY <1>0, <1>4, SettlesAs
<1> HIDE DEF n
<1>6. Context(n, n.pc) = back
  BY <1>5 DEF Context, Backs
<1>7. Stacked(n)
  <2>1. Agree(c.mem, n.mem, back.p)
    BY <1>1, <1>5, AgreeTwice
  <2> QED
    BY <1>5, <1>6, <2>1, ReturnStacks
<1>8. Deep(n)
  <2>1. Len(c.trail) \in DOMAIN c.trail
    BY DEF Cpus
  <2>2. Roomy(back)
    BY <2>1 DEF Stacked
  <2>3. Pointer(n, "isp") = back.p["isp"] /\ Pointer(n, "msp") = back.p["msp"]
    BY <1>5 DEF Pointers, Banks
  <2> QED
    BY <1>5, <2>2, <2>3 DEF Deep, HasRoom, Roomy
<1> QED
  BY <1>2, <1>5, <1>7, <1>8, CheckStacks

\* A handler back on the stack it started on stands at its frame.
LEMMA AtFrame ==
    ASSUME NEW c \in Cpus, Stacked(c), InHandler(c)
    PROVE  LET e == c.trail[Len(c.trail)]
           IN  /\ e \in Entries /\ e.back \in Backs /\ Standing(c.mem, Pointers(c), e)
               /\ c.s = TRUE /\ c.m = e.m /\ c.a7 = e.a7 /\ c.trail # <<>>
               /\ Len(c.trail) \in DOMAIN c.trail
<1> DEFINE n == Len(c.trail)
           e == c.trail[n]
<1>1. c.trail # <<>> /\ c.m = e.m /\ c.a7 = e.a7 /\ c.s
  BY DEF InHandler
<1>2. n \in DOMAIN c.trail /\ e \in Entries /\ c.s \in BOOLEAN
  BY <1>1 DEF Cpus
<1>3. e.back \in Backs
  BY <1>2 DEF Entries, Backs
<1>4. Standing(c.mem, Pointers(c), e)
  <2>1. After(c, n) = Pointers(c)
    BY DEF After
  <2> QED
    BY <1>2, <2>1 DEF Stacked
<1> QED
  BY <1>1, <1>2, <1>3, <1>4

\* A frame stands when a stack pointer is set whose stack is empty.
LEMMA StandsAside ==
    ASSUME NEW mem, NEW p \in [Banks -> Int], NEW e \in Entries, NEW new \in Entries,
           Standing(mem, p, e), NEW b \in Banks, \A x \in Region(b) : mem[x] = <<>>,
           new.m = e.m, new.a7 = e.a7, new.back.sr = e.back.sr, new.back.pc = e.back.pc,
           new.back.p = [e.back.p EXCEPT ![b] = Top(b)]
    PROVE  Standing(mem, [p EXCEPT ![b] = Top(b)], new)
<1> DEFINE s == Bank(TRUE, e.m)
           q == [p EXCEPT ![b] = Top(b)]
           a == e.a7
           z == p["msp"]
<1>0. /\ s \in Banks /\ e.back.p \in [Banks -> Int] /\ a \in Int /\ z \in Int
      /\ "msp" \in Banks /\ "usp" \in Banks /\ "isp" \in Banks /\ "msp" # "usp"
      /\ \A o \in Banks : o = "usp" \/ o = "isp" \/ o = "msp"
      /\ Bottom(s) \in Int /\ Top(s) \in Int /\ Bottom("msp") \in Int /\ Top("msp") \in Int
      /\ e.back.p["msp"] \in Int /\ e.back.p[s] \in Int
  <2>1. e.m \in BOOLEAN /\ e.back.p \in [Banks -> Int] /\ a \in Int
    BY DEF Entries
  <2>2. /\ "msp" \in Banks /\ "usp" \in Banks /\ "isp" \in Banks /\ "msp" # "usp"
        /\ \A o \in Banks : o = "usp" \/ o = "isp" \/ o = "msp"
    BY DEF Banks
  <2> QED
    BY <2>1, <2>2, RegionsApart
<1>1. <<>> \notin SrCells /\ \A sr : [sr |-> sr] # <<>>
  BY DEF SrCells
<1>2. /\ p[s] = a /\ Bottom(s) <= a /\ a + 3 <= e.back.p[s] /\ e.back.p[s] <= Top(s)
      /\ mem[a] \in SrCells /\ mem[a + 1] \in PcCells /\ mem[a + 2] \in FormatCells
  BY DEF Standing
<1>3. s # b
  <2>1. /\ a \in Int /\ Bottom(s) \in Int /\ Top(s) \in Int /\ e.back.p[s] \in Int
        /\ Bottom(s) <= a /\ a + 3 <= e.back.p[s] /\ e.back.p[s] <= Top(s)
    BY <1>0, <1>2, Zenon
  <2>2. a \in Region(s)
    <3> HIDE DEF a, s
    <3> QED
      BY <2>1 DEF Region
  <2> QED
    BY <1>1, <1>2, <2>2
<1>4. /\ q[s] = p[s] /\ new.back.p[s] = e.back.p[s]
      /\ \A o \in Banks : o # b => q[o] = p[o] /\ new.back.p[o] = e.back.p[o]
      /\ q[b] = Top(b) /\ new.back.p[b] = Top(b) /\ Bank(TRUE, new.m) = s
  BY <1>0, <1>3
<1>5. CASE mem[a + 2].fmt = 9
  BY <1>2, <1>4, <1>5 DEF Standing
<1>6. CASE /\ Whole(mem, a, e.back) /\ \A o \in Banks \ {s} : p[o] = e.back.p[o]
           /\ \/ mem[a + 2].fmt = 0 /\ a + 3 = e.back.p[s]
              \/ mem[a + 2].fmt = 2 /\ a + 4 = e.back.p[s]
  <2>1. Whole(mem, a, new.back)
    BY <1>6 DEF Whole
  <2>2. \A o \in Banks \ {s} : q[o] = new.back.p[o]
    BY <1>4, <1>6
  <2> QED
    BY <1>2, <1>4, <1>6, <2>1, <2>2 DEF Standing
<1>7. CASE /\ mem[a + 2].fmt = 1 /\ ~e.m /\ mem[a].sr.s /\ mem[a].sr.m
           /\ a + 3 = e.back.p[s] /\ p["usp"] = e.back.p["usp"]
           /\ Bottom("msp") <= z /\ z + 3 = e.back.p["msp"]
           /\ e.back.p["msp"] <= Top("msp")
           /\ Whole(mem, z, e.back) /\ mem[z + 2].fmt = 0
  <2>1. z \in Region("msp")
    <3> HIDE DEF z
    <3> QED
      BY <1>0, <1>7 DEF Region
  <2>2. b # "msp"
    BY <1>1, <1>7, <2>1 DEF Whole
  <2>3. q["msp"] = z /\ new.back.p["msp"] = e.back.p["msp"] /\ q["usp"] = new.back.p["usp"]
    BY <1>0, <1>4, <1>7, <2>2
  <2>4. Whole(mem, z, new.back)
    BY <1>7 DEF Whole
  <2> HIDE DEF q, z, a, s
  <2>5. ~new.m /\ new.a7 = a /\ q[s] = a
    BY <1>2, <1>4, <1>7 DEF a
  <2>6. Standing(mem, q, new)
    BY <1>2, <1>4, <1>7, <2>3, <2>4, <2>5 DEF Standing
  <2> QED
    BY <2>6 DEF q
<1> QED
  BY <1>5, <1>6, <1>7 DEF Standing

\* The history e once a stack pointer is set, for good, to its start.
Moved(e, b, new) ==
    /\ new.m = e.m /\ new.a7 = e.a7 /\ new.back.sr = e.back.sr /\ new.back.pc = e.back.pc
    /\ new.back.p = [e.back.p EXCEPT ![b] = Top(b)]

\* That is what MovecTo makes of each entry of the history.
LEMMA MovedIs ==
    ASSUME NEW e \in Entries, NEW b \in Banks
    PROVE  Moved(e, b, [e EXCEPT !.back.p[b] = Top(b)])
BY DEF Moved, Entries

\* MOVE to USP and MOVEC: a pointer is set whose stack is empty, and every
\* exception in progress brings the new value back.
LEMMA MovecStacks ==
    ASSUME NEW c \in Cpus, NEW d \in Cpus, Stacked(c), NEW b \in Banks,
           \A x \in Region(b) : c.mem[x] = <<>>, d.mem = c.mem, d.pc.in = c.pc.in,
           \A o \in Banks : Pointer(d, o) = IF o = b THEN Top(b) ELSE Pointer(c, o),
           DOMAIN d.trail = DOMAIN c.trail,
           \A k \in DOMAIN c.trail : Moved(c.trail[k], b, d.trail[k])
    PROVE  Stacked(d)
<1>0. Top(b) \in Int /\ c.trail \in Seq(Entries) /\ d.trail \in Seq(Entries)
  BY RegionsApart DEF Cpus
<1>1. DOMAIN d.trail = DOMAIN c.trail /\ Len(d.trail) = Len(c.trail)
  BY <1>0
<1>2. ASSUME NEW k \in DOMAIN c.trail
      PROVE  /\ c.trail[k] \in Entries /\ d.trail[k] \in Entries
             /\ Moved(c.trail[k], b, d.trail[k])
             /\ c.trail[k].back.p[b] \in Int
             /\ d.trail[k].back.p[b] = Top(b)
             /\ \A o \in Banks : o # b => d.trail[k].back.p[o] = c.trail[k].back.p[o]
  <2>1. c.trail[k] \in Entries /\ d.trail[k] \in Entries
    BY <1>0, <1>1
  <2>2. c.trail[k].back.p \in [Banks -> Int]
    BY <2>1 DEF Entries
  <2>3. Moved(c.trail[k], b, d.trail[k])
    OBVIOUS
  <2>4. d.trail[k].back.p = [c.trail[k].back.p EXCEPT ![b] = Top(b)]
    BY <2>3 DEF Moved
  <2> QED
    BY <2>1, <2>2, <2>3, <2>4
<1>3. \A o \in Banks : Pointer(c, o) \in Int /\ Pointers(c)[o] = Pointer(c, o)
                       /\ Pointers(d)[o] = Pointer(d, o)
  BY PointerType DEF Pointers
<1>4. Pointers(d) = [Pointers(c) EXCEPT ![b] = Top(b)]
  BY DEF Pointers
<1>5. ASSUME NEW k \in DOMAIN c.trail
      PROVE  After(d, k) = [After(c, k) EXCEPT ![b] = Top(b)]
  <2>1. CASE k = Len(c.trail)
    BY <1>1, <1>4, <2>1 DEF After
  <2>2. CASE k # Len(c.trail)
    <3>1. k + 1 \in DOMAIN c.trail
      BY <1>0, <2>2
    <3> QED
      BY <1>1, <1>2, <2>2, <3>1 DEF After, Moved
  <2> QED
    BY <2>1, <2>2
<1>6. ASSUME NEW k \in DOMAIN c.trail
      PROVE  Standing(d.mem, After(d, k), d.trail[k])
  <2>1. After(c, k) \in [Banks -> Int] /\ Standing(c.mem, After(c, k), c.trail[k])
    BY AfterAbove DEF Stacked
  <2>2. Standing(c.mem, [After(c, k) EXCEPT ![b] = Top(b)], d.trail[k])
    BY <1>2, <2>1, StandsAside DEF Moved
  <2> QED
    BY <1>5, <2>2
<1>7. ASSUME NEW k \in DOMAIN c.trail
      PROVE  Roomy(d.trail[k].back)
  <2>1. Roomy(c.trail[k].back)
    BY DEF Stacked
  <2>2. /\ Top("isp") \in Bottom("isp") + 7 .. Top("isp")
        /\ Top("msp") \in Bottom("msp") + 7 .. Top("msp")
    <3>1. Depth \in Int /\ Bottom("isp") = Depth /\ Bottom("msp") = 2 * Depth
      BY ExcAssumption DEF Bottom
    <3>2. Top("isp") = 2 * Depth /\ Top("msp") = 3 * Depth
      BY <3>1 DEF Top
    <3>3. c.trail[k].back.p["isp"] \in Depth + 7 .. 2 * Depth
      BY <2>1, <3>1, <3>2, Zenon DEF Roomy
    <3>4. Depth >= 7
      BY <3>1, <3>3
    <3> QED
      BY <3>1, <3>2, <3>4
  <2>3. d.trail[k].back.p["isp"] \in {Top("isp"), c.trail[k].back.p["isp"]}
    BY <1>2 DEF Banks
  <2>4. d.trail[k].back.p["msp"] \in {Top("msp"), c.trail[k].back.p["msp"]}
    BY <1>2 DEF Banks
  <2>5. d.trail[k].back.sr = c.trail[k].back.sr
    BY <1>2 DEF Moved
  <2> QED
    BY <2>1, <2>2, <2>3, <2>4, <2>5, Zenon DEF Roomy
<1>8. ASSUME NEW k \in DOMAIN c.trail
      PROVE  /\ k > 1 => d.trail[k].back.pc.in # 1
             /\ d.pc.in # 1
             /\ \A o \in Banks : Pointer(d, o) <= d.trail[k].back.p[o]
  <2>1. /\ k > 1 => c.trail[k].back.pc.in # 1
        /\ c.pc.in # 1
        /\ \A o \in Banks : Pointer(c, o) <= c.trail[k].back.p[o]
    BY DEF Stacked
  <2>2. d.trail[k].back.pc = c.trail[k].back.pc
    BY <1>2 DEF Moved
  <2>3. Pointer(d, b) <= d.trail[k].back.p[b]
    BY <1>0, <1>2
  <2>4. \A o \in Banks : o # b => Pointer(d, o) <= d.trail[k].back.p[o]
    BY <1>2, <2>1
  <2> QED
    BY <2>1, <2>2, <2>3, <2>4
<1>9. ASSUME NEW i \in DOMAIN c.trail, NEW j \in DOMAIN c.trail, i < j, NEW o \in Banks
      PROVE  d.trail[j].back.p[o] <= d.trail[i].back.p[o]
  <2>1. c.trail[j].back.p[o] <= c.trail[i].back.p[o]
    BY <1>9 DEF Stacked
  <2>2. CASE o = b
    BY <1>0, <1>2, <2>2
  <2>3. CASE o # b
    BY <1>2, <2>1, <2>3
  <2> QED
    BY <2>2, <2>3
<1> QED
  BY <1>1, <1>6, <1>7, <1>8, <1>9 DEF Stacked

\* A handler that spoils its own format word touches no other frame.
LEMMA SpoilStacks ==
    ASSUME NEW c \in Cpus, NEW d \in Cpus, Stacked(c), InHandler(c), HasFrame(c),
           NEW cell \in FormatCells, cell.fmt = 9,
           \A x \in Memory : d.mem[x] = IF x = c.a7 + 2 THEN cell ELSE c.mem[x],
           d.trail = c.trail, Pointers(d) = Pointers(c), d.pc.in = c.pc.in
    PROVE  Stacked(d)
<1> DEFINE n == Len(c.trail)
           e == c.trail[n]
           s == Bank(TRUE, e.m)
           a == e.a7
<1>1. /\ e \in Entries /\ e.back \in Backs /\ Standing(c.mem, Pointers(c), e) /\ c.a7 = a
      /\ n \in DOMAIN c.trail
  BY AtFrame
<1>2. s \in Supers /\ s \in Banks /\ a \in Int /\ e.back.p \in [Banks -> Int]
  BY <1>1, RegionsApart DEF Entries
<1>3. /\ Bottom(s) \in Int /\ Top(s) \in Int /\ e.back.p[s] \in Int
  BY <1>2, RegionsApart
<1>4. /\ Pointers(c)[s] = a /\ Bottom(s) <= a /\ a + 3 <= e.back.p[s] /\ e.back.p[s] <= Top(s)
  BY <1>1 DEF Standing
<1>5. c.mem[a] \in SrCells /\ c.mem[a + 1] \in PcCells
  BY <1>1 DEF Standing
<1> HIDE DEF n, e, s, a
<1>6. a \in Region(s) /\ a + 1 \in Region(s) /\ a + 2 \in Region(s)
  BY <1>2, <1>3, <1>4 DEF Region
<1>7. a \in Memory /\ a + 1 \in Memory /\ a + 2 \in Memory
  BY <1>2, <1>6, RegionsApart
<1>8. a # a + 2 /\ a + 1 # a + 2
  BY <1>2
<1>9. Standing(d.mem, Pointers(d), e)
  <2>1. d.mem[a] = c.mem[a] /\ d.mem[a + 1] = c.mem[a + 1] /\ d.mem[a + 2] = cell
    BY <1>1, <1>7, <1>8
  <2> QED
    BY <1>4, <1>5, <2>1 DEF Standing, s, a
<1>10. Agree(c.mem, d.mem, e.back.p)
  <2> SUFFICES ASSUME NEW o \in Supers, NEW x \in Region(o), x >= e.back.p[o]
               PROVE  d.mem[x] = c.mem[x]
    BY DEF Agree
  <2>1. x \in Memory /\ x \in Int /\ o \in Banks
    BY RegionsApart DEF Region
  <2>2. x # a + 2
    <3>1. CASE o = s
      BY <1>2, <1>3, <1>4, <2>1, <3>1
    <3>2. CASE o # s
      BY <1>2, <1>6, <2>1, <3>2, RegionsApart
    <3> QED
      BY <3>1, <3>2
  <2> QED
    BY <1>1, <2>1, <2>2
<1>11. \A b \in Banks : Pointer(d, b) = Pointer(c, b)
  BY DEF Pointers
<1>12. \A k : After(d, k) = After(c, k)
  BY DEF After
<1>13. ASSUME NEW k \in DOMAIN c.trail
       PROVE  Standing(d.mem, After(d, k), c.trail[k])
  <2>1. CASE k = n
    BY <1>9, <2>1 DEF After, n, e
  <2>2. CASE k # n
    <3>1. After(c, k) \in [Banks -> Int] /\ c.trail[k] \in Entries
      BY AfterAbove
    <3>2. \A b \in Supers : e.back.p[b] <= After(c, k)[b]
      BY <2>2, AfterOuter, RegionsApart DEF e, n
    <3>3. Agree(c.mem, d.mem, After(c, k))
      BY <1>2, <1>10, <3>1, <3>2, AgreeAbove
    <3>4. Standing(c.mem, After(c, k), c.trail[k])
      BY DEF Stacked
    <3> QED
      BY <1>12, <3>1, <3>3, <3>4, StandsOn
  <2> QED
    BY <2>1, <2>2
<1> QED
  BY <1>11, <1>13 DEF Stacked

\* No exception is in progress at the start.
LEMMA InitStacked == Init => Stacked(cpu)
<1> SUFFICES ASSUME Init PROVE cpu.trail = <<>>
  BY DEF Stacked
<1> DEFINE empty == [k \in Memory |-> <<>>]
           zero == [a7 |-> 0, s |-> FALSE, m |-> FALSE, mask |-> 0, sp |-> [b \in Banks |-> 0],
                    mem |-> empty, pc |-> PC(0, 0), stopped |-> FALSE, halted |-> FALSE,
                    irq |-> 0, trail |-> <<>>]
           up == [zero EXCEPT !.stopped = FALSE, !.halted = FALSE, !.mask = 7]
           reset == SetSM(up, TRUE, FALSE)
           stacked == [reset EXCEPT !.a7 = Top("isp")]
           sr == [s |-> FALSE, m |-> FALSE, mask |-> 3]
           n == SetSrNoint(stacked, sr)
           user == SetSr(stacked, sr)
           last == [user EXCEPT !.a7 = Top("usp")]
<1>1. cpu = last
  BY DEF Init, Boot
<1>2. up.irq = 0 /\ up.trail = <<>>
  OBVIOUS
<1> HIDE DEF empty, zero, up
<1>3. stacked.irq = up.irq /\ stacked.trail = up.trail
  BY DEF SetSM
<1> HIDE DEF stacked
<1>4. n.irq = stacked.irq /\ n.trail = stacked.trail /\ n.mask = 3
  BY DEF SetSrNoint, SetSM
<1>5. user = CheckInterrupts(n)
  BY DEF SetSr
<1> HIDE DEF n
<1>6. user = n
  BY <1>2, <1>3, <1>4, <1>5 DEF CheckInterrupts
<1> QED
  BY <1>1, <1>2, <1>3, <1>4, <1>6

\* Nothing is in progress, and nothing need stand.
LEMMA NoneInProgress == \A c : c.trail = <<>> => Stacked(c)
BY DEF Stacked

\* Every action leaves the frames of all exceptions in progress standing.
LEMMA StepStacks ==
    ASSUME IInv, Stacked(cpu), Next
    PROVE  Stacked(cpu')
<1>0. cpu \in Cpus /\ cpu' \in Cpus /\ cpu.s \in BOOLEAN
  BY StepIsGood DEF IInv, TypeOK, Good, Cpus
<1>F. /\ Alike(cpu, Fetched) /\ Fetched \in Cpus /\ cpu.pc \in PCs /\ Fetched.pc \in PCs
      /\ Fetched.trail = cpu.trail /\ Fetched.pc.in = cpu.pc.in /\ Pointers(Fetched) = Pointers(cpu)
      /\ Fetched.mem = cpu.mem
  <2>1. Fetched.trail = cpu.trail /\ Fetched.pc = [cpu.pc EXCEPT !.n = (@ + 1) % Steps]
    BY <1>0 DEF Fetched, Jump, Cpus
  <2>2. /\ Alike(cpu, Fetched) /\ Fetched \in Cpus /\ cpu.pc \in PCs /\ Fetched.pc \in PCs
    BY FetchedKeeps DEF IInv
  <2>3. Fetched.pc.in = cpu.pc.in
    BY <2>1, <2>2 DEF PCs
  <2> QED
    BY <2>1, <2>2, <2>3 DEF Alike, Pointers
<1>S. Stacked(Fetched)
  BY <1>0, <1>F, SameStacks
<1>R. Room(cpu) => Deep(Fetched) /\ Deep(cpu)
  BY <1>F DEF Room, Deep, HasRoom, Alike, Banks
<1>1. CASE Plain
  BY <1>1, <1>S DEF Plain
<1>2. ASSUME NEW n \in Traps, Trap(n) PROVE Stacked(cpu')
  <2>1. CASE n \in Hooks
    BY <1>2, <1>S, <2>1 DEF Trap
  <2>2. CASE n \notin Hooks
    <3>1. TRAP_BASE + n \in Nat /\ TRAP_BASE + n # 1
      BY ExcAssumption DEF TRAP_BASE
    <3>2. Deep(Fetched) /\ cpu' = Exception(Fetched, TRAP_BASE + n, Fetched.pc)
      BY <1>2, <1>R, <2>2 DEF Trap
    <3> QED
      BY <1>F, <1>S, <3>1, <3>2, ExceptionStacks
  <2> QED
    BY <2>1, <2>2
<1>3. CASE Supexec
  <2> DEFINE p == Push(Fetched, [pc |-> Fetched.pc])
  <2>1. cpu' = Jump(p, PC(1, 0)) /\ cpu.trail = <<>>
    BY <1>3 DEF Supexec
  <2>2. Pushed(Fetched, [pc |-> Fetched.pc], p)
    BY <1>F, PushKeeps DEF Cells, PcCells
  <2> HIDE DEF p
  <2>3. p \in Cpus /\ p.trail = <<>> /\ PC(1, 0) \in PCs
    BY <1>F, <2>1, <2>2, HandlerType DEF Pushed, OnStack, Quiet, Handler
  <2>4. cpu'.trail = <<>>
    BY <2>1, <2>3, JumpKeeps
  <2> QED
    BY <2>4, NoneInProgress
<1>4. CASE Rts
  <2> DEFINE p == Pulled(cpu, 1)
  <2>1. /\ cpu' = Jump(p, cpu.mem[cpu.a7].pc) /\ cpu.pc.in = 1
        /\ cpu.mem[cpu.a7] \in PcCells
    BY <1>4 DEF Rts
  <2>2. cpu.trail = <<>> /\ cpu.mem[cpu.a7].pc \in PCs
    BY <1>0, <2>1, InHandlerCode DEF PcCells
  <2>3. p \in Cpus /\ p.trail = cpu.trail
    BY <1>0, PulledKeeps DEF OnStack, Quiet
  <2> HIDE DEF p
  <2>4. cpu'.trail = <<>>
    BY <2>1, <2>2, <2>3, JumpKeeps
  <2> QED
    BY <2>4, NoneInProgress
<1>5. CASE TrapOnCondition
  <2>1. /\ Deep(Fetched) /\ cpu' = ExceptionTrap(Fetched, TRAPV, cpu.pc)
        /\ TRAPV \in Nat /\ TRAPV # 1
    BY <1>5, <1>R DEF TrapOnCondition, TRAPV
  <2> QED
    BY <1>F, <1>S, <2>1, TrapStacks
<1>6. CASE Illegal
  <2>1. /\ Deep(Fetched) /\ cpu' = Exception(Fetched, ILLEGAL_INSTRUCTION, cpu.pc)
        /\ ILLEGAL_INSTRUCTION \in Nat /\ ILLEGAL_INSTRUCTION # 1
    BY <1>6, <1>R DEF Illegal, ILLEGAL_INSTRUCTION
  <2> QED
    BY <1>F, <1>S, <2>1, ExceptionStacks
<1>7. CASE Violation
  <2>1. /\ Deep(Fetched) /\ cpu' = Exception(Fetched, PRIVILEGE_VIOLATION, cpu.pc)
        /\ PRIVILEGE_VIOLATION \in Nat /\ PRIVILEGE_VIOLATION # 1
    BY <1>7, <1>R DEF Violation, PRIVILEGE_VIOLATION
  <2> QED
    BY <1>F, <1>S, <2>1, ExceptionStacks
<1>8. ASSUME NEW sr \in SRs, MoveToSr(sr) PROVE Stacked(cpu')
  <2>1. sr \in StatusRegs
    BY ExcAssumption DEF SRs, StatusRegs
  <2>2. /\ cpu' = SetSr(Fetched, sr) /\ HasRoom(Fetched, "isp")
        /\ sr.m => HasRoom(Fetched, "msp")
    BY <1>8, <1>F DEF MoveToSr, Room, HasRoom, Alike, Banks
  <2> QED
    BY <1>F, <1>S, <2>1, <2>2, SetSrStacks
<1>9. ASSUME NEW sr \in SRs, Stop(sr) PROVE Stacked(cpu')
  <2> DEFINE t == [Fetched EXCEPT !.stopped = TRUE]
  <2>1. sr \in StatusRegs
    BY ExcAssumption DEF SRs, StatusRegs
  <2>2. /\ t \in Cpus /\ t.mem = Fetched.mem /\ t.trail = Fetched.trail /\ t.pc = Fetched.pc
        /\ \A b \in Banks : Pointer(t, b) = Pointer(Fetched, b)
    BY <1>F DEF Cpus, Pointer, Active
  <2>3. cpu' = SetSr(t, sr) /\ HasRoom(cpu, "isp") /\ (sr.m => HasRoom(cpu, "msp"))
    BY <1>9 DEF Stop, Room
  <2> HIDE DEF t
  <2>4. HasRoom(t, "isp") /\ (sr.m => HasRoom(t, "msp"))
    BY <1>F, <2>2, <2>3 DEF HasRoom, Alike, Banks
  <2>5. Pointers(t) = Pointers(Fetched)
    BY <2>2 DEF Pointers
  <2>6. Stacked(t)
    BY <1>F, <1>S, <2>2, <2>5, SameStacks
  <2> QED
    BY <2>1, <2>2, <2>3, <2>4, <2>6, SetSrStacks
<1>10. ASSUME NEW cells \in 3 .. 4, Rte, Format(cpu) = (IF cells = 3 THEN 0 ELSE 2),
              cpu' = RteFrom(cpu, cells)
       PROVE  Stacked(cpu')
  <2> DEFINE e == cpu.trail[Len(cpu.trail)]
             b == Bank(TRUE, e.m)
  <2>1. /\ e \in Entries /\ e.back \in Backs /\ Standing(cpu.mem, Pointers(cpu), e)
        /\ cpu.s = TRUE /\ cpu.m = e.m /\ cpu.a7 = e.a7 /\ cpu.trail # <<>>
    BY <1>0, <1>10, AtFrame DEF Rte
  <2> HIDE DEF e
  <2>2. cpu.mem[e.a7 + 2].fmt \notin {1, 9} /\ cells = (IF Format(cpu) = 2 THEN 4 ELSE 3)
    BY <1>10, <2>1 DEF Format
  <2>3. /\ b \in Supers /\ Active(cpu) = b /\ cpu.a7 + cells = e.back.p[b]
        /\ Bottom(b) <= cpu.a7 /\ e.back.p[b] <= Top(b) /\ Whole(cpu.mem, cpu.a7, e.back)
        /\ \A o \in Banks \ {b} : Pointer(cpu, o) = e.back.p[o]
    BY <1>0, <2>1, <2>2, StandsNormal
  <2> HIDE DEF b
  <2>4. Agree(cpu.mem, cpu.mem, e.back.p)
    BY DEF Agree
  <2> QED
    BY <1>0, <1>10, <2>1, <2>3, <2>4, RteStacks DEF e
<1>11. CASE RteNormal
  BY <1>10, <1>11 DEF RteNormal
<1>12. CASE RteTrap
  BY <1>10, <1>12 DEF RteTrap
<1>13. CASE RteThrowaway
  <2> DEFINE e == cpu.trail[Len(cpu.trail)]
             t == AfterThrowaway(cpu)
  <2>1. /\ e \in Entries /\ e.back \in Backs /\ Standing(cpu.mem, Pointers(cpu), e)
        /\ cpu.s = TRUE /\ cpu.m = e.m /\ cpu.a7 = e.a7 /\ cpu.trail # <<>>
    BY <1>0, <1>13, AtFrame DEF RteThrowaway, Rte
  <2> HIDE DEF e
  <2>2. cpu.mem[e.a7 + 2].fmt = 1 /\ cpu' = RteFrom(t, 3)
    BY <1>13, <2>1 DEF RteThrowaway, Format
  <2>3. /\ t \in Cpus /\ Active(t) = "msp" /\ t.a7 + 3 = e.back.p["msp"]
        /\ Bottom("msp") <= t.a7 /\ e.back.p["msp"] <= Top("msp")
        /\ Whole(t.mem, t.a7, e.back)
        /\ \A o \in Banks \ {"msp"} : Pointer(t, o) = e.back.p[o]
        /\ Agree(cpu.mem, t.mem, e.back.p) /\ t.trail = cpu.trail
    BY <1>0, <2>1, <2>2, ThrowsAway
  <2> HIDE DEF t
  <2>4. "msp" \in Supers /\ 3 \in 3 .. 4
    BY DEF Supers
  <2> QED
    BY <1>0, <2>1, <2>2, <2>3, <2>4, RteStacks DEF e
<1>14. CASE RteFormatError
  <2>1. /\ Deep(Fetched) /\ cpu' = Exception(Fetched, FORMAT_ERROR, Fetched.pc)
        /\ FORMAT_ERROR \in Nat /\ FORMAT_ERROR # 1
    BY <1>14, <1>R DEF RteFormatError, FORMAT_ERROR
  <2> QED
    BY <1>F, <1>S, <2>1, ExceptionStacks
<1>15. ASSUME NEW b \in Banks, MovecTo(b) PROVE Stacked(cpu')
  <2> DEFINE trail == [k \in DOMAIN Fetched.trail |->
                          [Fetched.trail[k] EXCEPT !.back.p[b] = Top(b)]]
             c == [Fetched EXCEPT !.trail = trail]
             d == [c EXCEPT !.a7 = Top(b)]
             f == [c EXCEPT !.sp[b] = Top(b)]
  <2>1. /\ cpu' = IF b = Active(cpu) THEN d ELSE f
        /\ \A x \in Region(b) : cpu.mem[x] = <<>>
    BY <1>15 DEF MovecTo, Region
  <2>2. DOMAIN trail = DOMAIN cpu.trail
    BY <1>F
  <2>3. \A k \in DOMAIN cpu.trail : Moved(cpu.trail[k], b, trail[k])
    <3> SUFFICES ASSUME NEW k \in DOMAIN cpu.trail PROVE Moved(cpu.trail[k], b, trail[k])
      OBVIOUS
    <3>1. cpu.trail[k] \in Entries
      BY <1>0 DEF Cpus
    <3>2. trail[k] = [cpu.trail[k] EXCEPT !.back.p[b] = Top(b)]
      BY <1>F
    <3> HIDE DEF trail
    <3> QED
      BY <3>1, <3>2, MovedIs
  <2> HIDE DEF trail
  <2>4. Active(Fetched) = Active(cpu) /\ Active(cpu) \in Banks
    BY <1>0, <1>F, BankType DEF Alike, Active, Cpus
  <2>5. /\ cpu'.mem = Fetched.mem /\ cpu'.trail = trail /\ cpu'.pc = Fetched.pc
        /\ cpu'.s = Fetched.s /\ cpu'.m = Fetched.m
        /\ cpu'.a7 = IF b = Active(cpu) THEN Top(b) ELSE Fetched.a7
        /\ cpu'.sp = IF b = Active(cpu) THEN Fetched.sp ELSE [Fetched.sp EXCEPT ![b] = Top(b)]
    <3>1. CASE b = Active(cpu)
      BY <1>F, <2>1, <3>1 DEF Cpus
    <3>2. CASE b # Active(cpu)
      BY <1>F, <2>1, <3>2 DEF Cpus
    <3> QED
      BY <3>1, <3>2
  <2>6. \A o \in Banks : Pointer(cpu', o) = IF o = b THEN Top(b) ELSE Pointer(Fetched, o)
    <3>1. Active(cpu') = Active(cpu)
      BY <2>4, <2>5 DEF Active
    <3>2. Fetched.sp \in [Banks -> Int]
      BY <1>F DEF Cpus
    <3> QED
      BY <2>4, <2>5, <3>1, <3>2 DEF Pointer
  <2> HIDE DEF d, f, c
  <2>7. /\ DOMAIN cpu'.trail = DOMAIN Fetched.trail
        /\ \A k \in DOMAIN Fetched.trail : Moved(Fetched.trail[k], b, cpu'.trail[k])
        /\ cpu'.mem = Fetched.mem /\ cpu'.pc.in = Fetched.pc.in
        /\ \A x \in Region(b) : Fetched.mem[x] = <<>>
    BY <1>F, <2>1, <2>2, <2>3, <2>5
  <2> QED
    BY <1>0, <1>F, <1>S, <2>6, <2>7, MovecStacks
<1>16. CASE Spoil
  <2> DEFINE x == cpu.a7 + 2
             cell == [Fetched.mem[x] EXCEPT !.fmt = 9]
             mem == [Fetched.mem EXCEPT ![x] = cell]
             e == [Fetched EXCEPT !.mem = mem]
  <2>1. cpu' = e /\ InHandler(cpu) /\ HasFrame(cpu)
    BY <1>16 DEF Spoil
  <2>2. x \in Memory /\ Fetched.mem[x] \in FormatCells
    BY <1>F, <2>1 DEF HasFrame
  <2>3. cell \in FormatCells /\ cell.fmt = 9
    BY <2>2 DEF FormatCells
  <2> HIDE DEF cell
  <2>4. \A k \in Memory : mem[k] = IF k = x THEN cell ELSE cpu.mem[k]
    BY <1>F, <2>2 DEF Cpus
  <2> HIDE DEF mem
  <2>5. /\ e.mem = mem /\ e.trail = Fetched.trail /\ e.pc = Fetched.pc /\ e.s = Fetched.s
        /\ e.m = Fetched.m /\ e.a7 = Fetched.a7 /\ e.sp = Fetched.sp
    BY <1>F DEF Cpus
  <2> HIDE DEF e
  <2>6. Pointers(e) = Pointers(Fetched)
    BY <2>5 DEF Pointers, Pointer, Active
  <2>7. /\ \A k \in Memory : cpu'.mem[k] = IF k = cpu.a7 + 2 THEN cell ELSE cpu.mem[k]
        /\ cpu'.trail = cpu.trail /\ Pointers(cpu') = Pointers(cpu) /\ cpu'.pc.in = cpu.pc.in
    BY <1>F, <2>1, <2>4, <2>5, <2>6
  <2> QED
    BY <1>0, <2>1, <2>3, <2>7, SpoilStacks
<1>17. CASE PulseHalt
  <2> DEFINE e == [cpu EXCEPT !.halted = TRUE]
  <2>1. /\ e \in Cpus /\ e.mem = cpu.mem /\ e.trail = cpu.trail /\ e.pc = cpu.pc /\ e.s = cpu.s
        /\ e.m = cpu.m /\ e.a7 = cpu.a7 /\ e.sp = cpu.sp
    BY <1>0 DEF Cpus
  <2>2. cpu' = e
    BY <1>17 DEF PulseHalt
  <2> HIDE DEF e
  <2>3. Pointers(e) = Pointers(cpu)
    BY <2>1 DEF Pointers, Pointer, Active
  <2> QED
    BY <1>0, <2>1, <2>2, <2>3, SameStacks
<1>18. ASSUME NEW level \in Levels, SetIrq(level) PROVE Stacked(cpu')
  <2> DEFINE c == [cpu EXCEPT !.irq = level]
  <2>1. level \in 0 .. 7 /\ 7 \in 0 .. 7
    BY ExcAssumption
  <2>2. /\ c \in Cpus /\ c.mem = cpu.mem /\ c.trail = cpu.trail /\ c.pc = cpu.pc /\ c.s = cpu.s
        /\ c.m = cpu.m /\ c.a7 = cpu.a7 /\ c.sp = cpu.sp
    BY <1>0, <2>1 DEF Cpus
  <2>3. /\ cpu' = IF cpu.irq # 7 /\ level = 7 THEN Interrupt(c, 7) ELSE CheckInterrupts(c)
        /\ Deep(cpu)
    BY <1>18, <1>R DEF SetIrq
  <2> HIDE DEF c
  <2>4. Pointers(c) = Pointers(cpu) /\ \A b \in Banks : Pointer(c, b) = Pointer(cpu, b)
    BY <2>2 DEF Pointers, Pointer, Active
  <2>5. Stacked(c) /\ Deep(c)
    <3>1. Stacked(c)
      BY <1>0, <2>2, <2>4, SameStacks
    <3> QED
      BY <2>2, <2>3, <2>4, <3>1 DEF Deep, HasRoom, Banks
  <2>6. Stacked(Interrupt(c, 7)) /\ Stacked(CheckInterrupts(c))
    BY <2>1, <2>2, <2>5, InterruptStacks, CheckStacks
  <2> QED
    BY <2>3, <2>6
<1> QED
  BY <1>1, <1>2, <1>3, <1>4, <1>5, <1>6, <1>7, <1>8, <1>9, <1>11, <1>12, <1>13, <1>14, <1>15,
     <1>16, <1>17, <1>18 DEF Next

\* However deep exceptions and interrupts nest, and whatever mixture of stacks
\* and frame formats that makes, every one of them that has not spoiled its own
\* frame returns to the program counter, the status register and the three stack
\* pointers it interrupted (rte, m68ki_stack_frame_*, m68ki_set_sm_flag and the
\* throwaway frame of m68ki_exception_interrupt).
THEOREM ExceptionsUnwind == Spec => []UnwindsInOrder
<1>1. Init => Stacked(cpu)
  BY InitStacked
<1>2. IInv /\ Stacked(cpu) /\ [Next]_cpu => Stacked(cpu)'
  <2> SUFFICES ASSUME IInv, Stacked(cpu), [Next]_cpu PROVE Stacked(cpu)'
    OBVIOUS
  <2>1. CASE Next
    BY <2>1, StepStacks
  <2>2. CASE UNCHANGED cpu
    BY <2>2
  <2> QED
    BY <2>1, <2>2
<1>3. IInv /\ Stacked(cpu) => UnwindsInOrder
  BY StackedUnwinds DEF IInv
<1> QED
  BY <1>1, <1>2, <1>3, InvariantHolds, PTL DEF Spec
=============================================================================
