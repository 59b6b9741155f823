------------------------------ MODULE M68kMove ------------------------------
(***************************************************************************)
(* The data movement and program flow handlers of src/mushashi/m68k_in.c.  *)
(* A MOVE has a source operand ea and a destination dst; a register list   *)
(* is a set of numbers of REG_DA, data registers 0..7, address registers   *)
(* 8..15; a displacement of a branch is IR.disp for a byte and otherwise   *)
(* the words after the opcode.                                             *)
(***************************************************************************)
EXTENDS M68kMulDiv, FiniteSetsExt

\* Source operand, then destination address, then the write and the flags.
MoveInto(l, sz, v) == Moved(l.c, l.at, sz, v)

MoveFrom(o, sz) == MoveInto(Loc(o.c, IR.dst, sz), sz, o.v)

MoveTo(sz) == Run(MoveFrom(Oper(Fetched, IR.ea, sz), sz))

Move8 == Is("move") /\ IR.sz = 1 /\ MoveTo(1)

Move16 == Is("move") /\ IR.sz = 2 /\ MoveTo(2)

Move32 == Is("move") /\ IR.sz = 4 /\ MoveTo(4)

\* A word is sign extended to the whole register; no flags.
MoveAddress(o) == Put(o.c, A(IR.x), 4, Signed(Half(IR.sz), o.v))

Movea == Is("movea") /\ Run(MoveAddress(Oper(Fetched, IR.ea, IR.sz)))

Moveq == /\ Is("moveq")
         /\ LET r == Wrap(Signed(Half(1), IR.q))
            IN  Run(Moved(Fetched, D(IR.x), 4, r))

StoreCcr(l) == Put(l.c, l.at, 2, GetCcr(l.c))

MoveFrCcr == Is("move_frc") /\ Run(StoreCcr(Loc(Fetched, IR.ea, 2)))

LoadCcr(o) == SetCcr(o.c, o.v)

MoveToCcr == Is("move_toc") /\ Run(LoadCcr(Oper(Fetched, IR.ea, 2)))

RegDA(c, k) == IF k < 8 THEN c.d[k] ELSE c.a[k - 8]

\* The registers of the list, from the lowest at address at upwards.
Rank(list, k) == Cardinality({j \in list : j < k})

\* MOVEM to memory.  -(Ay) stores from the highest register downwards, with
\* Ay as it was, and leaves Ay at the lowest address written.
StoreList(list, e) ==
    LET store(k, c) == Write(c, e.at + IR.sz * Rank(list, k), IR.sz, RegDA(e.c, k))
        c1 == FoldSet(store, e.c, list)
    IN  IF IR.ea.m = "pd" THEN Put(c1, A(IR.ea.r), 4, e.at) ELSE c1

MovemRe ==
    /\ Is("movem_re")
    /\ LET w == ReadExt(Fetched)
           below == Wrap(w.c.a[IR.ea.r] - IR.sz * Cardinality(w.v))
       IN  Run(StoreList(w.v, IF IR.ea.m = "pd" THEN [c |-> w.c, at |-> below]
                              ELSE Ea(w.c, IR.ea, IR.sz)))

\* MOVEM from memory: words are sign extended, to data registers too.  With
\* (Ay)+ the final address replaces whatever was loaded to Ay.
LoadList(list, e) ==
    LET new(k) == IF k \in list
                  THEN Wrap(Signed(Half(IR.sz),
                                   Read(e.c, e.at + IR.sz * Rank(list, k), IR.sz)))
                  ELSE RegDA(e.c, k)
        c1 == [e.c EXCEPT !.d = [k \in 0..7 |-> new(k)], !.a = [k \in 0..7 |-> new(k + 8)]]
    IN  IF IR.ea.m = "pi" THEN Put(c1, A(IR.ea.r), 4, e.at + IR.sz * Cardinality(list))
        ELSE c1

MovemEr ==
    /\ Is("movem_er")
    /\ LET w == ReadExt(Fetched)
       IN  Run(LoadList(w.v, IF IR.ea.m = "pi" THEN [c |-> w.c, at |-> w.c.a[IR.ea.r]]
                             ELSE Ea(w.c, IR.ea, IR.sz)))

\* MOVEP: the bytes of a data register and every other byte of memory.
MovepRe ==
    /\ Is("movep_re")
    /\ LET e == Ea(Fetched, [m |-> "di", r |-> IR.y], IR.sz)
           byte(j, c) == Write(c, e.at + 2 * j, 1, e.c.d[IR.x] \div Mod(IR.sz - 1 - j))
       IN  Run(FoldSet(byte, e.c, 0 .. IR.sz - 1))

MovepEr ==
    /\ Is("movep_er")
    /\ LET e == Ea(Fetched, [m |-> "di", r |-> IR.y], IR.sz)
           byte(j, v) == v + Read(e.c, e.at + 2 * j, 1) * Mod(IR.sz - 1 - j)
       IN  Run(Put(e.c, D(IR.x), IR.sz, FoldSet(byte, 0, 0 .. IR.sz - 1)))

Lea == /\ Is("lea")
       /\ LET e == Ea(Fetched, IR.ea, 4) IN Run(Put(e.c, A(IR.x), 4, e.at))

Pea == /\ Is("pea")
       /\ LET e == Ea(Fetched, IR.ea, 4) IN Run(Push(e.c, 4, e.at))

\* LINK: the frame register is pushed, then is the stack pointer, which moves
\* by the displacement.  LINK A7 pushes A7 as already decremented.
Link == /\ Is("link")
        /\ LET pushed == IF IR.y = 7
                         THEN Push(Fetched, 4, Wrap(Fetched.a[7] - 4))
                         ELSE Push(Fetched, 4, Fetched.a[IR.y])
               w == ReadImm(Put(pushed, A(IR.y), 4, pushed.a[7]), IR.sz)
           IN  Run(Put(w.c, A(7), 4, w.c.a[7] + Signed(Half(IR.sz), w.v)))

Unlk == /\ Is("unlk")
        /\ IF IR.y = 7 THEN Run(Put(Fetched, A(7), 4, Read(Fetched, Fetched.a[7], 4)))
           ELSE LET p == Pull(Put(Fetched, A(7), 4, Fetched.a[IR.y]), 4)
                IN  Run(Put(p.c, A(IR.y), 4, p.v))

Jump(c, pc) == [c EXCEPT !.pc = Wrap(pc)]

\* A displacement is relative to the word after the opcode, whatever its size.
Disp == IF IR.sz = 1 THEN [c |-> Fetched, v |-> IR.disp]
        ELSE LET w == ReadImm(Fetched, IR.sz)
             IN  [w EXCEPT !.v = Signed(Half(IR.sz), @)]

Bcc == Is("bcc") /\ Run(IF CondHolds(Fetched) THEN Jump(Disp.c, Fetched.pc + Disp.v)
                        ELSE Disp.c)

Bra == Is("bra") /\ Run(Jump(Disp.c, Fetched.pc + Disp.v))

\* The return address is after the displacement.
Bsr == Is("bsr") /\ Run(Jump(Push(Disp.c, 4, Disp.c.pc), Fetched.pc + Disp.v))

\* DBT, DBF and DBcc: the counter is a word and runs out at -1.
Dbcc == /\ Is("dbcc")
        /\ LET w == ReadImm(Fetched, 2)
               n == (w.c.d[IR.y] - 1) % Mod(2)
               c1 == Put(w.c, D(IR.y), 2, n)
           IN  Run(IF CondHolds(w.c) THEN w.c
                   ELSE IF n = Mod(2) - 1 THEN c1
                   ELSE Jump(c1, Fetched.pc + Signed(Half(2), w.v)))

Jmp == Is("jmp") /\ LET e == Ea(Fetched, IR.ea, 4) IN Run(Jump(e.c, e.at))

\* The address is computed before the return address is pushed.
Jsr == /\ Is("jsr")
       /\ LET e == Ea(Fetched, IR.ea, 4) IN Run(Jump(Push(e.c, 4, e.c.pc), e.at))

Rts == Is("rts") /\ LET p == Pull(Fetched, 4) IN Run(Jump(p.c, p.v))

Rtr == /\ Is("rtr")
       /\ LET s == Pull(Fetched, 2)
              p == Pull(SetCcr(s.c, s.v), 4)
          IN  Run(Jump(p.c, p.v))

\* Mutant: RTD leaves the arguments on the stack.
RtdLeavesArgs == Is("rtd") /\ LET p == Pull(Fetched, 4) IN Run(Jump(p.c, p.v))

\* RTD drops the arguments after the return address.
Rtd == /\ Is("rtd")
       /\ LET p == Pull(Fetched, 4)
              w == ReadImm(p.c, 2)
          IN  Run(Jump(Put(w.c, A(7), 4, w.c.a[7] + Signed(Half(2), w.v)), p.v))

\* TRAPT, TRAPF and TRAPcc: the operand words are skipped only when there is
\* no exception.
Trapcc == /\ Is("trapcc")
          /\ Run(IF CondHolds(Fetched) THEN Raise(Fetched, TRAPV)
                 ELSE Jump(Fetched, Fetched.pc + IR.sz))

Trapv == Is("trapv") /\ Run(IF Fetched.v THEN Raise(Fetched, TRAPV) ELSE Fetched)

Nop == Is("nop") /\ Run(Fetched)
=============================================================================
