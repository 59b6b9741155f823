------------------------------ MODULE M68kExc ------------------------------
(***************************************************************************)
(* Exceptions, interrupts, privilege and the three stack pointers of the   *)
(* 68020 emulator: the second half of src/mushashi/m68kcpu.h, the host's   *)
(* interface in m68kcpu.c, the privileged handlers of m68k_in.c, and the   *)
(* traps that src/paratos.c answers itself.                                *)
(*                                                                         *)
(* A cell of stack memory holds what one push writes (a program counter, a *)
(* status register, a format word), whatever its size.  Each stack has a   *)
(* region of Depth cells.  The status register is its S, M and interrupt   *)
(* mask; the flags and the trace bits, which the build ignores, are left   *)
(* out.  An instruction that touches none of this only moves the program   *)
(* counter, which cycles through Steps places in the routine it is in.     *)
(***************************************************************************)
EXTENDS Integers, Sequences

CONSTANTS Depth,        \* cells of a stack
          Steps,        \* instructions of a routine
          Levels,       \* interrupt levels a device may signal; 0 is none
          Masks,        \* interrupt masks a program may set
          Traps,        \* numbers of TRAP instructions a program uses
          Installed,    \* vectors that are not zero
          MaxNesting    \* exceptions in progress

ASSUME ExcAssumption ==
    /\ Depth \in Nat /\ Steps \in Nat \ {0} /\ MaxNesting \in Nat
    /\ Levels \subseteq 0..7 /\ Masks \subseteq 0..7
    /\ Traps \subseteq 0..15 /\ Installed \subseteq Nat

VARIABLE cpu

Banks == {"usp", "isp", "msp"}

\* The regions, and where their stacks start.
Bottom(b) == CASE b = "usp" -> 0 [] b = "isp" -> Depth [] b = "msp" -> 2 * Depth

Top(b) == Bottom(b) + Depth

\* Exception vectors.
ILLEGAL_INSTRUCTION == 4

TRAPV == 7

PRIVILEGE_VIOLATION == 8

FORMAT_ERROR == 14

UNINITIALIZED_INTERRUPT == 15

AUTOVECTOR == 24

TRAP_BASE == 32

\* A routine is a vector's handler or, as number 0, the program; a place in
\* it is a program counter.
PC(routine, n) == [in |-> routine, n |-> n]

\* The code at the place a vector leads to.  A vector that is not installed
\* holds zero: an interrupt then takes the uninitialized interrupt vector.
Handler(v) == PC(v, 0)

PCs == [in : Nat, n : 0 .. Steps - 1]

\* Status registers.
StatusRegs == [s : BOOLEAN, m : BOOLEAN, mask : 0 .. 7]

\* The cells a push leaves, and the cells of the three stacks.
PcCells == [pc : PCs]

SrCells == [sr : StatusRegs]

FormatCells == [fmt : 0 .. 9, vec : Nat]

Cells == {<<>>} \cup PcCells \cup SrCells \cup FormatCells

Memory == 0 .. 3 * Depth - 1

Sr(c) == [s |-> c.s, m |-> c.m, mask |-> c.mask]

\* The index of REG_SP_BASE for the S and M flags.
Bank(s, m) == CASE ~s -> "usp" [] s /\ ~m -> "isp" [] s /\ m -> "msp"

Active(c) == Bank(c.s, c.m)

\* m68k_get_reg of USP, ISP and MSP: the active one is in A7.
Pointer(c, b) == IF b = Active(c) THEN c.a7 ELSE c.sp[b]

Pointers(c) == [b \in Banks |-> Pointer(c, b)]

\* What an exception has to bring back.
Context(c, pc) == [pc |-> pc, sr |-> Sr(c), p |-> Pointers(c)]

\* m68ki_set_sm_flag, and m68ki_set_s_flag with the old M: the stack pointer
\* is put away under the old flags and fetched under the new.
SetSM(c, s, m) ==
    LET away == [c.sp EXCEPT ![Active(c)] = c.a7]
    IN  [c EXCEPT !.sp = away, !.s = s, !.m = m, !.a7 = away[Bank(s, m)]]

\* What lies below a stack pointer is overwritten before it is read: the model
\* forgets it.
Forget(mem, low, high) == [k \in DOMAIN mem |-> IF k \in low .. high THEN <<>> ELSE mem[k]]

\* m68ki_push_16/32.
Push(c, cell) == [c EXCEPT !.a7 = @ - 1, !.mem = [@ EXCEPT ![c.a7 - 1] = cell]]

\* m68ki_pull_16/32 and the fake pulls.
Pulled(c, cells) ==
    [c EXCEPT !.a7 = @ + cells, !.mem = Forget(@, c.a7, c.a7 + cells - 1)]

\* m68ki_stack_frame_0000, 0001 and 0010 (with the address of the trap).
Frame(c, fmt, vec, pc, sr) ==
    Push(Push(Push(c, [fmt |-> fmt, vec |-> vec]), [pc |-> pc]), [sr |-> sr])

(* Mutant: supervisor mode is entered on the stack of the user. *)
EnterWithoutStack(c) == [c EXCEPT !.s = TRUE]

\* m68ki_init_exception.
InitException(c) == SetSM(c, TRUE, c.m)

\* History, not part of the emulator: what exception processing, from c to d,
\* has to bring back, and the stack and frame its handler starts with.
Noted(c, pc, d) ==
    [d EXCEPT !.trail = Append(@, [back |-> Context(c, pc), m |-> d.m, a7 |-> d.a7])]

Jump(c, pc) == [c EXCEPT !.pc = pc]

(* Mutant: the status register is read after supervisor mode is entered. *)
ExceptionLateSr(c, vec, pc) ==
    Noted(c, pc, Jump(Frame(InitException(c), 0, vec, pc, Sr(InitException(c))), Handler(vec)))

\* m68ki_exception_trapN (the default case), _privilege_violation, _illegal
\* and _format_error: a format 0 frame.
Exception(c, vec, pc) ==
    Noted(c, pc, Jump(Frame(InitException(c), 0, vec, pc, Sr(c)), Handler(vec)))

\* m68ki_exception_trap: a format 2 frame, with the address of the
\* instruction that trapped above it.
ExceptionTrap(c, vec, ppc) ==
    Noted(c, c.pc,
          Jump(Frame(Push(InitException(c), [pc |-> ppc]), 2, vec, c.pc, Sr(c)), Handler(vec)))

(* Mutant: S is not forced in the throwaway frame. *)
ThrowawayKeepsS(c, vec, pc, sr) ==
    IF c.m THEN Frame(SetSM(c, c.s, FALSE), 1, vec, pc, sr) ELSE c

\* m68ki_exception_interrupt with default_int_ack_callback, which lowers the
\* request and asks for the autovector.  From the master stack a second,
\* throwaway frame goes to the interrupt stack.
Throwaway(c, vec, pc, sr) ==
    IF c.m THEN Frame(SetSM(c, c.s, FALSE), 1, vec, pc, [sr EXCEPT !.s = TRUE]) ELSE c

TakeInterrupt(c, level, vec) ==
    Noted(c, c.pc,
          Jump(Throwaway(Frame([InitException(c) EXCEPT !.mask = level], 0, vec, c.pc, Sr(c)),
                         vec, c.pc, Sr(c)),
               Handler(IF vec \in Installed THEN vec ELSE UNINITIALIZED_INTERRUPT)))

Interrupt(c, level) ==
    IF c.halted THEN [c EXCEPT !.stopped = FALSE]
    ELSE TakeInterrupt([c EXCEPT !.stopped = FALSE, !.irq = 0], level, AUTOVECTOR + level)

\* m68ki_check_interrupts.
CheckInterrupts(c) == IF c.irq > c.mask THEN Interrupt(c, c.irq) ELSE c

\* m68ki_set_sr_noint and m68ki_set_sr.
SetSrNoint(c, sr) == SetSM([c EXCEPT !.mask = sr.mask], sr.s, sr.m)

(* Mutant: a new mask does not let a waiting interrupt in. *)
SetSrQuietly(c, sr) == SetSrNoint(c, sr)

SetSr(c, sr) == CheckInterrupts(SetSrNoint(c, sr))

(***************************************************************************)
(* The instructions.  Bounds: a step is taken only if the frames it may    *)
(* push fit, so that a program gives MSP a value before it sets M, and     *)
(* exceptions nest to MaxNesting.                                          *)
(***************************************************************************)
SRs == [s : BOOLEAN, m : BOOLEAN, mask : Masks]

HasRoom(c, b) == Pointer(c, b) \in Bottom(b) + 7 .. Top(b)

Room(c) == /\ Len(c.trail) < MaxNesting
           /\ HasRoom(c, "isp") /\ (c.m => HasRoom(c, "msp"))

\* m68k_execute: the cpu is neither stopped nor halted.
Running == ~cpu.stopped /\ ~cpu.halted

\* The cpu once the opcode is read; REG_PPC is cpu.pc.
Fetched == Jump(cpu, [cpu.pc EXCEPT !.n = (@ + 1) % Steps])

Plain == Running /\ cpu' = Fetched

\* TRAP #n: GEMDOS, GEM, BIOS and XBIOS are answered by the host, with no
\* exception; so are the line A and line F opcodes.
Hooks == {1, 2, 13, 14}

Trap(n) == /\ Running /\ (n \in Hooks \/ Room(cpu))
           /\ cpu' = IF n \in Hooks THEN Fetched
                     ELSE Exception(Fetched, TRAP_BASE + n, Fetched.pc)

\* Supexec of the XBIOS: the routine is called in the mode of the caller, its
\* return address pushed as by JSR.  Bound: called by the program, not by a
\* handler, and not by itself.
Supexec == /\ Running /\ cpu.trail = <<>> /\ cpu.a7 = Top(Active(cpu))
           /\ cpu' = Jump(Push(Fetched, [pc |-> Fetched.pc]), PC(1, 0))

\* The return of that routine.
Rts == /\ Running /\ cpu.pc.in = 1
       /\ cpu.a7 \in Memory /\ cpu.mem[cpu.a7] \in PcCells
       /\ cpu' = Jump(Pulled(cpu, 1), cpu.mem[cpu.a7].pc)

\* TRAPV, CHK, a division by zero and the like.
TrapOnCondition == Running /\ Room(cpu) /\ cpu' = ExceptionTrap(Fetched, TRAPV, cpu.pc)

Illegal == Running /\ Room(cpu) /\ cpu' = Exception(Fetched, ILLEGAL_INSTRUCTION, cpu.pc)

\* The privileged instructions in user mode.
Violation == /\ Running /\ Room(cpu) /\ ~cpu.s
             /\ cpu' = Exception(Fetched, PRIVILEGE_VIOLATION, cpu.pc)

\* MOVE, ANDI, ORI and EORI to SR.
MoveToSr(sr) == /\ Running /\ Room(cpu) /\ cpu.s /\ (sr.m => HasRoom(cpu, "msp"))
                /\ cpu' = SetSr(Fetched, sr)

\* STOP: a request above the new mask wakes the cpu at once.
Stop(sr) == /\ Running /\ Room(cpu) /\ cpu.s /\ (sr.m => HasRoom(cpu, "msp"))
            /\ cpu' = SetSr([Fetched EXCEPT !.stopped = TRUE], sr)

\* MOVE to USP, and MOVEC to USP, ISP and MSP, of which the active one is A7.
\* Bound: the pointer is set to the start of its stack, and only when nothing
\* is on it.  The change is meant to outlast the handler (history).
MovecTo(b) ==
    /\ Running /\ cpu.s
    /\ \A k \in Bottom(b) .. Top(b) - 1 : cpu.mem[k] = <<>>
    /\ LET c == [Fetched EXCEPT !.trail = [k \in DOMAIN @ |-> [@[k] EXCEPT !.back.p[b] = Top(b)]]]
       IN  cpu' = IF b = Active(cpu) THEN [c EXCEPT !.a7 = Top(b)]
                  ELSE [c EXCEPT !.sp[b] = Top(b)]

\* The innermost exception in progress (history), when its handler is on the
\* stack it started on.
InHandler(c) == /\ c.s /\ c.trail # <<>>
                /\ c.m = c.trail[Len(c.trail)].m /\ c.a7 = c.trail[Len(c.trail)].a7

\* RTE finds a frame (what it reads where there is none is not modelled).
HasFrame(c) == /\ {c.a7, c.a7 + 1, c.a7 + 2} \subseteq Memory
               /\ c.mem[c.a7] \in SrCells
               /\ c.mem[c.a7 + 1] \in PcCells
               /\ c.mem[c.a7 + 2] \in FormatCells

Format(c) == c.mem[c.a7 + 2].fmt

\* A handler spoils the format word of its frame.
Spoil == /\ Running /\ InHandler(cpu) /\ HasFrame(cpu)
         /\ cpu' = [Fetched EXCEPT !.mem[cpu.a7 + 2].fmt = 9]

\* The frame is pulled and the program counter changes, then the status
\* register and with it perhaps the stack; an interrupt may follow at once.
Returned(c) == [c EXCEPT !.trail = SubSeq(@, 1, Len(@) - 1)]

RteFrom(c, cells) ==
    SetSr(Returned(Jump(Pulled(c, cells), c.mem[c.a7 + 1].pc)), c.mem[c.a7].sr)

\* A throwaway frame gives the status register only.
AfterThrowaway(c) == SetSrNoint(Pulled(c, 3), c.mem[c.a7].sr)

\* RTE on a 68020.  Bounds: handlers return from the stack they started on,
\* and the frame after a throwaway frame is the normal one of the interrupt.
Rte == Running /\ InHandler(cpu) /\ HasFrame(cpu)

RteNormal == Rte /\ Format(cpu) = 0 /\ cpu' = RteFrom(cpu, 3)

RteTrap == Rte /\ Format(cpu) = 2 /\ cpu' = RteFrom(cpu, 4)

RteThrowaway ==
    /\ Rte /\ Format(cpu) = 1 /\ HasFrame(AfterThrowaway(cpu))
    /\ Format(AfterThrowaway(cpu)) = 0 /\ cpu' = RteFrom(AfterThrowaway(cpu), 3)

RteFormatError ==
    /\ Rte /\ Format(cpu) \notin {0, 1, 2} /\ Room(cpu)
    /\ cpu' = Exception(Fetched, FORMAT_ERROR, Fetched.pc)

\* The host, between two calls of m68k_execute or from a callback:
\* m68k_set_irq and m68k_pulse_halt.
SetIrq(level) ==
    /\ Room(cpu)
    /\ LET c == [cpu EXCEPT !.irq = level]
       IN  cpu' = IF cpu.irq # 7 /\ level = 7 THEN Interrupt(c, 7) ELSE CheckInterrupts(c)

PulseHalt == cpu' = [cpu EXCEPT !.halted = TRUE]

\* main: m68k_pulse_reset, the supervisor stack, SR 0x0300, the user stack.
Boot(c) ==
    LET reset == SetSM([c EXCEPT !.stopped = FALSE, !.halted = FALSE, !.mask = 7], TRUE, FALSE)
        user  == SetSr([reset EXCEPT !.a7 = Top("isp")], [s |-> FALSE, m |-> FALSE, mask |-> 3])
    IN  [user EXCEPT !.a7 = Top("usp")]

Init ==
    cpu = Boot([a7 |-> 0, s |-> FALSE, m |-> FALSE, mask |-> 0, sp |-> [b \in Banks |-> 0],
                mem |-> [k \in Memory |-> <<>>], pc |-> PC(0, 0),
                stopped |-> FALSE, halted |-> FALSE, irq |-> 0, trail |-> <<>>])

Next ==
    \/ Plain \/ Supexec \/ Rts \/ TrapOnCondition \/ Illegal \/ Violation
    \/ Spoil \/ RteNormal \/ RteTrap \/ RteThrowaway \/ RteFormatError \/ PulseHalt
    \/ \E n \in Traps : Trap(n)
    \/ \E sr \in SRs : MoveToSr(sr) \/ Stop(sr)
    \/ \E b \in Banks : MovecTo(b)
    \/ \E level \in Levels : SetIrq(level)

Spec == Init /\ [][Next]_cpu

(***************************************************************************)
(* What it promises.                                                       *)
(***************************************************************************)

Entries == [back : [pc : PCs, sr : StatusRegs, p : [Banks -> Int]], m : BOOLEAN, a7 : Int]

Cpus == [a7 : Int, s : BOOLEAN, m : BOOLEAN, mask : 0 .. 7, sp : [Banks -> Int],
         mem : [Memory -> Cells], pc : PCs, stopped : BOOLEAN, halted : BOOLEAN,
         irq : 0 .. 7, trail : Seq(Entries)]

\* The type of the cpu.
TypeOK == cpu \in Cpus

\* The cpu after an RTE, interrupts aside.
Return(c) ==
    LET pull(d) == IF HasFrame(d)
                   THEN SetSrNoint(Jump(Pulled(d, IF Format(d) = 2 THEN 4 ELSE 3),
                                        d.mem[d.a7 + 1].pc), d.mem[d.a7].sr)
                   ELSE d
    IN  IF HasFrame(c) /\ Format(c) = 1 THEN pull(AfterThrowaway(c)) ELSE pull(c)

\* The cpu once the exceptions inside the k-th have returned.
Unwound(k) ==
    IF k = Len(cpu.trail) THEN cpu
    ELSE LET back == cpu.trail[k + 1].back
         IN  [cpu EXCEPT !.pc = back.pc, !.s = back.sr.s, !.m = back.sr.m, !.mask = back.sr.mask,
                         !.sp = back.p, !.a7 = back.p[Bank(back.sr.s, back.sr.m)]]

\* Every exception in progress is found on the stacks: when those inside it
\* have returned and its handler is back on the stack it started on, its RTE
\* leads to the program counter, the status register and all three stack
\* pointers it interrupted, whatever mixture of frames and stacks is in between
\* (rte, the stack frames, set_sm_flag and the throwaway frame of an
\* interrupt), unless the handler has spoiled its frame.
UnwindsInOrder ==
    \A k \in DOMAIN cpu.trail :
        LET e == cpu.trail[k]
            d == Return(SetSM(Unwound(k), TRUE, e.m))
        IN  cpu.mem[e.a7 + 2].fmt # 9 => Context(d, d.pc) = e.back

\* No request above the mask is left waiting, by a change of the mask, a
\* return, a STOP or a new request: a stopped cpu is never asleep on one.
NoneLeftWaiting == cpu.halted \/ cpu.irq <= cpu.mask

\* Supervisor mode is entered only at a handler, with the user's stack pointer
\* kept and the user's status register stacked.
EntersByVector ==
    [][~cpu.s /\ cpu'.s =>
        /\ cpu'.pc = Handler(cpu'.pc.in) /\ cpu'.pc.in > 1
        /\ Pointer(cpu', "usp") = Pointer(cpu, "usp")
        /\ cpu'.mem[cpu'.a7].sr.s = (cpu'.mem[cpu'.a7 + 2].fmt = 1)]_cpu

\* The stacks are kept apart: in user mode the supervisor's pointers do not
\* move, and a change of mode, by an exception, an RTE or a MOVE to SR, never
\* moves the user's.
StacksApart ==
    [][/\ ~cpu.s /\ ~cpu'.s => \A b \in {"isp", "msp"} : Pointer(cpu', b) = Pointer(cpu, b)
       /\ cpu.s # cpu'.s => Pointer(cpu', "usp") = Pointer(cpu, "usp")]_cpu
=============================================================================
