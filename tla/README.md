# A TLA+ verification project for ParaTos

ParaTos runs Atari TOS/MiNT programs on a Unix host: the Musashi emulator, set to a
68020, executes the program's code and every GEMDOS trap is answered by a C function
that works on the guest's memory (one `mmap`ed array) and calls the host. This
directory holds TLA+ models of the GEMDOS calls that keep state and of the emulator's
instructions, exceptions and interrupts, configurations that check them with TLC, and
TLAPS proofs about the memory allocator, directory handles and searches, files by name,
processes, signals, and the emulator's modes, stacks and flag arithmetic.

## The system

| part | code | state | operations |
|---|---|---|---|
| start-up and execute loop | `paratos.c` | `current_process`, CPU registers | `main`: InitMemory, InitCookieJar, LoadExe, then `m68k_execute` for ever; SIGSEGV prints a report |
| GEMDOS dispatch | `gemdos/gemdos_dispatch.c` | none | reads arguments from the guest stack, calls one function, puts the answer in D0 |
| emulator: instructions | `mushashi/m68k_in.c`, first half of `m68kcpu.h`, `memory.i` | registers, flags, guest memory | one handler per instruction, operand size and addressing mode |
| emulator: modes and exceptions | second half of `m68kcpu.h`, `m68kcpu.c`, privileged handlers | S, M and interrupt mask, three stack pointers, request, stopped, halted | traps, faults, RTE, STOP, MOVE to SR, MOVEC, m68k_set_irq, m68k_pulse_halt |
| memory allocator | `gemdos/mem.c` | free list, used list, rover | Malloc, Mfree, Mshrink (Mxalloc, Maddalt: ENOSYS) |
| cookie jar | `gemdos/cookiejar.c` | a block of guest memory | WriteCookie, ReadCookie, ResizeCookieJar |
| loader | `gemdos/loader.c` | basepage, program image | LoadExe, BuildTosArglist |
| processes | `gemdos/proc.c`, `gemdos/pexec.c` | `pid_map`, host processes, saved signal dispositions | Pfork, Pvfork, Pwait, Pwait3, Pwaitpid, Pterm, Pexec; ids, umask, priorities |
| signals | `gemdos/signals.c` | the host's mask and pending set | Psigblock, Psigsetmask, Psigpause, Psigpending, Pause, Pkill |
| directory handles | `gemdos/dir.c` | host `DIR` pointers in guest blocks, errno | Dopendir, Dreaddir, Drewinddir, Dclosedir; Dcreate, Ddelete, Dsetpath ... |
| directory searches | `gemdos/file.c` | host pointers in DTA buffers, `DTAPrivate` objects | Fsetdta, Fsfirst, Fsnext |
| files | `gemdos/file.c` | host descriptors | Fopen, Fcreate, Fclose, Fread, Fwrite, Fseek, Fdup, Fforce, Fpipe, Fcntl, Fselect, Fxattr ... |
| paths | `gemdos/path.c` | none | tos_path_to_unix, filename8_3 |
| dates, system, console, network | `gemdos/date.c`, `sys.c`, `cdev.c`, `net.c` | host clock, cookie jar, terminal | conversions, Ssystem, Cconin ... |
| error numbers | `tos_errors.c` | none | MapErrno |

How they interact. Everything happens in the thread of the emulated CPU, so two
GEMDOS calls of one program never overlap. What is concurrent is the host: every
guest process is a host process with its own copy of the emulator, made by `fork`,
and signals and the ends of children arrive at any time. Within one process the
parts share the guest's memory (the allocator hands out the blocks in which the
cookie jar and the directory handles live), host pointers that are stored in guest
memory (DIR handles, DTAs), and `errno`, which some calls read without having made
a host call that failed.

What makes the parts correct:

* instructions: numbers of several words add and subtract as one number, branches
  decide as the numbers compare, a shift by n is n shifts by one, a division is undone
  by a multiplication, a compare-and-swap happens as a whole or not at all, moves and
  bit fields touch what they name and nothing else, calls come back;
* modes and exceptions: nested handlers return to what they interrupted with all three
  stack pointers, no interrupt above the mask is left waiting, supervisor mode is
  entered only through a vector, user code never moves a supervisor's stack;
* memory: blocks tile memory, every list node is on one list, the rover never
  dangles and every search ends, an address identifies one block, free neighbours
  are joined, Malloc(-1) is the largest free stretch, other blocks stay as they are;
* processes: the 16-bit pid that a program was given leads back to the child it
  was given for, every child's end is reported once to its parent, a blocked wait
  ends, Pexec leaves the signal dispositions as they were;
* directory handles: a handle works until it is closed, its block stays reserved,
  no host stream is lost, an error answer means that something failed;
* searches: no DTA holds a stale or shared pointer, streams are closed, searches on
  several DTAs do not disturb each other, each matching file is found once and
  described truly;
* signals: what a program blocks is blocked under the host's numbers, a blocked
  signal neither acts nor is lost, the pending word tells exactly these;
* paths and files: whatever case or form a name has, a call acts on the file that
  the 8.3 name stands for, no two entries of a directory share one, and the answer
  of Fopen is a handle exactly when a descriptor was opened;
* arguments: each program of a chain reads what its caller passed, however long,
  and the arrays on the way are not overrun;
* fixups, dates, Fselect: see the plan.

The hazards that go with this (long call sequences on the lists, stale pointers in
guest memory, stale errno, pids that do not fit, races of exit and wait, limits) are
listed in `PROJECT.json` with the line where each bites.

## Modules

| module | models | composes |
|---|---|---|
| `MemBlocks` | the lists of `mem.c` as operators on a record | |
| `GemdosMem` | the boot order of `main` and the memory calls as actions | `MemBlocks` |
| `MemAbs` | what the memory calls promise, without lists | |
| `MemBlocksProofs` | lemmas about the lists | `MemBlocks`, TLAPS |
| `MemProofs` | theorems about `GemdosMem` | `GemdosMem`, `MemBlocksProofs` |
| `GemdosDir` | directory handles in guest memory | `MemBlocks` |
| `DirProofs` | theorems about `GemdosDir` | `GemdosDir`, `MemBlocksProofs` |
| `GemdosSearch` | DTAs, Fsfirst and Fsnext | |
| `SearchProofs` | theorems about `GemdosSearch` | `GemdosSearch`, TLAPS |
| `GemdosProc` | host processes, `pid_map`, Pwaitpid, Pexec | |
| `ProcProofs` | theorems about `GemdosProc` | `GemdosProc`, TLAPS |
| `GemdosSignals` | masks and pending signals | |
| `Names83` | filename8_3 as operators on character codes | |
| `GemdosFiles` | tos_path_to_unix, the calls by name, descriptors, errno | `TosFiles` (refined) |
| `TosFiles` | the file system of 8.3 names that a program expects | |
| `FilesProofs` | theorems about `GemdosFiles`, the refinement of `TosFiles` among them | `GemdosFiles`, TLAPS |
| `GemdosArgs` | arguments and environment from loader to Pexec and on | |
| `ProgramProofs` | theorems about `GemdosSignals` and `GemdosArgs` | both, TLAPS |
| `M68kArith` | the flag macros and condition codes, for every width | |
| `M68kCore` | registers, memory, addressing modes, fetch, the execute loop's end | `M68kArith` |
| `M68kAlu` | add, subtract, compare, logic, decisions | `M68kCore` |
| `M68kMulDiv` | multiply, divide, CHK, CHK2, CAS, CAS2 | `M68kAlu` |
| `M68kBits` | shifts, rotations, bits, bit fields | `M68kAlu` |
| `M68kMove` | moves, MOVEM, MOVEP, LEA, stack frames, branches, calls | `M68kMulDiv` |
| `M68kCpu` | the execute loop: one disjunct per family of handlers | `M68kBits`, `M68kMove` |
| `M68kExc` | modes, stacks, exceptions, interrupts | |
| `M68kProofs` | theorems about `M68kArith` and `M68kExc` | `M68kArith`, `M68kExc`, TLAPS |
| `MCMem`, `MCDir`, `MCSearch`, `MCProc`, `MCSignals`, `MCFiles`, `MCArgs`, `MCCpu`, `MCExc` | instances for TLC | the module of the same name; `MCFiles` also `Names83`; `MCCpu` has the programs and what they must compute |

### Memory: `MemBlocks`, `GemdosMem`, `MemAbs`

A memory is a record: `free` and `used` are the two singly linked lists as
sequences of nodes, `heap` gives start and size of each `memblock_t`, `rover` is a
node, `FreeHead` (the list head `&freeMem`) or `Null`. `Malloc`, `Mfree`, `Mshrink`
and `FreeBlock` map such a record to the record after the call and the answer in D0.
The nodes `malloc()` returns are chosen nondeterministically among the unused ones,
so that a node that was freed comes back. The next-fit search is not stepped
through: `Probe(m, k)` is the k-th free block it looks at, `Take` cuts the first that
fits, and `SearchEnds` says whether the `do ... while(prev != rover)` loop ends at
all. It does not when the rover is the list head and nothing fits; `GemdosMem` then
goes to the phase "hung" and the invariant `SearchesEnd` excludes it. That the code
never gets there rests on the boot order: InitMemory leaves the rover at the list
head, the first call is that of the cookie jar and fits, and from then on the rover
is on the free list.

`MemAbs` has only the set of reserved blocks and the last call with its answer;
`KeepsPromise` is the refinement, under which the reserved blocks are those of the
used list and blocks of no bytes are left out. It holds for programs that neither
ask for an empty block nor shrink a block to the size that it has (`CarefulSpec`).

### Directory handles: `GemdosDir`

Dopendir stores the host's `DIR` pointer in 16 bytes from Malloc; the module has the
memory lists, the word at each guest address (`ptr`), the position of each open
host stream, and `errno`. The program passes only handles it was given and frees
only what it reserved. `opened` is the program's own view of its handles.
`RoomySpec` is a program that leaves enough memory for its handles.

### Searches: `GemdosSearch`

The DTA's first 8 bytes hold a pointer to a `DTAPrivate` (`cell`), `priv` is what the
live objects hold, `info` what a DTA tells the program. Two DTAs, one directory that
does not change, patterns and attribute sets as constants. The code knows the pattern
`*.*` and compares every other pattern with the names as it stands; the passing run
uses the patterns it handles. The same loop translates Fsfirst (which ends in a call of
Fsnext) and Fsnext.

### Processes: `GemdosProc`

The host's process table (state, parent, what `wait4` would report) is modelled as
Linux keeps it: a zombie stays until its parent waits, orphans go to init, a pid is
reused once it is free. Each process has its `pid_map`, copied by fork and never
shortened but by a wait. Pwaitpid is two steps, the call and the wake-up, so that children
end, stop and exec in between; Pexec likewise. `kids` is what the program remembers
of its children. Integers keep their width: `Int16` wraps at `PidMod`.

### Signals: `GemdosSignals`

Masks are sets of bit numbers; `HostOf` is the table of MiNT and Linux numbers.
Psignal and Psigaction answer ENOSYS, so no guest handler exists and a signal either
ends its process or does nothing. `given` and `held` are the program's view, in
MiNT's numbers, of what it has blocked and what was sent meanwhile. The definitions
that every module has are named `SigInit`, `SigSpec` and so on, as one module of proofs
extends `GemdosSignals` and `GemdosArgs`: both are about what a program gets from the
one that starts it.

### Files by name: `GemdosFiles`, `Names83`, `TosFiles`

The host's directories are a set of entries (directory, name as the host spells it,
file); `tos_path_to_unix` is where `Walk`, the recursion over the components of a path
by `Lookup`, ends. A component
is taken as it stands if the host has it (`Exact`), else the directory is scanned for
a name that is equal but for case or whose 8.3 form is (`Matches`), in whatever order
`readdir` lists it; the last component may be new. `errno` is carried along, as a
lookup that scans leaves ENOENT behind and Fopen may answer with it. The host's
`open`, `link`, `rename` and so on are modelled as POSIX describes them. Names are
strings with two tables, for strcasecmp and for the 8.3 form; `MCFiles` has an ASSUME
that computes both from the spelling with `Names83`, the translation of the hash.
`NamesAssumption` says what the tables must have for the refinement: no two hashes
collide and no two long names differ only in case. The hash is one of 15 bits, so both can
happen to a user; a program then reaches only one of the two files, the one that readdir
lists first. A path has a name in it or starts at the root (`FilesAssumption`): of an
empty one the code makes a buffer of no bytes (`path.c:163`). The root itself can be named,
and has no entry that could be renamed or removed (EBUSY).

`ActsAsTos` is the refinement: with every name replaced by its 8.3 form, each call
does what `TosFiles` says, and succeeds exactly when it does there. It is checked for
programs that give no file a hashed name such as `LONG~ZIY.TEX` themselves
(`CarefulSpec`): nothing keeps such a name apart from the long name it stands for.
`FopenAnswers` excepts descriptor 0: once a program has closed it, the next Fopen
gets it from the host, takes it for a failure and answers with a stale errno.

### Arguments: `GemdosArgs`

One step is the start of a program (`LoadExe` with `BuildTosArglist`), one its call of
Pexec up to `execve` (`prepare_args`, `parse_cmdline`). Texts are sequences of
characters, so that lengths and blanks count; the ARGV entry is a token with
the set of the numbers of the empty arguments. How a program finds its arguments and passes others (`Reads`,
`Writes`) is outside the repository; it follows the rule of `prepare_args` itself, that
a length byte of 127 announces the list. What the code computes character by
character (`Words`, `Parse`, `Bytes`) is a recursive function over the text. A path or an
argument is a sequence of its own characters (`ArgsAssumption`).

`ArgsArrive` needs programs to be `Careful`. Arguments have neither blanks nor quotes
(`Plain`): `BuildTosArglist` quotes empty ones only, so one with a blank is read as two,
and `parse_cmdline` drops quoted text but for doubled quotes. An empty argument that goes
by the ARGV procedure arrives as a blank, as `prepare_args` does not decode the list that
`BuildTosArglist` itself writes; and if a program passes its environment on with its
own list in it and a command line that the loader finds too long, the new program
reads the list of the old one, which comes first.

### Instructions: `M68kArith` to `M68kCpu`

A cpu is a record: `d` and `a` are the registers, `x`, `n`, `z`, `v`, `c` the flags,
`mem` the bytes, `exc` the vector a handler raised. Memory is big endian, as the
accessors of `memory.i` make it. A byte has `BB` bits, a word two bytes, a long four;
every constant of the source that is a width or a mask (8, 16, 32, 0x3f, 0x1f, the bit
C is read from) is written in terms of `BB`, so `BB = 8` is the 68020 and a smaller `BB`
the same code on narrower integers. `m68k_in.c` has one handler per instruction, size
and addressing mode, expanded from templates by `m68kmake`; a family that differs only
in these is one action here, with the size and the mode as fields of the opcode. The
opcode and structured extension words (index, bit field, register list, CAS2) are
records of their decoded fields: decoding itself, done by a generated jump table, is not
modelled, but their place in the instruction stream is, as PC-relative modes depend on it.

Flags. The source keeps each flag in an int, in another bit per flag, and reads it
from the unmasked result; `CFlag`, `VFlagAdd`, `CFlagAdd32` and so on are these macros
as arithmetic on numbers without a bound, with the range 2h of the operands as a
parameter, which is what the theorems need. `Read` and `EA` order reads, writes and
increments as the C statements do.

A handler that raises an exception sets `exc` and the run of the program ends; what an
exception does is in `M68kExc`. A program is named by a record; `MCCpu` gives for each
family the programs, their start values and, as the property, a relation between start
and end that is stated on numbers and mentions neither masks nor the flag macros.

Answers of the code that the properties leave out, each named at its property: C after
ROL.L by a register count that is a nonzero multiple of 32 (`m68k_in.c:8481`); bit
fields in memory that reach into a fifth byte (`m68k_in.c:2440`); DIVS of the least
number by -1 (`m68k_in.c:4436`), whose 64-bit form is undefined in C; CHK2 and CMP2 of a
byte in a data register, compared with a signed lower and an unsigned upper bound
(`m68k_in.c:3569`). TRAPcc with an operand leaves the program counter at the operand
(`m68k_in.c:9915`); the model does the same and no program of the run returns from it.

### Modes, exceptions and interrupts: `M68kExc`

A7 is a cache of one of three stack pointers; `SetSM` puts it away under the old S and M
and fetches the other one under the new. One cell of memory is what one push writes, so
a frame is three cells, or four in format 2. `Boot` is the order in which `main` resets
the cpu, gives it a supervisor stack, drops to user mode and sets the user's stack. TRAPs
1, 2, 13 and 14 are answered by the host with no exception; `Supexec` calls its routine
in the caller's mode, as `paratos.c` does. `trail` is history: for each exception in
progress, what its return has to bring back. Cells that have been
pulled are forgotten (`<<>>`): the code overwrites them before it reads them again.

Handlers return from the stack they were entered on (`InHandler`): RTE with whatever a
program left on another stack would be a test of that program. A handler may spoil its
format word, and the format error that follows is an exception in its own right.

`UnwindsInOrder` looks at every exception in progress, not at the innermost only:
`Unwound(k)` is the cpu when those inside the k-th have returned, and from there its RTE
must lead to all that it interrupted. An exception whose own frame is spoiled is left
out; those around it are not.

## Runs

| run | expects | shows |
|---|---|---|
| `mem_any` | pass | any calls, empty blocks included: tiling, one list per node, rover, end of searches, other blocks untouched |
| `mem_careful` | pass | careful programs: distinct addresses, coalescing, exact Malloc(-1), refinement of `MemAbs` |
| `proc` | pass | pid map, exits and dispositions with three processes, one pid negative as an int16_t; blocked waits end |
| `proc_high_pid` | violation | with larger pids a successful Pfork reads as a failure |
| `dir_roomy` | pass | directory handles while memory lasts |
| `dir_full` | violation | Dopendir ignores a failed Malloc; two open directories share address 0 |
| `search` | pass | two DTAs, nested, repeated and abandoned searches in a directory with a dangling link |
| `signals` | pass | masks and pending signals across fork |
| `files` | pass | calls by name in any case or by 8.3 name act as on a file system of 8.3 names; Fopen's answers and descriptors agree |
| `cpu` | pass | short programs of every modelled instruction, from all or the extreme operand values, compute what their families' reference definitions say |
| `cpu_exc` | pass | nested traps, faults and interrupts on three stacks return to what they interrupted; no request left waiting; stacks kept apart |
| `args` | pass | arguments and environment through a chain of programs, with command lines that reach the end of their field |

Some properties are conjunctions of the parts named above them in their module, the
type invariant among them: `PidMapSound`, `HandlesSound`, `PointersSound`, `TreeSound`.

Two disagreements of code and comments are hazards without a run. Mshrink to the size a
block has puts an empty block on the free list, after which Malloc(-1) reports less
than is free in one piece (against `mem.c:56`): `MaxIsLongestStretch` is checked for
programs that make no such call. Pexec hands the caller's signal mask to the new program
(against `signals.c:246-248`): in `GemdosSignals` a new program starts with
the mask it inherits and counts it as its own (`given`).

Bounds. Memory: five nodes (four user blocks and a spare), 16 bytes in units of four;
enough for a block with free neighbours on both sides, for empty blocks at either
end, and for a freed node that comes back. Processes: three pids, so there are a
parent, a child and a sibling or grandchild, and pids are reused; `PidMod` 6 makes
pid 3 negative. Flags 0 and 3 of Pwaitpid are a wait for an end and a look, without
waiting, at ends and stops. `CodeMod` 4 and code 7 make exit() lose
bits. Directories: two streams, one entry each. Searches: two DTAs, three objects
(one may be leaked while both DTAs are in use), four entries of four kinds. Signals: two
processes, four masks that mix blockable, unblockable and numberless bits.
Files: three files or directories, four descriptors of which one is free at first,
a name in two cases and a long name with its 8.3 name, paths of one and two
components and an absolute one, so that a directory can be renamed into, removed
while it is the current one, and shadowed by a name in the other case; `VIEW` leaves
out the last answer, on which no step depends. Arguments: a command line of five
bytes, up to three arguments of none to two characters, two TOS programs and a host
program, and two calls of Pexec in a row: lines end before, at and after the limit.
Instructions: `BB` 3, so that a long has 12 bits, a program is at 32 and its data in 32
bytes below; operands take all values of a byte and the edges of a word and a long
(0, 1, greatest and least signed, -1), shift counts all values to beyond the width, bit
fields all offsets and widths around the ends of a byte and of a register. 12 bits is the
widest at which the 64-bit products of MULL stay within TLC's integers. Exceptions:
`Depth` 11 cells, two exceptions in progress (a third frame is pushed by an interrupt on
the master stack), request levels 0, 4 and 7 and masks 0 and 5, so that one request is
held back by a mask, one is not and one cannot be; `Installed` leaves one autovector out.
Deadlock is not checked for the GEMDOS models and for `cpu_exc`: a program may stop
calling, all processes may end, and a halted cpu stays so. It is checked for `cpu`: every
program goes on to its end.

Fairness (`proc`): weak fairness of PwaitpidWakes and PexecReturns for each
process. A host that has something to report to a process blocked in `wait4` wakes
it; nothing is assumed of the programs, of signals or of children. `M68kCpu` assumes
weak fairness of Next, as `main` calls `m68k_execute` for ever; no property of its run
needs it, as each is about the state at a program's end.

## Proofs

TLC shows a property for one instance; the theorems hold for every value of the
constants. Of the 40 properties that the passing runs check, 30 are theorems. Each
proof has the same shape: lemmas that say what the operators of the model keep, an
inductive invariant, one step per action, and PTL for the temporal conclusion.
Assumptions are the named ones of the modules (`MemAssumption` and so on), which TLC
evaluates in the runs, and the hypotheses named below.

**The allocator** (`MemBlocksProofs`, `MemProofs`). For every memory size, jar size and
sequence of calls: `TypeCorrect`, `NodesSafe`, `MemoryTiled`, `RoverSafe`, `MallocReturns`
and the action property `BlocksStable`. The inductive invariant `IndInv` joins, for the
record `mem`: the types; that free and used list are injective, disjoint and together
hold exactly the nodes in use; that each byte between MemBot and MemTop is in exactly
one block (`Tiles`); that the rover is on the free list or Null with the list empty;
and, before the jar is reserved, the exact state that InitMemory left. Tiling alone is
not inductive, as freeBlock joins two blocks only if no third node has the same bytes,
and the end of a search needs the rover's place.

For programs that make no empty block (`CarefulSpec`): `AddressesIdentify`,
`MaxIsLongest`, and `PromiseKept`, the refinement of `MemAbs`. They need `CarefulInv`,
which adds to `IndInv` that no block is empty and that the free list is sorted with no
two neighbours that touch (`Order`). Without it "no free block is large enough" would not
mean "there is no room", which is what `MemAbs` promises when Malloc answers 0, and
Malloc(-1) would tell the longest block and not the longest stretch. `Order(m, T)` allows
neighbours at the places T to touch; freeBlock passes through such states before it
joins with the block below and the one above. The refinement maps each action to the
action of the same name, with the reserved blocks those of the used list.

**Directory handles** (`DirProofs`). `HandlesStaySound` and `ClosesWithRoom` (Dclosedir
closes the stream of its handle) hold for a program that leaves room for its handles,
as `dir_full` shows that they must. The invariant is `Memory /\ HandlesSound /\ Apart`: the
lists are sound, and no two handles share a stream or a block with the program's own.
Without `Apart` a close could take another directory's stream with it, and an Mfree of
the program's own block release a handle. `BadHandleNeedsFailure` (EIHNDL of Dreaddir,
which is decided by a stale errno, never comes before a host call has failed) needs no
room: its invariant is that errno was set by a failure.

**Searches** (`SearchProofs`). `PointersStaySound`, `InfoStaysTrue`, `SearchesStayApart` and
`SearchesFindAll`, for any number of DTAs and every directory whose entries have distinct
names that are not empty. The invariant `Sound` says that pointers of DTAs lead to
different live objects, and that objects which no DTA leads to are the ones abandoned by
a second Fsfirst; `Progress` that what a search has reported is what matches among the
entries it has passed. `SearchesFindAll` assumes that the patterns are names or `*.*`, as
any other pattern is compared as if it were a name.

**Processes** (`ProcProofs`). `KidsStayWaitable`, `DispositionsRestored` and
`AnswersAboutKids` hold for every table of pids; `PidMapStaysSound` under `PidsFit`, that
no pid reads as -1 in 16 bits and no two read the same, which Linux's default limit of
32768 guarantees; `ForkAnswersBySign` if pids are below half of PidMod (`proc_high_pid`
shows the need). The invariant is `Table /\ Maps /\ KidsWaitable /\ Waits /\ Dispositions`.
`Waits` is about calls under way: what a blocked Pwaitpid translated its argument to is
still what that argument stands for, and the child that Pexec waits for is not one that
the program knows of, so that its waitpid takes no exit from Pwaitpid.

**Signals** (`ProgramProofs`). `BlockedStaysSafe`, `MaskReadsBack` and `PendingIsHeld`, for
every set of processes and any masks. The invariant `Follows` ties the host's mask and
pending set to the program's view of them through the table of signal numbers, of which
a lemma shows that it is injective and that exactly signals 9 and 17 cannot be blocked.

**Modes and exceptions** (`M68kProofs`). For stacks of every depth, every nesting and
every set of levels, masks and traps: `TypeCorrect`, `NothingWaits`, `StacksStayApart` and
`SupervisorByVector`. The inductive invariant is `IInv == TypeOK /\ Supervising(cpu.mem) /\
NoneLeftWaiting`, where `Supervising` says that the status register of every throwaway
frame in memory has S set. It is needed because an RTE takes its new status register
from memory: without it a throwaway frame could switch to the user's stack, and pulling
the second frame would move the user's pointer.

`ExceptionsUnwind` (`UnwindsInOrder`) needs to know where each frame is. `Stacked` says, of
each exception in progress, that with the stack pointers as those inside it leave them,
its frame lies at its handler's pointer and holds what has to come back, a throwaway
frame together with the normal one on the master stack (`Standing`); that stack pointers
only rise from an exception to the one around it, so that no push reaches an outer frame;
that an interrupt which follows the return finds room; and that no exception returns
into Supexec's routine, whose RTS would take a cell of a frame, but the outermost. A
frame stands as long as memory above the stack pointers stays as it is (`StandsOn`, `Agree`); a new exception adds one
frame below all others (`AppendStacks`), a return takes the lowest away (`ReturnStacks`).

**Flags** (`M68kProofs`). For operands of every width (h is half their range):
`AdditionFlags`, `SubtractionFlags` (V is signed overflow and the 32-bit C, rebuilt from
sign bits, is the carry or the borrow, with and without the extend bit) and
`ConditionsOrder` (after a comparison HI, LS, CC, CS, GE, LT, GT, LE, EQ and NE are the
orders of the operands). They are why 12 bits are enough for the additive part of `cpu`:
the argument does not depend on the width.

**Files** (`FilesProofs`). For trees of every size and any names and paths that satisfy the
assumptions: `TreeStaysSound`, `FopenAnswersRight` and `FilesActAsTos`, the refinement of
`TosFiles`. The inductive invariant `IInv` is `Sound(fs, cwd)` with the types of
descriptors and errno. `Sound` adds to `TreeSound` that every entry is in a directory that
is linked, that no entry has a hashed name, and that a directory without an entry is the current
one. Without the first, a removed current directory could be given entries and vanish with
them; without the second a new name could have the 8.3 form of an old one and still be
found by neither lookup.

The proof goes along the path. `FindIs` says what one `Lookup` finds: the one entry with the
8.3 form of the component, however the host lists the directory, if there is one.
`LookupLeads` and `PathLeads` carry this over the components: where `Walk` leads is where
the recursion of `TosFiles` leads by 8.3 forms. Then each host call either fails and
changes nothing or does what it does in `TosFiles` (`UnlinkDoes`, `RenameDoes`,
`OpenDoes` ...), to the tree and to what a listing shows of it (`ViewAdds`, `ViewDrops`),
and each GEMDOS call is a step of `TosFiles` (`FdeleteActs` to `FopenActs`). That a
recursion defines what it says needs an induction over the length of the path; the
library's induction theorems take an operator, so `SetInduction` states it for a set of numbers,
by the well-foundedness of < on Nat.

**Arguments** (`ProgramProofs`). For texts, command lines, environments and chains of any
length: `ArraysAlwaysFit`, for every program, and `ArgsAlwaysArrive`, for careful ones.
The invariant of the first, `ArgsInv`, adds only types to `ArraysFit`; the work is in what one
call counts and writes. `ParsedKeeps` says that parse_cmdline, whatever it reads, has
counted a byte for each character that it stores and, for each word but the last, its
closing 0 (`Fits`); `PexecFits` that the vector of each way of passing arguments, moved by the
ParaTos executable and closed by NULL, ends within the pointers that read_env and
prepare_args allocate.

`ArgsAlwaysArrive` is a round trip. `WordRead`: if parse_cmdline stands between two words
of a line that BuildTosArglist wrote, it stands between the next two when it has read the
next word, quotes of an empty one included, and has added exactly that word; so it reads
all of them (`WordsRead`), from the loader's line with its first blank and from a program's
without (`LineRead`). `ListFound` says that an ARGV list put behind an environment without one
is found where it was put, with its empty arguments; `PageReads` that a program reads
the arguments of LoadExe from the line, or from the list if the line was cut. The
invariant `ArriveInv` adds to what `ArgsArrive` says that, while a program is being loaded, its
vector is ParaTos and what the caller meant, and that there is no older list in its
environment if the line will be cut. Without the second the old list would be found
first: that is what `Careful` asks of a caller.

Only model-checked: the liveness properties `WaitEnds` and `PexecEnds` (fairness and ENABLED
are out of TLAPS's reach) and the properties of `cpu` (`M68kCore` has
a RECURSIVE operator and `M68kAlu` uses Bitwise, which TLAPS cannot handle either).

## Not modelled

Of the emulator: decimal arithmetic (ABCD, SBCD, NBCD, PACK, UNPK), MOVES, CALLM and
RTM, BKPT, RESET and the coprocessor opcodes; tracing and address
errors, which `m68kconf.h` turns off, bus errors, which nothing raises, and the vector
base register; a format error found
behind a throwaway frame; the 68000, 68010 and 68EC020 variants, which `main` does not
select; cycle counts, as time has no effect on a guest without devices. The disassembler
serves messages only, and `m68kmake` runs when the program is built.

Of the rest: the layout of structures other than those named above; the console; host
`malloc` failures; EINTR, which cannot occur without handlers; the thin wrappers of host
calls for ids, priorities and clocks; the cookie jar after its start; sizes near 2^31.
The models of the calls let a program make any sequence of calls and are not composed
with the instructions that make it. `PROJECT.json` lists each part with its status.

## Plan

1. Fselect and Fpoll on pipes (a hang-up must wake a reader), Fpipe, Fread and Fwrite
   across fork, on the descriptors of `GemdosFiles`.
2. The loader's fixups and the dates, checked against reference definitions.
3. `GemdosProc` with the ids, process groups and Pkill; `GemdosDir` with Dreaddir's
   buffer sizes; the decimal instructions.
4. Proofs: the bit-wise operators of `M68kAlu` on sets of bits, so that the logic and shift
   instructions can be proved for every width as the additive ones are.
