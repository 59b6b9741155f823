--------------------------- MODULE GemdosSignals ---------------------------
(***************************************************************************)
(* Signal masks: Psigblock, Psigsetmask, Psigpause, Psigpending and Pause  *)
(* of gemdos/signals.c, across Pfork and Pexec.  The guest numbers signals *)
(* the MiNT way and a mask is a 32-bit word; the host keeps a set of its   *)
(* own signals.  No guest handler can be installed (Psignal and Psigaction *)
(* answer ENOSYS), so a signal either ends its process or does nothing.    *)
(***************************************************************************)
EXTENDS Integers, FiniteSets, Sequences

CONSTANTS
  Proc,    \* processes; a child takes a free one
  First,   \* the process that runs at the start
  Masks,   \* masks the program passes, as sets of bit numbers
  Sent     \* MiNT numbers of the signals that reach a process

ASSUME SignalAssumption ==
  /\ First \in Proc
  /\ Masks \subseteq SUBSET (0 .. 31)
  /\ Sent \subseteq 1 .. 31

(* The signals that a mask can hold back in MiNT's numbering: neither SIGKILL
   (9) nor SIGSTOP (17), nor bits that stand for no signal.                *)
Blockable == 1 .. 31 \ {7, 9, 17}

VARIABLES
  life,      \* "free", "run", "paused" (in Psigpause or Pause) or "dead"
  mask,      \* the host's set of blocked signals of each process
  pending,   \* signals the host holds back for each process
  given,     \* what the program of each process asked for, in MiNT numbers
  held,      \* signals sent to it while it had them blocked, in MiNT numbers
  ret        \* the last call and its answer

sigvars == <<life, mask, pending, given, held, ret>>

-----------------------------------------------------------------------------
(* The host's (Linux) number of each MiNT signal; 0 for MINT_SIGPRIV, which
   has no counterpart.                                                     *)
HostOf == << 1,  2,  3,  4,  5,  6,  0,  8,  9,  7, 11, 31, 13, 14, 15, 23,
            19, 20, 18, 17, 21, 22, 29, 24, 25, 26, 27, 28, 10, 12, 30>>

(* Bits 0 (MINT_SIGNULL) and 7 stand for no host signal. *)
Mapped == {n \in DOMAIN HostOf : HostOf[n] # 0}

(* Mutant: the numbers are taken over as they are. *)
SameNumbers(bits) == bits \cap Mapped

mask_to_sigset(bits) == {HostOf[n] : n \in bits \cap Mapped}

sigset_to_mask(set) == {n \in Mapped : HostOf[n] \in set}

(* What the host leaves out of a mask, and signals that do nothing to a
   process without handlers: SIGURG, SIGCONT, SIGCHLD and SIGWINCH.        *)
Unblockable == {9, 19}
Harmless    == {23, 18, 17, 28}
Deadly      == 1 .. 31 \ Harmless

-----------------------------------------------------------------------------
Running(p) == life[p] = "run"

SigInit ==
  /\ life = [p \in Proc |-> IF p = First THEN "run" ELSE "free"]
  /\ mask = [p \in Proc |-> {}]
  /\ pending = [p \in Proc |-> {}]
  /\ given = [p \in Proc |-> {}]
  /\ held = [p \in Proc |-> {}]
  /\ ret = [call |-> "none"]

(* The host's mask of p becomes set: what was held back and is no longer
   blocked reaches the process now, and ends it unless it is harmless.     *)
SetMask(p, set, mode) ==
  LET new   == set \ Unblockable
      comes == pending[p] \ new
  IN /\ mask' = [mask EXCEPT ![p] = new]
     /\ pending' = [pending EXCEPT ![p] = @ \cap new]
     /\ life' = [life EXCEPT ![p] = IF comes \cap Deadly # {} THEN "dead" ELSE mode]

Psigblock(p, bits) ==
  /\ Running(p)
  /\ SetMask(p, mask[p] \cup mask_to_sigset(bits), "run")
  /\ given' = [given EXCEPT ![p] = @ \cup bits]
  /\ held' = held
  /\ ret' = [call |-> "Psigblock", to |-> p, old |-> sigset_to_mask(mask[p])]

Psigsetmask(p, bits) ==
  /\ Running(p)
  /\ SetMask(p, mask_to_sigset(bits), "run")
  /\ given' = [given EXCEPT ![p] = bits]
  /\ held' = [held EXCEPT ![p] = @ \cap bits]
  /\ ret' = [call |-> "Psigsetmask", to |-> p, old |-> sigset_to_mask(mask[p])]

(* Mutant: the process waits with nothing blocked. *)
PsigpauseOpen(p, bits) ==
  /\ Running(p)
  /\ SetMask(p, {}, "paused")
  /\ given' = [given EXCEPT ![p] = bits]
  /\ held' = [held EXCEPT ![p] = @ \cap bits]
  /\ ret' = [call |-> "Psigpause", to |-> p]

(* sigsuspend comes back only from a handler, and there is none. *)
Psigpause(p, bits) ==
  /\ Running(p)
  /\ SetMask(p, mask_to_sigset(bits), "paused")
  /\ given' = [given EXCEPT ![p] = bits]
  /\ held' = [held EXCEPT ![p] = @ \cap bits]
  /\ ret' = [call |-> "Psigpause", to |-> p]

Pause(p) ==
  /\ Running(p)
  /\ life' = [life EXCEPT ![p] = "paused"]
  /\ ret' = [call |-> "Pause", to |-> p]
  /\ UNCHANGED <<mask, pending, given, held>>

(* Mutant: the mask is returned for the pending signals. *)
PsigpendingMask(p) ==
  /\ Running(p)
  /\ ret' = [call |-> "Psigpending", to |-> p, res |-> sigset_to_mask(mask[p])]
  /\ UNCHANGED <<life, mask, pending, given, held>>

Psigpending(p) ==
  /\ Running(p)
  /\ ret' = [call |-> "Psigpending", to |-> p, res |-> sigset_to_mask(pending[p])]
  /\ UNCHANGED <<life, mask, pending, given, held>>

-----------------------------------------------------------------------------
(* Another process sends the signal with MiNT number n. *)
Arrives(p, n) ==
  /\ life[p] \in {"run", "paused"} /\ n \in Mapped
  /\ IF HostOf[n] \in mask[p]
     THEN /\ pending' = [pending EXCEPT ![p] = @ \cup {HostOf[n]}]
          /\ UNCHANGED life
     ELSE /\ life' = [life EXCEPT ![p] = IF HostOf[n] \in Deadly THEN "dead" ELSE @]
          /\ UNCHANGED pending
  /\ held' = [held EXCEPT ![p] = @ \cup ({n} \cap given[p] \cap Blockable)]
  /\ ret' = [call |-> "signal", to |-> p, n |-> n]
  /\ UNCHANGED <<mask, given>>

(* The host's fork copies the mask and leaves the pending signals behind. *)
Start(p, c, call) ==
  /\ Running(p) /\ life[c] = "free"
  /\ life' = [life EXCEPT ![c] = "run"]
  /\ mask' = [mask EXCEPT ![c] = mask[p]]
  /\ pending' = [pending EXCEPT ![c] = {}]
  /\ given' = [given EXCEPT ![c] = given[p]]
  /\ held' = [held EXCEPT ![c] = {}]
  /\ ret' = [call |-> call, to |-> p, child |-> c]

Pfork(p, c) == Start(p, c, "Pfork")

(* Pexec(0): fork, then Pexec(200) in the child; execve keeps the mask. *)
PexecInherits(p, c) == Start(p, c, "Pexec")

(* The parent collects a child that has ended. *)
Gone(p) ==
  /\ life[p] = "dead" /\ p # First
  /\ life' = [life EXCEPT ![p] = "free"]
  /\ mask' = [mask EXCEPT ![p] = {}]
  /\ pending' = [pending EXCEPT ![p] = {}]
  /\ given' = [given EXCEPT ![p] = {}]
  /\ held' = [held EXCEPT ![p] = {}]
  /\ ret' = [call |-> "none"]

SigNext ==
  \E p \in Proc :
    \/ \E bits \in Masks : Psigblock(p, bits) \/ Psigsetmask(p, bits) \/ Psigpause(p, bits)
    \/ Pause(p)
    \/ Psigpending(p)
    \/ \E n \in Sent : Arrives(p, n)
    \/ \E c \in Proc : Pfork(p, c) \/ PexecInherits(p, c)
    \/ Gone(p)

SigSpec == SigInit /\ [][SigNext]_sigvars

-----------------------------------------------------------------------------
(* Type invariant of the processes and their host sets. *)
SigTypeOK ==
  /\ life \in [Proc -> {"free", "run", "paused", "dead"}]
  /\ mask \in [Proc -> SUBSET (1 .. 31 \ Unblockable)]
  /\ \A p \in Proc : pending[p] \subseteq mask[p]

(* The mask a program reads back is the one it built up by its calls, over any
   number of them and across Pfork: the two conversions lose and confuse
   nothing but the signals that cannot be blocked.                         *)
MaskIsGiven ==
  [][ret'.call \in {"Psigblock", "Psigsetmask"} =>
       ret'.old = given[ret'.to] \cap Blockable]_sigvars

(* A blocked signal ends no process: one that dies was sent, now or earlier, a
   signal that its program does not block any more; and what is pending is
   blocked, so that nothing waits that could be delivered.                 *)
BlockedIsSafe ==
  /\ []SigTypeOK
  /\ [][\A p \in Proc : life[p] # "dead" /\ life'[p] = "dead" =>
          \/ ret'.call = "signal" /\ ret'.n \notin given[p] \cap Blockable
          \/ held[p] \ given'[p] # {}]_sigvars

(* Psigpending reports exactly the signals that came while they were blocked
   and have been blocked ever since.                                       *)
PendingReported ==
  [][ret'.call = "Psigpending" => ret'.res = held[ret'.to]]_sigvars

=============================================================================
