---------------------------- MODULE ProgramProofs ----------------------------
(* Proofs about what a program gets from the one that starts it, for every
   chain of programs and every sequence of calls: the signals it blocks and
   those held back for it, and its arguments and environment.                *)
EXTENDS GemdosSignals, GemdosArgs, TLAPS, WellFoundedInduction, SequenceTheorems

-----------------------------------------------------------------------------
(* The table of signal numbers. *)

(* The MiNT number of each host signal that has one; SIGSTKFLT (16) has none. *)
TosOf == << 1,  2,  3,  4,  5,  6, 10,  8,  9, 29, 11, 30, 13, 14, 15,  0,
           20, 19, 17, 18, 21, 22, 16, 24, 25, 26, 27, 28, 23, 31, 12>>

(* The table has no two MiNT signals with the same host number, and exactly
   the signals that the host does not block are unblockable for MiNT.        *)
LEMMA TableSound ==
  ASSUME NEW n \in 1 .. 31
  PROVE  /\ HostOf[n] \in 0 .. 31
         /\ HostOf[n] = 0 <=> n = 7
         /\ HostOf[n] # 0 => TosOf[HostOf[n]] = n
         /\ HostOf[n] \in Unblockable <=> n \in {9, 17}
BY DEF HostOf, TosOf, Unblockable

(* All MiNT signals but 7 have a host number. *)
LEMMA MappedIs == DOMAIN HostOf = 1 .. 31 /\ Mapped = 1 .. 31 \ {7}
<1>1. DOMAIN HostOf = 1 .. 31
  BY DEF HostOf
<1> QED
  BY <1>1, TableSound DEF Mapped

(* The host's numbers of a set of MiNT signals. *)
Hosts(sigs) == {HostOf[n] : n \in sigs}

(* A set of signals and the host numbers of it tell the same. *)
LEMMA HostsSound ==
  ASSUME NEW S \in SUBSET Blockable, NEW n \in 1 .. 31 \ {7}
  PROVE  /\ HostOf[n] \in Hosts(S) <=> n \in S
         /\ Hosts(S) \subseteq 1 .. 31 \ Unblockable
<1>1. \A k \in S : k \in 1 .. 31 /\ k # 7 /\ k # 9 /\ k # 17
  BY DEF Blockable
<1>2. HostOf[n] \in Hosts(S) => n \in S
  <2> SUFFICES ASSUME NEW k \in S, HostOf[k] = HostOf[n]
               PROVE  n \in S
    BY DEF Hosts
  <2>1. TosOf[HostOf[k]] = k /\ TosOf[HostOf[n]] = n
    BY <1>1, TableSound
  <2> QED
    BY <2>1
<1>3. \A k \in S : HostOf[k] \in 1 .. 31 \ Unblockable
  BY <1>1, TableSound
<1> QED
  BY <1>2, <1>3 DEF Hosts

(* What mask_to_sigset keeps of a mask, and what sigset_to_mask makes of it. *)
LEMMA ConversionsInvert ==
  ASSUME NEW bits \in SUBSET (0 .. 31)
  PROVE  mask_to_sigset(bits) \ Unblockable = Hosts(bits \cap Blockable)
<1>1. \A n \in bits \cap Mapped : HostOf[n] \notin Unblockable <=> n \in bits \cap Blockable
  BY TableSound, MappedIs DEF Blockable
<1>2. bits \cap Blockable \subseteq bits \cap Mapped
  BY MappedIs DEF Blockable
<1> QED
  BY <1>1, <1>2 DEF mask_to_sigset, Hosts

(* What was translated to host numbers is translated back to what it was. *)
LEMMA ReadBack ==
  ASSUME NEW S \in SUBSET Blockable
  PROVE  sigset_to_mask(Hosts(S)) = S
<1>1. S \subseteq Mapped
  BY MappedIs DEF Blockable
<1> QED
  BY <1>1, HostsSound, MappedIs DEF sigset_to_mask

-----------------------------------------------------------------------------
(* The host's sets are, number by number, the program's own view of what it
   blocks and of what was sent meanwhile.                                    *)
Follows ==
  /\ life \in [Proc -> {"free", "run", "paused", "dead"}]
  /\ given \in [Proc -> SUBSET (0 .. 31)]
  /\ held \in [Proc -> SUBSET Blockable]
  /\ mask \in [Proc -> SUBSET Nat] /\ pending \in [Proc -> SUBSET Nat]
  /\ \A p \in Proc :
       /\ held[p] \subseteq given[p]
       /\ mask[p] = Hosts(given[p] \cap Blockable)
       /\ pending[p] = Hosts(held[p])

(* Two sets of MiNT signals have in common what their host sets have. *)
LEMMA HostsMeet ==
  ASSUME NEW S \in SUBSET Blockable, NEW T \in SUBSET Blockable
  PROVE  Hosts(S) \cap Hosts(T) = Hosts(S \cap T)
<1>1. \A n \in S : HostOf[n] \in Hosts(T) <=> n \in T
  BY HostsSound DEF Blockable
<1> QED
  BY <1>1 DEF Hosts

(* Every change of the mask: a process whose program asks for bits has these
   blocked, keeps what is still held back, and ends only by what is not.     *)
LEMMA SetMaskFollows ==
  ASSUME Follows, NEW p \in Proc, NEW set, NEW mode \in {"run", "paused"},
         NEW bits \in SUBSET (0 .. 31),
         set \ Unblockable = Hosts(bits \cap Blockable),
         SetMask(p, set, mode),
         given' = [given EXCEPT ![p] = bits],
         held' = [held EXCEPT ![p] = @ \cap bits]
  PROVE  /\ Follows'
         /\ life'[p] = "dead" => held[p] \ given'[p] # {}
         /\ \A q \in Proc \ {p} : life'[q] = life[q]
<1> DEFINE new == Hosts(bits \cap Blockable)
<1>1. /\ mask' = [mask EXCEPT ![p] = new]
      /\ pending' = [pending EXCEPT ![p] = @ \cap new]
      /\ life' = [life EXCEPT ![p] =
                    IF (pending[p] \ new) \cap Deadly # {} THEN "dead" ELSE mode]
  BY DEF SetMask
<1>2. pending[p] \cap new = Hosts(held[p] \cap bits)
  <2>1. pending[p] = Hosts(held[p]) /\ held[p] \in SUBSET Blockable
    BY DEF Follows
  <2>2. bits \cap Blockable \in SUBSET Blockable /\ held[p] \cap (bits \cap Blockable) = held[p] \cap bits
    BY <2>1
  <2> QED
    BY <2>1, <2>2, HostsMeet
<1>3. new \in SUBSET Nat
  BY HostsSound
<1>4. held[p] \subseteq bits => pending[p] \subseteq new
  BY <1>2 DEF Follows
<1> HIDE DEF new
<1>5. /\ life' \in [Proc -> {"free", "run", "paused", "dead"}]
      /\ \A q \in Proc \ {p} : life'[q] = life[q]
      /\ life'[p] = "dead" => ~ (pending[p] \subseteq new)
  BY <1>1 DEF Follows
<1>6. /\ given' \in [Proc -> SUBSET (0 .. 31)]
      /\ held' \in [Proc -> SUBSET Blockable]
      /\ mask' \in [Proc -> SUBSET Nat] /\ pending' \in [Proc -> SUBSET Nat]
  BY <1>1, <1>3 DEF Follows
<1>7. ASSUME NEW q \in Proc
      PROVE  /\ held'[q] \subseteq given'[q]
             /\ mask'[q] = Hosts(given'[q] \cap Blockable)
             /\ pending'[q] = Hosts(held'[q])
  <2>1. CASE q = p
    BY <2>1, <1>1, <1>2 DEF Follows, new
  <2>2. CASE q # p
    BY <2>2, <1>1 DEF Follows
  <2> QED
    BY <2>1, <2>2
<1>8. life'[p] = "dead" => held[p] \ given'[p] # {}
  BY <1>4, <1>5 DEF Follows
<1> QED
  BY <1>5, <1>6, <1>7, <1>8 DEF Follows

(* The host's set that Psigblock asks for. *)
LEMMA BlockedTogether ==
  ASSUME Follows, NEW p \in Proc, NEW bits \in SUBSET (0 .. 31)
  PROVE  (mask[p] \cup mask_to_sigset(bits)) \ Unblockable
           = Hosts((given[p] \cup bits) \cap Blockable)
<1> DEFINE old == given[p] \cap Blockable
<1>1. mask[p] = Hosts(old) /\ old \in SUBSET Blockable
  BY DEF Follows
<1>2. Hosts(old) \cap Unblockable = {}
  BY <1>1, HostsSound
<1>3. (mask[p] \cup mask_to_sigset(bits)) \ Unblockable = Hosts(old) \cup Hosts(bits \cap Blockable)
  BY <1>1, <1>2, ConversionsInvert
<1>4. Hosts(old) \cup Hosts(bits \cap Blockable) = Hosts(old \cup (bits \cap Blockable))
  BY DEF Hosts
<1>5. old \cup (bits \cap Blockable) = (given[p] \cup bits) \cap Blockable
  OBVIOUS
<1> QED
  BY <1>3, <1>4, <1>5

(* Nothing is blocked and nothing pending at the start. *)
LEMMA InitFollows == SigInit => Follows
<1> SUFFICES ASSUME SigInit PROVE Follows
  OBVIOUS
<1>1. Hosts({}) = {}
  BY DEF Hosts
<1> QED
  BY <1>1 DEF SigInit, Follows

(* What a step that gives p its answer says of a process that ends by it. *)
Explained ==
  \A p \in Proc : life[p] # "dead" /\ life'[p] = "dead" =>
    \/ ret'.call = "signal" /\ ret'.n \notin given[p] \cap Blockable
    \/ held[p] \ given'[p] # {}

(* Every action keeps the host in step with the program, and answers accordingly. *)
LEMMA StepFollows ==
  ASSUME Follows, [SigNext]_sigvars
  PROVE  Follows' /\ Explained
<1> USE SignalAssumption
<1>1. ASSUME NEW p \in Proc, NEW bits \in Masks, Psigblock(p, bits)
      PROVE  Follows' /\ Explained
  <2>1. bits \in SUBSET (0 .. 31) /\ given[p] \cup bits \in SUBSET (0 .. 31)
    BY DEF Follows
  <2>2. /\ given' = [given EXCEPT ![p] = given[p] \cup bits]
        /\ held' = [held EXCEPT ![p] = @ \cap (given[p] \cup bits)]
    BY <1>1 DEF Psigblock, Follows
  <2>3. /\ SetMask(p, mask[p] \cup mask_to_sigset(bits), "run")
        /\ (mask[p] \cup mask_to_sigset(bits)) \ Unblockable
             = Hosts((given[p] \cup bits) \cap Blockable)
    BY <1>1, <2>1, BlockedTogether DEF Psigblock
  <2> QED
    BY <2>1, <2>2, <2>3, SetMaskFollows DEF Explained
<1>2. ASSUME NEW p \in Proc, NEW bits \in Masks,
             Psigsetmask(p, bits) \/ Psigpause(p, bits)
      PROVE  Follows' /\ Explained
  <2>1. bits \in SUBSET (0 .. 31)
    OBVIOUS
  <2>2. PICK mode \in {"run", "paused"} : SetMask(p, mask_to_sigset(bits), mode)
    BY <1>2 DEF Psigsetmask, Psigpause
  <2>3. /\ given' = [given EXCEPT ![p] = bits]
        /\ held' = [held EXCEPT ![p] = @ \cap bits]
    BY <1>2 DEF Psigsetmask, Psigpause
  <2> QED
    BY <2>1, <2>2, <2>3, ConversionsInvert, SetMaskFollows DEF Explained
<1>3. ASSUME NEW p \in Proc, Pause(p) \/ Psigpending(p)
      PROVE  Follows' /\ Explained
  BY <1>3 DEF Pause, Psigpending, Running, Follows, Explained
<1>4. ASSUME NEW p \in Proc, NEW n \in Sent, Arrives(p, n)
      PROVE  Follows' /\ Explained
  <2> DEFINE seen == {n} \cap given[p] \cap Blockable
  <2>1. n \in 1 .. 31 \ {7} /\ given[p] \cap Blockable \in SUBSET Blockable
    BY <1>4, MappedIs DEF Arrives
  <2>2. HostOf[n] \in mask[p] <=> n \in given[p] \cap Blockable
    <3>1. HostOf[n] \in Hosts(given[p] \cap Blockable) <=> n \in given[p] \cap Blockable
      BY <2>1, HostsSound
    <3> QED
      BY <3>1 DEF Follows
  <2>3. pending' = [pending EXCEPT ![p] = @ \cup Hosts(seen)]
    <3>1. CASE n \in given[p] \cap Blockable
      <4>1. Hosts(seen) = {HostOf[n]}
        BY <3>1 DEF Hosts
      <4> QED
        BY <4>1, <3>1, <2>2, <1>4 DEF Arrives
    <3>2. CASE n \notin given[p] \cap Blockable
      <4>1. Hosts(seen) = {}
        BY <3>2 DEF Hosts
      <4> QED
        BY <4>1, <3>2, <2>2, <1>4 DEF Arrives, Follows
    <3> QED
      BY <3>1, <3>2
  <2>4. Hosts(held[p]) \cup Hosts(seen) = Hosts(held[p] \cup seen)
    BY DEF Hosts
  <2>5. seen \in SUBSET Blockable /\ Hosts(seen) \in SUBSET Nat /\ seen \subseteq given[p]
    BY HostsSound
  <2>6. held' = [held EXCEPT ![p] = @ \cup seen]
        /\ mask' = mask /\ given' = given
    BY <1>4 DEF Arrives
  <2>7. /\ life' \in [Proc -> {"free", "run", "paused", "dead"}]
        /\ \A q \in Proc : life[q] # "dead" /\ life'[q] = "dead" =>
             q = p /\ n \notin given[p] \cap Blockable
    BY <1>4, <2>2 DEF Arrives, Follows
  <2>8. ret'.call = "signal" /\ ret'.n = n
    BY <1>4 DEF Arrives
  <2>9. Explained
    BY <2>7, <2>8 DEF Explained
  <2> HIDE DEF seen
  <2>10. ASSUME NEW q \in Proc
         PROVE  held'[q] \subseteq given'[q] /\ pending'[q] = Hosts(held'[q])
    <3>1. CASE q = p
      BY <3>1, <2>3, <2>4, <2>5, <2>6 DEF Follows
    <3>2. CASE q # p
      BY <3>2, <2>3, <2>6 DEF Follows
    <3> QED
      BY <3>1, <3>2
  <2>11. held' \in [Proc -> SUBSET Blockable] /\ pending' \in [Proc -> SUBSET Nat]
    BY <2>3, <2>5, <2>6 DEF Follows
  <2> QED
    BY <2>6, <2>7, <2>9, <2>10, <2>11 DEF Follows
<1>5. ASSUME NEW p \in Proc, NEW c \in Proc, Pfork(p, c) \/ PexecInherits(p, c)
      PROVE  Follows' /\ Explained
  <2>1. Hosts({}) = {}
    BY DEF Hosts
  <2>2. PICK call : Start(p, c, call)
    BY <1>5 DEF Pfork, PexecInherits
  <2> QED
    BY <2>1, <2>2 DEF Start, Follows, Explained
<1>6. ASSUME NEW p \in Proc, Gone(p)
      PROVE  Follows' /\ Explained
  <2>1. Hosts({}) = {}
    BY DEF Hosts
  <2> QED
    BY <2>1, <1>6 DEF Gone, Follows, Explained
<1>7. CASE UNCHANGED sigvars
  BY <1>7 DEF sigvars, Follows, Explained
<1> QED
  BY <1>1, <1>2, <1>3, <1>4, <1>5, <1>6, <1>7 DEF SigNext

(* Every reachable state satisfies the inductive invariant, and every end of a
   process is explained.                                                     *)
LEMMA AlwaysFollows == SigSpec => []Follows /\ [][Explained]_sigvars
<1>1. Follows /\ [SigNext]_sigvars => Follows' /\ [Explained]_sigvars
  BY StepFollows
<1> QED
  BY InitFollows, <1>1, PTL DEF SigSpec

-----------------------------------------------------------------------------
(* Psigblock, Psigsetmask and Psigpause only ever block what can be blocked,
   and a process has pending only what it blocks: a blocked signal neither
   ends a process nor waits where it could be delivered.                     *)
THEOREM BlockedStaysSafe == SigSpec => BlockedIsSafe
<1>1. Follows => SigTypeOK
  <2> SUFFICES ASSUME Follows PROVE SigTypeOK
    OBVIOUS
  <2>1. ASSUME NEW p \in Proc
        PROVE  /\ mask[p] \in SUBSET (1 .. 31 \ Unblockable)
               /\ pending[p] \subseteq mask[p]
    <3>1. given[p] \cap Blockable \in SUBSET Blockable /\ held[p] \subseteq given[p] \cap Blockable
      BY DEF Follows
    <3>2. Hosts(given[p] \cap Blockable) \subseteq 1 .. 31 \ Unblockable
      BY <3>1, HostsSound, 1 \in 1 .. 31 \ {7}
    <3>3. Hosts(held[p]) \subseteq Hosts(given[p] \cap Blockable)
      BY <3>1 DEF Hosts
    <3> QED
      BY <3>2, <3>3 DEF Follows
  <2> QED
    BY <2>1 DEF Follows, SigTypeOK
<1> QED
  BY <1>1, AlwaysFollows, PTL DEF BlockedIsSafe, Explained

(* What the calls that answer with a mask make their answer of. *)
LEMMA AnswersOf ==
  ASSUME SigNext
  PROVE  /\ ret'.call \in {"Psigblock", "Psigsetmask"} =>
              ret'.to \in Proc /\ ret'.old = sigset_to_mask(mask[ret'.to])
         /\ ret'.call = "Psigpending" =>
              ret'.to \in Proc /\ ret'.res = sigset_to_mask(pending[ret'.to])
<1> DEFINE Right ==
      /\ ret'.call \in {"Psigblock", "Psigsetmask"} =>
           ret'.to \in Proc /\ ret'.old = sigset_to_mask(mask[ret'.to])
      /\ ret'.call = "Psigpending" =>
           ret'.to \in Proc /\ ret'.res = sigset_to_mask(pending[ret'.to])
<1> PICK p \in Proc :
      \/ \E bits \in Masks : Psigblock(p, bits) \/ Psigsetmask(p, bits) \/ Psigpause(p, bits)
      \/ Pause(p) \/ Psigpending(p) \/ Gone(p)
      \/ \E n \in Sent : Arrives(p, n)
      \/ \E c \in Proc : Pfork(p, c) \/ PexecInherits(p, c)
  BY DEF SigNext
<1>1. ASSUME NEW bits \in Masks, Psigblock(p, bits) \/ Psigsetmask(p, bits)
      PROVE  Right
  BY <1>1 DEF Psigblock, Psigsetmask
<1>2. ASSUME NEW bits \in Masks, Psigpause(p, bits)
      PROVE  Right
  BY <1>2 DEF Psigpause
<1>3. CASE Pause(p) \/ Psigpending(p) \/ Gone(p)
  BY <1>3 DEF Pause, Psigpending, Gone
<1>4. ASSUME NEW n \in Sent, Arrives(p, n)
      PROVE  Right
  BY <1>4 DEF Arrives
<1>5. ASSUME NEW c \in Proc, Pfork(p, c) \/ PexecInherits(p, c)
      PROVE  Right
  BY <1>5 DEF Pfork, PexecInherits, Start
<1> QED
  BY <1>1, <1>2, <1>3, <1>4, <1>5

(* The old mask that Psigblock and Psigsetmask answer with is what the program
   has built up by its calls, its parents' before Pfork included.            *)
THEOREM MaskReadsBack == SigSpec => MaskIsGiven
<1> DEFINE Told == ret'.call \in {"Psigblock", "Psigsetmask"} =>
                     ret'.old = given[ret'.to] \cap Blockable
<1>1. ASSUME Follows, SigNext
      PROVE  Told
  <2>1. ASSUME NEW p \in Proc
        PROVE  sigset_to_mask(mask[p]) = given[p] \cap Blockable
    <3>1. given[p] \cap Blockable \in SUBSET Blockable
      OBVIOUS
    <3> QED
      BY <1>1, <3>1, ReadBack DEF Follows
  <2> QED
    BY <1>1, <2>1, AnswersOf
<1>2. Follows /\ [SigNext]_sigvars => [Told]_sigvars
  BY <1>1
<1> QED
  BY <1>2, AlwaysFollows, PTL DEF SigSpec, MaskIsGiven

(* Psigpending answers with exactly the signals that were sent while they were
   blocked and have been blocked since.                                      *)
THEOREM PendingIsHeld == SigSpec => PendingReported
<1> DEFINE Told == ret'.call = "Psigpending" => ret'.res = held[ret'.to]
<1>1. ASSUME Follows, SigNext
      PROVE  Told
  <2>1. ASSUME NEW p \in Proc
        PROVE  sigset_to_mask(pending[p]) = held[p]
    BY <1>1, ReadBack DEF Follows
  <2> QED
    BY <1>1, <2>1, AnswersOf
<1>2. Follows /\ [SigNext]_sigvars => [Told]_sigvars
  BY <1>1
<1> QED
  BY <1>2, AlwaysFollows, PTL DEF SigSpec, PendingReported

-----------------------------------------------------------------------------
(* Recursion over the natural numbers.                                     *)

(* Induction over the natural numbers, for a set of them. *)
LEMMA SetInduction ==
  ASSUME NEW S, 0 \in S, \A n \in Nat : n \in S => n + 1 \in S
  PROVE  Nat \subseteq S
<1> SUFFICES ASSUME Nat \ S # {} PROVE FALSE
  OBVIOUS
<1>1. IsWellFoundedOn(OpToRel(<, Nat), Nat)
  BY NatLessThanWellFounded
<1>2. PICK n \in Nat \ S : \A m \in Nat \ S : ~(<<m, n>> \in OpToRel(<, Nat))
  <2> HIDE DEF OpToRel
  <2>1. (Nat \ S) \subseteq Nat
    OBVIOUS
  <2> QED
    BY <1>1, <2>1, WFMin
<1>3. \A m \in Nat \ S : ~(m < n)
  BY <1>2 DEF OpToRel
<1>4. n - 1 \in Nat \ S
  BY <1>3
<1> QED
  BY <1>3, <1>4

(* The values of V that n steps g lead to from v. *)
Steps(h, V, v, g, n) ==
  /\ h \in [0 .. n -> V] /\ h[0] = v
  /\ \A k \in 1 .. n : h[k] = g[<<k, h[k - 1]>>]

(* Any number of steps can be taken. *)
LEMMA StepsExist ==
  ASSUME NEW V, NEW v \in V, NEW g \in [Nat \X V -> V], NEW n \in Nat
  PROVE  \E h : Steps(h, V, v, g, n)
<1> DEFINE Is(h, m) == h \in [0 .. m -> V] /\ h[0] = v
                       /\ \A k \in 1 .. m : h[k] = g[<<k, h[k - 1]>>]
           S == {m \in Nat : \E h : Is(h, m)}
<1>1. 0 \in S
  <2>1. Is([k \in 0 .. 0 |-> v], 0)
    OBVIOUS
  <2> QED
    BY <2>1
<1>2. ASSUME NEW m \in Nat, m \in S
      PROVE  m + 1 \in S
  <2>1. PICK h : Is(h, m)
    BY <1>2
  <2> DEFINE f == [k \in 0 .. m + 1 |-> IF k = m + 1 THEN g[<<k, h[m]>>] ELSE h[k]]
  <2>2. \A k \in 0 .. m : f[k] = h[k]
    OBVIOUS
  <2>3. f[m + 1] = g[<<m + 1, h[m]>>] /\ h[m] \in V
    BY <2>1
  <2>4. f \in [0 .. m + 1 -> V]
    <3>1. ASSUME NEW k \in 0 .. m + 1
          PROVE  f[k] \in V
      <4>1. CASE k = m + 1
        BY <4>1, <2>3
      <4>2. CASE k \in 0 .. m
        BY <4>2, <2>1, <2>2
      <4> QED
        BY <4>1, <4>2
    <3> QED
      BY <3>1
  <2> HIDE DEF f
  <2>5. \A k \in 1 .. m + 1 : f[k] = g[<<k, f[k - 1]>>]
    <3> TAKE k \in 1 .. m + 1
    <3>1. CASE k = m + 1
      BY <3>1, <2>2, <2>3
    <3>2. CASE k \in 1 .. m
      <4>1. k - 1 \in 0 .. m /\ k \in 0 .. m
        BY <3>2
      <4> QED
        BY <3>2, <4>1, <2>1, <2>2
    <3> QED
      BY <3>1, <3>2
  <2>6. Is(f, m + 1)
    BY <2>1, <2>2, <2>4, <2>5
  <2> QED
    BY <2>6
<1> HIDE DEF S
<1>3. Nat \subseteq S
  BY <1>1, <1>2, SetInduction
<1>4. \A h : Is(h, n) => Steps(h, V, v, g, n)
  BY Zenon DEF Steps
<1> HIDE DEF Is
<1> QED
  BY <1>3, <1>4 DEF S

(* Induction over the first n natural numbers. *)
LEMMA RangeInduction ==
  ASSUME NEW n \in Nat, NEW S, 0 \in S, \A k \in 1 .. n : k - 1 \in S => k \in S
  PROVE  0 .. n \subseteq S
<1> DEFINE T == {k \in Nat : k <= n => k \in S}
<1>1. 0 \in T /\ \A k \in Nat : k \in T => k + 1 \in T
  <2>1. ASSUME NEW k \in Nat, k \in T, k + 1 <= n
        PROVE  k + 1 \in S
    <3>1. k + 1 \in 1 .. n /\ (k + 1) - 1 = k /\ k \in S
      BY <2>1
    <3> QED
      BY <3>1
  <2> QED
    BY <2>1
<1> HIDE DEF T
<1>2. Nat \subseteq T
  BY <1>1, SetInduction
<1> QED
  BY <1>2 DEF T

-----------------------------------------------------------------------------
(* The recursive functions of the model are what their recursions say.     *)

(* The command line word by word. *)
LEMMA WordsToIs ==
  ASSUME NEW C, Blank \in C, SQ \in C, NEW argv \in Seq(Seq(C)), Len(argv) >= 1
  PROVE  /\ WordsTo(argv) \in [0 .. Len(argv) - 1 -> Seq(C)]
         /\ WordsTo(argv)[0] = <<>>
         /\ \A k \in 1 .. Len(argv) - 1 :
              WordsTo(argv)[k] = WordsTo(argv)[k - 1] \o Word(argv[k + 1])
<1> DEFINE n == Len(argv) - 1
           V == Seq(C)
           Is(h) == h = [k \in 0 .. n |-> IF k = 0 THEN <<>> ELSE h[k - 1] \o Word(argv[k + 1])]
<1>0. n \in Nat /\ <<>> \in V
  OBVIOUS
<1>1. ASSUME NEW k \in 1 .. n, NEW w \in V
      PROVE  w \o Word(argv[k + 1]) \in V
  <2>1. argv[k + 1] \in Seq(C)
    OBVIOUS
  <2>2. Word(argv[k + 1]) \in Seq(C)
    BY <2>1 DEF Word
  <2> QED
    BY <2>2
<1>2. WordsTo(argv) = CHOOSE h : Is(h)
  BY DEF WordsTo
<1> HIDE DEF n, V
<1>3. \E h : Is(h)
  <2> DEFINE g == [x \in Nat \X V |-> IF x[1] \in 1 .. n THEN x[2] \o Word(argv[x[1] + 1]) ELSE x[2]]
  <2>1. \A k \in 1 .. n : \A w \in V : g[<<k, w>>] = w \o Word(argv[k + 1])
    <3> TAKE k \in 1 .. n
    <3> TAKE w \in V
    <3>1. <<k, w>> \in Nat \X V /\ <<k, w>>[1] = k /\ <<k, w>>[2] = w
      BY <1>0
    <3> QED
      BY <3>1, Zenon
  <2>2. g \in [Nat \X V -> V]
    <3>1. ASSUME NEW x \in Nat \X V
          PROVE  g[x] \in V
      BY <1>1
    <3> QED
      BY <3>1
  <2> HIDE DEF g
  <2>3. PICK h : Steps(h, V, <<>>, g, n)
    BY <1>0, <2>2, StepsExist
  <2>4. \A k \in 1 .. n : k - 1 \in 0 .. n
    BY <1>0
  <2>5. \A k \in 1 .. n : h[k] = h[k - 1] \o Word(argv[k + 1])
    BY <2>1, <2>3, <2>4 DEF Steps
  <2>6. \A k \in 0 .. n : k = 0 \/ k \in 1 .. n
    BY <1>0
  <2>7. \A k \in 0 .. n : h[k] = IF k = 0 THEN <<>> ELSE h[k - 1] \o Word(argv[k + 1])
    BY <2>3, <2>5, <2>6, Zenon DEF Steps
  <2>8. h = [k \in 0 .. n |-> h[k]]
    BY <2>3 DEF Steps
  <2> QED
    BY <2>7, <2>8, Zenon
<1>4. Is(WordsTo(argv))
  BY <1>2, <1>3, Zenon
<1> DEFINE W == WordsTo(argv)
<1> HIDE DEF W
<1>5. /\ W[0] = <<>> /\ DOMAIN W = 0 .. n
      /\ \A k \in 1 .. n : W[k] = W[k - 1] \o Word(argv[k + 1])
  <2>1. W = [k \in 0 .. n |-> IF k = 0 THEN <<>> ELSE W[k - 1] \o Word(argv[k + 1])]
    BY <1>4 DEF W
  <2>2. 0 \in 0 .. n /\ \A k \in 1 .. n : k \in 0 .. n /\ k # 0
    BY <1>0
  <2> QED
    BY <2>1, <2>2, Zenon
<1>6. \A k \in 0 .. n : W[k] \in V
  <2> DEFINE S == {k \in 0 .. n : W[k] \in V}
  <2>1. 0 \in S
    BY <1>0, <1>5
  <2>2. ASSUME NEW k \in 1 .. n, k - 1 \in S
        PROVE  k \in S
    BY <1>0, <1>1, <1>5, <2>2
  <2> HIDE DEF S
  <2>3. 0 .. n \subseteq S
    BY <1>0, <2>1, <2>2, RangeInduction
  <2> QED
    BY <2>3 DEF S
<1>7. W \in [0 .. n -> V]
  <2>1. W = [k \in DOMAIN W |-> W[k]]
    BY <1>4 DEF W
  <2> QED
    BY <1>5, <1>6, <2>1
<1> QED
  BY <1>5, <1>7 DEF W, n, V

(* What parse_cmdline can be in the middle of, for a text of characters C. *)
ParseStates(C) ==
  {s \in [state : {"BL", "CHAR"} \cup Quotes, args : Seq(Seq(C)), bytes : Nat, skip : Nat] :
     s.state = "BL" \/ s.args # <<>>}

(* A character that is put changes neither the state nor what is skipped. *)
LEMMA PutIs ==
  ASSUME NEW C, NEW c \in C, NEW s \in ParseStates(C), s.args # <<>>
  PROVE  /\ Put(s, c) \in ParseStates(C)
         /\ Put(s, c).state = s.state /\ Put(s, c).skip = s.skip
         /\ Put(s, c).bytes = s.bytes + 1
<1> DEFINE a == s.args
           b == [a EXCEPT ![Len(a)] = Append(@, c)]
<1>1. a \in Seq(Seq(C)) /\ a # <<>> /\ s.bytes \in Nat
  BY DEF ParseStates
<1>2. Len(a) \in Nat \ {0} /\ a[Len(a)] \in Seq(C)
  BY <1>1
<1>3. b \in Seq(Seq(C)) /\ b # <<>>
  <2>1. Append(a[Len(a)], c) \in Seq(C)
    BY <1>2
  <2> HIDE DEF a
  <2>2. b \in [1 .. Len(a) -> Seq(C)] /\ Len(b) = Len(a)
    BY <1>1, <1>2, <2>1
  <2>3. b \in Seq(Seq(C))
    BY <1>2, <2>2
  <2> QED
    BY <1>2, <2>2, <2>3
<1>4. Put(s, c) = [s EXCEPT !.args = b, !.bytes = s.bytes + 1]
  BY DEF Put, ParseStates
<1> HIDE DEF a, b
<1>5. /\ Put(s, c) \in ParseStates(C)
      /\ Put(s, c).state = s.state /\ Put(s, c).skip = s.skip
      /\ Put(s, c).bytes = s.bytes + 1 /\ Put(s, c).args = b
  <2> DEFINE R == [state : {"BL", "CHAR"} \cup Quotes, args : Seq(Seq(C)), bytes : Nat, skip : Nat]
  <2>1. s \in R /\ s.bytes + 1 \in Nat
    BY <1>1 DEF ParseStates
  <2>2. /\ Put(s, c) \in R
        /\ Put(s, c).state = s.state /\ Put(s, c).skip = s.skip
        /\ Put(s, c).bytes = s.bytes + 1 /\ Put(s, c).args = b
    BY <1>3, <1>4, <2>1
  <2> QED
    BY <1>3, <2>2 DEF ParseStates
<1> QED
  BY <1>5

(* A character goes to the end of the last argument. *)
LEMMA PutArgs ==
  ASSUME NEW C, NEW c \in C, NEW s \in ParseStates(C), s.args # <<>>
  PROVE  Put(s, c).args = [s.args EXCEPT ![Len(s.args)] = Append(@, c)]
<1>1. s \in [state : {"BL", "CHAR"} \cup Quotes, args : Seq(Seq(C)), bytes : Nat, skip : Nat]
  BY DEF ParseStates
<1> QED
  BY <1>1 DEF Put

(* A new argument is begun. *)
LEMMA NewWordIs ==
  ASSUME NEW C, NEW s \in ParseStates(C)
  PROVE  /\ NewWord(s) \in ParseStates(C)
         /\ NewWord(s).state = "CHAR" /\ NewWord(s).skip = s.skip
         /\ NewWord(s).bytes = s.bytes
         /\ NewWord(s).args = Append(s.args, <<>>) /\ NewWord(s).args # <<>>
<1>1. s.args \in Seq(Seq(C)) /\ <<>> \in Seq(C)
  BY DEF ParseStates
<1>2. Append(s.args, <<>>) \in Seq(Seq(C)) /\ Append(s.args, <<>>) # <<>>
  BY <1>1, AppendProperties
<1> QED
  BY <1>1, <1>2 DEF NewWord, ParseStates

(* What the first arguments take, one by one. *)
LEMMA BytesToIs ==
  ASSUME NEW C, NEW args \in Seq(Seq(C))
  PROVE  /\ BytesTo(args) \in [0 .. Len(args) -> Nat]
         /\ BytesTo(args)[0] = 0
         /\ \A k \in 1 .. Len(args) :
              BytesTo(args)[k] = BytesTo(args)[k - 1] + Len(args[k]) + 1
<1> DEFINE n == Len(args)
           Is(h) == h = [k \in 0 .. n |-> IF k = 0 THEN 0 ELSE h[k - 1] + Len(args[k]) + 1]
<1>0. n \in Nat
  OBVIOUS
<1>1. \A k \in 1 .. n : Len(args[k]) \in Nat
  <2> TAKE k \in 1 .. n
  <2>1. args[k] \in Seq(C)
    OBVIOUS
  <2> QED
    BY <2>1
<1>2. BytesTo(args) = CHOOSE h : Is(h)
  BY DEF BytesTo
<1> HIDE DEF n
<1>3. \E h : Is(h)
  <2> DEFINE g == [x \in Nat \X Nat |-> IF x[1] \in 1 .. n THEN x[2] + Len(args[x[1]]) + 1 ELSE x[2]]
  <2>1. \A k \in 1 .. n : \A w \in Nat : g[<<k, w>>] = w + Len(args[k]) + 1
    BY <1>0
  <2>2. g \in [Nat \X Nat -> Nat]
    BY <1>1
  <2> HIDE DEF g
  <2>3. PICK h : Steps(h, Nat, 0, g, n)
    BY <1>0, <2>2, StepsExist
  <2>4. \A k \in 1 .. n : k - 1 \in 0 .. n
    BY <1>0
  <2>5. \A k \in 1 .. n : h[k] = h[k - 1] + Len(args[k]) + 1
    BY <2>1, <2>3, <2>4 DEF Steps
  <2>6. \A k \in 0 .. n : k = 0 \/ k \in 1 .. n
    BY <1>0
  <2>7. \A k \in 0 .. n : h[k] = IF k = 0 THEN 0 ELSE h[k - 1] + Len(args[k]) + 1
    BY <2>3, <2>5, <2>6, Zenon DEF Steps
  <2>8. h = [k \in 0 .. n |-> h[k]]
    BY <2>3 DEF Steps
  <2> QED
    BY <2>7, <2>8, Zenon
<1>4. Is(BytesTo(args))
  BY <1>2, <1>3, Zenon
<1> DEFINE B == BytesTo(args)
<1> HIDE DEF B
<1>5. /\ B[0] = 0 /\ DOMAIN B = 0 .. n
      /\ \A k \in 1 .. n : B[k] = B[k - 1] + Len(args[k]) + 1
  <2>1. B = [k \in 0 .. n |-> IF k = 0 THEN 0 ELSE B[k - 1] + Len(args[k]) + 1]
    BY <1>4 DEF B
  <2>2. 0 \in 0 .. n /\ \A k \in 1 .. n : k \in 0 .. n /\ k # 0
    BY <1>0
  <2> QED
    BY <2>1, <2>2, Zenon
<1>6. \A k \in 0 .. n : B[k] \in Nat
  <2> DEFINE S == {k \in 0 .. n : B[k] \in Nat}
  <2>1. 0 \in S
    BY <1>0, <1>5
  <2>2. ASSUME NEW k \in 1 .. n, k - 1 \in S
        PROVE  k \in S
    <3>1. B[k - 1] \in Nat /\ Len(args[k]) \in Nat /\ k \in 0 .. n
      BY <1>0, <1>1, <2>2
    <3>2. B[k] \in Nat
      BY <1>5, <3>1
    <3> QED
      BY <3>1, <3>2
  <2> HIDE DEF S
  <2>3. 0 .. n \subseteq S
    BY <1>0, <2>1, <2>2, RangeInduction
  <2> QED
    BY <2>3 DEF S
<1>7. B \in [0 .. n -> Nat]
  <2>1. B = [k \in DOMAIN B |-> B[k]]
    BY <1>4 DEF B
  <2> QED
    BY <1>5, <1>6, <2>1
<1> QED
  BY <1>5, <1>7 DEF B, n

(* Arguments that are the same up to the n-th take the same up to there. *)
LEMMA BytesAgree ==
  ASSUME NEW C, NEW a \in Seq(Seq(C)), NEW b \in Seq(Seq(C)), NEW n \in Nat,
         n <= Len(a), n <= Len(b), \A k \in 1 .. n : a[k] = b[k]
  PROVE  BytesTo(a)[n] = BytesTo(b)[n]
<1> DEFINE S == {k \in 0 .. n : BytesTo(a)[k] = BytesTo(b)[k]}
<1>1. 0 \in S
  BY BytesToIs
<1>2. ASSUME NEW k \in 1 .. n, k - 1 \in S
      PROVE  k \in S
  <2>1. k \in 1 .. Len(a) /\ k \in 1 .. Len(b)
    OBVIOUS
  <2>2. /\ BytesTo(a)[k] = BytesTo(a)[k - 1] + Len(a[k]) + 1
        /\ BytesTo(b)[k] = BytesTo(b)[k - 1] + Len(b[k]) + 1
    BY <2>1, BytesToIs
  <2> QED
    BY <1>2, <2>2
<1> HIDE DEF S
<1>3. 0 .. n \subseteq S
  BY <1>1, <1>2, RangeInduction
<1> QED
  BY <1>3 DEF S

(* What one more argument takes, and one more character of the last. *)
LEMMA BytesGrow ==
  ASSUME NEW C, NEW a \in Seq(Seq(C))
  PROVE  /\ Bytes(a) \in Nat /\ Bytes(<<>>) = 0
         /\ Bytes(Append(a, <<>>)) = Bytes(a) + 1
         /\ a # <<>> => \A c \in C :
              Bytes([a EXCEPT ![Len(a)] = Append(@, c)]) = Bytes(a) + 1
<1> DEFINE n == Len(a)
<1>0. n \in Nat /\ <<>> \in Seq(Seq(C)) /\ Len(<<>>) = 0
  OBVIOUS
<1>1. Bytes(a) \in Nat /\ Bytes(<<>>) = 0
  <2>1. \A s \in Seq(Seq(C)) : Len(s) \in Nat /\ BytesTo(s) \in [0 .. Len(s) -> Nat] /\ BytesTo(s)[0] = 0
    BY BytesToIs
  <2>2. n \in 0 .. Len(a)
    BY <1>0
  <2>3. BytesTo(a)[n] \in Nat /\ BytesTo(<<>>)[0] = 0
    BY <1>0, <2>1, <2>2
  <2> QED
    BY <1>0, <2>3 DEF Bytes
<1>2. Bytes(Append(a, <<>>)) = Bytes(a) + 1
  <2> DEFINE b == Append(a, <<>>)
  <2>1. /\ b \in Seq(Seq(C)) /\ Len(b) = n + 1 /\ b[n + 1] = <<>>
        /\ \A k \in 1 .. n : a[k] = b[k]
    OBVIOUS
  <2> HIDE DEF b
  <2>2. n <= Len(a) /\ n <= Len(b) /\ n + 1 \in 1 .. Len(b) /\ (n + 1) - 1 = n
    BY <1>0, <2>1
  <2>3. BytesTo(a)[n] = BytesTo(b)[n]
    BY <1>0, <2>1, <2>2, BytesAgree
  <2>4. BytesTo(b)[n + 1] = BytesTo(b)[n] + Len(b[n + 1]) + 1
    BY <2>1, <2>2, BytesToIs
  <2> QED
    BY <1>0, <1>1, <2>1, <2>3, <2>4 DEF Bytes, b
<1>3. ASSUME NEW c \in C, a # <<>>
      PROVE  Bytes([a EXCEPT ![n] = Append(@, c)]) = Bytes(a) + 1
  <2> DEFINE b == [a EXCEPT ![n] = Append(@, c)]
  <2>1. n \in Nat \ {0} /\ a[n] \in Seq(C)
    BY <1>3
  <2>2. /\ Append(a[n], c) \in Seq(C) /\ Len(Append(a[n], c)) = Len(a[n]) + 1
        /\ Len(a[n]) \in Nat
    BY <2>1
  <2>3. /\ b \in [1 .. n -> Seq(C)] /\ b[n] = Append(a[n], c)
        /\ \A k \in 1 .. n - 1 : a[k] = b[k]
    BY <2>1, <2>2
  <2> HIDE DEF b, n
  <2>4. b \in Seq(Seq(C)) /\ Len(b) = n
    BY <1>0, <2>3
  <2>a. Len(a) = n
    BY DEF n
  <2>5. BytesTo(a)[n - 1] = BytesTo(b)[n - 1]
    <3>1. n - 1 \in Nat /\ n - 1 <= Len(a) /\ n - 1 <= Len(b)
      BY <2>1, <2>4, <2>a
    <3> QED
      BY <2>3, <2>4, <3>1, BytesAgree
  <2>6. /\ BytesTo(b)[n] = BytesTo(b)[n - 1] + Len(b[n]) + 1
        /\ BytesTo(a)[n] = BytesTo(a)[n - 1] + Len(a[n]) + 1
        /\ BytesTo(a)[n - 1] \in Nat
    <3>1. n \in 1 .. Len(b) /\ n \in 1 .. Len(a) /\ n - 1 \in 0 .. Len(a)
      BY <2>1, <2>4, <2>a
    <3> QED
      BY <2>4, <3>1, BytesToIs
  <2>b. Len(b[n]) = Len(a[n]) + 1 /\ Len(a[n]) \in Nat
    BY <2>2, <2>3
  <2>7. BytesTo(b)[n] = BytesTo(a)[n] + 1
    <3>1. ASSUME NEW x \in Nat, NEW l \in Nat
          PROVE  x + (l + 1) + 1 = (x + l + 1) + 1
      OBVIOUS
    <3>2. BytesTo(b)[n] = BytesTo(a)[n - 1] + (Len(a[n]) + 1) + 1
      BY <2>b, <2>5, <2>6, Zenon
    <3> QED
      BY <2>b, <2>6, <3>1, <3>2, Zenon
  <2>8. Bytes(b) = Bytes(a) + 1
    BY <2>4, <2>7, <2>a DEF Bytes
  <2> QED
    BY <2>8 DEF b
<1> QED
  BY <1>1, <1>2, <1>3

-----------------------------------------------------------------------------
(* What parse_cmdline writes fits into the bytes that it counts.           *)

(* The closing 0 of an argument that has not ended is still to come. *)
Fits(s) == Bytes(s.args) <= s.bytes + IF s.state = "BL" THEN 0 ELSE 1

(* A change of state or of what is skipped, and a 0 that is counted. *)
LEMMA StateChanges ==
  ASSUME NEW C, NEW s \in ParseStates(C), s.args # <<>>
  PROVE  /\ \A q \in {"CHAR"} \cup Quotes : [s EXCEPT !.state = q] \in ParseStates(C)
         /\ [s EXCEPT !.state = "BL", !.bytes = s.bytes + 1] \in ParseStates(C)
<1> DEFINE R == [state : {"BL", "CHAR"} \cup Quotes, args : Seq(Seq(C)), bytes : Nat, skip : Nat]
<1>1. s \in R /\ s.bytes + 1 \in Nat
  BY DEF ParseStates
<1>2. ASSUME NEW q \in {"CHAR"} \cup Quotes
      PROVE  [s EXCEPT !.state = q] \in R /\ [s EXCEPT !.state = q].args # <<>>
  BY <1>1
<1>3. /\ [s EXCEPT !.state = "BL", !.bytes = s.bytes + 1] \in R
      /\ [s EXCEPT !.state = "BL", !.bytes = s.bytes + 1].args # <<>>
  BY <1>1
<1> QED
  BY <1>2, <1>3 DEF ParseStates

(* The bytes of the arguments grow with them. *)
LEMMA StateBytes ==
  ASSUME NEW C, NEW s \in ParseStates(C)
  PROVE  /\ Bytes(s.args) \in Nat /\ s.bytes \in Nat
         /\ Bytes(NewWord(s).args) = Bytes(s.args) + 1
         /\ s.args # <<>> => \A c \in C : Bytes(Put(s, c).args) = Bytes(s.args) + 1
<1>1. s.args \in Seq(Seq(C)) /\ s.bytes \in Nat
  BY DEF ParseStates
<1>2. Bytes(s.args) \in Nat /\ Bytes(NewWord(s).args) = Bytes(s.args) + 1
  BY <1>1, BytesGrow, NewWordIs
<1>3. ASSUME NEW c \in C, s.args # <<>>
      PROVE  Bytes(Put(s, c).args) = Bytes(s.args) + 1
  <2>1. Bytes([s.args EXCEPT ![Len(s.args)] = Append(@, c)]) = Bytes(s.args) + 1
    BY <1>1, <1>3, BytesGrow
  <2>2. Put(s, c).args = [s.args EXCEPT ![Len(s.args)] = Append(@, c)]
    BY <1>3, PutArgs
  <2> QED
    BY <2>1, <2>2, Zenon
<1> QED
  BY <1>1, <1>2, <1>3

(* A character in an argument. *)
LEMMA InWordKeeps ==
  ASSUME NEW C, NEW c \in C, NEW s \in ParseStates(C), s.state = "CHAR", Fits(s)
  PROVE  InWord(s, c) \in ParseStates(C) /\ Fits(InWord(s, c))
<1>1. /\ s.args \in Seq(Seq(C)) /\ s.args # <<>> /\ s.bytes \in Nat
      /\ s \in [state : {"BL", "CHAR"} \cup Quotes, args : Seq(Seq(C)), bytes : Nat, skip : Nat]
  BY DEF ParseStates
<1>2. Bytes(s.args) \in Nat
  BY <1>1, BytesGrow
<1>3. CASE c \in Blanks
  <2> DEFINE t == [s EXCEPT !.state = "BL", !.bytes = s.bytes + 1]
  <2>1. InWord(s, c) = t
    BY <1>3 DEF InWord
  <2>2. t.args = s.args /\ t.state = "BL" /\ t.bytes = s.bytes + 1 /\ t \in ParseStates(C)
    BY <1>1, StateChanges
  <2> HIDE DEF t
  <2> QED
    BY <1>1, <1>2, <2>1, <2>2 DEF Fits
<1>4. CASE c \in Quotes
  <2> DEFINE t == [s EXCEPT !.state = c]
  <2>1. InWord(s, c) = t
    BY <1>4 DEF InWord, Blanks, Quotes, SQ, DQ, Blank
  <2>2. t.args = s.args /\ t.state = c /\ t.bytes = s.bytes /\ t \in ParseStates(C)
    BY <1>1, <1>4, StateChanges
  <2> HIDE DEF t
  <2> QED
    BY <1>1, <1>2, <1>4, <2>1, <2>2 DEF Fits, Quotes, SQ, DQ
<1>5. CASE c \notin Blanks /\ c \notin Quotes
  <2>1. InWord(s, c) = Put(s, c)
    BY <1>5 DEF InWord
  <2>2. /\ Bytes(Put(s, c).args) = Bytes(s.args) + 1
        /\ Put(s, c) \in ParseStates(C) /\ Put(s, c).state = "CHAR"
        /\ Put(s, c).bytes = s.bytes + 1
    <3>1. Put(s, c) \in ParseStates(C) /\ Put(s, c).state = "CHAR"
          /\ Put(s, c).bytes = s.bytes + 1
      BY <1>1, PutIs
    <3>2. Bytes(Put(s, c).args) = Bytes(s.args) + 1
      BY <1>1, StateBytes
    <3> QED
      BY <3>1, <3>2
  <2> QED
    BY <1>1, <1>2, <2>1, <2>2 DEF Fits
<1> QED
  BY <1>3, <1>4, <1>5

(* A character of the command line. *)
LEMMA ParsedKeeps ==
  ASSUME NEW C, NEW c \in C, NEW s \in ParseStates(C), NEW next, Fits(s)
  PROVE  Parsed(s, c, next) \in ParseStates(C) /\ Fits(Parsed(s, c, next))
<1>1. /\ s.args \in Seq(Seq(C)) /\ s.bytes \in Nat /\ s.skip \in Nat
      /\ s.state \in {"BL", "CHAR"} \cup Quotes /\ (s.state = "BL" \/ s.args # <<>>)
      /\ s \in [state : {"BL", "CHAR"} \cup Quotes, args : Seq(Seq(C)), bytes : Nat, skip : Nat]
  BY DEF ParseStates
<1>2. Bytes(s.args) \in Nat
  BY <1>1, BytesGrow
<1>3. CASE s.skip > 0
  <2> DEFINE t == [s EXCEPT !.skip = s.skip - 1]
  <2>1. Parsed(s, c, next) = t /\ s.skip - 1 \in Nat
    BY <1>1, <1>3 DEF Parsed
  <2>2. t.args = s.args /\ t.state = s.state /\ t.bytes = s.bytes /\ t \in ParseStates(C)
    BY <1>1, <2>1 DEF ParseStates
  <2> QED
    BY <2>1, <2>2 DEF Fits
<1>4. CASE ~(s.skip > 0) /\ s.state = "BL"
  <2>1. CASE c \in Blanks
    BY <1>4, <2>1 DEF Parsed
  <2>2. CASE c \notin Blanks
    <3>1. Parsed(s, c, next) = InWord(NewWord(s), c)
      BY <1>4, <2>2 DEF Parsed
    <3>2. Bytes(NewWord(s).args) = Bytes(s.args) + 1
      BY StateBytes
    <3>3. Fits(NewWord(s))
      BY <1>1, <1>2, <1>4, <3>2, NewWordIs DEF Fits
    <3> QED
      BY <3>1, <3>3, NewWordIs, InWordKeeps
  <2> QED
    BY <2>1, <2>2
<1>5. CASE ~(s.skip > 0) /\ s.state = "CHAR"
  <2>1. Parsed(s, c, next) = InWord(s, c)
    BY <1>5 DEF Parsed
  <2> QED
    BY <1>5, <2>1, InWordKeeps
<1>6. CASE ~(s.skip > 0) /\ s.state \in Quotes
  <2>1. Parsed(s, c, next) = InQuotes(s, c, next)
    BY <1>6 DEF Parsed, Quotes, SQ, DQ
  <2>2. s.state # "BL" /\ s.args # <<>>
    BY <1>1, <1>6 DEF Quotes, SQ, DQ
  <2>3. CASE c # s.state
    BY <2>1, <2>3 DEF InQuotes
  <2>4. CASE c = s.state /\ next # s.state
    <3> DEFINE t == [s EXCEPT !.state = "CHAR"]
    <3>1. InQuotes(s, c, next) = t
      BY <2>4 DEF InQuotes
    <3>2. t.args = s.args /\ t.state = "CHAR" /\ t.bytes = s.bytes /\ t \in ParseStates(C)
      BY <1>1, <2>2, StateChanges
    <3> QED
      BY <2>1, <2>2, <3>1, <3>2 DEF Fits
  <2>5. CASE c = s.state /\ next = s.state
    <3> DEFINE p == Put(s, c)
               t == [p EXCEPT !.skip = 2]
    <3>1. InQuotes(s, c, next) = t
      BY <2>5 DEF InQuotes
    <3>2. p \in ParseStates(C) /\ p.state = s.state /\ p.bytes = s.bytes + 1
          /\ Bytes(p.args) = Bytes(s.args) + 1
      <4>1. p \in ParseStates(C) /\ p.state = s.state /\ p.bytes = s.bytes + 1
        BY <2>2, PutIs
      <4>2. Bytes(p.args) = Bytes(s.args) + 1
        BY <2>2, StateBytes
      <4> QED
        BY <4>1, <4>2
    <3> HIDE DEF p
    <3>3. t.args = p.args /\ t.state = p.state /\ t.bytes = p.bytes /\ t \in ParseStates(C)
      BY <3>2 DEF ParseStates
    <3> HIDE DEF t
    <3> QED
      BY <1>1, <1>2, <2>1, <2>2, <3>1, <3>2, <3>3 DEF Fits
  <2> QED
    BY <2>3, <2>4, <2>5
<1> QED
  BY <1>1, <1>3, <1>4, <1>5, <1>6

(* The states in which what is written fits. *)
FitStates(C) == {s \in ParseStates(C) : Fits(s)}

(* The character after the k-th, or the 0 behind the text. *)
After(text, k) == IF k = Len(text) THEN "" ELSE text[k + 1]

(* A text character by character. *)
LEMMA ParseIs ==
  ASSUME NEW C, NEW text \in Seq(C)
  PROVE  /\ Parse(text) \in [0 .. Len(text) -> FitStates(C)]
         /\ Parse(text)[0] = [state |-> "BL", args |-> <<>>, bytes |-> 0, skip |-> 0]
         /\ \A k \in 1 .. Len(text) :
              Parse(text)[k] = Parsed(Parse(text)[k - 1], text[k], After(text, k))
<1> DEFINE n == Len(text)
           V == FitStates(C)
           b == [state |-> "BL", args |-> <<>>, bytes |-> 0, skip |-> 0]
           Is(h) == h = [k \in 0 .. n |-> IF k = 0 THEN b ELSE
                          Parsed(h[k - 1], text[k], IF k = Len(text) THEN "" ELSE text[k + 1])]
           On(h) == h = [k \in 0 .. n |-> IF k = 0 THEN b ELSE
                          Parsed(h[k - 1], text[k], After(text, k))]
<1>0. n \in Nat /\ \A k \in 1 .. n : text[k] \in C
  OBVIOUS
<1>b. b \in V
  <2>1. b \in ParseStates(C)
    BY DEF ParseStates
  <2>2. Bytes(b.args) = 0
    <3>1. <<>> \in Seq(Seq(C))
      OBVIOUS
    <3>2. Bytes(<<>>) = 0
      BY <3>1, BytesGrow
    <3> QED
      BY <3>2
  <2>3. b.state = "BL" /\ b.bytes = 0
    OBVIOUS
  <2> HIDE DEF b
  <2> QED
    BY <2>1, <2>2, <2>3 DEF Fits, FitStates
<1>1. ASSUME NEW k \in 1 .. n, NEW w \in V
      PROVE  Parsed(w, text[k], After(text, k)) \in V
  <2>1. w \in ParseStates(C) /\ Fits(w) /\ text[k] \in C
    BY <1>0 DEF FitStates
  <2>2. /\ Parsed(w, text[k], After(text, k)) \in ParseStates(C)
        /\ Fits(Parsed(w, text[k], After(text, k)))
    BY <2>1, ParsedKeeps
  <2> QED
    BY <2>2 DEF FitStates
<1>2. Parse(text) = CHOOSE h : On(h)
  <2>1. Parse(text) = CHOOSE h : Is(h)
    BY DEF Parse
  <2>2. \A h : Is(h) = On(h)
    BY Zenon DEF After
  <2> QED
    BY <2>1, <2>2, Zenon DEF After
<1> HIDE DEF n, V, b
<1>3. \E h : On(h)
  <2> DEFINE g == [x \in Nat \X V |-> IF x[1] \in 1 .. n THEN Parsed(x[2], text[x[1]], After(text, x[1])) ELSE x[2]]
  <2>1. \A k \in 1 .. n : \A w \in V : g[<<k, w>>] = Parsed(w, text[k], After(text, k))
    <3> TAKE k \in 1 .. n
    <3> TAKE w \in V
    <3>1. <<k, w>> \in Nat \X V /\ <<k, w>>[1] = k /\ <<k, w>>[2] = w
      BY <1>0
    <3> QED
      BY <3>1, Zenon
  <2>2. g \in [Nat \X V -> V]
    <3>1. ASSUME NEW x \in Nat \X V
          PROVE  g[x] \in V
      BY <1>1
    <3> QED
      BY <3>1
  <2> HIDE DEF g
  <2>3. PICK h : Steps(h, V, b, g, n)
    BY <1>0, <1>b, <2>2, StepsExist
  <2>4. \A k \in 1 .. n : k - 1 \in 0 .. n
    BY <1>0
  <2>5. \A k \in 1 .. n : h[k] = Parsed(h[k - 1], text[k], After(text, k))
    BY <2>1, <2>3, <2>4, Zenon DEF Steps
  <2>6. \A k \in 0 .. n : k = 0 \/ k \in 1 .. n
    BY <1>0
  <2>7. \A k \in 0 .. n : h[k] = IF k = 0 THEN b ELSE Parsed(h[k - 1], text[k], After(text, k))
    BY <2>3, <2>5, <2>6, Zenon DEF Steps
  <2>8. h = [k \in 0 .. n |-> h[k]]
    BY <2>3 DEF Steps
  <2> QED
    BY <2>7, <2>8, Zenon
<1>4. On(Parse(text))
  BY <1>2, <1>3, Zenon
<1> DEFINE P == Parse(text)
<1> HIDE DEF P
<1>5. /\ P[0] = b /\ DOMAIN P = 0 .. n
      /\ \A k \in 1 .. n : P[k] = Parsed(P[k - 1], text[k], After(text, k))
  <2>1. P = [k \in 0 .. n |-> IF k = 0 THEN b ELSE Parsed(P[k - 1], text[k], After(text, k))]
    BY <1>4, Zenon DEF P
  <2>2. 0 \in 0 .. n /\ \A k \in 1 .. n : k \in 0 .. n /\ k # 0
    BY <1>0
  <2> QED
    BY <2>1, <2>2, Zenon
<1>6. \A k \in 0 .. n : P[k] \in V
  <2> DEFINE S == {k \in 0 .. n : P[k] \in V}
  <2>1. 0 \in S
    BY <1>0, <1>5, <1>b
  <2>2. ASSUME NEW k \in 1 .. n, k - 1 \in S
        PROVE  k \in S
    <3>1. Parsed(P[k - 1], text[k], After(text, k)) \in V
      BY <1>1, <2>2, Zenon
    <3>2. P[k] \in V /\ k \in 0 .. n
      BY <1>0, <1>5, <3>1
    <3> QED
      BY <3>2
  <2> HIDE DEF S
  <2>3. 0 .. n \subseteq S
    BY <1>0, <2>1, <2>2, RangeInduction
  <2> QED
    BY <2>3 DEF S
<1>7. P \in [0 .. n -> V]
  <2>1. P = [k \in DOMAIN P |-> P[k]]
    BY <1>4, Zenon DEF P
  <2> QED
    BY <1>5, <1>6, <2>1
<1> QED
  BY <1>5, <1>7 DEF P, n, V, b

(* All arguments of a command line and their closing 0 fit. *)
LEMMA CmdlineFits ==
  ASSUME NEW C, NEW text \in Seq(C)
  PROVE  /\ parse_cmdline(text).args \in Seq(Seq(C))
         /\ parse_cmdline(text).bytes \in Nat
         /\ Bytes(parse_cmdline(text).args) <= parse_cmdline(text).bytes
<1> DEFINE end == Parse(text)[Len(text)]
<1>1. end \in FitStates(C)
  <2>1. Len(text) \in 0 .. Len(text)
    OBVIOUS
  <2> QED
    BY <2>1, ParseIs
<1>2. /\ parse_cmdline(text).args = end.args
      /\ parse_cmdline(text).bytes = end.bytes + 1
  BY DEF parse_cmdline
<1> HIDE DEF end
<1>3. end.args \in Seq(Seq(C)) /\ end.bytes \in Nat /\ Fits(end)
  BY <1>1 DEF FitStates, ParseStates
<1>4. Bytes(end.args) \in Nat
  BY <1>3, BytesGrow
<1>5. Bytes(end.args) <= end.bytes + 1
  BY <1>3, <1>4 DEF Fits
<1> QED
  BY <1>2, <1>3, <1>5

-----------------------------------------------------------------------------
(* The types of the state.                                                 *)

(* The characters of all texts. *)
Characters ==
  {Blank, SQ, "V", "=", "paratos"} \cup UNION {{t[i] : i \in DOMAIN t} : t \in Texts \cup Paths}

(* Texts, the ARGV entries of an environment, and its elements. *)
Strings == Seq(Characters)

Entries == {<<"ARGV=", x>> : x \in SUBSET Nat}

EnvTexts == Strings \cup Entries

(* What the programs pass on are texts, the first of them a path. *)
LEMMA ArgvTyped ==
  ASSUME NEW argv \in Argvs
  PROVE  /\ argv \in Seq(Strings) /\ Len(argv) >= 1
         /\ Head(argv) = argv[1] /\ Head(argv) \in Paths
<1>1. \A t \in Texts \cup Paths : t \in Strings
  <2> TAKE t \in Texts \cup Paths
  <2>1. t \in Seq({t[i] : i \in DOMAIN t})
    BY ArgsAssumption
  <2>2. Len(t) \in Nat /\ DOMAIN t = 1 .. Len(t) /\ t = [i \in 1 .. Len(t) |-> t[i]]
    BY <2>1
  <2>3. \A i \in 1 .. Len(t) : t[i] \in Characters
    BY <2>2 DEF Characters
  <2>4. t \in [1 .. Len(t) -> Characters]
    BY <2>2, <2>3
  <2> QED
    BY <2>2, <2>4 DEF Strings
<1>2. PICK p \in Paths, a \in UNION {[1 .. n -> Texts] : n \in 0 .. MaxArgs} : argv = <<p>> \o a
  <2>1. PICK call \in Calls : argv = <<call[1]>> \o call[2]
    BY DEF Argvs
  <2> QED
    BY <2>1 DEF Calls
<1>3. PICK n \in 0 .. MaxArgs : a \in [1 .. n -> Texts]
  BY <1>2
<1>4. a \in Seq(Strings)
  <2>1. n \in Nat /\ \A i \in 1 .. n : a[i] \in Strings
    BY <1>1, <1>3, ArgsAssumption
  <2> HIDE DEF Strings
  <2>2. a \in [1 .. n -> Strings]
    BY <1>3, <2>1
  <2> QED
    BY <2>1, <2>2
<1>5. p \in Strings
  BY <1>1
<1> QED
  BY <1>2, <1>4, <1>5

(* The list behind the ARGV entry. *)
Listed(argv) == [i \in DOMAIN argv |-> IF argv[i] = <<>> THEN <<Blank>> ELSE argv[i]]

(* An ARGV entry for the empty arguments. *)
Entry(argv) == <<"ARGV=", {i - 1 : i \in {j \in DOMAIN argv : argv[j] = <<>>}}>>

(* The entry for the empty arguments is an entry. *)
LEMMA EntryTyped ==
  ASSUME NEW S, NEW argv \in Seq(S)
  PROVE  Entry(argv) \in EnvTexts
<1>1. {i - 1 : i \in {j \in DOMAIN argv : argv[j] = <<>>}} \in SUBSET Nat
  OBVIOUS
<1> QED
  BY <1>1 DEF Entry, EnvTexts, Entries

-----------------------------------------------------------------------------
(* The environment and the ARGV entry in it.                               *)

(* A set of natural numbers has a least one. *)
LEMMA Least ==
  ASSUME NEW S \in SUBSET Nat, S # {}
  PROVE  \E n \in S : \A m \in S : n <= m
<1>1. IsWellFoundedOn(OpToRel(<, Nat), Nat)
  BY NatLessThanWellFounded
<1>2. PICK n \in S : \A m \in S : ~(<<m, n>> \in OpToRel(<, Nat))
  <2> HIDE DEF OpToRel
  <2> QED
    BY <1>1, WFMin
<1>3. \A m \in S : m \in Nat /\ n \in Nat /\ ~(m < n)
  BY <1>2 DEF OpToRel
<1> QED
  BY <1>3

(* No entry is that of the ARGV procedure. *)
NoArgv(env) == \A i \in DOMAIN env : ~IsArgv(env[i])

(* The first ARGV entry, if there is one and it counts. *)
LEMMA ArgvAtIs ==
  ASSUME NEW E, NEW env \in Seq(E), NEW len
  PROVE  /\ ArgvAt(len, env) \in 0 .. Len(env)
         /\ ArgvAt(len, env) # 0 =>
              /\ len = Extended /\ IsArgv(env[ArgvAt(len, env)])
              /\ \A j \in 1 .. ArgvAt(len, env) - 1 : ~IsArgv(env[j])
         /\ ArgvAt(len, env) = 0 <=> (len # Extended \/ NoArgv(env))
<1>1. CASE len = Extended /\ ~NoArgv(env)
  <2> DEFINE S == {i \in DOMAIN env : IsArgv(env[i])}
             IsFirst(i) == IsArgv(env[i]) /\ \A j \in 1 .. i - 1 : ~IsArgv(env[j])
  <2>1. S # {} /\ S \in SUBSET Nat
    BY <1>1 DEF NoArgv
  <2>2. PICK n \in S : \A m \in S : n <= m
    BY <2>1, Least
  <2>3. n \in DOMAIN env /\ IsFirst(n)
    <3>1. n \in 1 .. Len(env) /\ IsArgv(env[n])
      BY <2>2
    <3>2. \A j \in 1 .. n - 1 : j \in DOMAIN env /\ ~(n <= j)
      BY <3>1
    <3> QED
      BY <2>2, <3>1, <3>2
  <2>4. ArgvAt(len, env) = CHOOSE i \in DOMAIN env : IsFirst(i)
    BY <1>1 DEF ArgvAt, NoArgv
  <2> HIDE DEF S, IsFirst
  <2>5. ArgvAt(len, env) \in DOMAIN env /\ IsFirst(ArgvAt(len, env))
    BY <2>3, <2>4, Zenon
  <2>6. ArgvAt(len, env) \in 1 .. Len(env)
    BY <2>5
  <2> QED
    BY <1>1, <2>5, <2>6 DEF IsFirst
<1>2. CASE len # Extended \/ NoArgv(env)
  <2>1. ArgvAt(len, env) = 0
    BY <1>2 DEF ArgvAt, NoArgv
  <2> QED
    BY <1>2, <2>1
<1> QED
  BY <1>1, <1>2

(* What the environment is without the list of arguments. *)
LEMMA WithoutIs ==
  ASSUME NEW E, NEW env \in Seq(E)
  PROVE  /\ Without(env) \in Seq(E) /\ NoArgv(Without(env))
         /\ NoArgv(env) => Without(env) = env
<1> DEFINE at == ArgvAt(Extended, env)
<1>1. /\ at \in 0 .. Len(env)
      /\ at # 0 => \A j \in 1 .. at - 1 : ~IsArgv(env[j])
      /\ at = 0 <=> NoArgv(env)
  BY ArgvAtIs
<1>2. Without(env) = IF at = 0 THEN env ELSE SubSeq(env, 1, at - 1)
  BY DEF Without
<1> HIDE DEF at
<1>3. CASE at = 0
  BY <1>1, <1>2, <1>3
<1>4. CASE at # 0
  <2> DEFINE e == SubSeq(env, 1, at - 1)
  <2>1. /\ e \in Seq(E) /\ DOMAIN e = 1 .. at - 1
        /\ \A j \in 1 .. at - 1 : e[j] = env[j]
    BY <1>1, <1>4
  <2> HIDE DEF e
  <2>2. NoArgv(e)
    BY <1>1, <1>4, <2>1 DEF NoArgv
  <2> QED
    BY <1>1, <1>2, <1>4, <2>1, <2>2 DEF e
<1> QED
  BY <1>3, <1>4

(* An environment env that is own, an entry and a list. *)
Joined(own, argv, env) ==
  /\ env \in Seq(EnvTexts) /\ Len(env) = Len(own) + 1 + Len(argv)
  /\ \A i \in 1 .. Len(own) : env[i] = own[i]
  /\ env[Len(own) + 1] = Entry(argv) /\ IsArgv(Entry(argv))
  /\ SubSeq(env, 1, Len(own)) = own
  /\ SubSeq(env, Len(own) + 2, Len(env)) = Listed(argv)
  /\ Listed(argv) \in Seq(Strings) /\ Len(Listed(argv)) = Len(argv)
  /\ NoArgv(own) => ArgvAt(Extended, env) = Len(own) + 1

(* The list is found again, and what was before it. *)
LEMMA ListFound ==
  ASSUME NEW own \in Seq(EnvTexts), NEW argv \in Seq(Strings),
         NEW env, env = own \o ArgvList(argv)
  PROVE  Joined(own, argv, env)
<1> DEFINE l == Listed(argv)
           e == Entry(argv)
           m == Len(own)
<1>1. ArgvList(argv) = <<e>> \o l
  BY DEF ArgvList, Entry, Listed
<1>2. l \in Seq(Strings) /\ Len(l) = Len(argv)
  <2>0. Blank \in Characters
    BY DEF Characters
  <2>1. \A i \in 1 .. Len(argv) : argv[i] \in Strings /\ <<Blank>> \in Strings
    BY <2>0 DEF Strings
  <2>2. l \in [1 .. Len(argv) -> Strings]
    BY <2>1 DEF Listed
  <2> HIDE DEF l
  <2> QED
    BY <2>2
<1>3. IsArgv(e)
  BY DEF IsArgv, Entry
<1> HIDE DEF l, e
<1>4. own \in Seq(EnvTexts) /\ l \in Seq(EnvTexts) /\ e \in EnvTexts
  <2>1. \A i \in 1 .. Len(own) : own[i] \in EnvTexts
    OBVIOUS
  <2>2. \A i \in 1 .. Len(l) : l[i] \in EnvTexts
    <3> TAKE i \in 1 .. Len(l)
    <3>1. l[i] \in Strings
      BY <1>2
    <3> QED
      BY <3>1 DEF EnvTexts
  <2>3. own \in Seq(EnvTexts)
    BY <2>1
  <2>4. l \in Seq(EnvTexts)
    BY <1>2, <2>2
  <2> QED
    BY <2>3, <2>4, EntryTyped DEF e
<1>5. env = own \o (<<e>> \o l)
  BY <1>1
<1> HIDE DEF m
<1>m. m = Len(own) /\ m \in Nat
  BY DEF m
<1>6. /\ env \in Seq(EnvTexts) /\ Len(env) = m + 1 + Len(argv)
      /\ \A i \in 1 .. m : env[i] = own[i]
      /\ env[m + 1] = e
      /\ \A i \in 1 .. Len(argv) : env[m + 1 + i] = l[i]
  <2> DEFINE t == <<e>> \o l
  <2>1. t \in Seq(EnvTexts) /\ Len(t) = 1 + Len(l) /\ t[1] = e
        /\ \A i \in 1 .. Len(l) : t[i + 1] = l[i]
    BY <1>4
  <2> HIDE DEF t
  <2>2. env = own \o t
    BY <1>5 DEF t
  <2>3. /\ env \in Seq(EnvTexts) /\ Len(env) = m + Len(t)
        /\ \A i \in 1 .. m + Len(t) : env[i] = IF i <= m THEN own[i] ELSE t[i - m]
    <3>0. ASSUME NEW x \in Seq(EnvTexts), NEW y \in Seq(EnvTexts)
          PROVE  /\ x \o y \in Seq(EnvTexts) /\ Len(x \o y) = Len(x) + Len(y)
                 /\ \A i \in 1 .. Len(x) + Len(y) :
                      (x \o y)[i] = IF i <= Len(x) THEN x[i] ELSE y[i - Len(x)]
      BY ConcatProperties
    <3>1. /\ own \o t \in Seq(EnvTexts) /\ Len(own \o t) = Len(own) + Len(t)
          /\ \A i \in 1 .. Len(own) + Len(t) :
               (own \o t)[i] = IF i <= Len(own) THEN own[i] ELSE t[i - Len(own)]
      BY <1>4, <2>1, <3>0, Zenon
    <3> QED
      BY <1>m, <2>2, <3>1, Zenon
  <2>4. Len(argv) \in Nat
    OBVIOUS
  <2>5. \A i \in 1 .. m : env[i] = own[i]
    BY <1>2, <1>m, <2>1, <2>3, <2>4
  <2>6. env[m + 1] = e
    <3>1. m + 1 \in 1 .. m + Len(t) /\ (m + 1) - m = 1 /\ ~(m + 1 <= m)
      BY <1>2, <1>m, <2>1, <2>4
    <3> QED
      BY <2>1, <2>3, <3>1
  <2>7. ASSUME NEW i \in 1 .. Len(argv)
        PROVE  env[m + 1 + i] = l[i]
    <3>1. m + 1 + i \in 1 .. m + Len(t) /\ (m + 1 + i) - m = i + 1 /\ ~(m + 1 + i <= m)
      BY <1>2, <1>m, <2>1, <2>4
    <3>2. i \in 1 .. Len(l)
      BY <1>2
    <3> QED
      BY <2>1, <2>3, <3>1, <3>2
  <2> QED
    BY <1>2, <1>m, <2>1, <2>3, <2>4, <2>5, <2>6, <2>7
<1>7. ASSUME NoArgv(own)
      PROVE  ArgvAt(Extended, env) = m + 1
  <2> DEFINE at == ArgvAt(Extended, env)
  <2>0. Len(argv) \in Nat
    OBVIOUS
  <2>1. m + 1 \in DOMAIN env /\ ~NoArgv(env)
    <3>1. m + 1 \in 1 .. Len(env)
      BY <1>6, <1>m, <2>0
    <3>2. DOMAIN env = 1 .. Len(env)
      BY <1>6
    <3> QED
      BY <1>3, <1>6, <3>1, <3>2 DEF NoArgv
  <2>2. /\ at \in 1 .. Len(env) /\ IsArgv(env[at])
        /\ \A j \in 1 .. at - 1 : ~IsArgv(env[j])
    <3>1. /\ at \in 0 .. Len(env)
          /\ at # 0 => IsArgv(env[at]) /\ \A j \in 1 .. at - 1 : ~IsArgv(env[j])
          /\ at # 0
      BY <1>6, <2>1, ArgvAtIs
    <3>2. Len(env) \in Nat
      BY <1>6
    <3> QED
      BY <3>1, <3>2
  <2> HIDE DEF at
  <2>3. ~(m + 1 < at)
    <3>1. m + 1 < at => m + 1 \in 1 .. at - 1
      BY <1>m, <2>2
    <3> QED
      BY <1>3, <1>6, <2>2, <3>1
  <2>4. ~(at <= m)
    <3>1. at <= m => at \in 1 .. m /\ at \in DOMAIN own
      BY <1>m, <2>2
    <3> QED
      BY <1>6, <1>7, <2>2, <3>1 DEF NoArgv
  <2>5. at \in Int
    BY <2>2
  <2>6. at = m + 1
    BY <1>m, <2>3, <2>4, <2>5
  <2> QED
    BY <2>6 DEF at
<1>8. SubSeq(env, 1, m) = own
  <2>1. Len(env) \in Nat /\ m <= Len(env) /\ \A i \in 1 .. m : env[i] \in EnvTexts
    <3>1. Len(argv) \in Nat
      OBVIOUS
    <3>2. \A i \in 1 .. m : own[i] \in EnvTexts
      BY <1>4, <1>m
    <3> QED
      BY <1>6, <1>m, <3>1, <3>2
  <2>2. /\ SubSeq(env, 1, m) \in Seq(EnvTexts) /\ Len(SubSeq(env, 1, m)) = m
        /\ \A i \in 1 .. m : SubSeq(env, 1, m)[i] = env[i]
    <3>1. /\ SubSeq(env, 1, m) \in Seq(EnvTexts)
          /\ Len(SubSeq(env, 1, m)) = IF 1 <= m THEN m - 1 + 1 ELSE 0
          /\ \A i \in 1 .. m - 1 + 1 : SubSeq(env, 1, m)[i] = env[1 + i - 1]
      BY <1>m, <2>1, SubSeqProperties
    <3> QED
      BY <1>m, <3>1
  <2> QED
    BY <1>4, <1>6, <1>m, <2>2, SeqEqual
<1>9. SubSeq(env, m + 2, Len(env)) = l
  <2> DEFINE a == Len(argv)
             q == SubSeq(env, m + 2, Len(env))
  <2>0. a \in Nat
    OBVIOUS
  <2> HIDE DEF a
  <2>1. Len(env) = m + 1 + a /\ Len(l) = a
    BY <1>2, <1>6 DEF a
  <2>2. \A i \in m + 2 .. Len(env) : env[i] \in EnvTexts
    <3>1. \A i \in 1 .. Len(env) : env[i] \in EnvTexts
      BY <1>6
    <3> QED
      BY <1>m, <2>0, <2>1, <3>1
  <2>3. /\ q \in Seq(EnvTexts)
        /\ Len(q) = IF m + 2 <= Len(env) THEN Len(env) - (m + 2) + 1 ELSE 0
        /\ \A i \in 1 .. Len(env) - (m + 2) + 1 : q[i] = env[m + 2 + i - 1]
    <3>1. m + 2 \in Int /\ Len(env) \in Int
      BY <1>m, <2>0, <2>1
    <3>2. ASSUME NEW s, NEW x \in Int, NEW y \in Int, \A i \in x .. y : s[i] \in EnvTexts
          PROVE  /\ SubSeq(s, x, y) \in Seq(EnvTexts)
                 /\ Len(SubSeq(s, x, y)) = IF x <= y THEN y - x + 1 ELSE 0
                 /\ \A i \in 1 .. y - x + 1 : SubSeq(s, x, y)[i] = s[x + i - 1]
      BY <3>2, SubSeqProperties
    <3> QED
      BY <2>2, <3>1, <3>2, Zenon
  <2> HIDE DEF q
  <2>4. Len(q) = a
    BY <1>m, <2>0, <2>1, <2>3
  <2>5. \A i \in 1 .. a : q[i] = env[m + 1 + i]
    <3>1. ASSUME NEW i \in 1 .. a
          PROVE  i \in 1 .. Len(env) - (m + 2) + 1 /\ m + 2 + i - 1 = m + 1 + i
      BY <1>m, <2>0, <2>1
    <3> QED
      BY <2>3, <3>1, Zenon
  <2>6. \A i \in 1 .. a : q[i] = l[i]
    BY <1>6, <2>5 DEF a
  <2> QED
    BY <1>4, <2>1, <2>3, <2>4, <2>6, SeqEqual DEF q
<1> QED
  BY <1>2, <1>3, <1>6, <1>7, <1>8, <1>9, <1>m DEF l, e, Joined

-----------------------------------------------------------------------------
(* The base page.                                                          *)

(* The line that the loader writes. *)
LEMMA LineIs ==
  ASSUME NEW C, NEW text \in Seq(C)
  PROVE  /\ Line(text).len \in 0 .. Extended
         /\ Line(text).text \in Seq(C) /\ Len(Line(text).text) <= MAX_TOS_ARG
         /\ Line(text).len = Extended <=> Len(text) >= MAX_TOS_ARG
         /\ Len(text) < MAX_TOS_ARG => Line(text).text = text
<1>1. MAX_TOS_ARG \in Nat \ {0} /\ Len(text) \in Nat
  BY ArgsAssumption
<1>2. CASE Len(text) < MAX_TOS_ARG
  <2>1. Line(text) = [len |-> Len(text), text |-> text]
    BY <1>2 DEF Line
  <2> QED
    BY <1>1, <1>2, <2>1 DEF Extended
<1>3. CASE ~(Len(text) < MAX_TOS_ARG)
  <2> DEFINE q == SubSeq(text, 1, MAX_TOS_ARG)
  <2>1. Line(text) = [len |-> Extended, text |-> q]
    BY <1>3 DEF Line
  <2>2. q \in Seq(C) /\ Len(q) = MAX_TOS_ARG
    BY <1>1, <1>3
  <2> HIDE DEF q
  <2> QED
    BY <1>1, <1>3, <2>1, <2>2 DEF Extended
<1> QED
  BY <1>2, <1>3

(* The words of arguments are a text. *)
LEMMA WordsTyped ==
  ASSUME NEW argv \in Seq(Strings), Len(argv) >= 1
  PROVE  Words(argv) \in Strings
<1>1. Blank \in Characters /\ SQ \in Characters
  BY DEF Characters
<1>2. WordsTo(argv) \in [0 .. Len(argv) - 1 -> Strings]
  BY <1>1, WordsToIs DEF Strings
<1>3. Len(argv) - 1 \in 0 .. Len(argv) - 1
  OBVIOUS
<1> QED
  BY <1>2, <1>3 DEF Words

(* The base page that the loader writes. *)
LEMMA PageTyped ==
  ASSUME NEW argv \in Seq(Strings), Len(argv) >= 1, NEW env \in Seq(EnvTexts)
  PROVE  /\ BuildTosArglist(argv, env).len \in 0 .. Extended
         /\ BuildTosArglist(argv, env).text \in Strings
         /\ Len(BuildTosArglist(argv, env).text) <= MAX_TOS_ARG
         /\ BuildTosArglist(argv, env).env \in Seq(EnvTexts)
<1>1. /\ Line(Words(argv)).len \in 0 .. Extended
      /\ Line(Words(argv)).text \in Strings
      /\ Len(Line(Words(argv)).text) <= MAX_TOS_ARG
  BY WordsTyped, LineIs DEF Strings
<1>2. env \o ArgvList(argv) \in Seq(EnvTexts)
  <2>1. Blank \in Characters
    BY DEF Characters
  <2>2. \A i \in 1 .. Len(argv) : argv[i] \in Strings /\ <<Blank>> \in Strings
    BY <2>1 DEF Strings
  <2>3. Listed(argv) \in [1 .. Len(argv) -> EnvTexts]
    BY <2>2 DEF Listed, EnvTexts
  <2>4. Listed(argv) \in Seq(EnvTexts)
    BY <2>3
  <2>5. Entry(argv) \in EnvTexts
    BY EntryTyped
  <2>6. ArgvList(argv) = <<Entry(argv)>> \o Listed(argv)
    BY DEF ArgvList, Entry, Listed
  <2> QED
    BY <2>4, <2>5, <2>6
<1> QED
  BY <1>1, <1>2 DEF BuildTosArglist

-----------------------------------------------------------------------------
(* What Pexec makes of the arguments.                                      *)

(* Arguments make a line that is not empty. *)
LEMMA WordsLong ==
  ASSUME NEW argv \in Seq(Strings), Len(argv) > 1
  PROVE  Words(argv) \in Strings /\ Words(argv) # <<>>
<1> DEFINE n == Len(argv) - 1
           w == WordsTo(argv)[n - 1]
           t == Word(argv[n + 1])
<1>a. Len(argv) \in Nat
  OBVIOUS
<1>b. \A x \in Nat : x > 1 => x - 1 \in Nat \ {0} /\ x >= 1
  OBVIOUS
<1>0. n \in Nat \ {0} /\ Len(argv) >= 1
  BY <1>a, <1>b, Zenon
<1>1. Blank \in Characters /\ SQ \in Characters
  BY DEF Characters
<1>2. /\ WordsTo(argv) \in [0 .. n -> Strings]
      /\ \A k \in 1 .. n : WordsTo(argv)[k] = WordsTo(argv)[k - 1] \o Word(argv[k + 1])
  BY <1>0, <1>1, WordsToIs DEF Strings
<1>3. WordsTo(argv)[n] = w \o t /\ w \in Strings
  BY <1>0, <1>2
<1>4. t \in Strings /\ Len(t) > 0
  <2>1. argv[n + 1] \in Strings
    BY <1>0
  <2>2. \A x \in Strings : Word(x) \in Strings /\ Len(Word(x)) > 0
    BY <1>1 DEF Word, Strings
  <2> QED
    BY <2>1, <2>2
<1>5. Words(argv) = w \o t
  BY <1>3 DEF Words
<1> HIDE DEF w, t
<1> QED
  BY <1>3, <1>4, <1>5 DEF Strings

(* The command line that a program writes. *)
LineOf(argv) == IF Len(argv) = 1 THEN <<>> ELSE Tail(Words(argv))

(* It is a text. *)
LEMMA LineOfTyped ==
  ASSUME NEW argv \in Seq(Strings), Len(argv) >= 1
  PROVE  LineOf(argv) \in Strings
<1>1. CASE Len(argv) = 1
  BY <1>1 DEF LineOf, Strings
<1>2. CASE Len(argv) > 1
  BY <1>2, WordsLong DEF LineOf, Strings
<1> QED
  BY <1>1, <1>2

(* What execve gets for a program: ParaTos in front of a TOS executable. *)
Started(path, argv) == IF path \in TosPaths THEN <<Paratos>> \o argv ELSE argv

(* By the ARGV procedure: the list behind the entry. *)
LEMMA ByArgv ==
  ASSUME NEW own \in Seq(EnvTexts), NoArgv(own), NEW argv \in Argvs,
         NEW w, w = Writes(argv, TRUE, own)
  PROVE  /\ w.line.text = <<>>
         /\ ArgvAt(w.line.len, w.env) = Len(own) + 1
         /\ Len(w.env) = Len(own) + 1 + Len(argv)
         /\ prepare_args(Head(argv), w.line, w.env) =
              [argv |-> Started(Head(argv), Listed(argv)), env |-> own, first |-> Len(own) + 1]
         /\ Listed(argv) \in Seq(Strings) /\ Len(Listed(argv)) = Len(argv)
<1> DEFINE at == ArgvAt(w.line.len, w.env)
<1>0. PICK env : env = own \o ArgvList(argv)
  OBVIOUS
<1>1. w.line.text = <<>> /\ w.line.len = Extended /\ w.env = env
  BY <1>0 DEF Writes
<1>2. argv \in Seq(Strings) /\ Len(own) \in Nat
  BY ArgvTyped
<1>3. /\ env \in Seq(EnvTexts) /\ Len(env) = Len(own) + 1 + Len(argv)
      /\ ArgvAt(Extended, env) = Len(own) + 1
      /\ SubSeq(env, 1, Len(own)) = own
      /\ SubSeq(env, Len(own) + 2, Len(env)) = Listed(argv)
      /\ Listed(argv) \in Seq(Strings) /\ Len(Listed(argv)) = Len(argv)
  <2>1. Joined(own, argv, env)
    BY <1>0, <1>2, ListFound
  <2> QED
    BY <2>1 DEF Joined
<1>4. at = Len(own) + 1
  BY <1>1, <1>3, Zenon
<1> HIDE DEF at
<1>a. at # 0 /\ at + 1 = Len(own) + 2 /\ at - 1 = Len(own)
  BY <1>2, <1>4
<1>5. prepare_args(Head(argv), w.line, w.env) =
        [argv  |-> Started(Head(argv), SubSeq(w.env, at + 1, Len(w.env))),
         env   |-> SubSeq(w.env, 1, at - 1), first |-> at]
  BY <1>a, Zenon DEF prepare_args, Started, at
<1>6. prepare_args(Head(argv), w.line, w.env) =
        [argv |-> Started(Head(argv), Listed(argv)), env |-> own, first |-> Len(own) + 1]
  BY <1>1, <1>3, <1>4, <1>5, <1>a, Zenon
<1> QED
  BY <1>1, <1>3, <1>4, <1>6, Zenon DEF at

(* By a command line: the words of the line behind the path. *)
LEMMA ByLine ==
  ASSUME NEW own \in Seq(EnvTexts), NEW argv \in Argvs,
         NEW w, w = Writes(argv, FALSE, own), w.line.len <= MAX_TOS_ARG
  PROVE  /\ w.line.text = LineOf(argv) /\ w.env = own
         /\ ArgvAt(w.line.len, w.env) = 0
         /\ prepare_args(Head(argv), w.line, w.env) =
              [argv  |-> Started(Head(argv), <<Head(argv)>> \o parse_cmdline(LineOf(argv)).args),
               env   |-> own, first |-> Len(own) + 1]
<1>1. w.line.text = LineOf(argv) /\ w.env = own /\ w.line.len = Len(LineOf(argv))
  BY DEF Writes, LineOf
<1>2. w.line.len # Extended
  <2>1. Len(LineOf(argv)) \in Nat
    BY ArgvTyped, LineOfTyped DEF Strings
  <2>2. ASSUME NEW l \in Nat, l <= MAX_TOS_ARG
        PROVE  l # MAX_TOS_ARG + 1
    BY <2>2, ArgsAssumption
  <2> QED
    BY <1>1, <2>1, <2>2, Zenon DEF Extended
<1>3. ArgvAt(w.line.len, w.env) = 0
  BY <1>2 DEF ArgvAt
<1>4. prepare_args(Head(argv), w.line, w.env) =
        [argv  |-> Started(Head(argv), <<Head(argv)>> \o parse_cmdline(w.line.text).args),
         env   |-> w.env, first |-> Len(w.env) + 1]
  BY <1>3, Zenon DEF prepare_args, Started
<1> QED
  BY <1>1, <1>3, <1>4, Zenon

(* ParaTos in front makes a vector one longer. *)
LEMMA StartedIs ==
  ASSUME NEW path, NEW argv \in Seq(Strings), Len(argv) >= 1
  PROVE  /\ Started(path, argv) \in Seq(Strings)
         /\ Len(Started(path, argv)) \in Nat /\ Len(Started(path, argv)) >= 1
         /\ Len(Started(path, argv)) <= Len(argv) + 1
         /\ path \in TosPaths => Len(Started(path, argv)) >= 2
<1>1. Paratos \in Strings
  BY DEF Paratos, Strings, Characters
<1>2. CASE path \in TosPaths
  <2>1. Started(path, argv) = <<Paratos>> \o argv
    BY <1>2 DEF Started
  <2> HIDE DEF Strings
  <2> QED
    BY <1>1, <2>1
<1>3. CASE path \notin TosPaths
  <2>1. Started(path, argv) = argv
    BY <1>3 DEF Started
  <2> QED
    BY <1>3, <2>1
<1> QED
  BY <1>2, <1>3

(* The vector a from place f on, with its closing NULL and the bytes of the
   words of the line, fits into what is allocated.                         *)
VectorFits(argv, w, own, a, f) ==
  /\ prepare_args(Head(argv), w.line, w.env) = [argv |-> a, env |-> own, first |-> f]
  /\ a \in Seq(Strings) /\ Len(a) >= 1 /\ (Head(argv) \in TosPaths => Len(a) >= 2)
  /\ f + Len(a) + 1 <= Pointers(w.env, ArgvAt(w.line.len, w.env),
                                1 + Len(parse_cmdline(w.line.text).args))
  /\ Bytes(parse_cmdline(w.line.text).args) <= parse_cmdline(w.line.text).bytes

(* Every call fits, by a command line or by the list. *)
LEMMA PexecFits ==
  ASSUME NEW own \in Seq(EnvTexts), NEW argv \in Argvs, NEW byArgv \in BOOLEAN,
         byArgv => NoArgv(own), NEW w, w = Writes(argv, byArgv, own),
         byArgv \/ w.line.len <= MAX_TOS_ARG
  PROVE  \E a, f : VectorFits(argv, w, own, a, f)
<1>1. argv \in Seq(Strings) /\ Len(argv) >= 1 /\ Len(argv) \in Nat /\ Len(own) \in Nat
  BY ArgvTyped
<1>2. CASE byArgv
  <2> DEFINE l == Listed(argv)
             a == Started(Head(argv), l)
             f == Len(own) + 1
             text == w.line.text
             words == parse_cmdline(text)
  <2>1. /\ w.line.text = <<>>
        /\ ArgvAt(w.line.len, w.env) = f
        /\ Len(w.env) = Len(own) + 1 + Len(argv)
        /\ prepare_args(Head(argv), w.line, w.env) = [argv |-> a, env |-> own, first |-> f]
        /\ l \in Seq(Strings) /\ Len(l) = Len(argv)
    <3>1. byArgv = TRUE
      BY <1>2
    <3> QED
      BY <1>2, <3>1, ByArgv
  <2>2. /\ a \in Seq(Strings) /\ Len(a) \in Nat /\ Len(a) >= 1
        /\ Len(a) <= Len(argv) + 1 /\ (Head(argv) \in TosPaths => Len(a) >= 2)
    BY <1>1, <2>1, StartedIs
  <2>3. Bytes(words.args) <= words.bytes
    <3>1. text \in Strings
      BY <2>1 DEF Strings
    <3> QED
      BY <3>1, CmdlineFits DEF Strings
  <2> HIDE DEF a, l
  <2>4. f + Len(a) + 1 <= Pointers(w.env, f, 1 + Len(words.args))
    <3>1. Pointers(w.env, f, 1 + Len(words.args)) = Len(w.env) + 2
      <4>1. f # 0
        BY <1>1
      <4> HIDE DEF f
      <4> QED
        BY <4>1, Zenon DEF Pointers
    <3>2. \A x, y, z \in Nat : z <= y + 1 => x + 1 + z + 1 <= x + 1 + y + 2
      OBVIOUS
    <3> QED
      BY <1>1, <2>1, <2>2, <3>1, <3>2, Zenon
  <2>5. VectorFits(argv, w, own, a, f)
    BY <2>1, <2>2, <2>3, <2>4, Zenon DEF VectorFits
  <2> QED
    BY <2>5, Zenon
<1>3. CASE ~byArgv
  <2> DEFINE text == LineOf(argv)
             words == parse_cmdline(text)
             v == <<Head(argv)>> \o words.args
             a == Started(Head(argv), v)
             f == Len(own) + 1
  <2>1. /\ w.line.text = text /\ w.env = own
        /\ ArgvAt(w.line.len, w.env) = 0
        /\ prepare_args(Head(argv), w.line, w.env) = [argv |-> a, env |-> own, first |-> f]
    <3>1. byArgv = FALSE /\ w.line.len <= MAX_TOS_ARG
      BY <1>3
    <3> QED
      BY <3>1, ByLine
  <2>2. words.args \in Seq(Strings) /\ Bytes(words.args) <= words.bytes
    <3>1. text \in Strings
      BY <1>1, LineOfTyped
    <3> QED
      BY <3>1, CmdlineFits DEF Strings
  <2>3. v \in Seq(Strings) /\ Len(v) = 1 + Len(words.args) /\ Len(words.args) \in Nat
    <3>1. Head(argv) \in Strings
      BY <1>1
    <3> HIDE DEF words
    <3> QED
      BY <2>2, <3>1
  <2>4. /\ a \in Seq(Strings) /\ Len(a) \in Nat /\ Len(a) >= 1
        /\ Len(a) <= Len(v) + 1 /\ (Head(argv) \in TosPaths => Len(a) >= 2)
    <3>1. Len(v) >= 1
      BY <2>3
    <3> HIDE DEF v
    <3> QED
      BY <2>3, <3>1, StartedIs
  <2> HIDE DEF a, v, words, text
  <2>5. f + Len(a) + 1 <= Pointers(w.env, 0, 1 + Len(words.args))
    <3>1. Pointers(w.env, 0, 1 + Len(words.args)) = Len(own) + (1 + Len(words.args)) + 3
      BY <2>1 DEF Pointers
    <3>2. \A x, y, z \in Nat : z <= (1 + y) + 1 => x + 1 + z + 1 <= x + (1 + y) + 3
      OBVIOUS
    <3> QED
      BY <1>1, <2>3, <2>4, <3>1, <3>2, Zenon
  <2>6. VectorFits(argv, w, own, a, f)
    BY <2>1, <2>2, <2>4, <2>5, Zenon DEF VectorFits, words, text
  <2> QED
    BY <2>6, Zenon
<1> QED
  BY <1>2, <1>3

-----------------------------------------------------------------------------
(* prepare_args stays inside what it allocates.                            *)

(* The types that every call keeps: the vectors and environments are made of
   texts, and the loader gets a program behind the ParaTos executable.     *)
ArgsTyped ==
  /\ host.argv \in Seq(Strings) /\ Len(host.argv) >= 1 /\ host.env \in Seq(EnvTexts)
  /\ phase = "loading" => Len(host.argv) >= 2
  /\ page.len \in 0 .. Extended
  /\ page.text \in Strings /\ Len(page.text) <= MAX_TOS_ARG
  /\ page.env \in Seq(EnvTexts)
  /\ sent.argv \in Argvs
  /\ phase \in {"loading", "running", "host"} /\ hops \in 0 .. MaxHops

(* The inductive invariant of ArraysFit. *)
ArgsInv == ArgsTyped /\ array.used <= array.size /\ array.filled <= array.bytes

(* It holds at the start. *)
LEMMA InitArgs == Init => ArgsInv
<1> SUFFICES ASSUME Init PROVE ArgsInv
  OBVIOUS
<1>1. PICK argv \in Argvs :
        /\ sent = [argv |-> argv, env |-> Vars]
        /\ host = [argv |-> <<Paratos>> \o argv, env |-> Vars]
  BY DEF Init
<1>2. argv \in Seq(Strings) /\ Len(argv) >= 1
  BY ArgvTyped
<1>3. Paratos \in Strings /\ Vars \in Seq(EnvTexts) /\ <<>> \in Strings /\ <<>> \in Seq(EnvTexts)
  BY DEF Paratos, Vars, Strings, EnvTexts, Characters
<1>4. <<Paratos>> \o argv \in Seq(Strings) /\ Len(<<Paratos>> \o argv) >= 2
  <2> HIDE DEF Strings
  <2> QED
    BY <1>2, <1>3
<1>5. /\ host.argv \in Seq(Strings) /\ Len(host.argv) >= 2 /\ host.env \in Seq(EnvTexts)
      /\ sent.argv \in Argvs
  BY <1>1, <1>3, <1>4
<1>6. /\ page.len = 0 /\ page.text = <<>> /\ page.env = <<>> /\ hops = 0 /\ phase = "loading"
      /\ array.used = 0 /\ array.size = 0 /\ array.filled = 0 /\ array.bytes = 0
  BY DEF Init
<1>7. Len(host.argv) >= 1
  BY <1>5
<1>8. 0 \in 0 .. Extended /\ 0 \in 0 .. MaxHops /\ Len(<<>>) <= MAX_TOS_ARG
  BY ArgsAssumption DEF Extended
<1> QED
  BY <1>3, <1>5, <1>6, <1>7, <1>8 DEF ArgsInv, ArgsTyped

(* The loader keeps it. *)
LEMMA LoadExeArgs == ArgsInv /\ LoadExe => ArgsInv'
<1> SUFFICES ASSUME ArgsInv, LoadExe PROVE ArgsInv'
  OBVIOUS
<1>1. /\ phase = "loading" /\ phase' = "running"
      /\ page' = BuildTosArglist(Tail(host.argv), host.env)
      /\ UNCHANGED <<host, array, sent, hops>>
  BY DEF LoadExe
<1>2. /\ Tail(host.argv) \in Seq(Strings) /\ Len(Tail(host.argv)) >= 1
      /\ host.env \in Seq(EnvTexts)
  BY <1>1 DEF ArgsInv, ArgsTyped
<1>3. /\ page'.len \in 0 .. Extended /\ page'.text \in Strings
      /\ Len(page'.text) <= MAX_TOS_ARG /\ page'.env \in Seq(EnvTexts)
  BY <1>1, <1>2, PageTyped
<1> QED
  BY <1>1, <1>3 DEF ArgsInv, ArgsTyped

(* So does every call. *)
LEMMA PexecArgs ==
  ASSUME NEW argv \in Argvs, NEW byArgv \in BOOLEAN, NEW stripped \in BOOLEAN
  PROVE  ArgsInv /\ Pexec(argv, byArgv, stripped) => ArgsInv'
<1> SUFFICES ASSUME ArgsInv, Pexec(argv, byArgv, stripped) PROVE ArgsInv'
  OBVIOUS
<1> DEFINE own == IF stripped \/ byArgv THEN Without(page.env) ELSE page.env
           w   == Writes(argv, byArgv, own)
           at  == ArgvAt(w.line.len, w.env)
           words == parse_cmdline(w.line.text)
           made  == prepare_args(Head(argv), w.line, w.env)
<1>1. /\ hops < MaxHops /\ hops' = hops + 1
      /\ byArgv \/ w.line.len <= MAX_TOS_ARG
      /\ sent' = [argv |-> argv, env |-> Without(page.env)]
      /\ host' = [argv |-> made.argv, env |-> made.env]
      /\ array' = [size   |-> Pointers(w.env, at, 1 + Len(words.args)),
                   used   |-> made.first + Len(made.argv) + 1,
                   bytes  |-> words.bytes,
                   filled |-> Bytes(words.args)]
      /\ phase' = IF Head(argv) \in TosPaths THEN "loading" ELSE "host"
      /\ UNCHANGED page
  BY Zenon DEF Pexec
<1>2. own \in Seq(EnvTexts) /\ (byArgv => NoArgv(own))
  BY WithoutIs DEF ArgsInv, ArgsTyped
<1> HIDE DEF own
<1>3. PICK a, f : VectorFits(argv, w, own, a, f)
  BY <1>1, <1>2, PexecFits
<1>4. /\ made = [argv |-> a, env |-> own, first |-> f]
      /\ a \in Seq(Strings) /\ Len(a) >= 1 /\ (Head(argv) \in TosPaths => Len(a) >= 2)
      /\ f + Len(a) + 1 <= Pointers(w.env, at, 1 + Len(words.args))
      /\ Bytes(words.args) <= words.bytes
  BY <1>3, Zenon DEF VectorFits
<1> HIDE DEF made, words, at, w
<1>5. made.argv = a /\ made.env = own /\ made.first = f
  BY <1>4
<1>6. host'.argv = a /\ host'.env = own /\ sent'.argv = argv
  BY <1>1, <1>5
<1>7. array'.used <= array'.size /\ array'.filled <= array'.bytes
  BY <1>1, <1>4, <1>5
<1>8. /\ phase' \in {"loading", "running", "host"}
      /\ phase' = "loading" => Len(a) >= 2
  BY <1>1, <1>4
<1>9. hops' \in 0 .. MaxHops
  BY <1>1, ArgsAssumption DEF ArgsInv, ArgsTyped
<1> QED
  BY <1>1, <1>2, <1>4, <1>6, <1>7, <1>8, <1>9 DEF ArgsInv, ArgsTyped

(* Whatever arguments a program passes on, by a command line or by the ARGV
   procedure, the vector that prepare_args makes with the ParaTos executable
   in front of it and its closing NULL stays inside the pointers allocated,
   and every argument of a command line with its closing 0 inside the bytes
   that parse_cmdline counted.                                             *)
THEOREM ArraysAlwaysFit == Spec => []ArraysFit
<1>1. Init => ArgsInv
  BY InitArgs
<1>2. ArgsInv /\ [Next]_vars => ArgsInv'
  <2> SUFFICES ASSUME ArgsInv, [Next]_vars PROVE ArgsInv'
    OBVIOUS
  <2>1. CASE LoadExe
    BY <2>1, LoadExeArgs
  <2>2. CASE \E argv \in Argvs : \E byArgv, stripped \in BOOLEAN : Pexec(argv, byArgv, stripped)
    BY <2>2, PexecArgs
  <2>3. CASE UNCHANGED vars
    BY <2>3 DEF vars, ArgsInv, ArgsTyped
  <2> QED
    BY <2>1, <2>2, <2>3 DEF Next
<1>3. ArgsInv => ArraysFit
  BY DEF ArgsInv, ArgsTyped, ArraysFit, TypeOK
<1> QED
  BY <1>1, <1>2, <1>3, PTL DEF Spec

-----------------------------------------------------------------------------
(* The words of a line are read as they were written.                      *)

(* The state st of parse_cmdline with the arguments a. *)
At(s, st, a) == s \in ParseStates(Characters) /\ s.state = st /\ s.args = a /\ s.skip = 0

(* A character that parse_cmdline puts into an argument. *)
IsPlain(c) == c \in Characters /\ c \notin Blanks \cup Quotes

(* The last element x of b, replaced by y. *)
Replaced(b, x, y, d) == b[Len(b)] = x /\ [b EXCEPT ![Len(b)] = y] = d

(* Changing the last element is appending another one instead. *)
LEMMA AppendLast ==
  ASSUME NEW a \in Seq(Seq(Characters)), NEW x \in Seq(Characters), NEW y \in Seq(Characters),
         NEW b, b = Append(a, x)
  PROVE  Replaced(b, x, y, Append(a, y))
<1> DEFINE S == Seq(Characters)
<1> HIDE DEF S
<1>0. a \in Seq(S) /\ x \in S /\ y \in S
  BY DEF S
<1> DEFINE n == Len(a)
           d == Append(a, y)
<1>1. n \in Nat
  BY <1>0
<1>2. /\ b \in Seq(S) /\ Len(b) = n + 1 /\ b[n + 1] = x
      /\ \A i \in 1 .. n : b[i] = a[i]
  BY <1>0, AppendProperties
<1>3. /\ d \in Seq(S) /\ Len(d) = n + 1 /\ d[n + 1] = y
      /\ \A i \in 1 .. n : d[i] = a[i]
  BY <1>0, AppendProperties
<1>4. DOMAIN b = 1 .. n + 1
  BY <1>1, <1>2
<1> HIDE DEF n, d
<1> DEFINE e == [b EXCEPT ![n + 1] = y]
<1>5. /\ e \in [1 .. n + 1 -> S] /\ e[n + 1] = y
      /\ \A i \in 1 .. n : e[i] = b[i]
  <2>0. \A q \in Seq(S) : q \in [1 .. Len(q) -> S]
    OBVIOUS
  <2>1. b \in [1 .. n + 1 -> S] /\ n + 1 \in 1 .. n + 1
    <3>1. n + 1 \in 1 .. n + 1
      BY <1>1
    <3> QED
      BY <1>2, <2>0, <3>1, Zenon
  <2>2. \A f \in [1 .. n + 1 -> S] : [f EXCEPT ![n + 1] = y] \in [1 .. n + 1 -> S]
    BY <1>0
  <2>3. \A i \in 1 .. n : i \in 1 .. n + 1 /\ i # n + 1
    BY <1>1
  <2>4. /\ e[n + 1] = y
        /\ \A i \in 1 .. n : e[i] = b[i]
    BY <2>1, <2>3, Zenon
  <2> QED
    BY <2>1, <2>2, <2>4, Zenon
<1> HIDE DEF e
<1>6. e \in Seq(S) /\ Len(e) = n + 1
  BY <1>1, <1>5
<1>7. \A i \in 1 .. n + 1 : e[i] = d[i]
  <2>1. \A i \in 1 .. n + 1 : i \in 1 .. n \/ i = n + 1
    BY <1>1
  <2> QED
    BY <1>2, <1>3, <1>5, <2>1, Zenon
<1>8. e = d
  BY <1>3, <1>6, <1>7, SeqEqual
<1> QED
  BY <1>2, <1>8 DEF d, e, Replaced

(* A blank ends an argument. *)
LEMMA BlankStep ==
  ASSUME NEW s, NEW q \in {"BL", "CHAR"}, NEW a, At(s, q, a), NEW next,
         q = "BL" \/ a # <<>>
  PROVE  At(Parsed(s, Blank, next), "BL", a)
<1>1. Blank \in Blanks /\ ~(s.skip > 0) /\ s \in ParseStates(Characters)
  BY DEF At, Blanks
<1>2. CASE q = "BL"
  <2>1. Parsed(s, Blank, next) = s
    BY <1>1, <1>2 DEF Parsed, At
  <2> QED
    BY <1>2, <2>1
<1>3. CASE q = "CHAR"
  <2> DEFINE t == [s EXCEPT !.state = "BL", !.bytes = s.bytes + 1]
  <2>1. Parsed(s, Blank, next) = t
    BY <1>1, <1>3 DEF Parsed, At, InWord
  <2>2. t.state = "BL" /\ t.args = s.args /\ t.skip = s.skip
    BY <1>1 DEF ParseStates
  <2>3. t \in ParseStates(Characters)
    BY <1>1, <1>3, StateChanges DEF At
  <2> HIDE DEF t
  <2> QED
    BY <2>1, <2>2, <2>3 DEF At
<1> QED
  BY <1>2, <1>3

(* The first character of an argument. *)
LEMMA FirstStep ==
  ASSUME NEW s, NEW a, At(s, "BL", a), NEW c, IsPlain(c), NEW next
  PROVE  At(Parsed(s, c, next), "CHAR", Append(a, <<c>>))
<1>1. s \in ParseStates(Characters) /\ c \in Characters
  BY DEF At, IsPlain
<1> DEFINE n == NewWord(s)
<1>2. Parsed(s, c, next) = Put(n, c)
  <2>1. Parsed(s, c, next) = InWord(n, c)
    BY DEF Parsed, At, IsPlain
  <2>2. InWord(n, c) = Put(n, c)
    BY DEF InWord, IsPlain
  <2> QED
    BY <2>1, <2>2
<1>3. /\ n \in ParseStates(Characters) /\ n.state = "CHAR" /\ n.skip = 0
      /\ n.args = Append(a, <<>>) /\ n.args # <<>>
  BY <1>1, NewWordIs DEF At
<1> HIDE DEF n
<1>4. /\ Put(n, c) \in ParseStates(Characters)
      /\ Put(n, c).state = "CHAR" /\ Put(n, c).skip = 0
  BY <1>1, <1>3, PutIs
<1>5. Put(n, c).args = Append(a, <<c>>)
  <2>1. Put(n, c).args = [n.args EXCEPT ![Len(n.args)] = Append(@, c)]
    BY <1>1, <1>3, PutArgs
  <2>2. a \in Seq(Seq(Characters))
    BY DEF At, ParseStates
  <2>3. <<>> \in Seq(Characters) /\ <<c>> \in Seq(Characters) /\ Append(<<>>, c) = <<c>>
    BY <1>1
  <2> DEFINE b == n.args
  <2>4. b = Append(a, <<>>)
    BY <1>3
  <2> HIDE DEF b
  <2>5. b[Len(b)] = <<>> /\ [b EXCEPT ![Len(b)] = <<c>>] = Append(a, <<c>>)
    <3>1. Replaced(b, <<>>, <<c>>, Append(a, <<c>>))
      BY <2>2, <2>3, <2>4, AppendLast
    <3> QED
      BY <3>1, Zenon DEF Replaced
  <2>6. [b EXCEPT ![Len(b)] = Append(@, c)] = [b EXCEPT ![Len(b)] = <<c>>]
    BY <2>3, <2>5, Zenon
  <2> QED
    BY <2>1, <2>5, <2>6, Zenon DEF b
<1> QED
  BY <1>2, <1>4, <1>5 DEF At

(* One more character of an argument. *)
LEMMA NextStep ==
  ASSUME NEW s, NEW a \in Seq(Seq(Characters)), NEW x \in Seq(Characters),
         At(s, "CHAR", Append(a, x)), NEW c, IsPlain(c), NEW next
  PROVE  At(Parsed(s, c, next), "CHAR", Append(a, Append(x, c)))
<1>1. s \in ParseStates(Characters) /\ c \in Characters /\ s.args = Append(a, x) /\ s.args # <<>>
  BY AppendProperties DEF At, IsPlain
<1>2. Parsed(s, c, next) = Put(s, c)
  <2>1. Parsed(s, c, next) = InWord(s, c)
    BY DEF Parsed, At
  <2>2. InWord(s, c) = Put(s, c)
    BY DEF InWord, IsPlain
  <2> QED
    BY <2>1, <2>2
<1>3. /\ Put(s, c) \in ParseStates(Characters)
      /\ Put(s, c).state = "CHAR" /\ Put(s, c).skip = 0
  BY <1>1, PutIs DEF At
<1>4. Put(s, c).args = Append(a, Append(x, c))
  <2>1. Put(s, c).args = [s.args EXCEPT ![Len(s.args)] = Append(@, c)]
    BY <1>1, PutArgs
  <2>2. Append(x, c) \in Seq(Characters)
    BY <1>1
  <2> DEFINE b == s.args
             y == Append(x, c)
  <2>3. b = Append(a, x) /\ y \in Seq(Characters)
    BY <1>1, <2>2
  <2> HIDE DEF b, y
  <2>4. b[Len(b)] = x /\ [b EXCEPT ![Len(b)] = y] = Append(a, y)
    <3>1. Replaced(b, x, y, Append(a, y))
      BY <2>3, AppendLast
    <3> QED
      BY <3>1, Zenon DEF Replaced
  <2>5. [b EXCEPT ![Len(b)] = Append(@, c)] = [b EXCEPT ![Len(b)] = y]
    BY <2>4, Zenon DEF y
  <2> QED
    BY <2>1, <2>4, <2>5, Zenon DEF b, y
<1> QED
  BY <1>2, <1>3, <1>4 DEF At

(* The quotes of an empty argument. *)
LEMMA QuoteSteps ==
  ASSUME NEW s, NEW a, NEW next
  PROVE  /\ At(s, "BL", a) => At(Parsed(s, SQ, next), SQ, Append(a, <<>>))
         /\ At(s, SQ, a) /\ a # <<>> /\ next # SQ => At(Parsed(s, SQ, next), "CHAR", a)
<1>1. ASSUME At(s, "BL", a)
      PROVE  At(Parsed(s, SQ, next), SQ, Append(a, <<>>))
  <2> DEFINE n == NewWord(s)
             t == [n EXCEPT !.state = SQ]
  <2>1. SQ \notin Blanks /\ SQ \in Quotes
    BY DEF SQ, Blanks, Quotes, Blank
  <2>2. /\ n \in ParseStates(Characters) /\ n.state = "CHAR" /\ n.skip = 0
        /\ n.args = Append(a, <<>>) /\ n.args # <<>>
    BY <1>1, NewWordIs DEF At
  <2>3. Parsed(s, SQ, next) = t
    <3>1. Parsed(s, SQ, next) = InWord(n, SQ)
      BY <1>1, <2>1 DEF Parsed, At
    <3> QED
      BY <2>1, <3>1 DEF InWord
  <2> HIDE DEF n
  <2>4. t \in ParseStates(Characters)
    BY <2>1, <2>2, StateChanges
  <2>5. t.state = SQ /\ t.args = n.args /\ t.skip = n.skip
    BY <2>2 DEF ParseStates
  <2> QED
    BY <2>2, <2>3, <2>4, <2>5 DEF At
<1>2. ASSUME At(s, SQ, a), a # <<>>, next # SQ
      PROVE  At(Parsed(s, SQ, next), "CHAR", a)
  <2> DEFINE t == [s EXCEPT !.state = "CHAR"]
  <2>1. Parsed(s, SQ, next) = t
    <3>1. Parsed(s, SQ, next) = InQuotes(s, SQ, next)
      BY <1>2 DEF Parsed, At, SQ
    <3> QED
      BY <1>2, <3>1 DEF InQuotes, At
  <2>2. t \in ParseStates(Characters)
    BY <1>2, StateChanges DEF At
  <2>3. t.state = "CHAR" /\ t.args = s.args /\ t.skip = s.skip
    BY <1>2 DEF ParseStates, At
  <2> QED
    BY <1>2, <2>1, <2>2, <2>3 DEF At
<1> QED
  BY <1>1, <1>2

(* A word and its characters. *)
LEMMA WordIs ==
  ASSUME NEW t \in Strings
  PROVE  /\ Word(t) \in Strings /\ Word(t)[1] = Blank
         /\ t = <<>> => Len(Word(t)) = 3 /\ Word(t)[2] = SQ /\ Word(t)[3] = SQ
         /\ t # <<>> => /\ Len(Word(t)) = 1 + Len(t)
                        /\ \A j \in 1 .. Len(t) : Word(t)[1 + j] = t[j]
<1>1. Blank \in Characters /\ SQ \in Characters
  BY DEF Characters
<1>2. CASE t = <<>>
  BY <1>1, <1>2 DEF Word, Strings
<1>3. CASE t # <<>>
  <2>1. Word(t) = <<Blank>> \o t
    BY <1>3 DEF Word
  <2> QED
    BY <1>1, <1>3, <2>1 DEF Strings
<1> QED
  BY <1>2, <1>3

(* One character is one step. *)
LEMMA ParseStep ==
  ASSUME NEW text \in Strings, NEW k \in Nat, k + 1 <= Len(text)
  PROVE  Parse(text)[k + 1] = Parsed(Parse(text)[k], text[k + 1], After(text, k + 1))
<1>1. k + 1 \in 1 .. Len(text) /\ (k + 1) - 1 = k
  OBVIOUS
<1> QED
  BY <1>1, ParseIs DEF Strings

(* A word at the place o of a text, between arguments, is read as one more
   argument.                                                               *)
LEMMA WordRead ==
  ASSUME NEW text \in Strings, NEW t \in Strings, \A j \in 1 .. Len(t) : IsPlain(t[j]),
         NEW o \in Nat, o + Len(Word(t)) <= Len(text),
         \A j \in 1 .. Len(Word(t)) : text[o + j] = Word(t)[j],
         After(text, o + Len(Word(t))) # SQ,
         NEW a \in Seq(Strings), NEW q \in {"BL", "CHAR"}, q = "BL" \/ a # <<>>,
         At(Parse(text)[o], q, a)
  PROVE  At(Parse(text)[o + Len(Word(t))], "CHAR", Append(a, t))
<1> DEFINE P == Parse(text)
<1>0. /\ Word(t) \in Strings /\ Word(t)[1] = Blank
      /\ t = <<>> => Len(Word(t)) = 3 /\ Word(t)[2] = SQ /\ Word(t)[3] = SQ
      /\ t # <<>> => /\ Len(Word(t)) = 1 + Len(t)
                     /\ \A j \in 1 .. Len(t) : Word(t)[1 + j] = t[j]
  BY WordIs
<1>1. Len(Word(t)) \in Nat /\ Len(t) \in Nat /\ Len(text) \in Nat
  BY <1>0 DEF Strings
<1>2. Len(Word(t)) >= 1 /\ (t # <<>> => Len(t) >= 1)
  BY <1>0, <1>1 DEF Strings
<1>3. At(P[o + 1], "BL", a)
  <2>1. 1 \in 1 .. Len(Word(t)) /\ o + 1 <= Len(text)
    BY <1>1, <1>2
  <2>2. P[o + 1] = Parsed(P[o], Blank, After(text, o + 1))
    BY <1>0, <2>1, ParseStep
  <2> HIDE DEF P
  <2> QED
    BY <2>2, BlankStep DEF P
<1>4. CASE t = <<>>
  <2>1. Len(Word(t)) = 3 /\ o + 1 + 1 <= Len(text) /\ o + 2 + 1 <= Len(text)
    BY <1>0, <1>1, <1>4
  <2>2. /\ o + 1 \in Nat /\ o + 2 \in Nat /\ o + 1 + 1 = o + 2 /\ o + 2 + 1 = o + 3
        /\ 2 \in 1 .. Len(Word(t)) /\ 3 \in 1 .. Len(Word(t))
    BY <2>1
  <2>3. text[o + 2] = SQ /\ text[o + 3] = SQ
    BY <1>0, <1>4, <2>2
  <2>4. /\ P[o + 2] = Parsed(P[o + 1], SQ, After(text, o + 2))
        /\ P[o + 3] = Parsed(P[o + 2], SQ, After(text, o + 3))
    <3>1. P[o + 1 + 1] = Parsed(P[o + 1], text[o + 1 + 1], After(text, o + 1 + 1))
      BY <2>1, <2>2, ParseStep
    <3>2. P[o + 2 + 1] = Parsed(P[o + 2], text[o + 2 + 1], After(text, o + 2 + 1))
      BY <2>1, <2>2, ParseStep
    <3> QED
      BY <2>2, <2>3, <3>1, <3>2, Zenon
  <2> HIDE DEF P
  <2>5. At(P[o + 2], SQ, Append(a, <<>>))
    BY <1>3, <2>4, QuoteSteps
  <2>6. Append(a, <<>>) # <<>> /\ After(text, o + 3) # SQ
    BY <2>1, AppendProperties
  <2>7. At(P[o + 3], "CHAR", Append(a, <<>>))
    BY <2>4, <2>5, <2>6, QuoteSteps
  <2> QED
    BY <1>4, <2>1, <2>7 DEF P
<1>5. CASE t # <<>>
  <2> DEFINE m == Len(t) - 1
             S == {j \in 0 .. m : At(P[o + 2 + j], "CHAR", Append(a, SubSeq(t, 1, j + 1)))}
  <2>0. m \in Nat /\ Len(t) = m + 1 /\ Len(Word(t)) = m + 2 /\ o + (m + 2) <= Len(text)
    BY <1>0, <1>1, <1>2, <1>5
  <2> HIDE DEF m
  <2>1. ASSUME NEW j \in 0 .. m
        PROVE  /\ P[o + 2 + j] = Parsed(P[o + 1 + j], t[j + 1], After(text, o + 2 + j))
               /\ IsPlain(t[j + 1])
    <3>1. /\ o + 1 + j \in Nat /\ o + 1 + j + 1 <= Len(text) /\ o + 1 + j + 1 = o + 2 + j
          /\ j + 1 \in 1 .. Len(t) /\ 1 + (j + 1) \in 1 .. Len(Word(t))
          /\ o + (1 + (j + 1)) = o + 2 + j
      <4>1. ASSUME NEW x \in Nat, NEW n \in Nat, NEW i \in 0 .. n, NEW l \in Nat,
                   x + (n + 2) <= l
            PROVE  /\ x + 1 + i \in Nat /\ x + 1 + i + 1 <= l /\ x + 1 + i + 1 = x + 2 + i
                   /\ i + 1 \in 1 .. n + 1 /\ 1 + (i + 1) \in 1 .. n + 2
                   /\ x + (1 + (i + 1)) = x + 2 + i
        BY <4>1
      <4> QED
        BY <1>1, <2>0, <4>1, Zenon
    <3>2. P[o + 1 + j + 1] = Parsed(P[o + 1 + j], text[o + 1 + j + 1], After(text, o + 1 + j + 1))
      BY <3>1, ParseStep
    <3>3. text[o + 2 + j] = t[j + 1]
      <4>1. text[o + (1 + (j + 1))] = Word(t)[1 + (j + 1)]
        BY <3>1
      <4>2. Word(t)[1 + (j + 1)] = t[j + 1]
        BY <1>0, <1>5, <3>1
      <4> QED
        BY <3>1, <4>1, <4>2, Zenon
    <3>4. IsPlain(t[j + 1])
      BY <3>1
    <3> QED
      BY <3>1, <3>2, <3>3, <3>4, Zenon
  <2> HIDE DEF P
  <2>2. 0 \in S
    <3>1. 0 \in 0 .. m /\ o + 2 + 0 = o + 2 /\ o + 1 + 0 = o + 1 /\ 0 + 1 = 1
      BY <2>0
    <3>2. P[o + 2] = Parsed(P[o + 1], t[1], After(text, o + 2)) /\ IsPlain(t[1])
      BY <2>1, <3>1
    <3>3. SubSeq(t, 1, 1) = <<t[1]>>
      <4>1. /\ SubSeq(t, 1, 1) \in Seq(Characters) /\ Len(SubSeq(t, 1, 1)) = 1
            /\ SubSeq(t, 1, 1)[1] = t[1] /\ t[1] \in Characters
        BY <1>1, <1>2, <1>5 DEF Strings
      <4>2. ASSUME NEW u \in Seq(Characters), NEW c \in Characters, Len(u) = 1, u[1] = c
            PROVE  u = <<c>>
        BY <4>2
      <4> QED
        BY <4>1, <4>2, Zenon
    <3>4. At(P[o + 2], "CHAR", Append(a, <<t[1]>>))
      BY <1>3, <3>2, FirstStep
    <3> QED
      BY <3>1, <3>3, <3>4
  <2>3. ASSUME NEW j \in 1 .. m, j - 1 \in S
        PROVE  j \in S
    <3> DEFINE x == SubSeq(t, 1, j)
    <3>1. /\ j \in 0 .. m /\ o + 2 + (j - 1) = o + 1 + j /\ (j - 1) + 1 = j
          /\ j \in 1 .. Len(t) /\ j + 1 \in 1 .. Len(t)
      BY <2>0
    <3>2. At(P[o + 1 + j], "CHAR", Append(a, x))
      <4>1. At(P[o + 2 + (j - 1)], "CHAR", Append(a, SubSeq(t, 1, (j - 1) + 1)))
        BY <2>3
      <4> QED
        BY <3>1, <4>1, Zenon
    <3>3. x \in Seq(Characters) /\ SubSeq(t, 1, j + 1) = Append(x, t[j + 1])
      BY <1>1, <3>1 DEF Strings
    <3>4. P[o + 2 + j] = Parsed(P[o + 1 + j], t[j + 1], After(text, o + 2 + j)) /\ IsPlain(t[j + 1])
      BY <2>1, <3>1
    <3> HIDE DEF x
    <3>5. At(P[o + 2 + j], "CHAR", Append(a, Append(x, t[j + 1])))
      BY <3>2, <3>3, <3>4, NextStep DEF Strings
    <3> QED
      BY <3>1, <3>3, <3>5
  <2>4. m \in S
    <3>1. m \in 0 .. m
      BY <2>0
    <3> HIDE DEF S
    <3> QED
      BY <2>0, <2>2, <2>3, <3>1, RangeInduction
  <2>5. o + 2 + m = o + Len(Word(t)) /\ SubSeq(t, 1, m + 1) = t
    <3>1. SubSeq(t, 1, Len(t)) = t
      BY SubSeqFull DEF Strings
    <3> QED
      BY <2>0, <3>1
  <2> QED
    BY <2>4, <2>5 DEF P
<1> QED
  BY <1>4, <1>5

(* Two texts in a row. *)
LEMMA TwoTexts ==
  ASSUME NEW x \in Strings, NEW y \in Strings, NEW z, z = x \o y
  PROVE  /\ z \in Strings /\ Len(z) = Len(x) + Len(y)
         /\ Len(x) \in Nat /\ Len(y) \in Nat
         /\ \A i \in 1 .. Len(x) : z[i] = x[i]
         /\ \A i \in 1 .. Len(y) : z[Len(x) + i] = y[i]
BY DEF Strings

(* The line grows by a word at a time. *)
LEMMA WordsGrow ==
  ASSUME NEW argv \in Seq(Strings), NEW n \in Nat, Len(argv) = n + 1
  PROVE  /\ WordsTo(argv)[0] = <<>> /\ WordsTo(argv)[n] = Words(argv)
         /\ \A k \in 0 .. n : WordsTo(argv)[k] \in Strings
         /\ \A k \in 1 .. n :
              /\ WordsTo(argv)[k] = WordsTo(argv)[k - 1] \o Word(argv[k + 1])
              /\ argv[k + 1] \in Strings
<1>1. Blank \in Characters /\ SQ \in Characters
  BY DEF Characters
<1>2. Len(argv) >= 1 /\ Len(argv) - 1 = n
  OBVIOUS
<1>3. /\ WordsTo(argv) \in [0 .. n -> Strings] /\ WordsTo(argv)[0] = <<>>
      /\ \A k \in 1 .. n : WordsTo(argv)[k] = WordsTo(argv)[k - 1] \o Word(argv[k + 1])
  BY <1>1, <1>2, WordsToIs DEF Strings
<1>4. WordsTo(argv)[n] = Words(argv)
  BY <1>2 DEF Words
<1>5. \A k \in 1 .. n : argv[k + 1] \in Strings
  <2> HIDE DEF Strings
  <2> QED
    OBVIOUS
<1> QED
  BY <1>3, <1>4, <1>5

(* The first k words are the beginning of the line. *)
LEMMA WordsBegin ==
  ASSUME NEW argv \in Seq(Strings), NEW n \in Nat, Len(argv) = n + 1
  PROVE  \A k \in 0 .. n :
           /\ Len(WordsTo(argv)[k]) <= Len(Words(argv))
           /\ \A i \in 1 .. Len(WordsTo(argv)[k]) : Words(argv)[i] = WordsTo(argv)[k][i]
<1> DEFINE T == Words(argv)
           W == WordsTo(argv)
           Begins(w) == Len(w) <= Len(T) /\ \A i \in 1 .. Len(w) : T[i] = w[i]
           S == {d \in 0 .. n : Begins(W[n - d])}
<1>1. /\ W[n] = T /\ \A k \in 0 .. n : W[k] \in Strings
      /\ \A k \in 1 .. n : W[k] = W[k - 1] \o Word(argv[k + 1]) /\ argv[k + 1] \in Strings
  BY WordsGrow
<1> HIDE DEF T, W
<1>2. T \in Strings
  <2>1. n \in 0 .. n
    OBVIOUS
  <2> QED
    BY <1>1, <2>1
<1>3. 0 \in S
  <2>1. Begins(T)
    BY <1>2 DEF Strings
  <2>2. n - 0 = n /\ 0 \in 0 .. n
    OBVIOUS
  <2> QED
    BY <1>1, <2>1, <2>2
<1>4. ASSUME NEW d \in 1 .. n, d - 1 \in S
      PROVE  d \in S
  <2> DEFINE k == n - d
  <2>1. k + 1 \in 1 .. n /\ (k + 1) - 1 = k /\ k \in 0 .. n /\ n - (d - 1) = k + 1 /\ d \in 0 .. n
    OBVIOUS
  <2> HIDE DEF k
  <2>2. /\ W[k + 1] = W[k] \o Word(argv[k + 1 + 1]) /\ argv[k + 1 + 1] \in Strings
        /\ W[k] \in Strings
    BY <1>1, <2>1
  <2>3. Begins(W[k + 1])
    <3>1. Begins(W[n - (d - 1)])
      BY <1>4
    <3> QED
      BY <2>1, <3>1
  <2>4. ASSUME NEW x \in Strings, NEW y \in Strings, Begins(x \o y)
        PROVE  Begins(x)
    <3>1. PICK z : z = x \o y
      OBVIOUS
    <3>2. /\ Len(z) = Len(x) + Len(y) /\ Len(x) \in Nat /\ Len(y) \in Nat
          /\ \A i \in 1 .. Len(x) : z[i] = x[i]
      BY <3>1, TwoTexts
    <3>3. Len(z) <= Len(T) /\ (\A i \in 1 .. Len(z) : T[i] = z[i]) /\ Len(T) \in Nat
      BY <1>2, <2>4, <3>1 DEF Strings
    <3>4. \A i \in 1 .. Len(x) : i \in 1 .. Len(z)
      BY <3>2
    <3> QED
      BY <3>2, <3>3, <3>4
  <2> HIDE DEF Begins
  <2>5. Word(argv[k + 1 + 1]) \in Strings
    BY <2>2, WordIs
  <2>6. Begins(W[k])
    BY <2>2, <2>3, <2>4, <2>5
  <2> QED
    BY <2>1, <2>6 DEF k
<1> HIDE DEF S
<1>5. 0 .. n \subseteq S
  BY <1>3, <1>4, RangeInduction
<1>6. ASSUME NEW k \in 0 .. n
      PROVE  Begins(W[k])
  <2>1. n - k \in 0 .. n /\ n - (n - k) = k
    OBVIOUS
  <2>2. n - k \in S
    BY <1>5, <2>1
  <2>3. Begins(W[n - (n - k)])
    BY <2>2 DEF S
  <2> QED
    BY <2>1, <2>3
<1> QED
  BY <1>6 DEF W, T

(* Arguments without blanks and quotes are read as they were written. *)
LEMMA WordsRead ==
  ASSUME NEW argv \in Seq(Strings), Len(argv) >= 1, Plain(argv)
  PROVE  parse_cmdline(Words(argv)).args = Tail(argv)
<1> DEFINE n == Len(argv) - 1
           T == Words(argv)
           W == WordsTo(argv)
           P == Parse(T)
           q(k) == IF k = 0 THEN "BL" ELSE "CHAR"
           S == {k \in 0 .. n : At(P[Len(W[k])], q(k), SubSeq(argv, 2, k + 1))}
<1>0. n \in Nat /\ Len(argv) = n + 1
  OBVIOUS
<1> HIDE DEF n
<1>1. /\ W[0] = <<>> /\ W[n] = T /\ \A k \in 0 .. n : W[k] \in Strings
      /\ \A k \in 1 .. n : W[k] = W[k - 1] \o Word(argv[k + 1]) /\ argv[k + 1] \in Strings
  BY <1>0, WordsGrow
<1>2. \A k \in 0 .. n : Len(W[k]) <= Len(T) /\ \A i \in 1 .. Len(W[k]) : T[i] = W[k][i]
  BY <1>0, WordsBegin
<1>3. T \in Strings /\ n \in 0 .. n
  <2>1. n \in 0 .. n
    BY <1>0
  <2> QED
    BY <1>1, <2>1
<1> HIDE DEF T, W
<1>4. 0 \in S
  <2>1. P[0] = [state |-> "BL", args |-> <<>>, bytes |-> 0, skip |-> 0] /\ P[0] \in ParseStates(Characters)
    <3>1. 0 \in 0 .. Len(T)
      BY <1>3 DEF Strings
    <3> QED
      BY <1>3, <3>1, ParseIs DEF Strings, FitStates
  <2>2. Len(W[0]) = 0 /\ q(0) = "BL" /\ 0 \in 0 .. n
    BY <1>0, <1>1
  <2>3. SubSeq(argv, 2, 0 + 1) = <<>>
    BY SubSeqEmpty
  <2> HIDE DEF P
  <2>4. At(P[0], "BL", <<>>)
    BY <2>1 DEF At
  <2> QED
    BY <2>2, <2>3, <2>4
<1>5. ASSUME NEW k \in 1 .. n, k - 1 \in S
      PROVE  k \in S
  <2> DEFINE o == Len(W[k - 1])
             t == argv[k + 1]
             w == Word(t)
             a == SubSeq(argv, 2, k)
  <2>0. k - 1 \in 0 .. n /\ k \in 0 .. n /\ k + 1 \in 2 .. Len(argv) /\ (k - 1) + 1 = k
    BY <1>0
  <2>1. W[k] = W[k - 1] \o w /\ t \in Strings /\ W[k - 1] \in Strings
    BY <1>1, <2>0
  <2>2. w \in Strings /\ w[1] = Blank
    BY <2>1, WordIs
  <2>3. \A j \in 1 .. Len(t) : IsPlain(t[j])
    BY <2>0, <2>1 DEF Plain, IsPlain, Strings
  <2> HIDE DEF w, t
  <2>4. /\ Len(W[k]) = o + Len(w) /\ o \in Nat /\ Len(w) \in Nat
        /\ \A j \in 1 .. Len(w) : W[k][o + j] = w[j]
    <3> HIDE DEF P, S, a, q, o
    <3>1. W[k - 1] \in Strings /\ w \in Strings /\ W[k] = W[k - 1] \o w
      BY <2>1, <2>2
    <3>2. /\ Len(W[k]) = Len(W[k - 1]) + Len(w)
          /\ Len(W[k - 1]) \in Nat /\ Len(w) \in Nat
          /\ \A j \in 1 .. Len(w) : W[k][Len(W[k - 1]) + j] = w[j]
      BY <3>1, TwoTexts
    <3> QED
      BY <3>2 DEF o
  <2>5. /\ o + Len(w) <= Len(T)
        /\ \A j \in 1 .. Len(w) : T[o + j] = w[j]
    <3>1. Len(W[k]) <= Len(T) /\ \A i \in 1 .. Len(W[k]) : T[i] = W[k][i]
      BY <1>2, <2>0
    <3> HIDE DEF o
    <3>2. \A j \in 1 .. Len(w) : o + j \in 1 .. Len(W[k])
      BY <2>4
    <3> QED
      BY <2>4, <3>1, <3>2
  <2>6. After(T, o + Len(w)) # SQ
    <3>1. CASE Len(W[k]) = Len(T)
      BY <2>4, <3>1 DEF After, SQ
    <3>2. CASE Len(W[k]) # Len(T)
      <4>1. k # n
        BY <1>1, <3>2
      <4>2. k + 1 \in 1 .. n /\ k + 1 \in 0 .. n /\ (k + 1) - 1 = k
        BY <1>0, <4>1
      <4> DEFINE v == Word(argv[k + 1 + 1])
      <4>3. W[k + 1] = W[k] \o v /\ v \in Strings /\ v[1] = Blank /\ Len(v) >= 1 /\ W[k] \in Strings
        <5>1. W[k + 1] = W[k] \o v /\ argv[k + 1 + 1] \in Strings /\ W[k] \in Strings
          BY <1>1, <2>0, <4>2
        <5>2. \A x \in Strings : Word(x) \in Strings /\ Word(x)[1] = Blank /\ Len(Word(x)) >= 1
          <6> TAKE x \in Strings
          <6>1. /\ Word(x) \in Strings /\ Word(x)[1] = Blank /\ Len(x) \in Nat
                /\ (Len(Word(x)) = 3 \/ Len(Word(x)) = 1 + Len(x))
            BY WordIs DEF Strings
          <6> QED
            BY <6>1
        <5> QED
          BY <5>1, <5>2
      <4> HIDE DEF v
      <4>4. T[Len(W[k]) + 1] = Blank
        <5>1. W[k + 1][Len(W[k]) + 1] = Blank /\ Len(W[k]) + 1 \in 1 .. Len(W[k + 1])
          BY <4>3 DEF Strings
        <5> QED
          BY <1>2, <4>2, <5>1
      <4>5. After(T, Len(W[k])) = Blank
        BY <3>2, <4>4 DEF After
      <4> QED
        BY <2>4, <4>5 DEF Blank, SQ
    <3> QED
      BY <3>1, <3>2
  <2>7. /\ a \in Seq(Strings) /\ (k = 1 \/ a # <<>>)
        /\ SubSeq(argv, 2, k + 1) = Append(a, t)
    <3> HIDE DEF Strings
    <3>1. a \in Seq(Strings) /\ Len(a) = k - 1
      BY <1>0, <2>0
    <3>2. SubSeq(argv, 2, k + 1) = Append(a, argv[k + 1])
      BY <1>0, <2>0
    <3> QED
      BY <3>1, <3>2 DEF t
  <2>8. q(k - 1) \in {"BL", "CHAR"} /\ (q(k - 1) = "BL" \/ a # <<>>) /\ q(k) = "CHAR"
    BY <2>7
  <2>9. At(P[o], q(k - 1), a)
    <3>1. At(P[Len(W[k - 1])], q(k - 1), SubSeq(argv, 2, (k - 1) + 1))
      BY <1>5
    <3> QED
      BY <2>0, <3>1, Zenon
  <2> HIDE DEF o, a, q
  <2>10. At(P[o + Len(w)], "CHAR", Append(a, t))
    BY <1>3, <2>1, <2>2, <2>3, <2>4, <2>5, <2>6, <2>7, <2>8, <2>9, WordRead DEF w
  <2>11. At(P[Len(W[k])], q(k), SubSeq(argv, 2, k + 1))
    BY <2>4, <2>7, <2>8, <2>10, Zenon
  <2> QED
    BY <2>0, <2>11
<1>6. n \in S
  <2> HIDE DEF S
  <2> QED
    BY <1>0, <1>3, <1>4, <1>5, RangeInduction
<1>7. At(P[Len(T)], q(n), SubSeq(argv, 2, n + 1))
  BY <1>1, <1>6
<1>8. parse_cmdline(T).args = SubSeq(argv, 2, n + 1)
  BY <1>7 DEF At, parse_cmdline
<1>9. SubSeq(argv, 2, n + 1) = Tail(argv)
  BY <1>0
<1> QED
  BY <1>8, <1>9 DEF T

(* A blank in front of a line makes no difference. *)
LEMMA TailReads ==
  ASSUME NEW text \in Strings, text # <<>>, text[1] = Blank
  PROVE  parse_cmdline(Tail(text)).args = parse_cmdline(text).args
<1> DEFINE u == Tail(text)
           m == Len(u)
           P == Parse(text)
           Q == Parse(u)
           S == {k \in 0 .. m : Q[k] = P[k + 1]}
           b == [state |-> "BL", args |-> <<>>, bytes |-> 0, skip |-> 0]
<1>1. /\ u \in Strings /\ Len(text) = m + 1 /\ m \in Nat
      /\ \A k \in 1 .. m : u[k] = text[k + 1]
  BY DEF Strings
<1> HIDE DEF u, m
<1>m. m = Len(u)
  BY DEF m
<1>2. P[0] = b /\ Q[0] = b
  BY <1>1, ParseIs DEF Strings
<1>3. 0 \in S
  <2>1. P[0 + 1] = Parsed(P[0], text[0 + 1], After(text, 0 + 1))
    <3>1. 0 + 1 <= Len(text)
      BY <1>1
    <3> QED
      BY <3>1, ParseStep
  <2>2. Parsed(b, Blank, After(text, 1)) = b
    BY DEF Parsed, Blanks
  <2>3. 0 + 1 = 1 /\ 0 \in 0 .. m
    BY <1>1
  <2> HIDE DEF P, Q, b
  <2> QED
    BY <1>2, <2>1, <2>2, <2>3
<1>4. ASSUME NEW k \in 1 .. m, k - 1 \in S
      PROVE  k \in S
  <2>1. /\ k \in 0 .. m /\ k - 1 \in Nat /\ (k - 1) + 1 = k /\ k <= Len(u) /\ k \in Nat
        /\ k + 1 <= Len(text)
    BY <1>1, <1>m
  <2>2. Q[k] = Parsed(Q[k - 1], u[k], After(u, k))
    <3>1. Q[(k - 1) + 1] = Parsed(Q[k - 1], u[(k - 1) + 1], After(u, (k - 1) + 1))
      BY <1>1, <2>1, ParseStep
    <3> QED
      BY <2>1, <3>1, Zenon
  <2>3. P[k + 1] = Parsed(P[k], text[k + 1], After(text, k + 1))
    BY <2>1, ParseStep
  <2>4. After(u, k) = After(text, k + 1)
    <3>1. CASE k = m
      BY <1>1, <1>m, <3>1 DEF After
    <3>2. CASE k # m
      <4>1. k + 1 \in 1 .. m /\ k + 1 # Len(text)
        BY <1>1, <3>2
      <4> QED
        BY <1>1, <1>m, <3>2, <4>1 DEF After
    <3> QED
      BY <3>1, <3>2
  <2>5. Q[k - 1] = P[k]
    <3>1. Q[k - 1] = P[(k - 1) + 1]
      BY <1>4
    <3> QED
      BY <2>1, <3>1, Zenon
  <2>6. u[k] = text[k + 1]
    BY <1>1
  <2> HIDE DEF P, Q
  <2> QED
    BY <2>1, <2>2, <2>3, <2>4, <2>5, <2>6
<1> HIDE DEF S
<1>5. m \in S
  <2>1. m \in 0 .. m
    BY <1>1
  <2> QED
    BY <1>1, <1>3, <1>4, <2>1, RangeInduction
<1>6. Q[Len(u)] = P[Len(text)]
  BY <1>1, <1>5, <1>m DEF S
<1>7. parse_cmdline(u).args = Q[Len(u)].args /\ parse_cmdline(text).args = P[Len(text)].args
  BY DEF parse_cmdline
<1> QED
  BY <1>6, <1>7 DEF u

(* The line that a program writes is read as its arguments. *)
LEMMA LineRead ==
  ASSUME NEW argv \in Seq(Strings), Len(argv) >= 1, Plain(argv)
  PROVE  parse_cmdline(LineOf(argv)).args = Tail(argv)
<1>1. parse_cmdline(Words(argv)).args = Tail(argv)
  BY WordsRead
<1>2. CASE Len(argv) = 1
  <2>1. Words(argv) = <<>>
    <3>1. Words(argv) = WordsTo(argv)[0]
      BY <1>2 DEF Words
    <3>2. 0 \in Nat /\ Len(argv) = 0 + 1
      BY <1>2
    <3> QED
      BY <3>1, <3>2, WordsGrow
  <2> QED
    BY <1>1, <1>2, <2>1 DEF LineOf
<1>3. CASE Len(argv) # 1
  <2>1. Len(argv) \in Nat
    OBVIOUS
  <2>2. Len(argv) > 1
    <3>1. \A x \in Nat : x >= 1 /\ x # 1 => x > 1
      OBVIOUS
    <3> QED
      BY <1>3, <2>1, <3>1, Zenon
  <2>3. Words(argv) \in Strings /\ Words(argv) # <<>>
    BY <2>2, WordsLong
  <2>4. Words(argv)[1] = Blank
    <3> DEFINE n == Len(argv) - 1
               w == WordsTo(argv)[1]
    <3>1. n \in Nat /\ Len(argv) = n + 1 /\ 1 \in 1 .. n /\ 1 \in 0 .. n /\ 1 - 1 = 0
      BY <2>1, <2>2
    <3> HIDE DEF n
    <3>2. w = <<>> \o Word(argv[1 + 1]) /\ argv[1 + 1] \in Strings
      <4>1. /\ WordsTo(argv)[0] = <<>>
            /\ \A k \in 1 .. n :
                 /\ WordsTo(argv)[k] = WordsTo(argv)[k - 1] \o Word(argv[k + 1])
                 /\ argv[k + 1] \in Strings
        BY <3>1, WordsGrow
      <4>2. WordsTo(argv)[1] = WordsTo(argv)[1 - 1] \o Word(argv[1 + 1]) /\ argv[1 + 1] \in Strings
        BY <3>1, <4>1, Zenon
      <4> QED
        BY <3>1, <4>1, <4>2, Zenon
    <3>3. PICK t \in Strings : w = <<>> \o Word(t)
      BY <3>2
    <3>4. Word(t) \in Strings /\ Word(t)[1] = Blank /\ Len(Word(t)) >= 1
      <4>1. /\ Word(t) \in Strings /\ Word(t)[1] = Blank /\ Len(t) \in Nat
            /\ (Len(Word(t)) = 3 \/ Len(Word(t)) = 1 + Len(t))
        BY WordIs DEF Strings
      <4> QED
        BY <4>1
    <3>5. w = Word(t)
      BY <3>3, <3>4 DEF Strings
    <3>6. \A i \in 1 .. Len(w) : Words(argv)[i] = w[i]
      BY <3>1, WordsBegin
    <3>7. 1 \in 1 .. Len(w)
      BY <3>4, <3>5 DEF Strings
    <3> HIDE DEF w
    <3> QED
      BY <3>4, <3>5, <3>6, <3>7
  <2> QED
    BY <1>1, <1>3, <2>3, <2>4, TailReads DEF LineOf
<1> QED
  BY <1>2, <1>3

(* The program finds its arguments in the list. *)
LEMMA ListRead ==
  ASSUME NEW own \in Seq(EnvTexts), NoArgv(own), NEW argv \in Seq(Strings),
         NEW env, env = own \o ArgvList(argv)
  PROVE  ListOf(env) = argv
<1> DEFINE m == Len(own)
           l == Listed(argv)
           nulls == {i - 1 : i \in {j \in DOMAIN argv : argv[j] = <<>>}}
<1>1. Joined(own, argv, env)
  BY ListFound
<1>2. /\ ArgvAt(Extended, env) = m + 1 /\ env[m + 1] = Entry(argv)
      /\ SubSeq(env, m + 2, Len(env)) = l
  BY <1>1 DEF Joined
<1>3. Entry(argv)[2] = nulls
  BY DEF Entry
<1>4. m \in Nat /\ m + 1 + 1 = m + 2 /\ Len(argv) \in Nat /\ DOMAIN argv = 1 .. Len(argv)
  OBVIOUS
<1>5. ListOf(env) = [i \in DOMAIN l |-> IF i - 1 \in nulls THEN <<>> ELSE l[i]]
  <2>1. ListOf(env) = [i \in DOMAIN SubSeq(env, m + 1 + 1, Len(env)) |->
                         IF i - 1 \in env[m + 1][2] THEN <<>> ELSE SubSeq(env, m + 1 + 1, Len(env))[i]]
    BY <1>2, Zenon DEF ListOf
  <2> HIDE DEF l, nulls
  <2> QED
    BY <1>2, <1>3, <1>4, <2>1, Zenon
<1>6. DOMAIN l = 1 .. Len(argv)
  BY <1>4 DEF Listed
<1>7. ASSUME NEW i \in 1 .. Len(argv)
      PROVE  (IF i - 1 \in nulls THEN <<>> ELSE l[i]) = argv[i]
  <2>1. CASE argv[i] = <<>>
    <3>1. i - 1 \in nulls
      BY <1>4, <2>1
    <3> QED
      BY <2>1, <3>1
  <2>2. CASE argv[i] # <<>>
    <3>1. i - 1 \notin nulls
      <4>1. ASSUME NEW j \in DOMAIN argv, i - 1 = j - 1
            PROVE  i = j
        BY <1>4, <4>1
      <4> QED
        BY <2>2, <4>1
    <3>2. l[i] = argv[i]
      BY <1>4, <2>2 DEF Listed
    <3> QED
      BY <3>1, <3>2
  <2> QED
    BY <2>1, <2>2
<1> HIDE DEF l, nulls
<1>8. ListOf(env) = [i \in 1 .. Len(argv) |-> argv[i]]
  BY <1>5, <1>6, <1>7, Zenon
<1> QED
  BY <1>4, <1>8

(* A list at the end changes nothing of what the environment is without it. *)
LEMMA WithoutJoined ==
  ASSUME NEW own \in Seq(EnvTexts), NEW argv \in Seq(Strings),
         NEW env, env = own \o ArgvList(argv)
  PROVE  Without(env) = Without(own)
<1> DEFINE m == Len(own)
           at == ArgvAt(Extended, own)
           bt == ArgvAt(Extended, env)
<1>1. Joined(own, argv, env)
  BY ListFound
<1>2. /\ env \in Seq(EnvTexts) /\ Len(env) = m + 1 + Len(argv)
      /\ \A i \in 1 .. m : env[i] = own[i]
      /\ SubSeq(env, 1, m) = own
      /\ NoArgv(own) => bt = m + 1
  BY <1>1 DEF Joined
<1>3. m \in Nat /\ Len(argv) \in Nat
  OBVIOUS
<1>4. CASE NoArgv(own)
  <2>1. Without(own) = own
    BY <1>4, WithoutIs
  <2>2. bt = m + 1 /\ bt # 0 /\ bt - 1 = m
    BY <1>2, <1>3, <1>4
  <2>3. Without(env) = SubSeq(env, 1, bt - 1)
    BY <2>2, Zenon DEF Without
  <2> QED
    BY <1>2, <2>1, <2>2, <2>3, Zenon
<1>5. CASE ~NoArgv(own)
  <2>1. /\ at \in 1 .. m /\ IsArgv(own[at])
        /\ \A j \in 1 .. at - 1 : ~IsArgv(own[j])
    <3>1. /\ at \in 0 .. m /\ at # 0
          /\ at # 0 => IsArgv(own[at]) /\ \A j \in 1 .. at - 1 : ~IsArgv(own[j])
      BY <1>5, ArgvAtIs
    <3> QED
      BY <1>3, <3>1
  <2>2. ~NoArgv(env)
    <3>1. at \in DOMAIN env
      BY <1>2, <1>3, <2>1
    <3> QED
      BY <1>2, <2>1, <3>1 DEF NoArgv
  <2>3. /\ bt \in 0 .. Len(env) /\ bt # 0 /\ IsArgv(env[bt])
        /\ \A j \in 1 .. bt - 1 : ~IsArgv(env[j])
    <3>1. /\ bt \in 0 .. Len(env) /\ bt # 0
          /\ bt # 0 => IsArgv(env[bt]) /\ \A j \in 1 .. bt - 1 : ~IsArgv(env[j])
      BY <1>2, <2>2, ArgvAtIs
    <3> QED
      BY <3>1
  <2> HIDE DEF at, bt, m
  <2>4. bt = at
    <3>1. ~(bt < at)
      <4>1. bt < at => bt \in 1 .. at - 1 /\ bt \in 1 .. m
        BY <1>2, <1>3, <2>1, <2>3
      <4> QED
        BY <1>2, <2>1, <2>3, <4>1
    <3>2. ~(at < bt)
      <4>1. at < bt => at \in 1 .. bt - 1
        BY <2>1, <2>3, <1>2, <1>3
      <4> QED
        BY <1>2, <2>1, <2>3, <4>1
    <3> QED
      BY <1>2, <1>3, <2>1, <2>3, <3>1, <3>2
  <2>5. at # 0 /\ Without(own) = SubSeq(own, 1, at - 1) /\ Without(env) = SubSeq(env, 1, at - 1)
    <3>1. at # 0
      BY <2>1
    <3> QED
      BY <2>4, <3>1, Zenon DEF Without, at, bt
  <2>6. SubSeq(own, 1, at - 1) = SubSeq(env, 1, at - 1)
    <3>1. ASSUME NEW s, NEW n \in Nat, \A i \in 1 .. n : s[i] \in EnvTexts
          PROVE  /\ SubSeq(s, 1, n) \in Seq(EnvTexts) /\ Len(SubSeq(s, 1, n)) = n
                 /\ \A i \in 1 .. n : SubSeq(s, 1, n)[i] = s[i]
      <4>1. \A i \in 1 .. n - 1 + 1 : SubSeq(s, 1, n)[i] = s[1 + i - 1]
        BY <3>1, SubSeqProperties
      <4>2. SubSeq(s, 1, n) \in Seq(EnvTexts) /\ Len(SubSeq(s, 1, n)) = IF 1 <= n THEN n - 1 + 1 ELSE 0
        BY <3>1, SubSeqProperties
      <4> QED
        BY <4>1, <4>2
    <3>2. at - 1 \in Nat /\ \A i \in 1 .. at - 1 : i \in 1 .. m
      BY <1>3, <2>1
    <3>3. \A i \in 1 .. m : own[i] \in EnvTexts
      BY DEF m
    <3>4. ASSUME NEW x \in Seq(EnvTexts), NEW y \in Seq(EnvTexts), Len(x) = Len(y),
                 \A i \in 1 .. Len(x) : x[i] = y[i]
          PROVE  x = y
      BY <3>4, SeqEqual
    <3>5. \A i \in 1 .. at - 1 : own[i] \in EnvTexts /\ env[i] \in EnvTexts /\ own[i] = env[i]
      BY <1>2, <3>2, <3>3, Zenon
    <3>6. /\ SubSeq(own, 1, at - 1) \in Seq(EnvTexts) /\ Len(SubSeq(own, 1, at - 1)) = at - 1
          /\ \A i \in 1 .. at - 1 : SubSeq(own, 1, at - 1)[i] = own[i]
      BY <3>1, <3>2, <3>5, Zenon
    <3>7. /\ SubSeq(env, 1, at - 1) \in Seq(EnvTexts) /\ Len(SubSeq(env, 1, at - 1)) = at - 1
          /\ \A i \in 1 .. at - 1 : SubSeq(env, 1, at - 1)[i] = env[i]
      BY <3>1, <3>2, <3>5, Zenon
    <3>8. \A i \in 1 .. at - 1 : SubSeq(own, 1, at - 1)[i] = SubSeq(env, 1, at - 1)[i]
      BY <3>5, <3>6, <3>7, Zenon
    <3> QED
      BY <3>4, <3>6, <3>7, <3>8, Zenon
  <2> QED
    BY <2>5, <2>6
<1> QED
  BY <1>4, <1>5

(* What the program reads from the page that the loader wrote. *)
LEMMA PageReads ==
  ASSUME NEW argv \in Seq(Strings), Len(argv) >= 1, Plain(argv),
         NEW env \in Seq(EnvTexts), Len(Words(argv)) >= MAX_TOS_ARG => NoArgv(env),
         NEW p, p = BuildTosArglist(argv, env)
  PROVE  Reads(p) = [args |-> Tail(argv), env |-> Without(env)]
<1> DEFINE line == Line(Words(argv))
           e == env \o ArgvList(argv)
<1>1. p.len = line.len /\ p.text = line.text /\ p.env = e
  BY DEF BuildTosArglist
<1>2. Without(e) = Without(env)
  BY WithoutJoined
<1>3. Words(argv) \in Strings
  BY WordsTyped
<1>4. /\ line.len = Extended <=> Len(Words(argv)) >= MAX_TOS_ARG
      /\ Len(Words(argv)) < MAX_TOS_ARG => line.text = Words(argv)
  BY <1>3, LineIs DEF Strings
<1> HIDE DEF line, e
<1>5. (IF p.len = Extended THEN Tail(ListOf(p.env)) ELSE WordsOf(p.text)) = Tail(argv)
  <2>1. CASE p.len = Extended
    <3>1. NoArgv(env)
      BY <1>1, <1>4, <2>1
    <3>2. ListOf(e) = argv
      BY <3>1, ListRead DEF e
    <3> QED
      BY <1>1, <2>1, <3>2
  <2>2. CASE p.len # Extended
    <3>1. Len(Words(argv)) < MAX_TOS_ARG
      <4>1. Len(Words(argv)) \in Nat /\ MAX_TOS_ARG \in Nat
        BY <1>3, ArgsAssumption DEF Strings
      <4>2. \A x, y \in Nat : ~(x >= y) => x < y
        OBVIOUS
      <4> QED
        BY <1>1, <1>4, <2>2, <4>1, <4>2, Zenon
    <3>2. p.text = Words(argv)
      BY <1>1, <1>4, <3>1
    <3>3. WordsOf(p.text) = Tail(argv)
      BY <3>2, WordsRead DEF WordsOf
    <3> QED
      BY <2>2, <3>3
  <2> QED
    BY <2>1, <2>2
<1> QED
  BY <1>1, <1>2, <1>5, Zenon DEF Reads

-----------------------------------------------------------------------------
(* The arguments arrive.                                                   *)

(* Arguments that are passed on without an empty one in the list, or without
   blanks and quotes, are the vector for execve.                           *)
LEMMA PassedOn ==
  ASSUME NEW own \in Seq(EnvTexts), NEW argv \in Argvs, NEW byArgv \in BOOLEAN,
         byArgv => NoArgv(own), byArgv => \A i \in DOMAIN argv : argv[i] # <<>>,
         Plain(argv), NEW w, w = Writes(argv, byArgv, own),
         byArgv \/ w.line.len <= MAX_TOS_ARG
  PROVE  \E f : prepare_args(Head(argv), w.line, w.env)
                  = [argv |-> Started(Head(argv), argv), env |-> own, first |-> f]
<1>1. argv \in Seq(Strings) /\ Len(argv) >= 1
  BY ArgvTyped
<1>2. CASE byArgv
  <2>1. Listed(argv) = argv
    <3>1. Listed(argv) = [i \in DOMAIN argv |-> argv[i]]
      BY <1>2, Zenon DEF Listed
    <3>2. argv = [i \in DOMAIN argv |-> argv[i]]
      BY <1>1
    <3> QED
      BY <3>1, <3>2
  <2>2. prepare_args(Head(argv), w.line, w.env) =
          [argv |-> Started(Head(argv), Listed(argv)), env |-> own, first |-> Len(own) + 1]
    <3>1. byArgv = TRUE
      BY <1>2
    <3> QED
      BY <1>2, <3>1, ByArgv
  <2> QED
    BY <2>1, <2>2, Zenon
<1>3. CASE ~byArgv
  <2>1. <<Head(argv)>> \o parse_cmdline(LineOf(argv)).args = argv
    <3>1. parse_cmdline(LineOf(argv)).args = Tail(argv)
      BY <1>1, LineRead
    <3>2. <<Head(argv)>> \o Tail(argv) = argv
      <4> HIDE DEF Strings
      <4> QED
        BY <1>1
    <3> QED
      BY <3>1, <3>2
  <2>2. prepare_args(Head(argv), w.line, w.env) =
          [argv  |-> Started(Head(argv), <<Head(argv)>> \o parse_cmdline(LineOf(argv)).args),
           env   |-> own, first |-> Len(own) + 1]
    <3>1. byArgv = FALSE /\ w.line.len <= MAX_TOS_ARG
      BY <1>3
    <3> QED
      BY <3>1, ByLine
  <2> QED
    BY <2>1, <2>2, Zenon
<1> QED
  BY <1>2, <1>3

(* The loader will find what the caller meant, and no older list if the line
   is too long; the program reads it; a host program has it.               *)
ArriveInv ==
  /\ ArgsInv
  /\ phase = "loading" =>
       /\ Plain(sent.argv) /\ host.argv = <<Paratos>> \o sent.argv
       /\ Without(host.env) = sent.env
       /\ Len(Words(sent.argv)) >= MAX_TOS_ARG => NoArgv(host.env)
  /\ phase = "running" => Reads(page) = [args |-> Tail(sent.argv), env |-> sent.env]
  /\ phase = "host" => host.argv = sent.argv /\ Without(host.env) = sent.env

(* It holds at the start. *)
LEMMA InitArrives == Init /\ Plain(sent.argv) => ArriveInv
<1> SUFFICES ASSUME Init, Plain(sent.argv) PROVE ArriveInv
  OBVIOUS
<1>1. PICK argv \in Argvs :
        /\ sent = [argv |-> argv, env |-> Vars]
        /\ host = [argv |-> <<Paratos>> \o argv, env |-> Vars]
  BY DEF Init
<1>2. sent.argv = argv /\ sent.env = Vars /\ host.argv = <<Paratos>> \o argv /\ host.env = Vars
  BY <1>1
<1>3. NoArgv(Vars) /\ Vars \in Seq(EnvTexts)
  <2>1. Vars \in Seq(EnvTexts)
    BY DEF Vars, EnvTexts, Strings, Characters
  <2>2. ~IsArgv(<<"V", "=">>)
    BY DEF IsArgv
  <2>3. DOMAIN Vars = {1} /\ Vars[1] = <<"V", "=">>
    BY DEF Vars
  <2> QED
    BY <2>1, <2>2, <2>3 DEF NoArgv
<1>4. Without(Vars) = Vars
  BY <1>3, WithoutIs
<1>5. phase = "loading" /\ ArgsInv
  BY InitArgs DEF Init
<1> QED
  BY <1>2, <1>3, <1>4, <1>5 DEF ArriveInv

(* The loader passes on what it finds. *)
LEMMA LoadExeArrives == ArriveInv /\ LoadExe => ArriveInv'
<1> SUFFICES ASSUME ArriveInv, LoadExe PROVE ArriveInv'
  OBVIOUS
<1>1. /\ phase = "loading" /\ phase' = "running"
      /\ page' = BuildTosArglist(Tail(host.argv), host.env)
      /\ host' = host /\ sent' = sent
  BY DEF LoadExe
<1>2. /\ sent.argv \in Argvs /\ host.env \in Seq(EnvTexts) /\ ArgsInv
      /\ Plain(sent.argv) /\ host.argv = <<Paratos>> \o sent.argv
      /\ Without(host.env) = sent.env
      /\ Len(Words(sent.argv)) >= MAX_TOS_ARG => NoArgv(host.env)
  BY <1>1 DEF ArriveInv, ArgsInv, ArgsTyped
<1>3. sent.argv \in Seq(Strings) /\ Len(sent.argv) >= 1
  BY <1>2, ArgvTyped
<1>4. Tail(host.argv) = sent.argv
  <2>1. Paratos \in Strings
    BY DEF Paratos, Strings, Characters
  <2> HIDE DEF Strings
  <2>2. ASSUME NEW x \in Strings, NEW y \in Seq(Strings)
        PROVE  Tail(<<x>> \o y) = y
    OBVIOUS
  <2> QED
    BY <1>2, <1>3, <2>1, <2>2
<1>5. Reads(page') = [args |-> Tail(sent.argv), env |-> Without(host.env)]
  BY <1>1, <1>2, <1>3, <1>4, PageReads
<1>6. (Reads(page))' = [args |-> Tail(sent'.argv), env |-> sent'.env]
  BY <1>1, <1>2, <1>5 DEF Reads
<1>7. ArgsInv'
  BY <1>2, LoadExeArgs
<1> QED
  BY <1>1, <1>6, <1>7 DEF ArriveInv

(* A careful call hands over what it means. *)
LEMMA PexecArrives ==
  ASSUME NEW argv \in Argvs, NEW byArgv \in BOOLEAN, NEW stripped \in BOOLEAN
  PROVE  ArriveInv /\ Careful(argv, byArgv, stripped) /\ Pexec(argv, byArgv, stripped) => ArriveInv'
<1> SUFFICES ASSUME ArriveInv, Careful(argv, byArgv, stripped), Pexec(argv, byArgv, stripped)
             PROVE  ArriveInv'
  OBVIOUS
<1> DEFINE own  == IF stripped \/ byArgv THEN Without(page.env) ELSE page.env
           w    == Writes(argv, byArgv, own)
           made == prepare_args(Head(argv), w.line, w.env)
<1>1. /\ byArgv \/ w.line.len <= MAX_TOS_ARG
      /\ sent' = [argv |-> argv, env |-> Without(page.env)]
      /\ host' = [argv |-> made.argv, env |-> made.env]
      /\ phase' = IF Head(argv) \in TosPaths THEN "loading" ELSE "host"
  BY Zenon DEF Pexec
<1>2. page.env \in Seq(EnvTexts) /\ ArgsInv
  BY DEF ArriveInv, ArgsInv, ArgsTyped
<1>3. /\ own \in Seq(EnvTexts) /\ (stripped \/ byArgv => NoArgv(own))
      /\ Without(own) = Without(page.env)
  <2>1. /\ Without(page.env) \in Seq(EnvTexts) /\ NoArgv(Without(page.env))
        /\ Without(Without(page.env)) = Without(page.env)
    BY <1>2, WithoutIs
  <2> QED
    BY <1>2, <2>1
<1>4. /\ Plain(argv) /\ (byArgv => \A i \in DOMAIN argv : argv[i] # <<>>)
      /\ stripped \/ Len(Words(argv)) < MAX_TOS_ARG
  BY Zenon DEF Careful
<1>5. Len(Words(argv)) >= MAX_TOS_ARG => NoArgv(own)
  <2>1. Len(Words(argv)) \in Nat /\ MAX_TOS_ARG \in Nat
    BY ArgvTyped, WordsTyped, ArgsAssumption DEF Strings
  <2>2. \A x, y \in Nat : x >= y => ~(x < y)
    OBVIOUS
  <2> QED
    BY <1>3, <1>4, <2>1, <2>2, Zenon
<1> HIDE DEF own
<1>6. PICK f : made = [argv |-> Started(Head(argv), argv), env |-> own, first |-> f]
  BY <1>1, <1>3, <1>4, PassedOn
<1> HIDE DEF made, w
<1>7. made.argv = Started(Head(argv), argv) /\ made.env = own
  BY <1>6
<1>8. /\ host'.argv = Started(Head(argv), argv) /\ host'.env = own
      /\ sent'.argv = argv /\ sent'.env = Without(page.env)
  BY <1>1, <1>7
<1>9. ArgsInv'
  BY <1>2, PexecArgs
<1>10. CASE Head(argv) \in TosPaths
  <2>1. phase' = "loading" /\ host'.argv = <<Paratos>> \o argv
    BY <1>1, <1>8, <1>10 DEF Started
  <2> QED
    BY <1>3, <1>4, <1>5, <1>8, <1>9, <2>1 DEF ArriveInv, Plain, NoArgv, Without, ArgvAt
<1>11. CASE Head(argv) \notin TosPaths
  <2>1. phase' = "host" /\ host'.argv = argv
    BY <1>1, <1>8, <1>11 DEF Started
  <2> QED
    BY <1>3, <1>8, <1>9, <2>1 DEF ArriveInv
<1> QED
  BY <1>10, <1>11

(* As long as programs call with care, every program of a chain reads the
   very arguments and environment that its caller meant, however long they
   are and however they were passed.                                       *)
THEOREM ArgsAlwaysArrive == CarefulSpec => []ArgsArrive
<1>1. CarefulInit => ArriveInv
  BY InitArrives DEF CarefulInit
<1>2. ArriveInv /\ [CarefulNext]_vars => ArriveInv'
  <2> SUFFICES ASSUME ArriveInv, [CarefulNext]_vars PROVE ArriveInv'
    OBVIOUS
  <2>1. CASE LoadExe
    BY <2>1, LoadExeArrives
  <2>2. CASE \E argv \in Argvs : \E byArgv, stripped \in BOOLEAN :
               Pexec(argv, byArgv, stripped) /\ Careful(argv, byArgv, stripped)
    BY <2>2, PexecArrives
  <2>3. CASE UNCHANGED vars
    BY <2>3 DEF vars, ArriveInv, ArgsInv, ArgsTyped, Reads
  <2> QED
    BY <2>1, <2>2, <2>3 DEF CarefulNext
<1>3. ArriveInv => ArgsArrive
  <2> SUFFICES ASSUME ArriveInv PROVE ArgsArrive
    OBVIOUS
  <2>1. ASSUME phase = "loading"
        PROVE  host.argv[2] = Head(sent.argv)
    <3>1. /\ host.argv = <<Paratos>> \o sent.argv
          /\ sent.argv \in Seq(Strings) /\ Len(sent.argv) >= 1 /\ Head(sent.argv) = sent.argv[1]
      BY <2>1, ArgvTyped DEF ArriveInv, ArgsInv, ArgsTyped
    <3>2. Paratos \in Strings
      BY DEF Paratos, Strings, Characters
    <3> HIDE DEF Strings
    <3>3. ASSUME NEW x \in Strings, NEW y \in Seq(Strings), Len(y) >= 1
          PROVE  (<<x>> \o y)[2] = y[1]
      BY <3>3
    <3> QED
      BY <3>1, <3>2, <3>3
  <2> QED
    BY <2>1 DEF ArriveInv, ArgsArrive
<1> QED
  BY <1>1, <1>2, <1>3, PTL DEF CarefulSpec
=============================================================================
