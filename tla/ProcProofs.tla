----------------------------- MODULE ProcProofs -----------------------------
(* Proofs about processes and pid_map, for any number of host processes, any
   width of the 16-bit pid and every interleaving of calls, ends and stops.  *)
EXTENDS GemdosProc, TLAPS, WellFoundedInduction, FiniteSetTheorems,
        SequenceTheorems

-----------------------------------------------------------------------------
(* The first match in a list.                                                *)

(* A non-empty set of numbers has a least one. *)
LEMMA LeastIndex ==
  ASSUME NEW S \in SUBSET Nat, S # {}
  PROVE  Min(S) \in S /\ \A x \in S : Min(S) <= x
<1> DEFINE R == {ss \in Nat \X Nat : ss[1] < ss[2]}
<1>1. IsWellFoundedOn(R, Nat)
  <2>1. R = OpToRel(<, Nat)
    BY Zenon DEF OpToRel
  <2> QED
    BY <2>1, NatLessThanWellFounded
<1>2. \E x \in S : \A y \in S : ~ (<<y, x>> \in R)
  <2> HIDE DEF R
  <2> QED
    BY <1>1, WFMin
<1>3. PICK x \in S : \A y \in S : ~ (<<y, x>> \in R)
  BY <1>2
<1>4. \A y \in S : x <= y
  <2> TAKE y \in S
  <2>1. <<y, x>> \in R <=> y < x
    OBVIOUS
  <2> QED
    BY <2>1, <1>3
<1> QED
  BY <1>4 DEF Min

(* A list without its i-th element. *)
LEMMA RemoveAtIs ==
  ASSUME NEW S, NEW s \in Seq(S), NEW i \in 1 .. Len(s)
  PROVE  /\ RemoveAt(s, i) \in Seq(S) /\ Len(RemoveAt(s, i)) = Len(s) - 1
         /\ \A k \in 1 .. Len(s) - 1 :
              RemoveAt(s, i)[k] = IF k < i THEN s[k] ELSE s[k + 1]
<1> DEFINE a == SubSeq(s, 1, i - 1)
           b == SubSeq(s, i + 1, Len(s))
<1>1. /\ a \in Seq(S) /\ Len(a) = i - 1 /\ \A k \in 1 .. i - 1 : a[k] = s[k]
      /\ b \in Seq(S) /\ Len(b) = Len(s) - i
      /\ \A k \in 1 .. Len(s) - i : b[k] = s[i + k]
  OBVIOUS
<1> HIDE DEF a, b
<1>2. /\ a \o b \in Seq(S) /\ Len(a \o b) = Len(a) + Len(b)
      /\ \A k \in 1 .. Len(a) + Len(b) :
           (a \o b)[k] = IF k <= Len(a) THEN a[k] ELSE b[k - Len(a)]
  BY <1>1, ConcatProperties, Zenon
<1>3. RemoveAt(s, i) = a \o b
  BY DEF RemoveAt, a, b
<1>4. \A k \in i .. Len(s) - 1 : b[k - (i - 1)] = s[k + 1]
  <2> TAKE k \in i .. Len(s) - 1
  <2>1. k - (i - 1) \in 1 .. Len(s) - i /\ i + (k - (i - 1)) = k + 1
    OBVIOUS
  <2> QED
    BY <2>1, <1>1
<1>5. Len(a) + Len(b) = Len(s) - 1
  BY <1>1
<1>6. a \in Seq(S) /\ b \in Seq(S) /\ Len(a) = i - 1
  BY <1>1
<1>7. /\ a \o b \in Seq(S) /\ Len(a \o b) = Len(s) - 1
      /\ \A k \in 1 .. Len(s) - 1 :
           (a \o b)[k] = IF k <= i - 1 THEN a[k] ELSE b[k - (i - 1)]
  BY ONLY <1>2, <1>5, <1>6, Zenon
<1> QED
  BY <1>1, <1>3, <1>4, <1>7

-----------------------------------------------------------------------------
(* Truncated pids.                                                           *)

(* PidMod is even. *)
LEMMA HalfRange ==
  /\ PidMod \div 2 \in Nat /\ PidMod = 2 * (PidMod \div 2) /\ PidMod \div 2 >= 2
BY PidAssumption

(* A host pid cut to 16 bits is a pid of TOS, and those are not cut. *)
LEMMA Int16Type ==
  /\ \A n \in Pid : Int16(n) \in TosPid
  /\ \A n \in TosPid : Int16(n) = n
<1> DEFINE h == PidMod \div 2
<1>1. h \in Nat /\ PidMod = 2 * h /\ h >= 2
  BY HalfRange
<1>2. \A n \in Int : Int16(n) = ((n + h) % PidMod) - h
  BY DEF Int16
<1>3. TosPid = -h .. h - 1
  BY DEF TosPid
<1>4. Pid \subseteq Int
  BY PidAssumption DEF Pid
<1> HIDE DEF h
<1>5. ASSUME NEW n \in Int
      PROVE  (n + h) % PidMod \in 0 .. PidMod - 1
  BY <1>1
<1>6. ASSUME NEW n \in TosPid
      PROVE  n \in Int /\ (n + h) % PidMod = n + h
  BY <1>1, <1>3
<1>7. ASSUME NEW n \in Pid
      PROVE  Int16(n) \in TosPid
  <2> DEFINE x == (n + h) % PidMod
  <2>1. n \in Int
    BY <1>4
  <2>2. x \in 0 .. PidMod - 1 /\ Int16(n) = x - h
    BY <2>1, <1>2, <1>5
  <2> HIDE DEF x
  <2> QED
    BY <2>2, <1>1, <1>3
<1>8. ASSUME NEW n \in TosPid
      PROVE  Int16(n) = n
  <2>1. n \in Int /\ (n + h) % PidMod = n + h
    BY <1>6
  <2>2. Int16(n) = (n + h) - h
    BY <2>1, <1>2
  <2> QED
    BY <2>1, <2>2, <1>1
<1> QED
  BY <1>7, <1>8

(* Int16 wraps once at most, and gives no two processes the same pid, as long
   as host pids stay below PidMod - 1; pid PidMod - 1 would read as -1.      *)
PidsFit == MaxPid < PidMod - 1

(* Pids that fit are told apart, and from -1. *)
LEMMA Int16Injective ==
  ASSUME PidsFit
  PROVE  /\ \A n \in Pid : Int16(n) # -1
         /\ \A m, n \in Pid : Int16(m) = Int16(n) => m = n
<1> DEFINE h == PidMod \div 2
<1>1. h \in Nat /\ PidMod = 2 * h /\ h >= 2
  BY HalfRange
<1>2. \A n \in Pid : n \in Int /\ 1 <= n /\ n < 2 * h - 1
  BY <1>1, PidAssumption DEF Pid, PidsFit
<1>3. \A n \in Int : Int16(n) = ((n + h) % (2 * h)) - h
  BY <1>1 DEF Int16
<1> HIDE DEF h
<1>4. ASSUME NEW n \in Pid
      PROVE  Int16(n) = IF n < h THEN n ELSE n - 2 * h
  <2>1. n \in Int /\ n >= 1 /\ n < 2 * h - 1 /\ Int16(n) = ((n + h) % (2 * h)) - h
    BY <1>2, <1>3
  <2>2. n < h => (n + h) % (2 * h) = n + h
    BY <2>1, <1>1
  <2>3. n >= h => (n + h) % (2 * h) = n - h
    BY <2>1, <1>1
  <2> QED
    BY <2>1, <2>2, <2>3, <1>1
<1> QED
  BY <1>1, <1>2, <1>4

-----------------------------------------------------------------------------
(* pid_map: every entry pairs a host pid with its own truncation.            *)
Faithful(m) == m \in Seq(Entry) /\ \A e \in Range(m) : e.tos = Int16(e.host)

(* A pid of TOS leads to the host pid of an entry, or stands for itself. *)
LEMMA MapToHost ==
  ASSUME NEW m, Faithful(m), NEW tos \in TosPid
  PROVE  \/ \E e \in Range(m) : e.tos = tos /\ map_tos_pid_to_host(m, tos) = e.host
         \/ /\ \A e \in Range(m) : e.tos # tos
            /\ map_tos_pid_to_host(m, tos) = tos
<1> DEFINE I == {i \in 1 .. Len(m) : m[i].tos = tos}
<1>1. I # {} => Min(I) \in I
  <2>1. I \in SUBSET Nat
    BY DEF Faithful
  <2> HIDE DEF I
  <2> QED
    BY <2>1, LeastIndex
<1>2. map_tos_pid_to_host(m, tos) = IF I # {} THEN m[Min(I)].host ELSE tos
  <2>1. I # {} => Min(I) \in 1 .. Len(m)
    BY <1>1
  <2> QED
    BY <2>1 DEF map_tos_pid_to_host, SelectInSeq
<1>3. Range(m) = {m[i] : i \in 1 .. Len(m)}
  BY DEF Range, Faithful
<1> QED
  BY <1>1, <1>2, <1>3

(* A host pid leads to its 16 bits, whether or not there is an entry. *)
LEMMA MapToTos ==
  ASSUME NEW m, Faithful(m), NEW host \in Pid
  PROVE  map_host_pid_to_tos(m, host) = Int16(host)
<1> DEFINE I == {i \in 1 .. Len(m) : m[i].host = host}
<1>1. I # {} => Min(I) \in I
  <2>1. I \in SUBSET Nat
    BY DEF Faithful
  <2> HIDE DEF I
  <2> QED
    BY <2>1, LeastIndex
<1>2. map_host_pid_to_tos(m, host) = IF I # {} THEN m[Min(I)].tos ELSE Int16(host)
  <2>1. I # {} => Min(I) \in 1 .. Len(m)
    BY <1>1
  <2> QED
    BY <2>1 DEF map_host_pid_to_tos, SelectInSeq
<1>3. Range(m) = {m[i] : i \in 1 .. Len(m)}
  BY DEF Range, Faithful
<1> QED
  BY <1>1, <1>2, <1>3 DEF Faithful

(* remember_pid adds one entry. *)
LEMMA RememberKeeps ==
  ASSUME NEW m, Faithful(m), NEW host \in Pid
  PROVE  /\ Faithful(remember_pid(m, host))
         /\ Range(remember_pid(m, host)) = Range(m) \cup {[tos |-> Int16(host), host |-> host]}
         /\ IsInjective(m) /\ (\A e \in Range(m) : e.host # host)
              => IsInjective(remember_pid(m, host))
<1> DEFINE e == [tos |-> Int16(host), host |-> host]
           n == remember_pid(m, host)
<1>1. e \in Entry
  BY Int16Type DEF Entry
<1>2. /\ m \in Seq(Entry) /\ n = <<e>> \o m
      /\ n \in Seq(Entry) /\ Len(n) = Len(m) + 1 /\ n[1] = e
      /\ \A k \in 2 .. Len(m) + 1 : n[k] = m[k - 1]
  BY <1>1 DEF Faithful, remember_pid
<1> HIDE DEF e, n
<1>3. DOMAIN n = 1 .. Len(m) + 1 /\ DOMAIN m = 1 .. Len(m)
  BY <1>2
<1>4. Range(n) \subseteq Range(m) \cup {e}
  BY <1>2, <1>3 DEF Range
<1>5. ASSUME NEW k \in DOMAIN m
      PROVE  m[k] \in Range(n)
  <2>1. k + 1 \in DOMAIN n /\ n[k + 1] = m[k]
    BY <1>2, <1>3
  <2> QED
    BY <2>1 DEF Range
<1>6. e \in Range(n)
  BY <1>2, <1>3 DEF Range
<1>7. Range(n) = Range(m) \cup {e}
  BY <1>4, <1>5, <1>6 DEF Range
<1>8. e.tos = Int16(e.host) /\ e.host = host
  BY DEF e
<1>9. ASSUME IsInjective(m), \A f \in Range(m) : f.host # host
      PROVE  IsInjective(n)
  BY <1>2, <1>3, <1>8, <1>9 DEF IsInjective, Range
<1> QED
  BY <1>2, <1>7, <1>8, <1>9 DEF Faithful, n, e

(* forget_pid_by_host removes entries of that host pid only. *)
LEMMA ForgetKeeps ==
  ASSUME NEW m, Faithful(m), NEW host \in Pid
  PROVE  /\ Faithful(forget_pid_by_host(m, host))
         /\ \A e \in Range(m) : e.host # host => e \in Range(forget_pid_by_host(m, host))
         /\ IsInjective(m) =>
              /\ IsInjective(forget_pid_by_host(m, host))
              /\ Range(forget_pid_by_host(m, host)) = {e \in Range(m) : e.host # host}
<1> DEFINE I == {i \in 1 .. Len(m) : m[i].host = host}
           n == forget_pid_by_host(m, host)
<1>1. I # {} => Min(I) \in I
  <2>1. I \in SUBSET Nat
    BY DEF Faithful
  <2> HIDE DEF I
  <2> QED
    BY <2>1, LeastIndex
<1>2. n = IF I # {} THEN RemoveAt(m, Min(I)) ELSE m
  <2>1. I # {} => Min(I) \in 1 .. Len(m)
    BY <1>1
  <2> QED
    BY <2>1 DEF forget_pid_by_host, SelectInSeq
<1>3. m \in Seq(Entry) /\ Len(m) \in Nat /\ DOMAIN m = 1 .. Len(m)
  BY DEF Faithful
<1> HIDE DEF n
<1>4. CASE I = {}
  BY <1>2, <1>3, <1>4 DEF Range, n
<1>5. CASE I # {}
  <2> DEFINE x == Min(I)
  <2>1. x \in 1 .. Len(m) /\ m[x].host = host /\ n = RemoveAt(m, x)
    BY <1>1, <1>2, <1>5
  <2> HIDE DEF x, I
  <2>2. /\ n \in Seq(Entry) /\ DOMAIN n = 1 .. Len(m) - 1
        /\ \A k \in 1 .. Len(m) - 1 : n[k] = IF k < x THEN m[k] ELSE m[k + 1]
    BY <1>3, <2>1, RemoveAtIs
  <2>3. Range(n) \subseteq Range(m)
    <3>1. \A k \in DOMAIN n : k \in DOMAIN m /\ k + 1 \in DOMAIN m /\ n[k] \in {m[k], m[k + 1]}
      BY <1>3, <2>1, <2>2
    <3> QED
      BY <3>1 DEF Range
  <2>4. ASSUME NEW k \in 1 .. Len(m), k # x
        PROVE  m[k] \in Range(n)
    <3>1. CASE k < x
      BY <3>1, <2>1, <2>2 DEF Range
    <3>2. CASE k > x
      <4>1. k - 1 \in DOMAIN n /\ n[k - 1] = m[k]
        BY <3>2, <1>3, <2>1, <2>2
      <4> QED
        BY <4>1 DEF Range
    <3> QED
      BY <2>1, <2>4, <3>1, <3>2, <1>3
  <2>5. \A e \in Range(m) : e.host # host => e \in Range(n)
    BY <2>1, <2>4, <1>3 DEF Range
  <2>6. ASSUME IsInjective(m)
        PROVE  IsInjective(n) /\ Range(n) = {e \in Range(m) : e.host # host}
    <3>1. IsInjective(n)
      <4> SUFFICES ASSUME NEW j \in DOMAIN n, NEW k \in DOMAIN n, n[j] = n[k]
                   PROVE  j = k
        BY DEF IsInjective
      <4> DEFINE at(z) == IF z < x THEN z ELSE z + 1
      <4>1. at(j) \in DOMAIN m /\ at(k) \in DOMAIN m /\ n[j] = m[at(j)] /\ n[k] = m[at(k)]
        BY <2>1, <2>2, <1>3
      <4>2. at(j) = at(k)
        BY <4>1, <2>6 DEF IsInjective
      <4> QED
        BY <4>2, <2>1, <2>2, <1>3
    <3>2. \A k \in 1 .. Len(m) : m[k].host = host => m[k] = m[x]
      <4> TAKE k \in 1 .. Len(m)
      <4>1. m[k] \in Entry /\ m[x] \in Entry /\ m[k] \in Range(m) /\ m[x] \in Range(m)
        BY <1>3, <2>1 DEF Range
      <4> QED
        BY <4>1, <2>1 DEF Entry, Faithful
    <3>3. \A k \in 1 .. Len(m) - 1 : n[k].host # host
      BY <3>2, <2>6, <2>1, <2>2, <1>3 DEF IsInjective
    <3> QED
      BY <3>1, <3>3, <2>2, <2>3, <2>5 DEF Range
  <2> QED
    BY <2>2, <2>3, <2>5, <2>6 DEF Faithful, n
<1> QED
  BY <1>4, <1>5

-----------------------------------------------------------------------------
(* The inductive invariant.                                                  *)

(* Types, written so that every variable is a function; and process 1, which
   the host's shell started, never leaves the table.                         *)
Table ==
  /\ st \in [Pid -> {"free", "run", "stopped", "zombie"}]
  /\ parent \in [Pid -> 0 .. MaxPid]
  /\ status = [p \in Pid |-> status[p]]
  /\ \A p \in Pid : status[p].kind \in {"none", "exit", "signal", "stop"}
  /\ kids \in [Pid -> SUBSET Entry]
  /\ call = [p \in Pid |-> call[p]]
  /\ \A p \in Pid : call[p].op \in {"none", "Pwaitpid", "Pexec", "exec"}
  /\ ign \in [Pid -> [now : BOOLEAN, atStart : BOOLEAN]]
  /\ st[1] # "free" /\ parent[1] = 0

(* Every pid_map is faithful and holds the children the program knows of; that
   of process 1 holds nothing else, and nothing twice.                       *)
Maps ==
  /\ pmap \in [Pid -> Seq(Entry)]
  /\ \A p \in Pid : Faithful(pmap[p]) /\ kids[p] \subseteq Range(pmap[p])
  /\ IsInjective(pmap[1]) /\ Range(pmap[1]) = kids[1]

(* The host pid that a Pwaitpid waits for is the one its argument stands for. *)
Asked(w) ==
  /\ w.host \in Pid => w.pid = Int16(w.host)
  /\ w.host \in {-1, 0} => w.pid = w.host

(* The child that a Pexec waits for is there until that Pexec collects it, and
   is none of those that Pfork announced.                                    *)
Waits ==
  \A p \in Pid :
    /\ call[p].op = "Pwaitpid" => Asked(call[p])
    /\ call[p].op = "Pexec" => /\ call[p].child \in Children(p)
                               /\ \A k \in kids[p] : k.host # call[p].child

Dispositions ==
  /\ DispositionRestored
  /\ \A p \in Pid : call[p].op = "Pexec" => call[p].saved = ign[p].atStart

IInv == Table /\ Maps /\ KidsWaitable /\ Waits /\ Dispositions

(* The first process has no children. *)
LEMMA InitHolds == Init => IInv
<1> SUFFICES ASSUME Init PROVE IInv
  OBVIOUS
<1>0. 1 \in Pid /\ Pid \subseteq Nat
  BY PidAssumption DEF Pid
<1>1. Table
  BY <1>0, PidAssumption DEF Init, Table, Quiet, NoCall
<1>2. Maps
  BY <1>0 DEF Init, Maps, Faithful, Range, IsInjective
<1>3. KidsWaitable /\ Waits
  BY DEF Init, KidsWaitable, Waits, NoCall
<1>4. Dispositions
  BY DEF Init, Dispositions, DispositionRestored, NoCall
<1> QED
  BY <1>1, <1>2, <1>3, <1>4 DEF IInv

(* Calls that only answer. *)
LEMMA AnswerKeeps ==
  ASSUME IInv, UNCHANGED <<st, parent, status, pmap, kids, call, ign>>
  PROVE  IInv'
BY DEF IInv, Table, Maps, KidsWaitable, Waits, Dispositions, DispositionRestored, Children

(* Pfork and Pexec: the new process is none that anyone knew. *)
LEMMA PforkKeeps ==
  ASSUME IInv, NEW p \in Pid, Pfork(p)
  PROVE  IInv'
<1>0. 1 \in Pid /\ Pid \subseteq Nat
  BY PidAssumption DEF Pid
<1>1. PICK c \in Pid :
       /\ st[p] = "run" /\ call[p] = NoCall /\ st[c] = "free" /\ c # p
       /\ st'     = [st EXCEPT ![c] = "run"]
       /\ parent' = [parent EXCEPT ![c] = p]
       /\ status' = [status EXCEPT ![c] = Quiet]
       /\ pmap' = [pmap EXCEPT ![p] = remember_pid(@, c), ![c] = pmap[p]]
       /\ kids' = [kids EXCEPT ![p] = @ \cup {[tos |-> Int16(c), host |-> c]}, ![c] = {}]
       /\ ign'  = [ign EXCEPT ![c] = [now |-> ign[p].now, atStart |-> ign[p].now]]
       /\ call' = [call EXCEPT ![c] = NoCall]
  BY DEF Pfork, Idle, HostFork
<1> DEFINE e == [tos |-> Int16(c), host |-> c]
<1>2. e \in Entry /\ e.host = c
  BY Int16Type DEF Entry
<1>3. c # 1
  BY <1>1 DEF IInv, Table
<1> HIDE DEF e
<1>4. Table'
  <2>1. st' \in [Pid -> {"free", "run", "stopped", "zombie"}] /\ st'[1] # "free"
    BY <1>0, <1>1, <1>3 DEF IInv, Table
  <2>2. parent' \in [Pid -> 0 .. MaxPid] /\ parent'[1] = 0
    <3>1. p \in 0 .. MaxPid
      BY <1>0, PidAssumption DEF Pid
    <3> QED
      BY <3>1, <1>0, <1>1, <1>3 DEF IInv, Table
  <2>3. /\ status' = [q \in Pid |-> status'[q]]
        /\ \A q \in Pid : status'[q].kind \in {"none", "exit", "signal", "stop"}
    BY <1>1 DEF IInv, Table, Quiet
  <2>4. kids' \in [Pid -> SUBSET Entry]
    BY <1>1, <1>2 DEF IInv, Table, e
  <2>5. /\ call' = [q \in Pid |-> call'[q]]
        /\ \A q \in Pid : call'[q].op \in {"none", "Pwaitpid", "Pexec", "exec"}
    BY <1>1 DEF IInv, Table, NoCall
  <2>6. ign' \in [Pid -> [now : BOOLEAN, atStart : BOOLEAN]]
    BY <1>1 DEF IInv, Table
  <2> QED
    BY <2>1, <2>2, <2>3, <2>4, <2>5, <2>6 DEF Table
<1>5. KidsWaitable'
  <2> SUFFICES ASSUME NEW q \in Pid, NEW k \in kids'[q]
               PROVE  k.host \in Pid /\ st'[k.host] # "free" /\ parent'[k.host] = q
    BY DEF KidsWaitable, Children
  <2>1. CASE k \in kids[q] /\ q # c
    <3>1. k.host \in Pid /\ st[k.host] # "free" /\ parent[k.host] = q
      BY <2>1 DEF IInv, KidsWaitable, Children
    <3> QED
      BY <3>1, <1>1 DEF IInv, Table
  <2>2. CASE q = p /\ k = e
    BY <2>2, <1>1, <1>2 DEF IInv, Table
  <2> QED
    BY <2>1, <2>2, <1>1 DEF IInv, Table, e
<1>6. Waits'
  <2> SUFFICES ASSUME NEW q \in Pid
               PROVE  /\ call'[q].op = "Pwaitpid" => Asked(call'[q])
                      /\ call'[q].op = "Pexec" =>
                           /\ call'[q].child \in Children(q)'
                           /\ \A k \in kids'[q] : k.host # call'[q].child
    BY DEF Waits
  <2>1. CASE q = c
    BY <2>1, <1>1 DEF IInv, Table, NoCall
  <2>2. CASE q # c
    <3>1. call'[q] = call[q]
      BY <2>2, <1>1 DEF IInv, Table
    <3>2. call[q].op = "Pwaitpid" => Asked(call[q])
      BY DEF IInv, Waits
    <3>3. ASSUME call[q].op = "Pexec"
          PROVE  /\ call'[q].child \in Children(q)'
                 /\ \A k \in kids'[q] : k.host # call'[q].child
      <4>1. q # p /\ kids'[q] = kids[q]
        BY <2>2, <3>3, <1>1 DEF IInv, Table, NoCall
      <4> QED
        BY <4>1, <3>1, <3>3, <1>1 DEF IInv, Waits, Table, Children
    <3> QED
      BY <3>1, <3>2, <3>3
  <2> QED
    BY <2>1, <2>2
<1>7. Dispositions'
  BY <1>1 DEF IInv, Table, Dispositions, DispositionRestored, NoCall
<1>8. Maps'
  <2>1. \A q \in Pid : Faithful(pmap[q])
    BY DEF IInv, Maps
  <2>2. /\ Faithful(remember_pid(pmap[p], c))
        /\ Range(remember_pid(pmap[p], c)) = Range(pmap[p]) \cup {e}
        /\ IsInjective(pmap[p]) /\ (\A f \in Range(pmap[p]) : f.host # c)
             => IsInjective(remember_pid(pmap[p], c))
    BY <2>1, RememberKeeps DEF e
  <2>3. /\ pmap'[p] = remember_pid(pmap[p], c) /\ pmap'[c] = pmap[p]
        /\ kids'[p] = kids[p] \cup {e} /\ kids'[c] = {}
        /\ \A q \in Pid \ {p, c} : pmap'[q] = pmap[q] /\ kids'[q] = kids[q]
    BY <1>1 DEF IInv, Maps, Table, e
  <2>4. pmap' \in [Pid -> Seq(Entry)]
    BY <1>1, <2>1, <2>2 DEF IInv, Maps, Faithful
  <2>5. ASSUME NEW q \in Pid
        PROVE  Faithful(pmap'[q]) /\ kids'[q] \subseteq Range(pmap'[q])
    BY <2>1, <2>2, <2>3 DEF IInv, Maps
  <2>6. IsInjective(pmap'[1]) /\ Range(pmap'[1]) = kids'[1]
    <3>1. CASE p = 1
      <4>1. \A f \in Range(pmap[1]) : f.host # c
        BY <1>1, <1>0, <3>1 DEF IInv, Maps, KidsWaitable, Children
      <4> QED
        BY <4>1, <3>1, <2>2, <2>3 DEF IInv, Maps
    <3>2. CASE p # 1
      BY <3>2, <2>3, <1>0, <1>3 DEF IInv, Maps
    <3> QED
      BY <3>1, <3>2
  <2> QED
    BY <2>4, <2>5, <2>6 DEF Maps
<1> QED
  BY <1>4, <1>5, <1>6, <1>7, <1>8 DEF IInv

(* Pexec, whose child is no child that the program knows of. *)
LEMMA PexecKeeps ==
  ASSUME IInv, NEW p \in Pid, Pexec(p)
  PROVE  IInv'
<1>0. 1 \in Pid /\ Pid \subseteq Nat /\ p \in 0 .. MaxPid
  BY PidAssumption DEF Pid
<1> DEFINE w(c) == [op |-> "Pexec", child |-> c, saved |-> ign[p].now]
           x == [op |-> "exec"]
<1>1. PICK c \in Pid :
       /\ st[p] = "run" /\ call[p] = NoCall /\ st[c] = "free" /\ c # p
       /\ st'     = [st EXCEPT ![c] = "run"]
       /\ parent' = [parent EXCEPT ![c] = p]
       /\ status' = [status EXCEPT ![c] = Quiet]
       /\ pmap' = [pmap EXCEPT ![c] = pmap[p]]
       /\ kids' = [kids EXCEPT ![c] = {}]
       /\ ign'  = [ign EXCEPT ![p].now = TRUE, ![c] = [now |-> TRUE, atStart |-> TRUE]]
       /\ call' = [call EXCEPT ![c] = x, ![p] = w(c)]
  BY DEF Pexec, Idle, HostFork
<1>2. c # 1
  BY <1>1 DEF IInv, Table
<1>3. /\ w(c).op = "Pexec" /\ w(c).child = c /\ w(c).saved = ign[p].now
      /\ x.op = "exec"
  OBVIOUS
<1> HIDE DEF w, x
<1>4. /\ call' = [q \in Pid |-> call'[q]] /\ call'[p] = w(c) /\ call'[c] = x
      /\ \A q \in Pid \ {p, c} : call'[q] = call[q]
  BY <1>1 DEF IInv, Table
<1>5. /\ ign' \in [Pid -> [now : BOOLEAN, atStart : BOOLEAN]]
      /\ ign'[c].now = ign'[c].atStart /\ ign'[p].atStart = ign[p].atStart
      /\ \A q \in Pid \ {p, c} : ign'[q] = ign[q]
  BY <1>1 DEF IInv, Table
<1>6. Table'
  <2>1. st' \in [Pid -> {"free", "run", "stopped", "zombie"}] /\ st'[1] # "free"
    BY <1>0, <1>1, <1>2 DEF IInv, Table
  <2>2. parent' \in [Pid -> 0 .. MaxPid] /\ parent'[1] = 0
    BY <1>0, <1>1, <1>2 DEF IInv, Table
  <2>3. /\ status' = [q \in Pid |-> status'[q]]
        /\ \A q \in Pid : status'[q].kind \in {"none", "exit", "signal", "stop"}
    BY <1>1 DEF IInv, Table, Quiet
  <2>4. kids' \in [Pid -> SUBSET Entry]
    BY <1>1 DEF IInv, Table
  <2>5. \A q \in Pid : call'[q].op \in {"none", "Pwaitpid", "Pexec", "exec"}
    BY <1>3, <1>4 DEF IInv, Table
  <2> QED
    BY <2>1, <2>2, <2>3, <2>4, <2>5, <1>4, <1>5 DEF Table
<1>7. /\ Children(p)' = Children(p) \cup {c}
      /\ \A q \in Pid \ {p} : Children(q)' = Children(q)
  BY <1>1 DEF IInv, Table, Children
<1>8. KidsWaitable'
  BY <1>1, <1>7 DEF IInv, Table, KidsWaitable
<1>9. \A k \in kids[p] : k.host # c
  BY <1>1 DEF IInv, KidsWaitable, Children
<1>10. Waits'
  <2> SUFFICES ASSUME NEW q \in Pid
               PROVE  /\ call'[q].op = "Pwaitpid" => Asked(call'[q])
                      /\ call'[q].op = "Pexec" =>
                           /\ call'[q].child \in Children(q)'
                           /\ \A k \in kids'[q] : k.host # call'[q].child
    BY DEF Waits
  <2>1. CASE q = c
    BY <2>1, <1>3, <1>4
  <2>2. CASE q = p
    <3>1. kids'[p] = kids[p]
      BY <1>1 DEF IInv, Table
    <3> QED
      BY <2>2, <3>1, <1>3, <1>4, <1>7, <1>9
  <2>3. CASE q \notin {p, c}
    <3>1. kids'[q] = kids[q] /\ call'[q] = call[q] /\ Children(q)' = Children(q)
      BY <2>3, <1>1, <1>4, <1>7 DEF IInv, Table
    <3> QED
      BY <3>1 DEF IInv, Waits
  <2> QED
    BY <2>1, <2>2, <2>3
<1>11. Dispositions'
  <2>1. ign[p].now = ign[p].atStart
    BY <1>1 DEF IInv, Dispositions, DispositionRestored, NoCall
  <2>2. ASSUME NEW q \in Pid
        PROVE  /\ st'[q] \in {"run", "stopped"} /\ call'[q].op # "Pexec"
                    => ign'[q].now = ign'[q].atStart
               /\ call'[q].op = "Pexec" => call'[q].saved = ign'[q].atStart
    <3>1. CASE q = c
      BY <3>1, <1>3, <1>4, <1>5
    <3>2. CASE q = p
      BY <3>2, <2>1, <1>3, <1>4, <1>5
    <3>3. CASE q \notin {p, c}
      <4>1. st'[q] = st[q]
        BY <3>3, <1>1 DEF IInv, Table
      <4> QED
        BY <3>3, <4>1, <1>4, <1>5 DEF IInv, Dispositions, DispositionRestored
    <3> QED
      BY <3>1, <3>2, <3>3
  <2> QED
    BY <2>2 DEF Dispositions, DispositionRestored
<1>12. Maps'
  <2>1. pmap' \in [Pid -> Seq(Entry)] /\ pmap'[c] = pmap[p] /\ kids'[c] = {}
    BY <1>1 DEF IInv, Maps, Table
  <2>2. \A q \in Pid \ {c} : pmap'[q] = pmap[q] /\ kids'[q] = kids[q]
    BY <1>1 DEF IInv, Maps, Table
  <2> QED
    BY <2>1, <2>2, <1>0, <1>2 DEF IInv, Maps
<1> QED
  BY <1>6, <1>8, <1>10, <1>11, <1>12 DEF IInv

(* The end of a process: its children go to the host's init. *)
LEMMA EndsKeeps ==
  ASSUME IInv, NEW p \in Pid, NEW how, st[p] # "free", Ends(p, how),
         how.kind \in {"none", "exit", "signal", "stop"}
  PROVE  IInv'
<1>0. 1 \in Pid /\ Pid \subseteq Nat /\ p \in 0 .. MaxPid /\ 0 \in 0 .. MaxPid
  BY PidAssumption DEF Pid
<1>1. /\ st' = [st EXCEPT ![p] = "zombie"] /\ status' = [status EXCEPT ![p] = how]
      /\ parent' = [c \in Pid |-> IF parent[c] = p THEN 0 ELSE parent[c]]
      /\ call' = [call EXCEPT ![p] = NoCall] /\ kids' = [kids EXCEPT ![p] = {}]
      /\ pmap' = [pmap EXCEPT ![p] = <<>>] /\ ign' = ign
  BY DEF Ends
<1>2. /\ call' = [q \in Pid |-> call'[q]] /\ call'[p] = NoCall
      /\ \A q \in Pid \ {p} : call'[q] = call[q]
  BY <1>1 DEF IInv, Table
<1>3. /\ kids' \in [Pid -> SUBSET Entry] /\ kids'[p] = {}
      /\ \A q \in Pid \ {p} : kids'[q] = kids[q]
  BY <1>1 DEF IInv, Table
<1>4. \A q \in Pid \ {p} : Children(q)' = Children(q)
  <2> SUFFICES ASSUME NEW q \in Pid, q # p, NEW c \in Pid
               PROVE  st'[c] # "free" /\ parent'[c] = q <=> st[c] # "free" /\ parent[c] = q
    BY DEF Children
  <2>1. st'[c] # "free" <=> st[c] # "free"
    BY <1>1 DEF IInv, Table
  <2>2. parent'[c] = q <=> parent[c] = q
    BY <1>0, <1>1, PidAssumption DEF Pid
  <2> QED
    BY <2>1, <2>2
<1>5. Table'
  <2>1. st' \in [Pid -> {"free", "run", "stopped", "zombie"}] /\ st'[1] # "free"
    BY <1>0, <1>1 DEF IInv, Table
  <2>2. parent' \in [Pid -> 0 .. MaxPid] /\ parent'[1] = 0
    BY <1>0, <1>1 DEF IInv, Table
  <2>3. /\ status' = [q \in Pid |-> status'[q]]
        /\ \A q \in Pid : status'[q].kind \in {"none", "exit", "signal", "stop"}
    BY <1>1 DEF IInv, Table
  <2>4. \A q \in Pid : call'[q].op \in {"none", "Pwaitpid", "Pexec", "exec"}
    BY <1>2 DEF IInv, Table, NoCall
  <2>5. ign' \in [Pid -> [now : BOOLEAN, atStart : BOOLEAN]]
    BY <1>1 DEF IInv, Table
  <2> QED
    BY <2>1, <2>2, <2>3, <2>4, <2>5, <1>2, <1>3 DEF Table
<1>6. KidsWaitable'
  BY <1>3, <1>4 DEF IInv, KidsWaitable
<1>7. Waits'
  <2> SUFFICES ASSUME NEW q \in Pid
               PROVE  /\ call'[q].op = "Pwaitpid" => Asked(call'[q])
                      /\ call'[q].op = "Pexec" =>
                           /\ call'[q].child \in Children(q)'
                           /\ \A k \in kids'[q] : k.host # call'[q].child
    BY DEF Waits
  <2>1. CASE q = p
    BY <2>1, <1>2 DEF NoCall
  <2>2. CASE q # p
    BY <2>2, <1>2, <1>3, <1>4 DEF IInv, Waits
  <2> QED
    BY <2>1, <2>2
<1>8. Dispositions'
  BY <1>1, <1>2 DEF IInv, Table, Dispositions, DispositionRestored, NoCall
<1>9. Maps'
  <2>1. pmap' \in [Pid -> Seq(Entry)] /\ pmap'[p] = <<>>
    BY <1>1 DEF IInv, Maps
  <2>2. \A q \in Pid \ {p} : pmap'[q] = pmap[q]
    BY <1>1 DEF IInv, Maps
  <2>3. Faithful(<<>>) /\ Range(<<>>) = {} /\ IsInjective(<<>>)
    BY DEF Faithful, Range, IsInjective
  <2> QED
    BY <2>1, <2>2, <2>3, <1>0, <1>3 DEF IInv, Maps
<1> QED
  BY <1>5, <1>6, <1>7, <1>8, <1>9 DEF IInv

(* Job control, and the host's init collecting what it adopted: no process of
   ours is among the children of 0.                                          *)
LEMMA HostKeeps ==
  ASSUME IInv, NEW p \in Pid, HostStop(p) \/ HostCont(p) \/ HostReaps(p)
  PROVE  IInv'
<1>0. 1 \in Pid /\ Pid \subseteq Nat \ {0}
  BY PidAssumption DEF Pid
<1>1. /\ \E s \in {"free", "run", "stopped"} :
           st' = [st EXCEPT ![p] = s] /\ (s = "free" => p # 1 /\ parent[p] = 0)
      /\ st[p] = "zombie" => st'[p] = "free"
      /\ \E n \in {Quiet, [kind |-> "stop", n |-> Signal]} : status' = [status EXCEPT ![p] = n]
      /\ UNCHANGED <<parent, pmap, kids, call, ign>>
  BY DEF HostStop, HostCont, HostReaps, IInv, Table
<1>2. PICK s \in {"free", "run", "stopped"} :
        /\ st' = [st EXCEPT ![p] = s] /\ (s = "free" => p # 1 /\ parent[p] = 0)
        /\ st[p] \in {"run", "stopped"} \/ s = "free"
  BY <1>1 DEF HostStop, HostCont, HostReaps, IInv, Table
<1>3. /\ st' \in [Pid -> {"free", "run", "stopped", "zombie"}] /\ st'[1] # "free"
      /\ st'[p] = s /\ \A q \in Pid \ {p} : st'[q] = st[q]
  BY <1>0, <1>2 DEF IInv, Table
<1>4. \A q \in Pid : Children(q) \subseteq Children(q)'
  <2> SUFFICES ASSUME NEW q \in Pid, NEW c \in Pid, st[c] # "free", parent[c] = q
               PROVE  st'[c] # "free" /\ parent'[c] = q
    BY DEF Children
  <2> QED
    BY <1>0, <1>1, <1>2, <1>3
<1>5. Table'
  <2>1. /\ status' = [q \in Pid |-> status'[q]]
        /\ \A q \in Pid : status'[q].kind \in {"none", "exit", "signal", "stop"}
    BY <1>1 DEF IInv, Table, Quiet
  <2> QED
    BY <2>1, <1>1, <1>3 DEF IInv, Table
<1>6. Maps' /\ KidsWaitable'
  BY <1>1, <1>4 DEF IInv, Maps, KidsWaitable
<1>7. Waits'
  BY <1>1, <1>4 DEF IInv, Waits
<1>8. Dispositions'
  BY <1>1, <1>2, <1>3 DEF IInv, Dispositions, DispositionRestored
<1> QED
  BY <1>5, <1>6, <1>7, <1>8 DEF IInv

(* wait4 reports child c of p: a child that ended leaves the table, pid_map and
   what the program remembers together.                                      *)
LEMMA WaitReportsKeeps ==
  ASSUME IInv, NEW p \in Pid, NEW w, st[p] = "run",
         call[p].op # "Pexec", WaitReports(p, w)
  PROVE  IInv'
<1>0. 1 \in Pid /\ Pid \subseteq Nat \ {0}
  BY PidAssumption DEF Pid
<1>1. PICK c \in Ready(p, w) :
        /\ status' = [status EXCEPT ![c] = Quiet]
        /\ IF st[c] = "zombie"
           THEN /\ st'   = [st EXCEPT ![c] = "free"]
                /\ pmap' = [pmap EXCEPT ![p] = forget_pid_by_host(pmap[p], c)]
                /\ kids' = [kids EXCEPT ![p] = {k \in kids[p] : k.host # c}]
           ELSE UNCHANGED <<st, pmap, kids>>
  BY DEF WaitReports
<1>2. /\ call' = [call EXCEPT ![p] = NoCall]
      /\ UNCHANGED <<parent, ign>>
  BY DEF WaitReports
<1>3. c \in Pid /\ st[c] # "free" /\ parent[c] = p /\ c # 1
  BY <1>0 DEF Ready, Named, Children, IInv, Table
<1>4. /\ call' = [q \in Pid |-> call'[q]] /\ call'[p] = NoCall
      /\ \A q \in Pid \ {p} : call'[q] = call[q]
  BY <1>2 DEF IInv, Table
<1>5. /\ kids' \in [Pid -> SUBSET Entry]
      /\ kids'[p] \subseteq kids[p] /\ \A q \in Pid \ {p} : kids'[q] = kids[q]
  BY <1>1 DEF IInv, Table
<1>6. \A q \in Pid \ {p} : Children(q)' = Children(q)
  BY <1>1, <1>2, <1>3 DEF Children, IInv, Table
<1>7. \A k \in kids'[p] : k.host \in Children(p)'
  <2> SUFFICES ASSUME NEW k \in kids'[p] PROVE k.host \in Children(p)'
    OBVIOUS
  <2>1. k.host \in Pid /\ st[k.host] # "free" /\ parent[k.host] = p
    BY <1>5 DEF IInv, KidsWaitable, Children
  <2>2. st[c] = "zombie" => k.host # c
    BY <1>1 DEF IInv, Table
  <2> QED
    BY <2>1, <2>2, <1>1, <1>2 DEF IInv, Table, Children
<1>8. Table'
  <2>1. st' \in [Pid -> {"free", "run", "stopped", "zombie"}] /\ st'[1] # "free"
    BY <1>0, <1>1, <1>3 DEF IInv, Table
  <2>2. /\ status' = [q \in Pid |-> status'[q]]
        /\ \A q \in Pid : status'[q].kind \in {"none", "exit", "signal", "stop"}
    BY <1>1 DEF IInv, Table, Quiet
  <2>3. \A q \in Pid : call'[q].op \in {"none", "Pwaitpid", "Pexec", "exec"}
    BY <1>4 DEF IInv, Table, NoCall
  <2> QED
    BY <2>1, <2>2, <2>3, <1>2, <1>4, <1>5 DEF IInv, Table
<1>9. KidsWaitable'
  BY <1>5, <1>6, <1>7 DEF IInv, KidsWaitable
<1>10. Waits'
  <2> SUFFICES ASSUME NEW q \in Pid
               PROVE  /\ call'[q].op = "Pwaitpid" => Asked(call'[q])
                      /\ call'[q].op = "Pexec" =>
                           /\ call'[q].child \in Children(q)'
                           /\ \A k \in kids'[q] : k.host # call'[q].child
    BY DEF Waits
  <2>1. CASE q = p
    BY <2>1, <1>4 DEF NoCall
  <2>2. CASE q # p
    BY <2>2, <1>4, <1>5, <1>6 DEF IInv, Waits
  <2> QED
    BY <2>1, <2>2
<1>11. Dispositions'
  <2>1. ign[p].now = ign[p].atStart
    BY DEF IInv, Dispositions, DispositionRestored
  <2>2. \A q \in Pid : st'[q] \in {st[q], "free"}
    BY <1>1 DEF IInv, Table
  <2>3. ASSUME NEW q \in Pid
        PROVE  /\ st'[q] \in {"run", "stopped"} /\ call'[q].op # "Pexec"
                    => ign'[q].now = ign'[q].atStart
               /\ call'[q].op = "Pexec" => call'[q].saved = ign'[q].atStart
    <3>1. CASE q = p
      BY <3>1, <2>1, <1>2, <1>4 DEF NoCall
    <3>2. CASE q # p
      BY <3>2, <2>2, <1>2, <1>4 DEF IInv, Dispositions, DispositionRestored
    <3> QED
      BY <3>1, <3>2
  <2> QED
    BY <2>3 DEF Dispositions, DispositionRestored
<1>12. Maps'
  <2>1. CASE st[c] = "zombie"
    <3>1. Faithful(pmap[p])
      BY DEF IInv, Maps
    <3> DEFINE m == forget_pid_by_host(pmap[p], c)
    <3>2. /\ Faithful(m)
          /\ \A e \in Range(pmap[p]) : e.host # c => e \in Range(m)
          /\ IsInjective(pmap[p]) =>
               IsInjective(m) /\ Range(m) = {e \in Range(pmap[p]) : e.host # c}
      BY <3>1, <1>3, ForgetKeeps
    <3>3. /\ pmap' = [pmap EXCEPT ![p] = m]
          /\ kids' = [kids EXCEPT ![p] = {k \in kids[p] : k.host # c}]
      BY <1>1, <2>1
    <3> HIDE DEF m
    <3>4. /\ pmap' \in [Pid -> Seq(Entry)] /\ pmap'[p] = m
          /\ kids'[p] = {k \in kids[p] : k.host # c}
          /\ \A q \in Pid \ {p} : pmap'[q] = pmap[q] /\ kids'[q] = kids[q]
      BY <3>2, <3>3 DEF IInv, Maps, Table, Faithful
    <3>5. \A q \in Pid : Faithful(pmap'[q]) /\ kids'[q] \subseteq Range(pmap'[q])
      BY <3>2, <3>4 DEF IInv, Maps
    <3>6. IsInjective(pmap'[1]) /\ Range(pmap'[1]) = kids'[1]
      BY <3>2, <3>4, <1>0 DEF IInv, Maps
    <3> QED
      BY <3>4, <3>5, <3>6 DEF Maps
  <2>2. CASE st[c] # "zombie"
    BY <2>2, <1>1 DEF IInv, Maps
  <2> QED
    BY <2>1, <2>2
<1> QED
  BY <1>8, <1>9, <1>10, <1>11, <1>12 DEF IInv

(* What Pwaitpid hands to wait4 stands for its argument: a pid that is not in
   pid_map is passed on as it is, and a mapped one is its entry's.           *)
LEMMA PassedOn ==
  ASSUME IInv, NEW p \in Pid, NEW pid \in TosPid, NEW w,
         w.pid = pid,
         w.host = IF pid = -1 THEN -1 ELSE map_tos_pid_to_host(pmap[p], pid)
  PROVE  Asked(w)
<1>0. -1 \notin Pid /\ 0 \notin Pid
  BY PidAssumption DEF Pid
<1>1. CASE pid = -1
  BY <1>0, <1>1 DEF Asked
<1>2. CASE pid # -1
  <2> DEFINE h == map_tos_pid_to_host(pmap[p], pid)
  <2>1. Faithful(pmap[p])
    BY DEF IInv, Maps
  <2>2. \/ \E e \in Range(pmap[p]) : e.tos = pid /\ h = e.host
        \/ h = pid
    BY <2>1, MapToHost
  <2>3. w.host = h
    BY <1>2
  <2> HIDE DEF h
  <2>4. \A e \in Range(pmap[p]) : e.host \in Pid /\ e.tos = Int16(e.host)
    <3>1. Range(pmap[p]) \subseteq Entry
      BY <2>1 DEF Faithful, Range
    <3> QED
      BY <3>1, <2>1 DEF Faithful, Entry
  <2>5. CASE \E e \in Range(pmap[p]) : e.tos = pid /\ h = e.host
    BY <2>3, <2>4, <2>5, <1>0 DEF Asked
  <2>6. CASE h = pid
    <3>1. Int16(pid) = pid
      BY Int16Type
    <3>2. w.host = pid /\ w.pid = pid
      BY <2>3, <2>6
    <3> QED
      BY <3>1, <3>2, Zenon DEF Asked
  <2> QED
    BY <2>2, <2>5, <2>6
<1> QED
  BY <1>1, <1>2

(* A wait that blocks. *)
LEMMA WaitBlocksKeeps ==
  ASSUME IInv, NEW p \in Pid, NEW w, st[p] = "run", call[p] = NoCall,
         WaitBlocks(p, w), w.op = "Pwaitpid", Asked(w)
  PROVE  IInv'
<1>1. /\ call' = [call EXCEPT ![p] = w]
      /\ UNCHANGED <<st, parent, status, pmap, kids, ign>>
  BY DEF WaitBlocks
<1>2. /\ call' = [q \in Pid |-> call'[q]] /\ call'[p] = w
      /\ \A q \in Pid \ {p} : call'[q] = call[q]
  BY <1>1 DEF IInv, Table
<1>3. Table'
  BY <1>1, <1>2 DEF IInv, Table
<1>4. Maps' /\ KidsWaitable' /\ \A q \in Pid : Children(q)' = Children(q)
  BY <1>1 DEF IInv, Maps, KidsWaitable, Children
<1>5. Waits'
  <2> SUFFICES ASSUME NEW q \in Pid
               PROVE  /\ call'[q].op = "Pwaitpid" => Asked(call'[q])
                      /\ call'[q].op = "Pexec" =>
                           /\ call'[q].child \in Children(q)'
                           /\ \A k \in kids'[q] : k.host # call'[q].child
    BY DEF Waits
  <2>1. CASE q = p
    BY <2>1, <1>2
  <2>2. CASE q # p
    BY <2>2, <1>1, <1>2, <1>4 DEF IInv, Waits
  <2> QED
    BY <2>1, <2>2
<1>6. Dispositions'
  <2>1. ign[p].now = ign[p].atStart
    BY DEF IInv, Dispositions, DispositionRestored, NoCall
  <2>2. ASSUME NEW q \in Pid
        PROVE  /\ st'[q] \in {"run", "stopped"} /\ call'[q].op # "Pexec"
                    => ign'[q].now = ign'[q].atStart
               /\ call'[q].op = "Pexec" => call'[q].saved = ign'[q].atStart
    <3>1. CASE q = p
      BY <3>1, <2>1, <1>1, <1>2
    <3>2. CASE q # p
      BY <3>2, <1>1, <1>2 DEF IInv, Dispositions, DispositionRestored
    <3> QED
      BY <3>1, <3>2
  <2> QED
    BY <2>2 DEF Dispositions, DispositionRestored
<1> QED
  BY <1>3, <1>4, <1>5, <1>6 DEF IInv

(* A new image starts with an empty pid_map and knows no children. *)
LEMMA ExecDoneKeeps ==
  ASSUME IInv, NEW p \in Pid, ExecDone(p)
  PROVE  IInv'
<1>0. 1 \in Pid /\ Pid \subseteq Nat \ {0}
  BY PidAssumption DEF Pid
<1>1. /\ st[p] = "run" /\ call[p].op \in {"none", "exec"}
      /\ call' = [call EXCEPT ![p] = NoCall] /\ pmap' = [pmap EXCEPT ![p] = <<>>]
      /\ kids' = [kids EXCEPT ![p] = {}]
      /\ ign'  = [ign EXCEPT ![p].atStart = ign[p].now]
      /\ UNCHANGED <<st, parent, status>>
  BY DEF ExecDone
<1>2. /\ call' = [q \in Pid |-> call'[q]] /\ call'[p] = NoCall
      /\ \A q \in Pid \ {p} : call'[q] = call[q]
  BY <1>1 DEF IInv, Table
<1>3. /\ kids' \in [Pid -> SUBSET Entry] /\ kids'[p] = {}
      /\ \A q \in Pid \ {p} : kids'[q] = kids[q]
  BY <1>1 DEF IInv, Table
<1>4. /\ ign' \in [Pid -> [now : BOOLEAN, atStart : BOOLEAN]]
      /\ ign'[p].now = ign'[p].atStart /\ \A q \in Pid \ {p} : ign'[q] = ign[q]
  BY <1>1 DEF IInv, Table
<1>5. \A q \in Pid : Children(q)' = Children(q)
  BY <1>1 DEF Children
<1>6. Table'
  <2>1. \A q \in Pid : call'[q].op \in {"none", "Pwaitpid", "Pexec", "exec"}
    BY <1>2 DEF IInv, Table, NoCall
  <2> QED
    BY <2>1, <1>1, <1>2, <1>3, <1>4 DEF IInv, Table
<1>7. KidsWaitable'
  BY <1>3, <1>5 DEF IInv, KidsWaitable
<1>8. Waits'
  <2> SUFFICES ASSUME NEW q \in Pid
               PROVE  /\ call'[q].op = "Pwaitpid" => Asked(call'[q])
                      /\ call'[q].op = "Pexec" =>
                           /\ call'[q].child \in Children(q)'
                           /\ \A k \in kids'[q] : k.host # call'[q].child
    BY DEF Waits
  <2>1. CASE q = p
    BY <2>1, <1>2 DEF NoCall
  <2>2. CASE q # p
    BY <2>2, <1>2, <1>3, <1>5 DEF IInv, Waits
  <2> QED
    BY <2>1, <2>2
<1>9. Dispositions'
  <2>1. ASSUME NEW q \in Pid
        PROVE  /\ st'[q] \in {"run", "stopped"} /\ call'[q].op # "Pexec"
                    => ign'[q].now = ign'[q].atStart
               /\ call'[q].op = "Pexec" => call'[q].saved = ign'[q].atStart
    <3>1. CASE q = p
      BY <3>1, <1>2, <1>4 DEF NoCall
    <3>2. CASE q # p
      BY <3>2, <1>1, <1>2, <1>4 DEF IInv, Dispositions, DispositionRestored
    <3> QED
      BY <3>1, <3>2
  <2> QED
    BY <2>1 DEF Dispositions, DispositionRestored
<1>10. Maps'
  <2>1. pmap' \in [Pid -> Seq(Entry)] /\ pmap'[p] = <<>>
    BY <1>1 DEF IInv, Maps
  <2>2. \A q \in Pid \ {p} : pmap'[q] = pmap[q]
    BY <1>1 DEF IInv, Maps
  <2>3. Faithful(<<>>) /\ Range(<<>>) = {} /\ IsInjective(<<>>)
    BY DEF Faithful, Range, IsInjective
  <2> QED
    BY <2>1, <2>2, <2>3, <1>0, <1>3 DEF IInv, Maps
<1> QED
  BY <1>6, <1>7, <1>8, <1>9, <1>10 DEF IInv

(* Pexec collects its own child, which no Pfork announced, and puts back the
   disposition it saved.                                                     *)
LEMMA PexecReturnsKeeps ==
  ASSUME IInv, NEW p \in Pid, PexecReturns(p)
  PROVE  IInv'
<1>0. 1 \in Pid /\ Pid \subseteq Nat \ {0}
  BY PidAssumption DEF Pid
<1> DEFINE c == call[p].child
           saved == call[p].saved
<1>1. /\ st[p] = "run" /\ call[p].op = "Pexec" /\ st[c] = "zombie"
      /\ st' = [st EXCEPT ![c] = "free"] /\ status' = [status EXCEPT ![c] = Quiet]
      /\ ign' = [ign EXCEPT ![p].now = saved]
      /\ call' = [call EXCEPT ![p] = NoCall]
      /\ UNCHANGED <<parent, pmap, kids>>
  BY DEF PexecReturns
<1>2. /\ c \in Pid /\ st[c] # "free" /\ parent[c] = p /\ c # 1
      /\ \A k \in kids[p] : k.host # c
  BY <1>0, <1>1 DEF IInv, Waits, Children, Table
<1>3. saved = ign[p].atStart
  BY <1>1 DEF IInv, Dispositions
<1> HIDE DEF c, saved
<1>4. /\ call' = [q \in Pid |-> call'[q]] /\ call'[p] = NoCall
      /\ \A q \in Pid \ {p} : call'[q] = call[q]
  BY <1>1 DEF IInv, Table
<1>5. /\ ign' \in [Pid -> [now : BOOLEAN, atStart : BOOLEAN]]
      /\ ign'[p].now = ign'[p].atStart /\ \A q \in Pid \ {p} : ign'[q] = ign[q]
  BY <1>1, <1>3 DEF IInv, Table
<1>6. /\ st' \in [Pid -> {"free", "run", "stopped", "zombie"}] /\ st'[1] # "free"
      /\ \A q \in Pid : st'[q] \in {st[q], "free"} /\ (q # c => st'[q] = st[q])
  BY <1>0, <1>1, <1>2 DEF IInv, Table
<1>7. /\ \A q \in Pid \ {p} : Children(q)' = Children(q)
      /\ Children(p)' = Children(p) \ {c}
  BY <1>1, <1>2 DEF Children, IInv, Table
<1>8. Table'
  <2>1. /\ status' = [q \in Pid |-> status'[q]]
        /\ \A q \in Pid : status'[q].kind \in {"none", "exit", "signal", "stop"}
    BY <1>1 DEF IInv, Table, Quiet
  <2>2. \A q \in Pid : call'[q].op \in {"none", "Pwaitpid", "Pexec", "exec"}
    BY <1>4 DEF IInv, Table, NoCall
  <2> QED
    BY <2>1, <2>2, <1>1, <1>4, <1>5, <1>6 DEF IInv, Table
<1>9. Maps' /\ KidsWaitable'
  BY <1>1, <1>2, <1>7 DEF IInv, Maps, KidsWaitable
<1>10. Waits'
  <2> SUFFICES ASSUME NEW q \in Pid
               PROVE  /\ call'[q].op = "Pwaitpid" => Asked(call'[q])
                      /\ call'[q].op = "Pexec" =>
                           /\ call'[q].child \in Children(q)'
                           /\ \A k \in kids'[q] : k.host # call'[q].child
    BY DEF Waits
  <2>1. CASE q = p
    BY <2>1, <1>4 DEF NoCall
  <2>2. CASE q # p
    BY <2>2, <1>1, <1>4, <1>7 DEF IInv, Waits
  <2> QED
    BY <2>1, <2>2
<1>11. Dispositions'
  <2>1. ASSUME NEW q \in Pid
        PROVE  /\ st'[q] \in {"run", "stopped"} /\ call'[q].op # "Pexec"
                    => ign'[q].now = ign'[q].atStart
               /\ call'[q].op = "Pexec" => call'[q].saved = ign'[q].atStart
    <3>1. CASE q = p
      BY <3>1, <1>4, <1>5 DEF NoCall
    <3>2. CASE q # p
      BY <3>2, <1>4, <1>5, <1>6 DEF IInv, Dispositions, DispositionRestored
    <3> QED
      BY <3>1, <3>2
  <2> QED
    BY <2>1 DEF Dispositions, DispositionRestored
<1> QED
  BY <1>8, <1>9, <1>10, <1>11 DEF IInv

(* Pwaitpid, which answers at once or blocks. *)
LEMMA PwaitpidKeeps ==
  ASSUME IInv, NEW p \in Pid, NEW pid \in TosPid, NEW flag \in Flags,
         Pwaitpid(p, pid, flag)
  PROVE  IInv'
<1> DEFINE w == [op |-> "Pwaitpid", pid |-> pid, untraced |-> (flag \div 2) % 2 = 1,
                 host |-> IF pid = -1 THEN -1 ELSE map_tos_pid_to_host(pmap[p], pid)]
<1>1. st[p] = "run" /\ call[p] = NoCall /\ call[p].op = "none"
  BY DEF Pwaitpid, Idle, NoCall
<1>2. /\ w.op = "Pwaitpid" /\ w.pid = pid
      /\ w.host = IF pid = -1 THEN -1 ELSE map_tos_pid_to_host(pmap[p], pid)
  OBVIOUS
<1>3. \/ WaitReports(p, w) \/ WaitFindsNothing(p, w)
      \/ WaitBlocks(p, w)  \/ WaitFails(p, w)
  BY DEF Pwaitpid
<1> HIDE DEF w
<1>4. Asked(w)
  BY <1>2, PassedOn
<1>5. CASE WaitReports(p, w)
  BY <1>1, <1>5, WaitReportsKeeps
<1>6. CASE WaitFindsNothing(p, w) \/ WaitFails(p, w)
  BY <1>6, AnswerKeeps DEF WaitFindsNothing, WaitFails
<1>7. CASE WaitBlocks(p, w)
  BY <1>1, <1>2, <1>4, <1>7, WaitBlocksKeeps
<1> QED
  BY <1>3, <1>5, <1>6, <1>7

(* Every action keeps the invariant, *)
LEMMA StepHolds == IInv /\ [Next]_vars => IInv'
<1> SUFFICES ASSUME IInv, [Next]_vars PROVE IInv'
  OBVIOUS
<1>1. CASE UNCHANGED vars
  BY <1>1, AnswerKeeps DEF vars
<1>2. ASSUME NEW p \in Pid, NEW how, st[p] \in {"run", "stopped"}, Ends(p, how),
             how.kind \in {"exit", "signal"}
      PROVE  IInv'
  BY <1>2, EndsKeeps
<1>3. CASE Next
  <2>1. PICK p \in Pid :
          \/ Pfork(p) \/ PforkFails(p) \/ (\E code \in Codes : Pterm(p, code)) \/ Killed(p)
          \/ HostStop(p) \/ HostCont(p) \/ HostReaps(p)
          \/ (\E pid \in TosPid, flag \in Flags : Pwaitpid(p, pid, flag))
          \/ PwaitpidWakes(p) \/ Pexec(p) \/ PexecForkFails(p) \/ ExecDone(p)
          \/ ExecFails(p) \/ PexecReturns(p)
    BY <1>3, Zenon DEF Next
  <2>2. CASE Pfork(p)
    BY <2>2, PforkKeeps
  <2>3. CASE PforkFails(p) \/ PexecForkFails(p)
    BY <2>3, AnswerKeeps DEF PforkFails, PexecForkFails
  <2>4. CASE \E code \in Codes : Pterm(p, code)
    BY <2>4, <1>2 DEF Pterm, Idle
  <2>5. CASE Killed(p)
    BY <2>5, <1>2 DEF Killed
  <2>6. CASE HostStop(p) \/ HostCont(p) \/ HostReaps(p)
    BY <2>6, HostKeeps
  <2>7. CASE \E pid \in TosPid, flag \in Flags : Pwaitpid(p, pid, flag)
    BY <2>7, PwaitpidKeeps
  <2>8. CASE PwaitpidWakes(p)
    BY <2>8, WaitReportsKeeps DEF PwaitpidWakes
  <2>9. CASE Pexec(p)
    BY <2>9, PexecKeeps
  <2>10. CASE ExecDone(p)
    BY <2>10, ExecDoneKeeps
  <2>11. CASE ExecFails(p)
    <3>1. CASE st[p] = "run" /\ Ends(p, [kind |-> "exit", n |-> ExecLost % CodeMod])
      BY <3>1, <1>2
    <3>2. CASE UNCHANGED <<st, parent, status, pmap, kids, call, ign>>
      BY <3>2, AnswerKeeps
    <3> QED
      BY <2>11, <3>1, <3>2 DEF ExecFails
  <2>12. CASE PexecReturns(p)
    BY <2>12, PexecReturnsKeeps
  <2> QED
    BY <2>1, <2>2, <2>3, <2>4, <2>5, <2>6, <2>7, <2>8, <2>9, <2>10, <2>11, <2>12
<1> QED
  BY <1>1, <1>3

(* so it holds in every reachable state. *)
LEMMA AlwaysHolds == Spec => []IInv
BY InitHolds, StepHolds, PTL DEF Spec

-----------------------------------------------------------------------------
(* A child that Pfork announced stays in the host's table, as a child of the
   process that forked it, until Pwaitpid has reported its end: the waitpid in
   Pexec (gemdos/pexec.c) and the reuse of pids never lose an exit.          *)
THEOREM KidsStayWaitable == Spec => []KidsWaitable
BY AlwaysHolds, PTL DEF IInv

(* Every way out of Pexec, and every process it starts, leaves SIGINT as the
   process had it when it started.                                           *)
THEOREM DispositionsRestored == Spec => []DispositionRestored
BY AlwaysHolds, PTL DEF IInv, Dispositions

(* What wait4 reports is the end of the child that the answer names. *)
LEMMA ReportIsAboutKid ==
  ASSUME IInv, NEW p \in Pid, NEW w, Asked(w), WaitReports(p, w)
  PROVE  /\ ret'.to = p
         /\ \A k \in kids[p] \ kids'[p] :
              /\ ret'.pid = k.tos /\ st[k.host] = "zombie"
              /\ ret'.asked \in {-1, 0, k.tos}
<1>1. PICK c \in Ready(p, w) :
        /\ ret' = Answer(p, w, map_host_pid_to_tos(pmap[p], c), status[c])
        /\ IF st[c] = "zombie"
           THEN kids' = [kids EXCEPT ![p] = {k \in kids[p] : k.host # c}]
           ELSE kids' = kids
  BY DEF WaitReports
<1>2. c \in Pid /\ w.host \in {-1, 0, c}
  BY DEF Ready, Named, Children
<1>3. Faithful(pmap[p]) /\ kids[p] \subseteq Range(pmap[p])
  BY DEF IInv, Maps
<1>4. map_host_pid_to_tos(pmap[p], c) = Int16(c)
  BY <1>2, <1>3, MapToTos
<1>5. ret'.to = p /\ ret'.pid = Int16(c) /\ ret'.asked = w.pid
  BY <1>1, <1>4 DEF Answer
<1>6. ASSUME NEW k \in kids[p] \ kids'[p]
      PROVE  /\ ret'.pid = k.tos /\ st[k.host] = "zombie"
             /\ ret'.asked \in {-1, 0, k.tos}
  <2>1. st[c] = "zombie" /\ k.host = c
    BY <1>1, <1>6 DEF IInv, Table
  <2>2. k.tos = Int16(c)
    BY <2>1, <1>3 DEF Faithful
  <2>3. w.pid \in {-1, 0, Int16(c)}
    BY <1>2 DEF Asked
  <2> QED
    BY <2>1, <2>2, <2>3, <1>5
<1> QED
  BY <1>5, <1>6

(* Whenever an answer of Pwaitpid takes a child from the program, it carries
   the pid that Pfork returned for that child, the child had ended, and it is
   one the call asked for: a blocked call, answered long after it translated
   its argument, included (gemdos/proc.c, Pwaitpid).                         *)
THEOREM AnswersAboutKids == Spec => AnswerIsAboutKid
<1> DEFINE About == ret'.op = "Pwaitpid" =>
                      LET p == ret'.to IN \A k \in kids[p] \ kids'[p] :
                        /\ ret'.pid = k.tos
                        /\ st[k.host] = "zombie"
                        /\ ret'.asked \in {-1, 0, k.tos}
<1>1. IInv /\ [Next]_vars => [About]_vars
  <2> SUFFICES ASSUME IInv, Next PROVE About
    OBVIOUS
  <2>1. PICK p \in Pid :
          \/ Pfork(p) \/ PforkFails(p) \/ (\E code \in Codes : Pterm(p, code)) \/ Killed(p)
          \/ HostStop(p) \/ HostCont(p) \/ HostReaps(p)
          \/ (\E pid \in TosPid, flag \in Flags : Pwaitpid(p, pid, flag))
          \/ PwaitpidWakes(p) \/ Pexec(p) \/ PexecForkFails(p) \/ ExecDone(p)
          \/ ExecFails(p) \/ PexecReturns(p)
    BY Zenon DEF Next
  <2>2. CASE \/ Pfork(p) \/ PforkFails(p) \/ Pexec(p) \/ PexecForkFails(p)
             \/ ExecDone(p) \/ PexecReturns(p)
    <3>1. ret'.op \in {"Pfork", "Pexec", "none"}
      BY <2>2 DEF Pfork, PforkFails, Pexec, PexecForkFails, ExecDone, PexecReturns, NoRet
    <3> QED
      BY <3>1
  <2>3. CASE \/ (\E code \in Codes : Pterm(p, code)) \/ Killed(p) \/ ExecFails(p)
             \/ HostStop(p) \/ HostCont(p) \/ HostReaps(p)
    <3>1. ret'.op \in {"Pexec", "none"}
      BY <2>3 DEF Pterm, Killed, Ends, ExecFails, HostStop, HostCont, HostReaps, NoRet
    <3> QED
      BY <3>1
  <2>4. CASE PwaitpidWakes(p)
    <3>1. Asked(call[p]) /\ WaitReports(p, call[p])
      BY <2>4 DEF PwaitpidWakes, IInv, Waits
    <3> QED
      BY <3>1, ReportIsAboutKid
  <2>5. ASSUME NEW pid \in TosPid, NEW flag \in Flags, Pwaitpid(p, pid, flag)
        PROVE  About
    <3> DEFINE w == [op |-> "Pwaitpid", pid |-> pid, untraced |-> (flag \div 2) % 2 = 1,
                     host |-> IF pid = -1 THEN -1 ELSE map_tos_pid_to_host(pmap[p], pid)]
    <3>1. /\ w.pid = pid
          /\ w.host = IF pid = -1 THEN -1 ELSE map_tos_pid_to_host(pmap[p], pid)
      OBVIOUS
    <3>2. \/ WaitReports(p, w) \/ WaitFindsNothing(p, w)
          \/ WaitBlocks(p, w)  \/ WaitFails(p, w)
      BY <2>5 DEF Pwaitpid
    <3> HIDE DEF w
    <3>3. Asked(w)
      BY <3>1, PassedOn
    <3>4. CASE WaitReports(p, w)
      BY <3>3, <3>4, ReportIsAboutKid
    <3>5. CASE WaitFindsNothing(p, w) \/ WaitBlocks(p, w) \/ WaitFails(p, w)
      <4>1. kids' = kids
        BY <3>5 DEF WaitFindsNothing, WaitBlocks, WaitFails
      <4> QED
        BY <4>1
    <3> QED
      BY <3>2, <3>4, <3>5
  <2> HIDE DEF About
  <2> QED
    BY <2>1, <2>2, <2>3, <2>4, <2>5
<1> QED
  BY <1>1, AlwaysHolds, PTL DEF Spec, AnswerIsAboutKid

(* While host pids fit, the pid that Pfork returned leads back to its child,
   and the map of the first process holds one entry for each child it has not
   been told the end of, and no other.                                       *)
THEOREM PidMapStaysSound ==
  ASSUME PidsFit
  PROVE  Spec => []PidMapSound
<1>1. IInv => TypeOK
  BY DEF IInv, Table, Maps, TypeOK
<1>2. IInv => PidsRoundTrip
  <2> SUFFICES ASSUME IInv, NEW p \in Pid, NEW k \in kids[p]
               PROVE  k.tos # -1 /\ map_tos_pid_to_host(pmap[p], k.tos) = k.host
    BY DEF PidsRoundTrip
  <2>1. Faithful(pmap[p]) /\ kids[p] \subseteq Range(pmap[p])
    BY DEF IInv, Maps
  <2>2. Range(pmap[p]) \subseteq Entry
    BY <2>1 DEF Faithful, Range
  <2>3. \A e \in Range(pmap[p]) : e.host \in Pid /\ e.tos \in TosPid /\ e.tos = Int16(e.host)
    BY <2>1, <2>2 DEF Faithful, Entry
  <2>4. \E e \in Range(pmap[p]) : /\ e.tos = k.tos
                                  /\ map_tos_pid_to_host(pmap[p], k.tos) = e.host
    <3>1. k \in Range(pmap[p]) /\ k.tos \in TosPid
      BY <2>1, <2>3
    <3> QED
      BY <3>1, <2>1, MapToHost
  <2>5. PICK e \in Range(pmap[p]) : /\ e.tos = k.tos
                                    /\ map_tos_pid_to_host(pmap[p], k.tos) = e.host
    BY <2>4
  <2>6. k.host \in Pid /\ e.host \in Pid /\ Int16(e.host) = Int16(k.host) /\ k.tos = Int16(k.host)
    BY <2>1, <2>3, <2>5
  <2>7. e.host = k.host /\ k.tos # -1
    BY <2>6, Int16Injective
  <2> QED
    BY <2>5, <2>7
<1>3. IInv => MapIsExact
  <2> SUFFICES ASSUME IInv PROVE MapIsExact
    OBVIOUS
  <2> DEFINE m == pmap[1]
  <2>1. m \in Seq(Entry) /\ IsInjective(m) /\ Range(m) = kids[1]
    BY PidAssumption DEF IInv, Maps, Pid
  <2>2. DOMAIN m = 1 .. Len(m) /\ Len(m) \in Nat
    BY <2>1
  <2> HIDE DEF m
  <2>3. m \in Bijection(1 .. Len(m), Range(m))
    <3>1. m \in [1 .. Len(m) -> Range(m)]
      BY <2>1, <2>2 DEF Range
    <3>2. \A a, b \in 1 .. Len(m) : m[a] = m[b] => a = b
      BY <2>1, <2>2 DEF IsInjective
    <3>3. \A y \in Range(m) : \E x \in 1 .. Len(m) : m[x] = y
      BY <2>2 DEF Range
    <3> QED
      BY <3>1, <3>2, <3>3 DEF Bijection, Injection, Surjection, IsInjective
  <2>4. IsFiniteSet(1 .. Len(m)) /\ Cardinality(1 .. Len(m)) = Len(m)
    <3> DEFINE n == Len(m)
    <3>1. 1 \in Int /\ n \in Int /\ n >= 0
      BY <2>2
    <3> HIDE DEF n
    <3>2. IsFiniteSet(1 .. n) /\ Cardinality(1 .. n) = IF 1 > n THEN 0 ELSE n - 1 + 1
      BY <3>1, FS_Interval, Zenon
    <3>3. Cardinality(1 .. n) = n
      BY <3>1, <3>2
    <3> QED
      BY <3>2, <3>3 DEF n
  <2>5. Cardinality(Range(m)) = Len(m)
    BY <2>3, <2>4, FS_Bijection DEF ExistsBijection
  <2> QED
    BY <2>1, <2>5 DEF MapIsExact, m
<1> QED
  BY <1>1, <1>2, <1>3, AlwaysHolds, PTL DEF PidMapSound

(* Host pids below half of PidMod stay positive as 16-bit numbers: then the sign
   of Pfork's answer tells the parent whether there is a new child.  Without
   the bound it does not (run proc_high_pid).                                *)
THEOREM ForkAnswersBySign ==
  ASSUME MaxPid < PidMod \div 2
  PROVE  Spec => ForkAnswers
<1> DEFINE Signed == ret'.op = "Pfork" =>
                       /\ ret'.res > 0 <=> kids'[ret'.to] # kids[ret'.to]
                       /\ ret'.res < 0 <=> kids'[ret'.to] = kids[ret'.to]
                       /\ ret'.child # 0 => ret'.childRes = 0
<1>1. \A c \in Pid : c \in Int /\ c > 0 /\ Int16(c) = c
  <2> TAKE c \in Pid
  <2>1. c \in TosPid /\ c \in Int /\ c > 0
    BY HalfRange, PidAssumption DEF Pid, TosPid
  <2> QED
    BY <2>1, Int16Type
<1>2. IInv /\ [Next]_vars => [Signed]_vars
  <2> SUFFICES ASSUME IInv, Next PROVE Signed
    OBVIOUS
  <2>1. PICK p \in Pid :
          \/ Pfork(p) \/ PforkFails(p) \/ (\E code \in Codes : Pterm(p, code)) \/ Killed(p)
          \/ HostStop(p) \/ HostCont(p) \/ HostReaps(p)
          \/ (\E pid \in TosPid, flag \in Flags : Pwaitpid(p, pid, flag))
          \/ PwaitpidWakes(p) \/ Pexec(p) \/ PexecForkFails(p) \/ ExecDone(p)
          \/ ExecFails(p) \/ PexecReturns(p)
    BY Zenon DEF Next
  <2>2. CASE Pfork(p)
    <3>1. PICK c \in Pid :
            /\ st[c] = "free"
            /\ kids' = [kids EXCEPT ![p] = @ \cup {[tos |-> Int16(c), host |-> c]}, ![c] = {}]
            /\ ret'  = [op |-> "Pfork", to |-> p, child |-> c, res |-> Int16(c), childRes |-> 0]
      BY <2>2 DEF Pfork, HostFork
    <3>2. c # p
      BY <2>2, <3>1 DEF Pfork, Idle
    <3> DEFINE e == [tos |-> Int16(c), host |-> c]
    <3>3. e.host = c /\ e \notin kids[p]
      BY <3>1 DEF IInv, KidsWaitable, Children
    <3>4. kids'[p] = kids[p] \cup {e}
      BY <3>1, <3>2 DEF IInv, Table
    <3> HIDE DEF e
    <3>5. kids'[p] # kids[p]
      BY <3>3, <3>4
    <3>6. ret'.to = p /\ ret'.res = c /\ ret'.childRes = 0
      BY <3>1, <1>1
    <3> QED
      BY <3>5, <3>6, <1>1
  <2>3. CASE PforkFails(p)
    <3>1. /\ kids' = kids
          /\ ret' = [op |-> "Pfork", to |-> p, child |-> 0, res |-> -1, childRes |-> 0]
      BY <2>3 DEF PforkFails
    <3>2. ret'.res = -1 /\ ret'.childRes = 0
      BY <3>1
    <3> QED
      BY <3>1, <3>2
  <2>4. CASE \/ (\E code \in Codes : Pterm(p, code)) \/ Killed(p)
             \/ HostStop(p) \/ HostCont(p) \/ HostReaps(p) \/ Pexec(p)
             \/ PexecForkFails(p) \/ ExecDone(p) \/ ExecFails(p) \/ PexecReturns(p)
    <3>1. ret'.op \in {"Pexec", "none"}
      BY <2>4 DEF Pterm, Killed, Ends, ExecFails, HostStop, HostCont, HostReaps, Pexec,
                  PexecForkFails, ExecDone, PexecReturns, NoRet
    <3> QED
      BY <3>1
  <2>5. ASSUME NEW w, \/ WaitReports(p, w) \/ WaitFindsNothing(p, w)
                      \/ WaitBlocks(p, w)  \/ WaitFails(p, w)
        PROVE  Signed
    <3>1. ret'.op \in {"Pwaitpid", "none"}
      BY <2>5 DEF WaitReports, WaitFindsNothing, WaitBlocks, WaitFails, Answer, NoRet
    <3> QED
      BY <3>1
  <2>6. CASE \/ (\E pid \in TosPid, flag \in Flags : Pwaitpid(p, pid, flag))
             \/ PwaitpidWakes(p)
    <3> HIDE DEF Signed
    <3>1. \E w : \/ WaitReports(p, w) \/ WaitFindsNothing(p, w)
                 \/ WaitBlocks(p, w)  \/ WaitFails(p, w)
      BY <2>6, Zenon DEF Pwaitpid, PwaitpidWakes
    <3> QED
      BY <3>1, <2>5
  <2> HIDE DEF Signed
  <2> QED
    BY <2>1, <2>2, <2>3, <2>4, <2>6
<1> QED
  BY <1>2, AlwaysHolds, PTL DEF Spec, ForkAnswers
=============================================================================
