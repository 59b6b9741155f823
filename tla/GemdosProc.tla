----------------------------- MODULE GemdosProc -----------------------------
(***************************************************************************)
(* Processes: Pfork, Pvfork, Pwaitpid (Pwait, Pwait3), Pterm and Pexec of  *)
(* gemdos/proc.c and gemdos/pexec.c.  Every guest process is a host        *)
(* process that runs its own copy of ParaTos.  GEMDOS pids are 16 bits     *)
(* wide, host pids are not, so each process keeps pid_map, a list of the   *)
(* children it has forked; a child starts with a copy of it.               *)
(***************************************************************************)
EXTENDS Integers, Sequences, FiniteSets, SequencesExt, Functions

CONSTANTS
  MaxPid,    \* host pids are 1 .. MaxPid; 1 is the first ParaTos process
  PidMod,    \* 2^16: an int16_t holds a pid modulo this
  Codes,     \* values passed to Pterm
  Flags,     \* values of Pwaitpid's flag
  Stoppable, \* the processes that job control stops
  CodeMod    \* 256: what exit() keeps of its argument

ASSUME PidAssumption ==
  /\ MaxPid \in Nat \ {0}
  /\ PidMod \in Nat /\ PidMod >= 4 /\ PidMod % 2 = 0
ASSUME CallAssumption ==
  /\ Codes \subseteq Nat /\ CodeMod \in Nat \ {0}
  /\ Flags \subseteq 0 .. 3 /\ Stoppable \subseteq 1 .. MaxPid

VARIABLES
  st,       \* host state of each pid: "free", "run", "stopped" or "zombie"
  parent,   \* host parent; 0 is the host's init
  status,   \* what wait4 would report of the process
  pmap,     \* pid_map of each process, newest entry first
  kids,     \* what the program remembers of its children: pid from Pfork, process
  call,     \* the GEMDOS call a process is blocked in
  ign,      \* is SIGINT ignored: [now, atStart]
  ret       \* who was answered in the last step, and what; NoRet when nobody was

vars == <<st, parent, status, pmap, kids, call, ign, ret>>

Pid    == 1 .. MaxPid
TosPid == -(PidMod \div 2) .. PidMod \div 2 - 1
Entry  == [tos : TosPid, host : Pid]
Quiet  == [kind |-> "none", n |-> 0]
NoCall == [op |-> "none"]
NoRet  == [op |-> "none"]

Signal  == 2         \* a signal that ends or stops a process, by its host number
Stopped == 31        \* 0x1f, the code Pwaitpid gives for a stopped child
ExecLost == -32      \* TOS_ENOSYS

(* (int16_t)n *)
Int16(n) == ((n + PidMod \div 2) % PidMod) - PidMod \div 2

-----------------------------------------------------------------------------
(* pid_map *)
remember_pid(m, host) == <<[tos |-> Int16(host), host |-> host]>> \o m

UsesTosPid(m, tos) == tos

map_tos_pid_to_host(m, tos) ==
  LET i == SelectInSeq(m, LAMBDA e : e.tos = tos)
  IN IF i = 0 THEN tos ELSE m[i].host

AnswersHostPid(m, host) == host

map_host_pid_to_tos(m, host) ==
  LET i == SelectInSeq(m, LAMBDA e : e.host = host)
  IN IF i = 0 THEN Int16(host) ELSE m[i].tos

forget_pid_by_host(m, host) ==
  LET i == SelectInSeq(m, LAMBDA e : e.host = host)
  IN IF i = 0 THEN m ELSE RemoveAt(m, i)

-----------------------------------------------------------------------------
Children(p) == {c \in Pid : st[c] # "free" /\ parent[c] = p}

(* p runs its program and is in no call. *)
Idle(p) == st[p] = "run" /\ call[p] = NoCall

Init ==
  /\ st     = [p \in Pid |-> IF p = 1 THEN "run" ELSE "free"]
  /\ parent = [p \in Pid |-> 0]
  /\ status = [p \in Pid |-> Quiet]
  /\ pmap   = [p \in Pid |-> <<>>]
  /\ kids   = [p \in Pid |-> {}]
  /\ call   = [p \in Pid |-> NoCall]
  /\ ign    = [p \in Pid |-> [now |-> FALSE, atStart |-> FALSE]]
  /\ ret    = NoRet

(* The host's fork(): c is a copy of p, and inherits its ignored signals. *)
HostFork(p, c) ==
  /\ st[c] = "free"
  /\ st'     = [st EXCEPT ![c] = "run"]
  /\ parent' = [parent EXCEPT ![c] = p]
  /\ status' = [status EXCEPT ![c] = Quiet]

(* Pfork and Pvfork. *)
Pfork(p) ==
  /\ Idle(p)
  /\ \E c \in Pid :
       /\ HostFork(p, c)
       /\ pmap' = [pmap EXCEPT ![p] = remember_pid(@, c), ![c] = pmap[p]]
       /\ kids' = [kids EXCEPT ![p] = @ \cup {[tos |-> Int16(c), host |-> c]}, ![c] = {}]
       /\ ign'  = [ign EXCEPT ![c] = [now |-> ign[p].now, atStart |-> ign[p].now]]
       /\ ret'  = [op |-> "Pfork", to |-> p, child |-> c, res |-> Int16(c), childRes |-> 0]
       /\ call' = [call EXCEPT ![c] = NoCall]

PforkFails(p) ==
  /\ Idle(p)
  /\ ret' = [op |-> "Pfork", to |-> p, child |-> 0, res |-> -1, childRes |-> 0]
  /\ UNCHANGED <<st, parent, status, pmap, kids, call, ign>>

(* p ends; the host gives its children to init. *)
Ends(p, how) ==
  /\ st'     = [st EXCEPT ![p] = "zombie"]
  /\ status' = [status EXCEPT ![p] = how]
  /\ parent' = [c \in Pid |-> IF parent[c] = p THEN 0 ELSE parent[c]]
  /\ call'   = [call EXCEPT ![p] = NoCall]
  /\ kids'   = [kids EXCEPT ![p] = {}]
  /\ pmap'   = [pmap EXCEPT ![p] = <<>>]
  /\ ret'    = NoRet
  /\ UNCHANGED ign

(* Pterm, Pterm0 and Ptermres call exit(). *)
Pterm(p, code) ==
  /\ Idle(p)
  /\ Ends(p, [kind |-> "exit", n |-> code % CodeMod])

Killed(p) ==
  /\ st[p] \in {"run", "stopped"}
  /\ Ends(p, [kind |-> "signal", n |-> Signal])

(* Job control from outside stops and continues a process. *)
HostStop(p) ==
  /\ p \in Stoppable /\ st[p] = "run"
  /\ st'     = [st EXCEPT ![p] = "stopped"]
  /\ status' = [status EXCEPT ![p] = [kind |-> "stop", n |-> Signal]]
  /\ ret' = NoRet
  /\ UNCHANGED <<parent, pmap, kids, call, ign>>

HostCont(p) ==
  /\ st[p] = "stopped"
  /\ st'     = [st EXCEPT ![p] = "run"]
  /\ status' = [status EXCEPT ![p] = Quiet]
  /\ ret' = NoRet
  /\ UNCHANGED <<parent, pmap, kids, call, ign>>

(* The host's init waits for the processes it adopted; the shell that started
   process 1 is outside the model and does not.                            *)
HostReaps(p) ==
  /\ p # 1 /\ st[p] = "zombie" /\ parent[p] = 0
  /\ st' = [st EXCEPT ![p] = "free"]
  /\ status' = [status EXCEPT ![p] = Quiet]
  /\ ret' = NoRet
  /\ UNCHANGED <<parent, pmap, kids, call, ign>>

-----------------------------------------------------------------------------
(* wait4's reading of its first argument: a child, any child, any child of the
   caller's group; other negative values name a group without a process.   *)
Named(p, w) == {c \in Children(p) : w.host \in {-1, 0, c}}

Ready(p, w) ==
  {c \in Named(p, w) : st[c] = "zombie" \/ (w.untraced /\ status[c].kind = "stop")}

(* What the program reads out of D0. *)
Answer(p, w, tos, how) ==
  [op |-> "Pwaitpid", to |-> p, asked |-> w.pid, pid |-> tos,
   sig  |-> IF how.kind \in {"signal", "stop"} THEN how.n ELSE 0,
   code |-> CASE how.kind = "exit" -> how.n
              [] how.kind = "stop" -> Stopped
              [] OTHER -> 0]

(* Mutant: only children found in pid_map are reported. *)
ReportsMappedOnly(p, w) ==
  /\ \E c \in {c \in Ready(p, w) : \E e \in Range(pmap[p]) : e.host = c} :
       /\ ret' = Answer(p, w, map_host_pid_to_tos(pmap[p], c), status[c])
       /\ status' = [status EXCEPT ![c] = Quiet]
       /\ IF st[c] = "zombie"
          THEN /\ st'   = [st EXCEPT ![c] = "free"]
               /\ pmap' = [pmap EXCEPT ![p] = forget_pid_by_host(@, c)]
               /\ kids' = [kids EXCEPT ![p] = {k \in @ : k.host # c}]
          ELSE UNCHANGED <<st, pmap, kids>>
  /\ call' = [call EXCEPT ![p] = NoCall]
  /\ UNCHANGED <<parent, ign>>

(* wait4 reports child c.  A child that has ended leaves the host's table and
   is forgotten; one that is stopped has been reported and stays.          *)
WaitReports(p, w) ==
  /\ \E c \in Ready(p, w) :
       /\ ret' = Answer(p, w, map_host_pid_to_tos(pmap[p], c), status[c])
       /\ status' = [status EXCEPT ![c] = Quiet]
       /\ IF st[c] = "zombie"
          THEN /\ st'   = [st EXCEPT ![c] = "free"]
               /\ pmap' = [pmap EXCEPT ![p] = forget_pid_by_host(@, c)]
               /\ kids' = [kids EXCEPT ![p] = {k \in @ : k.host # c}]
          ELSE UNCHANGED <<st, pmap, kids>>
  /\ call' = [call EXCEPT ![p] = NoCall]
  /\ UNCHANGED <<parent, ign>>

(* WNOHANG with nothing to report: wait4 answers 0 and leaves status as it
   was on the stack, so the low word of the answer is anything.            *)
WaitFindsNothing(p, w) ==
  /\ Named(p, w) # {} /\ Ready(p, w) = {}
  /\ \E kind \in {"exit", "signal", "stop"} :
       ret' = Answer(p, w, map_host_pid_to_tos(pmap[p], 0), [kind |-> kind, n |-> Signal])
  /\ UNCHANGED <<st, parent, status, pmap, kids, call, ign>>

WaitBlocks(p, w) ==
  /\ Named(p, w) # {} /\ Ready(p, w) = {}
  /\ call' = [call EXCEPT ![p] = w]
  /\ ret' = NoRet
  /\ UNCHANGED <<st, parent, status, pmap, kids, ign>>

(* ECHILD: no child answers to the pid. *)
WaitFails(p, w) ==
  /\ Named(p, w) = {}
  /\ ret' = [op |-> "Pwaitpid", to |-> p, asked |-> w.pid, pid |-> -1, sig |-> 0, code |-> 0]
  /\ UNCHANGED <<st, parent, status, pmap, kids, call, ign>>

(* Pwaitpid maps pid, decodes flag and calls wait4, which may block.  Pwait is
   Pwaitpid(-1, 2), Pwait3(flag) is Pwaitpid(-1, flag).                    *)
Pwaitpid(p, pid, flag) ==
  /\ Idle(p)
  /\ LET nohang == flag % 2 = 1
         w == [op |-> "Pwaitpid", pid |-> pid, untraced |-> (flag \div 2) % 2 = 1,
               host |-> IF pid = -1 THEN -1 ELSE map_tos_pid_to_host(pmap[p], pid)]
     IN \/ WaitReports(p, w)
        \/ nohang /\ WaitFindsNothing(p, w)
        \/ ~nohang /\ WaitBlocks(p, w)
        \/ WaitFails(p, w)

PwaitpidWakes(p) ==
  /\ st[p] = "run" /\ call[p].op = "Pwaitpid"
  /\ WaitReports(p, call[p])

-----------------------------------------------------------------------------
(* Pexec(0, ..): ignore SIGINT and SIGQUIT, fork, and wait for that child. *)
Pexec(p) ==
  /\ Idle(p)
  /\ \E c \in Pid :
       /\ HostFork(p, c)
       /\ pmap' = [pmap EXCEPT ![c] = pmap[p]]
       /\ kids' = [kids EXCEPT ![c] = {}]
       /\ ign'  = [ign EXCEPT ![p].now = TRUE, ![c] = [now |-> TRUE, atStart |-> TRUE]]
       /\ ret'  = NoRet
       /\ call' = [call EXCEPT ![c] = [op |-> "exec"],
                               ![p] = [op |-> "Pexec", child |-> c, saved |-> ign[p].now]]

(* Mutant: the early return forgets the dispositions. *)
StaysIgnoring(p) ==
  /\ Idle(p)
  /\ ret' = [op |-> "Pexec", to |-> p, res |-> -1]
  /\ ign' = [ign EXCEPT ![p].now = TRUE]
  /\ UNCHANGED <<st, parent, status, pmap, kids, call>>

(* The fork fails: the dispositions are put back. *)
PexecForkFails(p) ==
  /\ Idle(p)
  /\ ret' = [op |-> "Pexec", to |-> p, res |-> -1]
  /\ UNCHANGED <<st, parent, status, pmap, kids, call, ign>>

(* Pexec(200, ..) and the child of Pexec(0, ..): execve starts a new image,
   which knows nothing of the children of the old one.                     *)
ExecDone(c) ==
  /\ st[c] = "run" /\ call[c].op \in {"none", "exec"}
  /\ call' = [call EXCEPT ![c] = NoCall]
  /\ pmap' = [pmap EXCEPT ![c] = <<>>]
  /\ kids' = [kids EXCEPT ![c] = {}]
  /\ ret'  = NoRet
  /\ ign'  = [ign EXCEPT ![c].atStart = ign[c].now]
  /\ UNCHANGED <<st, parent, status>>

(* execve fails: the case for 200 falls into the default one. *)
ExecFails(c) ==
  \/ /\ st[c] = "run" /\ call[c].op = "exec"
     /\ Ends(c, [kind |-> "exit", n |-> ExecLost % CodeMod])
  \/ /\ Idle(c)
     /\ ret' = [op |-> "Pexec", to |-> c, res |-> ExecLost]
     /\ UNCHANGED <<st, parent, status, pmap, kids, call, ign>>

(* Mutants: the wait takes any child, or only one that called exit(). *)
ReturnsOnAnyChild(p) ==
  /\ st[p] = "run" /\ call[p].op = "Pexec"
  /\ \E c \in Children(p) :
        /\ st[c] = "zombie"
        /\ st' = [st EXCEPT ![c] = "free"]
        /\ status' = [status EXCEPT ![c] = Quiet]
        /\ ret' = [op |-> "Pexec", to |-> p,
                    res |-> IF status[c].kind = "exit" THEN status[c].n ELSE -1]
  /\ ign' = [ign EXCEPT ![p].now = call[p].saved]
  /\ call' = [call EXCEPT ![p] = NoCall]
  /\ UNCHANGED <<parent, pmap, kids>>

ReturnsOnExit(p) ==
  /\ st[p] = "run" /\ call[p].op = "Pexec"
  /\ LET c == call[p].child
     IN /\ st[c] = "zombie" /\ status[c].kind = "exit"
        /\ st' = [st EXCEPT ![c] = "free"]
        /\ status' = [status EXCEPT ![c] = Quiet]
        /\ ret' = [op |-> "Pexec", to |-> p,
                    res |-> IF status[c].kind = "exit" THEN status[c].n ELSE -1]
  /\ ign' = [ign EXCEPT ![p].now = call[p].saved]
  /\ call' = [call EXCEPT ![p] = NoCall]
  /\ UNCHANGED <<parent, pmap, kids>>

PexecReturns(p) ==
  /\ st[p] = "run" /\ call[p].op = "Pexec"
  /\ LET c == call[p].child
     IN /\ st[c] = "zombie"
        /\ st' = [st EXCEPT ![c] = "free"]
        /\ status' = [status EXCEPT ![c] = Quiet]
        /\ ret' = [op |-> "Pexec", to |-> p,
                    res |-> IF status[c].kind = "exit" THEN status[c].n ELSE -1]
  /\ ign' = [ign EXCEPT ![p].now = call[p].saved]
  /\ call' = [call EXCEPT ![p] = NoCall]
  /\ UNCHANGED <<parent, pmap, kids>>

-----------------------------------------------------------------------------
Next ==
  \E p \in Pid :
    \/ Pfork(p)
    \/ PforkFails(p)
    \/ \E code \in Codes : Pterm(p, code)
    \/ Killed(p)
    \/ HostStop(p)
    \/ HostCont(p)
    \/ HostReaps(p)
    \/ \E pid \in TosPid, flag \in Flags : Pwaitpid(p, pid, flag)
    \/ PwaitpidWakes(p)
    \/ Pexec(p)
    \/ PexecForkFails(p)
    \/ ExecDone(p)
    \/ ExecFails(p)
    \/ PexecReturns(p)

Spec == Init /\ [][Next]_vars

(* wait4 and waitpid return once they can: the host wakes the caller.  What a
   program calls next, and whether it ends, is its own affair.             *)
Fairness ==
  \A p \in Pid : /\ WF_vars(PwaitpidWakes(p))
                 /\ WF_vars(PexecReturns(p))

FairSpec == Spec /\ Fairness

-----------------------------------------------------------------------------
(* Type invariant of the process table, the pid maps and the calls. *)
TypeOK ==
  /\ st \in [Pid -> {"free", "run", "stopped", "zombie"}]
  /\ parent \in [Pid -> 0 .. MaxPid]
  /\ \A p \in Pid : status[p].kind \in {"none", "exit", "signal", "stop"}
  /\ pmap \in [Pid -> Seq(Entry)]
  /\ kids \in [Pid -> SUBSET Entry]
  /\ \A p \in Pid : call[p].op \in {"none", "Pwaitpid", "Pexec", "exec"}
  /\ ign \in [Pid -> [now : BOOLEAN, atStart : BOOLEAN]]

(* The pid that Pfork returned for a child, given to Pwaitpid, makes the host
   wait for that child, however many children came and went in between and
   whatever entries the process inherited from its parent.                 *)
PidsRoundTrip ==
  \A p \in Pid : \A k \in kids[p] :
    k.tos # -1 /\ map_tos_pid_to_host(pmap[p], k.tos) = k.host

(* A child that Pfork announced stays in the host's table until Pwaitpid has
   reported its end to the program: neither the wait inside Pexec nor the
   reuse of a pid makes its exit disappear.                                *)
KidsWaitable ==
  \A p \in Pid : \A k \in kids[p] : k.host \in Children(p)

(* pid_map does not grow for ever: the first process, which inherits nothing,
   holds exactly the children it has not been told the end of.             *)
MapIsExact ==
  /\ Range(pmap[1]) = kids[1]
  /\ Len(pmap[1]) = Cardinality(kids[1])

(* pid_map leads to the right process and holds no other: all of the above. *)
PidMapSound == TypeOK /\ PidsRoundTrip /\ MapIsExact

(* SIGINT is ignored by a process only while it waits in Pexec, or because it
   was started that way: every way out of Pexec restores the disposition.  *)
DispositionRestored ==
  \A p \in Pid : st[p] \in {"run", "stopped"} /\ call[p].op # "Pexec" =>
    ign[p].now = ign[p].atStart

(* An answer of Pwaitpid that names a child the program forked is about that
   child: the pid is the one Pfork returned and a child whose end is reported
   had really ended.                                                       *)
AnswerIsAboutKid ==
  [][ret'.op = "Pwaitpid" =>
       LET p == ret'.to IN \A k \in kids[p] \ kids'[p] :
         /\ ret'.pid = k.tos
         /\ st[k.host] = "zombie"
         /\ ret'.asked \in {-1, 0, k.tos}]_vars

(* To the parent Pfork answers with a positive pid when it made a child and
   with a negative value when it made none; only the child is told 0.      *)
ForkAnswers ==
  [][ret'.op = "Pfork" =>
       /\ ret'.res > 0 <=> kids'[ret'.to] # kids[ret'.to]
       /\ ret'.res < 0 <=> kids'[ret'.to] = kids[ret'.to]
       /\ ret'.child # 0 => ret'.childRes = 0]_vars

(* A process blocked in Pwaitpid for any child, or for a child by the pid that
   Pfork gave it, is answered once such a child has ended: also when the child
   was started before a Pexec(200) or by a process that forked this one.   *)
WaitEnds ==
  \A p, c \in Pid :
    (/\ st[p] = "run" /\ call[p].op = "Pwaitpid"
     /\ c \in Children(p) /\ st[c] = "zombie"
     /\ call[p].pid = -1 \/ [tos |-> call[p].pid, host |-> c] \in kids[p])
    ~> (call[p].op # "Pwaitpid" \/ st[p] # "run")

(* Pexec comes back once the program it started has ended, be it by an exit or
   by a signal, whatever other children the process has.                   *)
PexecEnds ==
  \A p \in Pid :
    (st[p] = "run" /\ call[p].op = "Pexec" /\ st[call[p].child] = "zombie")
    ~> (call[p].op # "Pexec" \/ st[p] # "run")
=============================================================================
