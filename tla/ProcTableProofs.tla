-------------------------- MODULE ProcTableProofs --------------------------
(***************************************************************************)
(* Proofs about the process table, for every number of slots and pids.     *)
(***************************************************************************)
EXTENDS ProcTable, TLAPS

\* Threads that still act for their guest process: LiveOwnsSlot's, and those
\* that have left the guest but not marked their slot yet.
Acting == Starting \cup Guest \cup {"tail"}

\* No pid at or above nextPid has been handed out.
PidsFresh ==
  /\ \A s \in Slot : procs[s].pid < nextPid
  /\ \A t \in Pid : pc[t] # "none" => t < nextPid

\* Pids are never reused, so no two slots hold the same one.
PidsUnique ==
  \A s, r \in Slot : procs[s].pid = procs[r].pid /\ procs[s].pid # None => s = r

\* A thread acts for the process its slot describes.
ActingOwns ==
  \A t \in Pid : pc[t] \in Acting =>
    procs[proc[t]].pid = t /\ procs[proc[t]].state = "RUNNING"

\* A READY slot is one whose thread has not been started, and a parent between
\* fork's two entries has one for itself.
ReadyUnstarted ==
  /\ \A s \in Slot : procs[s].state = "READY" =>
       procs[s].pid \in Pid /\ pc[procs[s].pid] = "none"
  /\ \A t \in Pid : pc[t] = "forking" =>
       \E s \in Slot : procs[s].pid = loc[t].want /\ procs[s].state = "READY"
  /\ \A t, u \in Pid : pc[t] = "forking" /\ pc[u] = "forking"
                         /\ loc[t].want = loc[u].want => t = u

\* A thread that stores its status exits or dies of a signal; it never goes on
\* to the end of fork_thread_func.  (While no guest traps.)
RecordersExit ==
  \A t \in Pid : pc[t] = "record" => loc[t].next # "tail"

Owned ==
  TypeOK /\ PidsFresh /\ PidsUnique /\ ActingOwns /\ ReadyUnstarted /\ RecordersExit

----------------------------------------------------------------------------

\* The constants' assumption, in the form the proofs use.
LEMMA Constants ==
  /\ NSlots \in Nat /\ NSlots >= 1
  /\ MaxPid \in Nat /\ MaxPid >= 1
  /\ 1 \in Pid /\ 1 \in Slot /\ None \notin Pid
  /\ ExitCodes \subseteq Nat /\ KillSigs \subseteq Signals \cup {None}
BY ConstantsAssumption DEF Pid, Slot, None

\* What kill() stores is well typed whatever slot it is given.
LEMMA DeliverType ==
  ASSUME TypeOK, NEW s \in Slot, NEW g \in Signals \cup {None}, deliver_to_proc(s, g)
  PROVE  pend' \in [Pid -> SUBSET Signals] /\ killed' \subseteq Pid
<1>1. procs[s].ctx \in Pid \cup {None} BY DEF TypeOK, ProcType
<1>2. CASE Live(s) /\ g # None /\ procs[s].ctx # None
  <2> DEFINE c == procs[s].ctx
  <2>1. c \in Pid BY <1>1, <1>2
  <2>2. pend' = [pend EXCEPT ![c] = pend[c] \cup {g}] BY <1>2 DEF deliver_to_proc
  <2>3. killed' \subseteq killed \cup {c} BY <1>2 DEF deliver_to_proc
  <2> HIDE DEF c
  <2>4. pend[c] \cup {g} \subseteq Signals BY <2>1, <1>2 DEF TypeOK
  <2>5. pend' \in [Pid -> SUBSET Signals] BY <2>1, <2>2, <2>4 DEF TypeOK
  <2> QED BY <2>1, <2>3, <2>5 DEF TypeOK
<1>3. CASE ~(Live(s) /\ g # None /\ procs[s].ctx # None)
  BY <1>3 DEF TypeOK, deliver_to_proc
<1> QED BY <1>2, <1>3

\* Any step of a thread from one program counter to another keeps pc's type.
LEMMA GotoType ==
  ASSUME TypeOK, NEW t \in Pid, NEW l \in PCs, Goto(t, l) \/ BroadcastAndGoto(t, l)
  PROVE  pc' \in [Pid -> PCs]
BY DEF TypeOK, Goto, BroadcastAndGoto, PCs

\* waitpid stores a number as the status word.
LEMMA StatusWordNat ==
  ASSUME NEW c \in Nat, NEW g \in Signals \cup {None}
  PROVE  StatusWord(c, g) \in Nat
<1>1. c % 256 \in 0..255 OBVIOUS
<1>2. g \in {0, 1, 9, 20} BY DEF Signals, None, SIGHUP, SIGKILL, SIGCHLD
<1>3. g % 128 \in Nat BY <1>2
<1> QED BY <1>1, <1>3 DEF StatusWord

\* Thread t's slot, or any other, is rewritten to the struct r.
Rewrites(s, r) ==
  /\ procs' \in [Slot -> ProcType]
  /\ procs'[s] = r
  /\ \A q \in Slot \ {s} : procs'[q] = procs[q]

\* Storing a well-typed struct yos_proc in a slot.
LEMMA StoreSlot ==
  ASSUME procs \in [Slot -> ProcType], NEW s \in Slot, NEW r \in ProcType,
         procs' = [procs EXCEPT ![s] = r]
  PROVE  Rewrites(s, r)
BY DEF Rewrites

\* A call starts with well-typed locals.
LEMMA NoLocalsType == NoLocals \in LocalType
BY Constants DEF NoLocals, LocalType, None

\* Reading the ids keeps the type of the locals.
LEMMA IdsType ==
  ASSUME NEW l \in LocalType, NEW m \in Pid \cup {None}, NEW q \in Pid \cup {None}
  PROVE  [l EXCEPT !.me = m, !.par = q] \in LocalType
BY DEF LocalType

\* So does picking the next orphan to signal.
LEMMA HupTargetType ==
  ASSUME NEW l \in LocalType, NEW H \in SUBSET (Pid \cup {None}), NEW s \in Slot
  PROVE  [l EXCEPT !.hups = H, !.tgt = s] \in LocalType
BY DEF LocalType

\* A thread that gets well-typed locals leaves everybody's well typed.
LEMMA StoreLocals ==
  ASSUME loc \in [Pid -> LocalType], NEW t \in Pid, NEW l \in LocalType,
         loc' = [loc EXCEPT ![t] = l]
  PROVE  loc' \in [Pid -> LocalType]
OBVIOUS

\* Reaping keeps the types of what it writes.
LEMMA ReapType ==
  ASSUME TypeOK, NEW s \in Slot, Reap(s)
  PROVE  /\ procs' \in [Slot -> ProcType] /\ reports' \in [Pid -> Seq(Nat)]
         /\ torn' \in BOOLEAN
         /\ Rewrites(s, [procs[s] EXCEPT !.state = "FREE"])
<1>0. torn' \in BOOLEAN BY DEF Reap
<1>1. StatusWord(procs[s].code, procs[s].tsig) \in Nat
  BY StatusWordNat DEF TypeOK, ProcType
<1>2. procs[s] \in ProcType /\ procs \in [Slot -> ProcType] BY DEF TypeOK
<1>3. [procs[s] EXCEPT !.state = "FREE"] \in ProcType BY <1>2 DEF ProcType
<1>4. Rewrites(s, [procs[s] EXCEPT !.state = "FREE"])
  BY <1>2, <1>3, StoreSlot DEF Reap
<1> DEFINE p == procs[s].pid
           w == StatusWord(procs[s].code, procs[s].tsig)
<1>5. reports' = [reports EXCEPT ![p] = Append(reports[p], w)] BY DEF Reap
<1> HIDE DEF p, w
<1>6. CASE p \in Pid
  <2>1. Append(reports[p], w) \in Seq(Nat) BY <1>1, <1>6 DEF TypeOK, w
  <2> QED BY <1>0, <1>4, <1>5, <2>1 DEF TypeOK, Rewrites
<1>7. CASE p \notin Pid BY <1>0, <1>4, <1>5, <1>7 DEF TypeOK, Rewrites
<1> QED BY <1>6, <1>7

\* Making the thread's slot a zombie keeps the types of what it writes.
LEMMA MarkType ==
  ASSUME TypeOK, NEW t \in Pid, NEW c \in Nat, NEW g \in Signals \cup {None},
         NEW n \in {"ids", "tail", "gone"}, MarkZombie(t, c, g, n)
  PROVE  /\ Rewrites(proc[t], [procs[proc[t]] EXCEPT !.state = "ZOMBIE"])
         /\ [procs[proc[t]] EXCEPT !.state = "ZOMBIE"] \in ProcType
         /\ loc' \in [Pid -> LocalType] /\ pc' \in [Pid -> PCs]
<1>1. /\ procs \in [Slot -> ProcType] /\ proc[t] \in Slot
      /\ procs[proc[t]] \in ProcType /\ loc \in [Pid -> LocalType]
  BY DEF TypeOK
<1>2. [procs[proc[t]] EXCEPT !.state = "ZOMBIE"] \in ProcType BY <1>1 DEF ProcType
<1>3. Rewrites(proc[t], [procs[proc[t]] EXCEPT !.state = "ZOMBIE"])
  BY <1>1, <1>2, StoreSlot DEF MarkZombie
<1>4. [NoLocals EXCEPT !.code = c, !.sig = g, !.next = n] \in LocalType
  BY NoLocalsType DEF LocalType
<1>5. loc' \in [Pid -> LocalType] BY <1>1, <1>4, StoreLocals DEF MarkZombie
<1>6. "record" \in PCs BY DEF PCs
<1>7. pc' \in [Pid -> PCs] BY <1>6, GotoType DEF MarkZombie
<1> QED BY <1>2, <1>3, <1>5, <1>7

\* What storing the status writes into the slot.
RecordedIn(r, c, g) ==
  [r EXCEPT !.code = c, !.tsig = IF g = None THEN r.tsig ELSE g]

\* Only the exit code and the signal of the thread's slot change.
LEMMA RecordType ==
  ASSUME TypeOK, NEW t \in Pid, RecordStatus(t)
  PROVE  LET q == procs[proc[t]]
             r == procs'[proc[t]]
         IN  /\ procs' \in [Slot -> ProcType]
             /\ r.pid = q.pid /\ r.state = q.state /\ r.code = loc[t].code
             /\ r.tsig = IF loc[t].sig = None THEN q.tsig ELSE loc[t].sig
             /\ \A s \in Slot \ {proc[t]} : procs'[s] = procs[s]
<1> DEFINE q == procs[proc[t]]
           c == loc[t].code
           g == loc[t].sig
           r == RecordedIn(q, c, g)
<1>1. /\ procs \in [Slot -> ProcType] /\ proc[t] \in Slot /\ q \in ProcType
      /\ loc[t] \in LocalType
  BY DEF TypeOK
<1>2. c \in Nat /\ g \in Signals \cup {None} BY <1>1 DEF LocalType
<1>3. procs' = [procs EXCEPT ![proc[t]] = r] BY <1>1 DEF RecordStatus, RecordedIn
<1> HIDE DEF c, g
<1>4. /\ r \in ProcType /\ r.pid = q.pid /\ r.state = q.state /\ r.code = c
      /\ r.tsig = IF g = None THEN q.tsig ELSE g
  BY <1>1, <1>2 DEF ProcType, RecordedIn
<1> HIDE DEF r
<1>5. Rewrites(proc[t], r) BY <1>1, <1>3, <1>4, StoreSlot
<1> QED BY <1>4, <1>5 DEF Rewrites, c, g

\* TypeOK holds initially.
LEMMA TypeInit == Init => TypeOK
<1> SUFFICES ASSUME Init PROVE TypeOK OBVIOUS
<1> USE Constants
<1>1. FreeProc \in ProcType BY DEF FreeProc, ProcType, None
<1>2. procs \in [Slot -> ProcType] BY <1>1 DEF Init, FreeProc, ProcType
<1>3. loc \in [Pid -> LocalType] BY DEF Init, NoLocals, LocalType, None
<1>4. pc \in [Pid -> PCs] BY DEF Init, PCs, Guest
<1>5. reports \in [Pid -> Seq(Nat)] BY DEF Init
<1>6. fate \in [Pid -> {"alive", "exited", "signaled"} \X Nat] BY DEF Init, Alive
<1>7. nextPid \in 2..MaxPid + 1 BY DEF Init
<1>8. proc \in [Pid -> Slot] /\ pend \in [Pid -> SUBSET Signals]
      /\ chldIgn \in [Pid -> BOOLEAN] /\ killed \subseteq Pid
      /\ announced \subseteq Pid \cup {None} /\ torn \in BOOLEAN
  BY DEF Init
<1> QED BY <1>2, <1>3, <1>4, <1>5, <1>6, <1>7, <1>8 DEF TypeOK

\* A reparented process record keeps the fields' types.
LEMMA ReparentedRecord ==
  ASSUME NEW r \in ProcType
  PROVE  [r EXCEPT !.ppid = 1, !.orphaned = TRUE] \in ProcType
<1>1. 1 \in Pid \cup {None} BY Constants
<1>2. [r EXCEPT !.ppid = 1] \in ProcType BY <1>1 DEF ProcType
<1> DEFINE q == [r EXCEPT !.ppid = 1]
<1>3. [q EXCEPT !.orphaned = TRUE] \in ProcType
  <2>1. q \in ProcType BY <1>2
  <2> HIDE DEF q
  <2> QED BY <2>1 DEF ProcType
<1>4. [r EXCEPT !.ppid = 1, !.orphaned = TRUE] = [q EXCEPT !.orphaned = TRUE] OBVIOUS
<1> QED BY <1>3, <1>4

\* So does the record of a thread that ends without a status.
LEMMA EndedRecord ==
  ASSUME NEW r \in ProcType
  PROVE  [r EXCEPT !.state = "ZOMBIE", !.code = 0] \in ProcType
<1> DEFINE q == [r EXCEPT !.state = "ZOMBIE"]
<1>1. q \in ProcType BY DEF ProcType
<1>2. [q EXCEPT !.code = 0] \in ProcType
  <2> HIDE DEF q
  <2> QED BY <1>1 DEF ProcType
<1>3. [r EXCEPT !.state = "ZOMBIE", !.code = 0] = [q EXCEPT !.code = 0] OBVIOUS
<1> QED BY <1>2, <1>3

\* The locked section of post_exit_cleanup: no slot but the thread's own changes
\* its state, that one only from ZOMBIE to FREE, and no slot changes its pid.
LEMMA CleanType ==
  ASSUME procs \in [Slot -> ProcType], NEW t \in Pid, proc[t] \in Slot, CleanTable(t)
  PROVE  /\ procs' \in [Slot -> ProcType]
         /\ \A s \in Slot :
              /\ procs'[s].pid = procs[s].pid
              /\ procs'[s].code = procs[s].code /\ procs'[s].tsig = procs[s].tsig
              /\ \/ procs'[s].state = procs[s].state
                 \/ procs[s].state = "ZOMBIE" /\ procs'[s].state = "FREE" /\ s = proc[t]
<1> DEFINE R == Reparented(loc[t].me)
<1>1. \A s \in Slot : procs[s] \in ProcType OBVIOUS
<1>2. \A s \in Slot : [procs[s] EXCEPT !.ppid = 1, !.orphaned = TRUE] \in ProcType
  BY <1>1, ReparentedRecord
<1>3. R \in [Slot -> ProcType] BY <1>2 DEF Reparented
<1>4. \A s \in Slot : /\ R[s].pid = procs[s].pid /\ R[s].state = procs[s].state
                      /\ R[s].code = procs[s].code /\ R[s].tsig = procs[s].tsig
  <2>1. \A s \in Slot :
          LET r == [procs[s] EXCEPT !.ppid = 1, !.orphaned = TRUE]
          IN  /\ r.pid = procs[s].pid /\ r.state = procs[s].state
              /\ r.code = procs[s].code /\ r.tsig = procs[s].tsig
    BY DEF ProcType
  <2> QED BY <2>1 DEF Reparented
<1>5. procs' = R \/ procs' = AutoReaped(R, proc[t]) BY DEF CleanTable
<1> HIDE DEF R
<1>6. CASE procs' = R BY <1>3, <1>4, <1>6
<1>7. CASE procs' = AutoReaped(R, proc[t])
  <2> DEFINE r == R[proc[t]]
             z == r.state = "ZOMBIE"
             n == [r EXCEPT !.state = IF z THEN "FREE" ELSE r.state,
                            !.ctx = IF z THEN None ELSE r.ctx]
  <2>1. r \in ProcType BY <1>3
  <2>2. procs' = [R EXCEPT ![proc[t]] = n] BY <1>3, <1>7 DEF AutoReaped
  <2>3. /\ n \in ProcType /\ n.pid = r.pid /\ n.code = r.code /\ n.tsig = r.tsig
        /\ n.state = (IF z THEN "FREE" ELSE r.state)
    BY <2>1 DEF ProcType
  <2> HIDE DEF n
  <2> QED BY <1>3, <1>4, <2>2, <2>3
<1> QED BY <1>5, <1>6, <1>7

\* Every step keeps the state well typed.
LEMMA TypeStep == TypeOK /\ [Next]_vars => TypeOK'
<1> SUFFICES ASSUME TypeOK, [Next]_vars PROVE TypeOK' OBVIOUS
<1> USE Constants
<1> DEFINE Fates == {"alive", "exited", "signaled"} \X Nat
<1>0. /\ procs \in [Slot -> ProcType] /\ pc \in [Pid -> PCs]
      /\ loc \in [Pid -> LocalType] /\ proc \in [Pid -> Slot]
      /\ fate \in [Pid -> Fates] /\ NoLocals \in LocalType
      /\ pend \in [Pid -> SUBSET Signals] /\ chldIgn \in [Pid -> BOOLEAN]
  BY NoLocalsType DEF TypeOK
<1>1. \A t \in Pid : /\ procs[proc[t]] \in ProcType /\ proc[t] \in Slot
                     /\ loc[t] \in LocalType
                     /\ procs[proc[t]].pid \in Pid \cup {None}
                     /\ procs[proc[t]].ppid \in Pid \cup {None}
                     /\ procs[proc[t]].orphaned \in BOOLEAN
  BY <1>0 DEF ProcType
<1>2. \A c \in Nat : Exited(c) \in Fates BY DEF Exited
<1>3. ASSUME NEW t \in Pid, yos_fork(t) PROVE TypeOK'
  <2>1. PICK s \in Slot :
          /\ procs' = [procs EXCEPT ![s] = [FreeProc EXCEPT !.state = "READY",
                          !.pid = nextPid, !.ppid = procs[proc[t]].pid]]
          /\ nextPid' = nextPid + 1
    BY <1>3 DEF yos_fork, yos_proc_alloc
  <2>2. nextPid \in Pid /\ nextPid' \in 2..MaxPid + 1
    BY <1>3, <2>1 DEF yos_fork, TypeOK, Pid
  <2>3. [FreeProc EXCEPT !.state = "READY", !.pid = nextPid, !.ppid = procs[proc[t]].pid]
          \in ProcType
    BY <1>1, <2>2 DEF FreeProc, ProcType, None
  <2>4. procs' \in [Slot -> ProcType] BY <1>0, <2>1, <2>3, StoreSlot DEF Rewrites
  <2>5. loc' \in [Pid -> LocalType]
    <3>1. [loc[t] EXCEPT !.want = nextPid] \in LocalType BY <1>1, <2>2 DEF LocalType
    <3>2. loc' = [loc EXCEPT ![t] = [loc[t] EXCEPT !.want = nextPid]]
      BY <1>0, <1>3 DEF yos_fork
    <3> QED BY <1>0, <3>1, <3>2, StoreLocals
  <2>6. pc' \in [Pid -> PCs]
    <3>1. "forking" \in PCs BY DEF PCs, Guest
    <3> QED BY <1>3, <3>1, GotoType DEF yos_fork
  <2> QED BY <1>3, <2>2, <2>4, <2>5, <2>6 DEF yos_fork, TypeOK, ctxVars, histVars
<1>4. ASSUME NEW t \in Pid, yos_fork_pump(t) PROVE TypeOK'
  <2> DEFINE c == loc[t].want
  <2>1. PICK s \in yos_proc_find(c) :
          \/ /\ procs' = [procs EXCEPT ![s].state = "RUNNING"]
             /\ pc' = [pc EXCEPT ![t] = "run", ![c] = "new"]
             /\ proc' = [proc EXCEPT ![c] = s]
             /\ loc' = [loc EXCEPT ![t] = NoLocals,
                          ![c] = [NoLocals EXCEPT !.argPend = pend[t],
                                                  !.argIgn = chldIgn[t]]]
             /\ UNCHANGED fate
          \/ /\ procs' = [procs EXCEPT ![s].state = "FREE"]
             /\ FallOff(t)
             /\ fate' = [fate EXCEPT ![t] = Exited(0)]
             /\ loc' = [loc EXCEPT ![t] = NoLocals]
             /\ UNCHANGED proc
    BY <1>4 DEF yos_fork_pump
  <2> HIDE DEF c
  <2>2. s \in Slot /\ procs[s] \in ProcType BY <1>0, <2>1 DEF yos_proc_find
  <2>3. UNCHANGED <<nextPid, pend, chldIgn, reports, killed, announced, torn>>
    BY <1>4 DEF yos_fork_pump
  <2>4. procs' \in [Slot -> ProcType]
    <3>1. /\ [procs[s] EXCEPT !.state = "RUNNING"] \in ProcType
          /\ [procs[s] EXCEPT !.state = "FREE"] \in ProcType
      BY <2>2 DEF ProcType
    <3> QED BY <1>0, <2>1, <2>2, <3>1, StoreSlot DEF Rewrites
  <2>5. pc' \in [Pid -> PCs]
    <3>1. {"run", "new", "check", "tail"} \subseteq PCs BY DEF PCs, Guest, Starting
    <3>2. CASE FallOff(t) BY <3>1, <3>2, <1>0 DEF FallOff, Goto
    <3>3. CASE pc' = [pc EXCEPT ![t] = "run", ![c] = "new"] BY <3>1, <3>3, <1>0
    <3> QED BY <2>1, <3>2, <3>3
  <2>6. loc' \in [Pid -> LocalType]
    <3> DEFINE arg == [NoLocals EXCEPT !.argPend = pend[t], !.argIgn = chldIgn[t]]
    <3>1. arg \in LocalType BY <1>0 DEF LocalType
    <3>2. loc' = [loc EXCEPT ![t] = NoLocals, ![c] = arg] \/ loc' = [loc EXCEPT ![t] = NoLocals]
      BY <2>1
    <3> HIDE DEF arg
    <3> QED BY <1>0, <3>1, <3>2
  <2>7. proc' \in [Pid -> Slot] BY <1>0, <2>1, <2>2
  <2>8. fate' \in [Pid -> Fates] BY <1>0, <1>2, <2>1
  <2> QED BY <2>3, <2>4, <2>5, <2>6, <2>7, <2>8 DEF TypeOK
<1>5. ASSUME NEW t \in Pid, fork_thread_func(t) PROVE TypeOK'
  <2>1. UNCHANGED <<nextPid, histVars>> BY <1>5 DEF fork_thread_func
  <2>2. \A l \in {"inherit", "run", "freed"} : l \in PCs
    BY DEF PCs, Starting, Guest, Ended
  <2>3. CASE pc[t] = "new" /\ procs' = [procs EXCEPT ![proc[t]].ctx = t]
               /\ Goto(t, "inherit") /\ UNCHANGED <<ctxVars, loc>>
    <3>1. [procs[proc[t]] EXCEPT !.ctx = t] \in ProcType BY <1>1 DEF ProcType
    <3>2. procs' \in [Slot -> ProcType]
      BY <1>0, <1>1, <2>3, <3>1, StoreSlot DEF Rewrites
    <3>3. pc' \in [Pid -> PCs] BY <2>2, <2>3, GotoType
    <3> QED BY <2>1, <2>3, <3>2, <3>3 DEF TypeOK, ctxVars, histVars
  <2>4. CASE /\ pc[t] = "inherit"
             /\ pend' = [pend EXCEPT ![t] = loc[t].argPend]
             /\ chldIgn' = [chldIgn EXCEPT ![t] = loc[t].argIgn]
             /\ loc' = [loc EXCEPT ![t] = NoLocals]
             /\ Goto(t, "run")
             /\ UNCHANGED <<procs, proc>>
    <3>1. loc[t].argPend \in SUBSET Signals /\ loc[t].argIgn \in BOOLEAN
      BY <1>1 DEF LocalType
    <3>2. pc' \in [Pid -> PCs] BY <2>2, <2>4, GotoType
    <3>3. loc' \in [Pid -> LocalType] BY <1>0, <2>4, StoreLocals
    <3>4. pend' \in [Pid -> SUBSET Signals] /\ chldIgn' \in [Pid -> BOOLEAN]
      BY <1>0, <2>4, <3>1
    <3> QED BY <2>1, <2>4, <3>2, <3>3, <3>4 DEF TypeOK, ctxVars, histVars
  <2>5. CASE /\ loc' = [loc EXCEPT ![t] = NoLocals]
             /\ Goto(t, "freed")
             /\ UNCHANGED <<procs, ctxVars>>
    <3>1. pc' \in [Pid -> PCs] BY <2>2, <2>5, GotoType
    <3>2. loc' \in [Pid -> LocalType] BY <1>0, <2>5, StoreLocals
    <3> QED BY <2>1, <2>5, <3>1, <3>2 DEF TypeOK, ctxVars, histVars
  <2> QED BY <1>5, <2>3, <2>4, <2>5 DEF fork_thread_func
<1>6. ASSUME NEW t \in Pid, NEW c \in ExitCodes, yos_exit(t, c) PROVE TypeOK'
  <2>1. c \in Nat /\ "ids" \in PCs BY DEF PCs, Cleaning
  <2>2. fate' \in [Pid -> Fates] BY <1>0, <1>2, <1>6, <2>1 DEF yos_exit
  <2>3. CASE MarkZombie(t, c, None, "ids")
    <3>1. /\ procs' \in [Slot -> ProcType] /\ loc' \in [Pid -> LocalType]
          /\ pc' \in [Pid -> PCs]
      BY <2>1, <2>3, MarkType DEF Rewrites
    <3> QED BY <1>6, <2>2, <3>1 DEF yos_exit, TypeOK, ctxVars
  <2>4. CASE /\ loc' = [loc EXCEPT ![t] = [NoLocals EXCEPT !.notify = TRUE]]
             /\ Goto(t, "ids")
             /\ UNCHANGED procs
    <3>1. [NoLocals EXCEPT !.notify = TRUE] \in LocalType BY <1>0 DEF LocalType
    <3>2. loc' \in [Pid -> LocalType] BY <1>0, <2>4, <3>1, StoreLocals
    <3>3. pc' \in [Pid -> PCs] BY <2>1, <2>4, GotoType
    <3> QED BY <1>6, <2>2, <2>4, <3>2, <3>3 DEF yos_exit, TypeOK, ctxVars
  <2> QED BY <1>6, <2>3, <2>4 DEF yos_exit
<1>7. ASSUME NEW t \in Pid, RecordStatus(t) PROVE TypeOK'
  <2>1. procs' \in [Slot -> ProcType] BY <1>7, RecordType
  <2>2. [NoLocals EXCEPT !.notify = (loc[t].sig = None)] \in LocalType
    BY <1>0 DEF LocalType
  <2>3. loc' \in [Pid -> LocalType] BY <1>0, <1>7, <2>2, StoreLocals DEF RecordStatus
  <2>4. AfterRecord(t) \in PCs
    <3>1. {"ids", "tail", "down", "gone"} \subseteq PCs BY DEF PCs, Cleaning, Ended
    <3>2. loc[t].next \in {"ids", "tail", "gone"} BY <1>1 DEF LocalType
    <3> QED BY <3>1, <3>2 DEF AfterRecord
  <2>5. pc' \in [Pid -> PCs] BY <1>7, <2>4, GotoType DEF RecordStatus
  <2> QED BY <1>7, <2>1, <2>3, <2>5 DEF RecordStatus, TypeOK, ctxVars, histVars
<1>8. ASSUME NEW t \in Pid, FallOff(t) PROVE pc' \in [Pid -> PCs]
  <2>1. {"check", "tail"} \subseteq PCs BY DEF PCs
  <2> QED BY <1>8, <2>1, GotoType DEF FallOff
<1>9. ASSUME NEW t \in Pid, Trap(t) PROVE TypeOK'
  <2>1. fate' \in [Pid -> Fates] BY <1>0, <1>2, <1>9 DEF Trap
  <2>2. CASE MarkZombie(t, 139, None, "tail")
    <3>1. /\ procs' \in [Slot -> ProcType] /\ loc' \in [Pid -> LocalType]
          /\ pc' \in [Pid -> PCs]
      BY <2>2, MarkType DEF Rewrites
    <3> QED BY <1>9, <2>1, <3>1 DEF Trap, TypeOK, ctxVars
  <2>3. CASE FallOff(t) /\ UNCHANGED <<procs, loc>>
    BY <1>8, <1>9, <2>1, <2>3 DEF Trap, TypeOK, ctxVars
  <2> QED BY <1>9, <2>2, <2>3 DEF Trap
<1>10. ASSUME NEW t \in Pid, ExecLoadFails(t) PROVE TypeOK'
  <2>1. fate' \in [Pid -> Fates] BY <1>0, <1>2, <1>10 DEF ExecLoadFails
  <2>2. pend' \in [Pid -> SUBSET Signals] BY <1>0, <1>10 DEF ExecLoadFails
  <2>3. CASE MarkZombie(t, 127, None, "tail")
    <3>1. /\ procs' \in [Slot -> ProcType] /\ loc' \in [Pid -> LocalType]
          /\ pc' \in [Pid -> PCs]
      BY <2>3, MarkType DEF Rewrites
    <3> QED BY <1>10, <2>1, <2>2, <3>1 DEF ExecLoadFails, TypeOK
  <2>4. CASE Goto(t, "down") /\ UNCHANGED <<procs, loc>>
    <3>1. "down" \in PCs BY DEF PCs
    <3>2. pc' \in [Pid -> PCs] BY <2>4, <3>1, GotoType
    <3> QED BY <1>10, <2>1, <2>2, <2>4, <3>2 DEF ExecLoadFails, TypeOK
  <2> QED BY <1>10, <2>3, <2>4 DEF ExecLoadFails
<1>11. ASSUME NEW t \in Pid, Return(t) PROVE TypeOK'
  <2>1. fate' \in [Pid -> Fates] BY <1>0, <1>2, <1>11 DEF Return
  <2> QED BY <1>8, <1>11, <2>1 DEF Return, TypeOK, ctxVars
<1>12. ASSUME NEW t \in Pid, ThreadEnds(t) PROVE TypeOK'
  <2>1. procs' \in [Slot -> ProcType]
    <3>1. [procs[proc[t]] EXCEPT !.state = "ZOMBIE", !.code = 0] \in ProcType
      BY <1>1, EndedRecord
    <3> QED BY <1>0, <1>1, <1>12, <3>1, StoreSlot DEF ThreadEnds, Rewrites
  <2>2. "freed" \in PCs BY DEF PCs, Ended
  <2>3. pc' \in [Pid -> PCs] BY <1>12, <2>2, GotoType DEF ThreadEnds
  <2> QED BY <1>12, <2>1, <2>3 DEF ThreadEnds, TypeOK, ctxVars, histVars
<1>13. ASSUME NEW t \in Pid, NEW g \in Signals, NEW n \in {"ids", "gone"}, MarkZombie(t, 0, g, n),
              fate' = [fate EXCEPT ![t] = Signaled(g)],
              pend' \in [Pid -> SUBSET Signals],
              UNCHANGED <<nextPid, proc, chldIgn, reports, killed, announced, torn>>
       PROVE  TypeOK'
  <2>1. /\ procs' \in [Slot -> ProcType] /\ loc' \in [Pid -> LocalType]
        /\ pc' \in [Pid -> PCs]
    BY <1>13, MarkType DEF Rewrites
  <2>2. g \in Nat BY DEF Signals, SIGHUP, SIGKILL, SIGCHLD
  <2>3. Signaled(g) \in Fates BY <2>2 DEF Signaled
  <2>4. fate' \in [Pid -> Fates] BY <1>0, <1>13, <2>3
  <2> QED BY <1>13, <2>1, <2>4 DEF TypeOK
<1>14. ASSUME NEW t \in Pid, yos_signal_pump(t) PROVE TypeOK'
  <2>1. UNCHANGED <<nextPid, proc, chldIgn, reports, killed, announced, torn>>
    BY <1>14 DEF yos_signal_pump
  <2>2. SIGKILL \in Signals BY DEF Signals
  <2>3. CASE /\ MarkZombie(t, 0, SIGKILL, "gone")
             /\ fate' = [fate EXCEPT ![t] = Signaled(SIGKILL)]
             /\ UNCHANGED pend
    BY <1>0, <1>13, <2>1, <2>2, <2>3
  <2>4. ASSUME NEW g \in pend[t], invoke_signal_handler(t, g) PROVE TypeOK'
    <3>1. g \in Signals BY <1>0, <2>4
    <3>2. pend' \in [Pid -> SUBSET Signals] BY <1>0, <2>4 DEF invoke_signal_handler
    <3>3. CASE UNCHANGED <<procs, fate, pc, loc>> BY <2>1, <3>2, <3>3 DEF TypeOK
    <3>4. CASE MarkZombie(t, 0, g, "ids") /\ fate' = [fate EXCEPT ![t] = Signaled(g)]
      BY <1>13, <2>1, <3>1, <3>2, <3>4
    <3> QED BY <2>4, <3>3, <3>4 DEF invoke_signal_handler
  <2>5. CASE Goto(t, "deliver") /\ UNCHANGED <<procs, loc, fate, pend>>
    <3>1. "deliver" \in PCs BY DEF PCs, Guest
    <3>2. pc' \in [Pid -> PCs] BY <2>5, <3>1, GotoType
    <3> QED BY <2>1, <2>5, <3>2 DEF TypeOK
  <2> QED BY <1>14, <2>3, <2>4, <2>5 DEF yos_signal_pump
<1>15. ASSUME NEW t \in Pid, PumpReturns(t) PROVE TypeOK'
  <2>1. "run" \in PCs BY DEF PCs, Guest
  <2>2. pc' \in [Pid -> PCs] BY <1>15, <2>1, GotoType DEF PumpReturns
  <2> QED BY <1>15, <2>2 DEF PumpReturns, TypeOK, ctxVars, histVars
<1>16. ASSUME NEW t \in Pid, yos_execve(t) PROVE TypeOK'
  <2>1. pend' \in [Pid -> SUBSET Signals] BY <1>0, <1>16 DEF yos_execve
  <2> QED BY <1>16, <2>1 DEF yos_execve, TypeOK, histVars
<1>17. ASSUME NEW t \in Pid, NEW b \in BOOLEAN, IgnoreSigchld(t, b) PROVE TypeOK'
  <2>1. chldIgn' \in [Pid -> BOOLEAN] BY <1>0, <1>17 DEF IgnoreSigchld
  <2> QED BY <1>17, <2>1 DEF IgnoreSigchld, TypeOK, histVars
<1>18. ASSUME NEW t \in Pid, NEW p \in Pid, NEW g \in KillSigs, yos_kill(t, p, g)
       PROVE  TypeOK'
  <2>1. PICK s \in Slot : loc' = [loc EXCEPT ![t] = [NoLocals EXCEPT !.tgt = s, !.sig = g]]
    BY <1>18 DEF yos_kill, yos_proc_find
  <2>2. [NoLocals EXCEPT !.tgt = s, !.sig = g] \in LocalType BY <1>0 DEF LocalType
  <2>3. loc' \in [Pid -> LocalType] BY <1>0, <2>1, <2>2, StoreLocals
  <2>4. "kill" \in PCs BY DEF PCs, Guest
  <2>5. pc' \in [Pid -> PCs] BY <1>18, <2>4, GotoType DEF yos_kill
  <2> QED BY <1>18, <2>3, <2>5 DEF yos_kill, TypeOK, ctxVars, histVars
<1>19. ASSUME NEW t \in Pid, KillDelivers(t) PROVE TypeOK'
  <2>1. loc[t].tgt \in Slot /\ loc[t].sig \in Signals \cup {None}
    BY <1>1 DEF LocalType
  <2>2. pend' \in [Pid -> SUBSET Signals] /\ killed' \subseteq Pid
    BY <1>19, <2>1, DeliverType DEF KillDelivers
  <2>3. loc' \in [Pid -> LocalType] BY <1>0, <1>19, StoreLocals DEF KillDelivers
  <2>4. {"pump", "run"} \subseteq PCs BY DEF PCs, Guest
  <2>5. pc' \in [Pid -> PCs] BY <1>19, <2>4, GotoType DEF KillDelivers
  <2> QED BY <1>19, <2>2, <2>3, <2>5 DEF KillDelivers, TypeOK
<1>20. ASSUME NEW t \in Pid, ReadIds(t) PROVE TypeOK'
  <2> DEFINE m == procs[proc[t]].pid
             q == procs[proc[t]].ppid
             l == [loc[t] EXCEPT !.me = m, !.par = q]
  <2>2. loc' = [loc EXCEPT ![t] = l] BY <1>20, <1>0 DEF ReadIds
  <2>0. m \in Pid \cup {None} /\ q \in Pid \cup {None} BY <1>1
  <2> HIDE DEF m, q
  <2>1. l \in LocalType BY <1>1, <2>0, IdsType
  <2> HIDE DEF l
  <2>3. loc' \in [Pid -> LocalType] BY <1>0, <2>1, <2>2, StoreLocals
  <2>4. "flag" \in PCs BY DEF PCs, Cleaning
  <2>5. pc' \in [Pid -> PCs] BY <1>20, <2>4, GotoType DEF ReadIds
  <2> QED BY <1>20, <2>3, <2>5 DEF ReadIds, TypeOK, ctxVars, histVars
<1>21. ASSUME NEW t \in Pid, ReadOrphaned(t) PROVE TypeOK'
  <2> DEFINE l == [loc[t] EXCEPT !.ign = procs[proc[t]].orphaned]
  <2>1. l \in LocalType BY <1>1 DEF LocalType
  <2>2. loc' = [loc EXCEPT ![t] = l] BY <1>21, <1>0 DEF ReadOrphaned
  <2> HIDE DEF l
  <2>3. loc' \in [Pid -> LocalType] BY <1>0, <2>1, <2>2, StoreLocals
  <2>4. "table" \in PCs BY DEF PCs, Cleaning
  <2>5. pc' \in [Pid -> PCs] BY <1>21, <2>4, GotoType DEF ReadOrphaned
  <2> QED BY <1>21, <2>3, <2>5 DEF ReadOrphaned, TypeOK, ctxVars, histVars
<1>22. ASSUME NEW t \in Pid, CleanTable(t) PROVE TypeOK'
  <2>1. procs' \in [Slot -> ProcType] BY <1>0, <1>1, <1>22, CleanType
  <2> DEFINE P == {procs[s].pid : s \in Orphans(loc[t].me)}
             l == [loc[t] EXCEPT !.hups = P]
  <2>2. P \in SUBSET (Pid \cup {None}) BY <1>0 DEF Orphans, ProcType
  <2>3. loc' = [loc EXCEPT ![t] = l] BY <1>22, <1>0 DEF CleanTable
  <2> HIDE DEF P
  <2>4. l \in LocalType BY <1>1, <2>2 DEF LocalType
  <2> HIDE DEF l
  <2>5. loc' \in [Pid -> LocalType] BY <1>0, <2>3, <2>4, StoreLocals
  <2>6. "hup" \in PCs BY DEF PCs, Cleaning
  <2>7. pc' \in [Pid -> PCs] BY <1>22, <2>6, GotoType DEF CleanTable
  <2>8. torn' \in BOOLEAN BY <1>22 DEF CleanTable
  <2> QED BY <1>22, <2>1, <2>5, <2>7, <2>8 DEF CleanTable, TypeOK, ctxVars
<1>23. ASSUME NEW t \in Pid, HupFinds(t) PROVE TypeOK'
  <2>1. UNCHANGED <<procs, nextPid, ctxVars, histVars>> BY <1>23 DEF HupFinds
  <2>2. {"huptgt", "pty", "leave"} \subseteq PCs BY DEF PCs, Cleaning
  <2>3. \A p : loc[t].hups \ {p} \in SUBSET (Pid \cup {None}) BY <1>1 DEF LocalType
  <2>4. ASSUME NEW p \in loc[t].hups, UNCHANGED pc,
               loc' = [loc EXCEPT ![t].hups = loc[t].hups \ {p}]
        PROVE  TypeOK'
    <3>1. [loc[t] EXCEPT !.hups = loc[t].hups \ {p}] \in LocalType
      BY <1>1, <2>3 DEF LocalType
    <3>2. loc' \in [Pid -> LocalType] BY <1>0, <2>4, <3>1, StoreLocals
    <3> QED BY <2>1, <2>4, <3>2 DEF TypeOK, ctxVars, histVars
  <2>5. ASSUME NEW p \in loc[t].hups, NEW s \in Slot, Goto(t, "huptgt"),
               loc' = [loc EXCEPT ![t].hups = loc[t].hups \ {p}, ![t].tgt = s]
        PROVE  TypeOK'
    <3> DEFINE H == loc[t].hups \ {p}
               l == [loc[t] EXCEPT !.hups = H, !.tgt = s]
    <3>2. loc' = [loc EXCEPT ![t] = l] BY <1>0, <2>5
    <3>0. H \in SUBSET (Pid \cup {None}) BY <2>3
    <3> HIDE DEF H
    <3>1. l \in LocalType BY <1>1, <3>0, HupTargetType
    <3> HIDE DEF l
    <3>3. loc' \in [Pid -> LocalType] BY <1>0, <3>1, <3>2, StoreLocals
    <3>4. pc' \in [Pid -> PCs] BY <2>2, <2>5, GotoType
    <3> QED BY <2>1, <3>3, <3>4 DEF TypeOK, ctxVars, histVars
  <2>6. CASE Goto(t, IF t \in ForkptyPids THEN "pty" ELSE "leave") /\ UNCHANGED loc
    <3>1. pc' \in [Pid -> PCs] BY <2>2, <2>6, GotoType
    <3> QED BY <2>1, <2>6, <3>1 DEF TypeOK, ctxVars, histVars
  <2> QED BY <1>23, <2>4, <2>5, <2>6 DEF HupFinds, yos_proc_find
<1>24. ASSUME NEW t \in Pid, HupDelivers(t) \/ PtyDelivers(t) PROVE TypeOK'
  <2>1. loc[t].tgt \in Slot BY <1>1 DEF LocalType
  <2>2. SIGHUP \in Signals /\ SIGCHLD \in Signals /\ {"hup", "leave"} \subseteq PCs
    BY DEF Signals, PCs, Cleaning
  <2>3. pend' \in [Pid -> SUBSET Signals] /\ killed' \subseteq Pid
    BY <1>24, <2>1, <2>2, DeliverType DEF HupDelivers, PtyDelivers
  <2>4. pc' \in [Pid -> PCs] BY <1>24, <2>2, GotoType DEF HupDelivers, PtyDelivers
  <2> QED BY <1>24, <2>3, <2>4 DEF HupDelivers, PtyDelivers, TypeOK
<1>25. ASSUME NEW t \in Pid, PtyFinds(t) PROVE TypeOK'
  <2>1. UNCHANGED <<procs, nextPid, ctxVars, histVars>> BY <1>25 DEF PtyFinds
  <2>2. {"leave", "ptytgt"} \subseteq PCs BY DEF PCs, Cleaning
  <2>3. pc' \in [Pid -> PCs] BY <1>25, <2>2, GotoType DEF PtyFinds
  <2>4. ASSUME NEW s \in Slot, loc' = [loc EXCEPT ![t].tgt = s]
        PROVE  loc' \in [Pid -> LocalType]
    <3>1. [loc[t] EXCEPT !.tgt = s] \in LocalType BY <1>1 DEF LocalType
    <3> QED BY <1>0, <2>4, <3>1, StoreLocals
  <2>5. loc' \in [Pid -> LocalType] BY <1>0, <1>25, <2>4 DEF PtyFinds, yos_proc_find
  <2> QED BY <2>1, <2>3, <2>5 DEF TypeOK, ctxVars, histVars
<1>26. ASSUME NEW t \in Pid, Leave(t) PROVE TypeOK'
  <2>1. {"down", "notify", "gone"} \subseteq PCs BY DEF PCs, Cleaning, Ended
  <2>2. pc' \in [Pid -> PCs] BY <1>26, <2>1, GotoType DEF Leave
  <2>3. loc' \in [Pid -> LocalType] BY <1>0, <1>26, StoreLocals DEF Leave
  <2>4. announced' \subseteq Pid \cup {None} BY <1>1, <1>26 DEF Leave, TypeOK
  <2> QED BY <1>26, <2>2, <2>3, <2>4 DEF Leave, TypeOK, ctxVars
<1>27. ASSUME NEW t \in Pid, NEW w \in Pid \cup {None}, yos_waitpid(t, w) PROVE TypeOK'
  <2> DEFINE me == procs[proc[t]].pid
             l == [NoLocals EXCEPT !.me = me, !.want = w]
  <2>1. UNCHANGED <<nextPid, ctxVars, fate, killed, announced>>
    BY <1>27 DEF yos_waitpid
  <2>2. CASE (\E s \in find_zombie_child(me, w) : Reap(s)) /\ UNCHANGED <<pc, loc>>
    <3>1. PICK s \in Slot : Reap(s) BY <2>2 DEF find_zombie_child
    <3> QED BY <2>1, <2>2, <3>1, ReapType DEF TypeOK, ctxVars
  <2>3. CASE /\ loc' = [loc EXCEPT ![t] = l] /\ Goto(t, "wait")
             /\ UNCHANGED <<procs, reports, torn>>
    <3>1. l \in LocalType BY <1>0, <1>1 DEF LocalType
    <3> HIDE DEF l
    <3>2. loc' \in [Pid -> LocalType] BY <1>0, <2>3, <3>1, StoreLocals
    <3>3. "wait" \in PCs BY DEF PCs, Guest
    <3>4. pc' \in [Pid -> PCs] BY <2>3, <3>3, GotoType
    <3> QED BY <2>1, <2>3, <3>2, <3>4 DEF TypeOK, ctxVars
  <2> QED BY <1>27, <2>2, <2>3 DEF yos_waitpid
<1>28. ASSUME NEW t \in Pid, WaitPolls(t) PROVE TypeOK'
  <2>1. PICK s \in Slot : Reap(s) BY <1>28 DEF WaitPolls, find_zombie_child
  <2>2. "run" \in PCs BY DEF PCs, Guest
  <2>3. pc' \in [Pid -> PCs] BY <1>28, <2>2, GotoType DEF WaitPolls
  <2>4. loc' \in [Pid -> LocalType] BY <1>0, <1>28, StoreLocals DEF WaitPolls
  <2> QED BY <1>28, <2>1, <2>3, <2>4, ReapType DEF WaitPolls, TypeOK, ctxVars
<1>29. CASE ShutdownCheck
  <2>1. {"sleep", "down"} \subseteq PCs BY DEF PCs
  <2>2. pc' \in [Pid -> PCs] BY <1>29, <2>1, GotoType DEF ShutdownCheck
  <2> QED BY <1>29, <2>2 DEF ShutdownCheck, TypeOK, ctxVars, histVars
<1>30. CASE UNCHANGED vars BY <1>30 DEF vars, ctxVars, histVars, TypeOK
<1> QED
  BY <1>3, <1>4, <1>5, <1>6, <1>7, <1>9, <1>10, <1>11, <1>12, <1>14, <1>15, <1>16, <1>17,
     <1>18, <1>19, <1>20, <1>21, <1>22, <1>23, <1>24, <1>25, <1>26, <1>27, <1>28,
     <1>29, <1>30
  DEF Next, HostStep, GuestStep

\* Every state the process table, its threads and their contexts can reach is
\* well typed.
THEOREM TypeCorrect == Spec => []TypeOK
BY TypeInit, TypeStep, PTL DEF Spec

----------------------------------------------------------------------------
(* Who owns a slot.  From here on no guest traps: what a trap does to a slot *)
(* it may no longer own is the subject of the run proc_trap.                 *)

\* Thread t moves and changes its own locals; a broadcast may wake pid 1.
Moves(t) ==
  /\ \A u \in Pid \ {t} : /\ loc'[u] = loc[u]
                          /\ pc'[u] = pc[u] \/ (pc[u] = "sleep" /\ pc'[u] = "check")
  /\ pc[t] # "none"
  /\ pc'[t] \notin {"none", "forking"}
  /\ pc'[t] = "record" => loc'[t].next # "tail"

\* No slot changes but from ZOMBIE to FREE.
KeepsSlots ==
  \A s \in Slot :
    /\ procs'[s].pid = procs[s].pid
    /\ \/ procs'[s].state = procs[s].state
       \/ procs[s].state = "ZOMBIE" /\ procs'[s].state = "FREE"

\* Every slot takes a step of the life cycle.
SlotSteps == \A s \in Slot : SlotStep(procs[s], procs'[s])

\* A step that keeps the slots, or frees zombies, keeps everybody's slot.
LEMMA KeepsOwned ==
  ASSUME Owned, TypeOK', NEW t \in Pid, Moves(t), KeepsSlots,
         UNCHANGED <<nextPid, proc>>, pc'[t] \in Acting => pc[t] \in Acting
  PROVE  Owned' /\ SlotSteps
<1>1. SlotSteps BY DEF SlotSteps, KeepsSlots, SlotStep
<1>2. PidsFresh' BY DEF Owned, PidsFresh, KeepsSlots, Moves
<1>3. PidsUnique' BY DEF Owned, PidsUnique, KeepsSlots
<1>4. \A u \in Pid : pc'[u] \in Acting => pc[u] \in Acting
  BY DEF Moves, Acting, Starting, Guest
<1>5. ActingOwns'
  <2> SUFFICES ASSUME NEW u \in Pid, pc'[u] \in Acting
               PROVE  procs'[proc[u]].pid = u /\ procs'[proc[u]].state = "RUNNING"
    BY DEF ActingOwns
  <2>1. procs[proc[u]].pid = u /\ procs[proc[u]].state = "RUNNING" /\ proc[u] \in Slot
    BY <1>4 DEF Owned, ActingOwns, TypeOK
  <2> QED BY <2>1 DEF KeepsSlots
<1>6. ReadyUnstarted'
  <2>1. \A u \in Pid : pc[u] = "none" <=> pc'[u] = "none" BY DEF Moves
  <2>2. \A u \in Pid : pc'[u] = "forking" => pc[u] = "forking" /\ loc'[u] = loc[u]
    BY DEF Moves
  <2>3. \A s \in Slot : procs'[s].state = "READY" <=> procs[s].state = "READY"
    BY DEF KeepsSlots
  <2> QED BY <2>1, <2>2, <2>3 DEF Owned, ReadyUnstarted, KeepsSlots
<1>7. RecordersExit' BY DEF Owned, RecordersExit, Moves
<1> QED BY <1>1, <1>2, <1>3, <1>5, <1>6, <1>7 DEF Owned

\* A thread that marks its slot a zombie stops acting.
LEMMA EndsOwned ==
  ASSUME Owned, TypeOK', NEW t \in Pid, Moves(t), UNCHANGED <<nextPid, proc>>,
         pc[t] \in Acting, pc'[t] \notin Acting,
         NEW r \in ProcType, Rewrites(proc[t], r),
         r.pid = procs[proc[t]].pid, r.state = "ZOMBIE"
  PROVE  Owned' /\ SlotSteps
<1>0. proc[t] \in Slot /\ procs[proc[t]].pid = t /\ procs[proc[t]].state = "RUNNING"
  BY DEF Owned, TypeOK, ActingOwns
<1>1. \A s \in Slot : procs'[s].pid = procs[s].pid BY <1>0 DEF Rewrites
<1>2. SlotSteps
  <2>1. SlotStep(procs[proc[t]], procs'[proc[t]]) BY <1>0, <1>1 DEF SlotStep, Rewrites
  <2>2. \A s \in Slot \ {proc[t]} : SlotStep(procs[s], procs'[s]) BY DEF SlotStep, Rewrites
  <2> QED BY <2>1, <2>2 DEF SlotSteps
<1>3. PidsFresh' BY <1>1 DEF Owned, PidsFresh, Moves
<1>4. PidsUnique' BY <1>1 DEF Owned, PidsUnique
<1>5. ActingOwns'
  <2> SUFFICES ASSUME NEW u \in Pid, pc'[u] \in Acting
               PROVE  procs'[proc[u]].pid = u /\ procs'[proc[u]].state = "RUNNING"
    BY DEF ActingOwns
  <2>1. u # t /\ pc[u] \in Acting BY DEF Moves, Acting, Starting, Guest
  <2>2. procs[proc[u]].pid = u /\ procs[proc[u]].state = "RUNNING" /\ proc[u] \in Slot
    BY <2>1 DEF Owned, ActingOwns, TypeOK
  <2> QED BY <1>0, <2>1, <2>2 DEF Rewrites
<1>6. ReadyUnstarted'
  <2>1. \A u \in Pid : pc[u] = "none" <=> pc'[u] = "none" BY DEF Moves
  <2>2. \A u \in Pid : pc'[u] = "forking" => pc[u] = "forking" /\ loc'[u] = loc[u]
    BY DEF Moves
  <2>3. \A s \in Slot : procs'[s].state = "READY" <=> procs[s].state = "READY"
    BY <1>0 DEF Rewrites
  <2> QED BY <1>1, <2>1, <2>2, <2>3 DEF Owned, ReadyUnstarted
<1>7. RecordersExit' BY DEF Owned, RecordersExit, Moves
<1> QED BY <1>2, <1>3, <1>4, <1>5, <1>6, <1>7 DEF Owned

\* fork's first entry gives its caller a READY slot with a new pid.
LEMMA ForkOwned ==
  ASSUME Owned, TypeOK', NEW t \in Pid, yos_fork(t)
  PROVE  Owned' /\ SlotSteps
<1>0. /\ procs \in [Slot -> ProcType] /\ nextPid \in Nat /\ nextPid >= 2
      /\ pc \in [Pid -> PCs] /\ loc \in [Pid -> LocalType] /\ pc[t] = "run"
      /\ proc \in [Pid -> Slot]
  BY DEF Owned, TypeOK, yos_fork
<1>1. PICK s \in Slot :
        /\ procs[s].state = "FREE"
        /\ procs' = [procs EXCEPT ![s] = [FreeProc EXCEPT !.state = "READY",
                        !.pid = nextPid, !.ppid = procs[proc[t]].pid]]
        /\ nextPid' = nextPid + 1
  BY DEF yos_fork, yos_proc_alloc
<1>2. nextPid \in Pid BY <1>0, Constants DEF yos_fork, Pid
<1>3. procs'[s].state = "READY" /\ procs'[s].pid = nextPid
  BY <1>0, <1>1 DEF FreeProc
<1>4. \A r \in Slot \ {s} : procs'[r] = procs[r] BY <1>0, <1>1
<1>5. pc' = [pc EXCEPT ![t] = "forking"] /\ UNCHANGED proc
  BY DEF yos_fork, Goto, ctxVars
<1>6. /\ loc'[t].want = nextPid
      /\ \A u \in Pid \ {t} : loc'[u] = loc[u]
  <2>1. loc' = [loc EXCEPT ![t] = [loc[t] EXCEPT !.want = nextPid]]
    BY <1>0 DEF yos_fork
  <2>2. [loc[t] EXCEPT !.want = nextPid].want = nextPid BY <1>0 DEF LocalType
  <2> QED BY <1>0, <2>1, <2>2
<1>7. \A r \in Slot : procs[r].pid < nextPid BY DEF Owned, PidsFresh
<1>8. pc[nextPid] = "none" BY <1>0, <1>2 DEF Owned, PidsFresh
<1>9. SlotSteps
  <2>1. SlotStep(procs[s], procs'[s]) BY <1>1, <1>3 DEF SlotStep
  <2>2. \A r \in Slot \ {s} : SlotStep(procs[r], procs'[r]) BY <1>4 DEF SlotStep
  <2> QED BY <2>1, <2>2 DEF SlotSteps
<1>10. PidsFresh'
  <2>1. \A r \in Slot : procs[r].pid \in Pid \cup {None} BY <1>0 DEF ProcType
  <2>2. \A r \in Slot : procs[r].pid \in Nat BY <2>1, Constants DEF Pid, None
  <2>3. \A r \in Slot : procs'[r].pid < nextPid'
    BY <1>0, <1>1, <1>3, <1>4, <1>7, <2>2
  <2>4. \A u \in Pid : pc'[u] # "none" => u < nextPid'
    BY <1>0, <1>1, <1>5 DEF Owned, PidsFresh, Pid
  <2> QED BY <2>3, <2>4 DEF PidsFresh
<1>11. PidsUnique'
  <2>1. \A r \in Slot \ {s} : procs'[r].pid # nextPid
    <3>1. \A r \in Slot : procs[r].pid # nextPid BY <1>0, <1>7 DEF ProcType, Pid, None
    <3> QED BY <1>4, <3>1
  <2> QED BY <1>3, <1>4, <2>1 DEF Owned, PidsUnique
<1>12. ActingOwns'
  <2> SUFFICES ASSUME NEW u \in Pid, pc'[u] \in Acting
               PROVE  procs'[proc[u]].pid = u /\ procs'[proc[u]].state = "RUNNING"
    BY <1>5 DEF ActingOwns
  <2>1. pc[u] \in Acting BY <1>0, <1>5 DEF Acting, Guest
  <2>2. procs[proc[u]].pid = u /\ procs[proc[u]].state = "RUNNING" /\ proc[u] \in Slot
    BY <1>0, <2>1 DEF Owned, ActingOwns
  <2> QED BY <1>1, <1>4, <2>2
<1>13. ReadyUnstarted'
  <2>1. \A r \in Slot : procs'[r].state = "READY" =>
          procs'[r].pid \in Pid /\ pc'[procs'[r].pid] = "none"
    <3> SUFFICES ASSUME NEW r \in Slot, procs'[r].state = "READY"
                 PROVE  procs'[r].pid \in Pid /\ pc'[procs'[r].pid] = "none"
      OBVIOUS
    <3>1. CASE r = s BY <1>0, <1>2, <1>3, <1>5, <1>8, <3>1
    <3>2. CASE r # s
      <4>1. procs[r].pid \in Pid /\ pc[procs[r].pid] = "none"
        BY <1>4, <3>2 DEF Owned, ReadyUnstarted
      <4> QED BY <1>0, <1>4, <1>5, <3>2, <4>1
    <3> QED BY <3>1, <3>2
  <2>2. \A u \in Pid : pc'[u] = "forking" =>
          \E r \in Slot : procs'[r].pid = loc'[u].want /\ procs'[r].state = "READY"
    <3> SUFFICES ASSUME NEW u \in Pid, pc'[u] = "forking"
                 PROVE  \E r \in Slot : procs'[r].pid = loc'[u].want
                                        /\ procs'[r].state = "READY"
      OBVIOUS
    <3>1. CASE u = t BY <1>3, <1>6, <3>1
    <3>2. CASE u # t
      <4>1. pc[u] = "forking" BY <1>0, <1>5, <3>2
      <4>2. PICK r \in Slot : procs[r].pid = loc[u].want /\ procs[r].state = "READY"
        BY <4>1 DEF Owned, ReadyUnstarted
      <4> QED BY <1>1, <1>4, <1>6, <3>2, <4>2
    <3> QED BY <3>1, <3>2
  <2>3. \A u, v \in Pid : pc'[u] = "forking" /\ pc'[v] = "forking"
                            /\ loc'[u].want = loc'[v].want => u = v
    <3>1. \A u \in Pid \ {t} : pc'[u] = "forking" => pc[u] = "forking" /\ loc'[u] = loc[u]
      BY <1>0, <1>5, <1>6
    <3>2. \A u \in Pid \ {t} : pc'[u] = "forking" => loc'[u].want # nextPid
      <4> SUFFICES ASSUME NEW u \in Pid \ {t}, pc'[u] = "forking"
                   PROVE  loc'[u].want # nextPid
        OBVIOUS
      <4>1. PICK r \in Slot : procs[r].pid = loc[u].want
        BY <3>1 DEF Owned, ReadyUnstarted
      <4>2. procs[r].pid # nextPid BY <1>0, <1>7 DEF ProcType, Pid, None
      <4> QED BY <3>1, <4>1, <4>2
    <3> QED BY <1>6, <3>1, <3>2 DEF Owned, ReadyUnstarted
  <2> QED BY <2>1, <2>2, <2>3 DEF ReadyUnstarted
<1>14. RecordersExit' BY <1>0, <1>5, <1>6 DEF Owned, RecordersExit
<1> QED BY <1>9, <1>10, <1>11, <1>12, <1>13, <1>14 DEF Owned

\* fork's second entry turns the caller's READY slot into the child's RUNNING
\* one, or gives it back.
LEMMA PumpOwned ==
  ASSUME Owned, TypeOK', NEW t \in Pid, yos_fork_pump(t)
  PROVE  Owned' /\ SlotSteps
<1> DEFINE c == loc[t].want
<1>0. /\ procs \in [Slot -> ProcType] /\ pc \in [Pid -> PCs]
      /\ loc \in [Pid -> LocalType] /\ proc \in [Pid -> Slot]
      /\ pc[t] = "forking" /\ nextPid' = nextPid
  BY DEF Owned, TypeOK, yos_fork_pump
<1>1. PICK s \in Slot :
        /\ procs[s].pid = c
        /\ procs[s].state # "FREE"
        /\ \/ /\ procs' = [procs EXCEPT ![s].state = "RUNNING"]
              /\ pc' = [pc EXCEPT ![t] = "run", ![c] = "new"]
              /\ proc' = [proc EXCEPT ![c] = s]
              /\ \E a : loc' = [loc EXCEPT ![t] = NoLocals, ![c] = a]
           \/ /\ procs' = [procs EXCEPT ![s].state = "FREE"]
              /\ pc' = [pc EXCEPT ![t] = IF t = 1 THEN "check" ELSE "tail"]
              /\ loc' = [loc EXCEPT ![t] = NoLocals]
              /\ UNCHANGED proc
  BY DEF yos_fork_pump, yos_proc_find, FallOff, Goto
<1>2. PICK q \in Slot : procs[q].pid = c /\ procs[q].state = "READY"
  BY <1>0 DEF Owned, ReadyUnstarted
<1>3. c \in Pid /\ pc[c] = "none" BY <1>2 DEF Owned, ReadyUnstarted
<1> HIDE DEF c
<1>4. s = q /\ procs[s].state = "READY" BY <1>1, <1>2, <1>3, Constants DEF Owned, PidsUnique
<1>5. c # t BY <1>0, <1>3
<1>6. \A r \in Slot \ {s} : procs'[r] = procs[r] BY <1>0, <1>1
<1>7. procs'[s].pid = c /\ (procs'[s].state = "RUNNING" \/ procs'[s].state = "FREE")
  <2>1. procs[s] \in ProcType BY <1>0
  <2>2. /\ [procs[s] EXCEPT !.state = "RUNNING"].pid = c
        /\ [procs[s] EXCEPT !.state = "RUNNING"].state = "RUNNING"
        /\ [procs[s] EXCEPT !.state = "FREE"].pid = c
        /\ [procs[s] EXCEPT !.state = "FREE"].state = "FREE"
    BY <1>1, <2>1 DEF ProcType
  <2>3. \/ procs'[s] = [procs[s] EXCEPT !.state = "RUNNING"]
        \/ procs'[s] = [procs[s] EXCEPT !.state = "FREE"]
    BY <1>0, <1>1
  <2> QED BY <2>2, <2>3
<1>8. pc' = [pc EXCEPT ![t] = "run", ![c] = "new"] => procs'[s].state = "RUNNING"
  <2>1. pc'[c] # "new" \/ procs' = [procs EXCEPT ![s].state = "RUNNING"]
    BY <1>0, <1>1, <1>3, <1>5
  <2>2. [procs[s] EXCEPT !.state = "RUNNING"].state = "RUNNING" BY <1>0 DEF ProcType
  <2>3. procs' = [procs EXCEPT ![s].state = "RUNNING"] =>
          procs'[s] = [procs[s] EXCEPT !.state = "RUNNING"]
    BY <1>0
  <2> QED BY <1>0, <1>3, <1>5, <2>1, <2>2, <2>3
<1>9. SlotSteps
  <2>1. SlotStep(procs[s], procs'[s]) BY <1>1, <1>4, <1>7 DEF SlotStep
  <2>2. \A r \in Slot \ {s} : SlotStep(procs[r], procs'[r]) BY <1>6 DEF SlotStep
  <2> QED BY <2>1, <2>2 DEF SlotSteps
<1>10. \A r \in Slot : procs'[r].pid = procs[r].pid BY <1>1, <1>6, <1>7
<1>11. c < nextPid BY <1>1 DEF Owned, PidsFresh
<1>12. PidsFresh'
  <2>1. \A u \in Pid : pc'[u] # "none" => u < nextPid
    BY <1>0, <1>1, <1>3, <1>11 DEF Owned, PidsFresh
  <2> QED BY <1>0, <1>10, <2>1 DEF Owned, PidsFresh
<1>13. PidsUnique' BY <1>10 DEF Owned, PidsUnique
<1>14. \A u \in Pid : pc[u] \in Acting =>
         procs[proc[u]].pid = u /\ procs[proc[u]].state = "RUNNING" /\ proc[u] \in Slot
  BY <1>0 DEF Owned, ActingOwns
<1>15. \A u \in Pid : pc[u] \in Acting => procs'[proc[u]].pid = u /\ procs'[proc[u]].state = "RUNNING"
  BY <1>4, <1>6, <1>14
<1>16. ActingOwns'
  <2> SUFFICES ASSUME NEW u \in Pid, pc'[u] \in Acting
               PROVE  procs'[proc'[u]].pid = u /\ procs'[proc'[u]].state = "RUNNING"
    BY DEF ActingOwns
  <2>1. pc[t] \in Acting BY <1>0 DEF Acting, Guest
  <2>2. CASE pc' = [pc EXCEPT ![t] = "run", ![c] = "new"] /\ proc' = [proc EXCEPT ![c] = s]
    <3>1. CASE u = c BY <1>0, <1>3, <1>7, <1>8, <2>2, <3>1
    <3>2. CASE u # c BY <1>0, <1>3, <1>15, <2>1, <2>2, <3>2
    <3> QED BY <3>1, <3>2
  <2>3. CASE pc' = [pc EXCEPT ![t] = IF t = 1 THEN "check" ELSE "tail"] /\ UNCHANGED proc
    BY <1>0, <1>15, <2>1, <2>3
  <2> QED BY <1>1, <2>2, <2>3
<1>17. \A u \in Pid : pc'[u] = "forking" => u \notin {t, c} /\ pc[u] = "forking" /\ loc'[u] = loc[u]
  <2>1. CASE pc' = [pc EXCEPT ![t] = "run", ![c] = "new"] BY <1>0, <1>1, <1>3, <2>1
  <2>2. CASE pc' = [pc EXCEPT ![t] = IF t = 1 THEN "check" ELSE "tail"]
    <3>1. loc' = [loc EXCEPT ![t] = NoLocals] \/ \E a : loc' = [loc EXCEPT ![t] = NoLocals, ![c] = a]
      BY <1>1
    <3> QED BY <1>0, <1>3, <2>2, <3>1
  <2> QED BY <1>1, <2>1, <2>2
<1>18. ReadyUnstarted'
  <2>1. \A r \in Slot : procs'[r].state = "READY" =>
          procs'[r].pid \in Pid /\ pc'[procs'[r].pid] = "none"
    <3> SUFFICES ASSUME NEW r \in Slot, procs'[r].state = "READY"
                 PROVE  procs'[r].pid \in Pid /\ pc'[procs'[r].pid] = "none"
      OBVIOUS
    <3>1. r # s /\ procs'[r] = procs[r] BY <1>6, <1>7
    <3>2. procs[r].pid \in Pid /\ pc[procs[r].pid] = "none"
      BY <3>1 DEF Owned, ReadyUnstarted
    <3>3. procs[r].pid # c BY <1>1, <1>3, <3>1, Constants DEF Owned, PidsUnique
    <3>4. procs[r].pid # t BY <1>0, <3>2
    <3> QED BY <1>0, <1>1, <3>1, <3>2, <3>3, <3>4
  <2>2. \A u \in Pid : pc'[u] = "forking" =>
          \E r \in Slot : procs'[r].pid = loc'[u].want /\ procs'[r].state = "READY"
    <3> SUFFICES ASSUME NEW u \in Pid, pc'[u] = "forking"
                 PROVE  \E r \in Slot : procs'[r].pid = loc'[u].want
                                        /\ procs'[r].state = "READY"
      OBVIOUS
    <3>1. PICK r \in Slot : procs[r].pid = loc[u].want /\ procs[r].state = "READY"
      BY <1>17 DEF Owned, ReadyUnstarted
    <3>2. loc[u].want # loc[t].want BY <1>0, <1>17 DEF Owned, ReadyUnstarted
    <3>3. r # s BY <1>1, <3>1, <3>2 DEF c
    <3> QED BY <1>6, <1>17, <3>1, <3>3
  <2>3. \A u, v \in Pid : pc'[u] = "forking" /\ pc'[v] = "forking"
                            /\ loc'[u].want = loc'[v].want => u = v
    BY <1>17 DEF Owned, ReadyUnstarted
  <2> QED BY <2>1, <2>2, <2>3 DEF ReadyUnstarted
<1>19. \A u \in Pid : pc'[u] = "record" => pc[u] = "record" /\ loc'[u] = loc[u]
  <2>1. CASE pc' = [pc EXCEPT ![t] = "run", ![c] = "new"] BY <1>0, <1>1, <1>3, <2>1
  <2>2. CASE pc' = [pc EXCEPT ![t] = IF t = 1 THEN "check" ELSE "tail"]
    <3>1. loc' = [loc EXCEPT ![t] = NoLocals] \/ \E a : loc' = [loc EXCEPT ![t] = NoLocals, ![c] = a]
      BY <1>1
    <3> QED BY <1>0, <1>3, <2>2, <3>1
  <2> QED BY <1>1, <2>1, <2>2
<1>20. RecordersExit' BY <1>19 DEF Owned, RecordersExit
<1> QED BY <1>9, <1>12, <1>13, <1>16, <1>18, <1>20 DEF Owned

\* The ways a thread moves: on its own, or waking pid 1.
LEMMA GotoMoves ==
  ASSUME TypeOK, NEW t \in Pid, NEW l \in PCs \ {"none", "forking", "record"}, pc[t] # "none",
         Goto(t, l) \/ BroadcastAndGoto(t, l),
         \A u \in Pid \ {t} : loc'[u] = loc[u]
  PROVE  Moves(t) /\ pc'[t] = l
<1>1. pc \in [Pid -> PCs] BY DEF TypeOK
<1>2. CASE Goto(t, l) BY <1>1, <1>2 DEF Goto, Moves
<1>3. CASE BroadcastAndGoto(t, l)
  <2>1. pc'[t] = l BY <1>1, <1>3 DEF BroadcastAndGoto
  <2>2. \A u \in Pid \ {t} : pc'[u] = pc[u] \/ (pc[u] = "sleep" /\ pc'[u] = "check")
    BY <1>1, <1>3 DEF BroadcastAndGoto
  <2> QED BY <2>1, <2>2 DEF Moves
<1> QED BY <1>2, <1>3

\* What a thread that makes its slot a zombie has in its locals.
LEMMA MarkMoves ==
  ASSUME TypeOK, NEW t \in Pid, pc[t] # "none", NEW c \in Nat, NEW g \in Signals \cup {None},
         NEW n \in {"ids", "tail", "gone"}, MarkZombie(t, c, g, n)
  PROVE  /\ pc'[t] = "record" /\ \A u \in Pid \ {t} : pc'[u] = pc[u] /\ loc'[u] = loc[u]
         /\ loc'[t].code = c /\ loc'[t].sig = g /\ loc'[t].next = n
<1>1. pc \in [Pid -> PCs] /\ loc \in [Pid -> LocalType] BY DEF TypeOK
<1> DEFINE l == [NoLocals EXCEPT !.code = c, !.sig = g, !.next = n]
<1>2. loc' = [loc EXCEPT ![t] = l] /\ pc' = [pc EXCEPT ![t] = "record"]
  BY DEF MarkZombie, Goto
<1>3. l.code = c /\ l.sig = g /\ l.next = n BY DEF NoLocals
<1> HIDE DEF l
<1> QED BY <1>1, <1>2, <1>3

\* A thread that exits or is killed gives up its slot.
LEMMA MarkOwned ==
  ASSUME Owned, TypeOK', NEW t \in Pid, pc[t] \in Acting, NEW c \in Nat,
         NEW g \in Signals \cup {None}, NEW n \in {"ids", "tail", "gone"}, n # "tail",
         MarkZombie(t, c, g, n), UNCHANGED <<nextPid, proc>>
  PROVE  Owned' /\ SlotSteps
<1> DEFINE r == [procs[proc[t]] EXCEPT !.state = "ZOMBIE"]
<1>1. pc[t] # "none" BY DEF Acting, Starting, Guest
<1>2. "record" \notin Acting BY DEF Acting, Starting, Guest
<1>3. Moves(t) /\ pc'[t] = "record" BY <1>1, MarkMoves DEF Moves, Owned
<1>4. Rewrites(proc[t], r) /\ r \in ProcType BY MarkType DEF Owned
<1>5. procs[proc[t]] \in ProcType BY DEF Owned, TypeOK
<1>6. r.pid = procs[proc[t]].pid /\ r.state = "ZOMBIE" BY <1>5 DEF ProcType
<1> HIDE DEF r
<1> QED BY <1>2, <1>3, <1>4, <1>6, EndsOwned

\* Storing the status leaves the slot to whoever has it.
LEMMA RecordOwned ==
  ASSUME Owned, TypeOK', NEW t \in Pid, RecordStatus(t)
  PROVE  Owned' /\ SlotSteps
<1>1. TypeOK /\ pc[t] = "record" /\ UNCHANGED <<nextPid, proc>>
  BY DEF Owned, RecordStatus, ctxVars
<1>2. KeepsSlots
  <2>1. proc[t] \in Slot BY <1>1 DEF TypeOK
  <2>2. /\ procs'[proc[t]].pid = procs[proc[t]].pid
        /\ procs'[proc[t]].state = procs[proc[t]].state
        /\ \A s \in Slot \ {proc[t]} : procs'[s] = procs[s]
    BY <1>1, RecordType
  <2> QED BY <2>1, <2>2 DEF KeepsSlots
<1>3. loc[t].next # "tail" BY <1>1 DEF Owned, RecordersExit
<1>4. loc[t].next \in {"ids", "tail", "gone"} BY <1>1 DEF TypeOK, LocalType
<1>5. AfterRecord(t) \in {"ids", "down", "gone"} BY <1>3, <1>4 DEF AfterRecord
<1>6. \A l \in {"ids", "down", "gone"} : l \in PCs \ {"none", "forking", "record"} /\ l \notin Acting
  BY DEF PCs, Cleaning, Ended, Acting, Starting, Guest
<1>7. \A u \in Pid \ {t} : loc'[u] = loc[u] BY <1>1 DEF RecordStatus, TypeOK
<1>8. Moves(t) /\ pc'[t] = AfterRecord(t) BY <1>1, <1>5, <1>6, <1>7, GotoMoves DEF RecordStatus
<1> QED BY <1>1, <1>2, <1>5, <1>6, <1>8, KeepsOwned

\* Initially pid 1 runs in slot 1 and nothing else exists.
LEMMA OwnedInit == Init => Owned
<1> SUFFICES ASSUME Init PROVE Owned OBVIOUS
<1>1. TypeOK BY TypeInit
<1>2. \A s \in Slot : /\ s = 1 => procs[s].pid = 1 /\ procs[s].state = "RUNNING"
                      /\ s # 1 => procs[s].pid = None /\ procs[s].state = "FREE"
  BY DEF Init, FreeProc
<1>3. \A t \in Pid : /\ t = 1 => pc[t] = "run"
                     /\ t # 1 => pc[t] = "none"
                     /\ proc[t] = 1
  BY DEF Init
<1>4. PidsFresh BY <1>2, <1>3 DEF Init, PidsFresh, None
<1>5. PidsUnique BY <1>2 DEF PidsUnique
<1>6. ActingOwns BY <1>2, <1>3, Constants DEF ActingOwns, Acting, Starting, Guest
<1>7. ReadyUnstarted BY <1>2, <1>3 DEF ReadyUnstarted
<1>8. RecordersExit BY <1>3 DEF RecordersExit
<1> QED BY <1>1, <1>4, <1>5, <1>6, <1>7, <1>8 DEF Owned

\* Every step, of any thread, keeps slots with their owners and moves each slot
\* along its life cycle.
LEMMA OwnedStep ==
  ASSUME Trappers = {}, Owned, [Next]_vars
  PROVE  Owned' /\ SlotSteps
<1>0. TypeOK /\ TypeOK' BY TypeStep DEF Owned
<1>1. /\ procs \in [Slot -> ProcType] /\ pc \in [Pid -> PCs]
      /\ loc \in [Pid -> LocalType] /\ proc \in [Pid -> Slot]
  BY <1>0 DEF TypeOK
<1>2. \A t \in Pid : proc[t] \in Slot /\ procs[proc[t]] \in ProcType BY <1>1
<1>3. ASSUME NEW t \in Pid, UNCHANGED <<procs, nextPid, proc>>, Moves(t),
             pc'[t] \in Acting => pc[t] \in Acting
      PROVE  Owned' /\ SlotSteps
  BY <1>0, <1>3, KeepsOwned DEF KeepsSlots, Owned
<1>4. ASSUME NEW t \in Pid, fork_thread_func(t) PROVE Owned' /\ SlotSteps
  <2> DEFINE l == pc'[t]
  <2>1. /\ pc[t] \in Starting
        /\ Goto(t, "inherit") \/ Goto(t, "run") \/ Goto(t, "freed")
        /\ \A u \in Pid \ {t} : loc'[u] = loc[u]
        /\ UNCHANGED <<nextPid, proc>>
    BY <1>1, <1>4 DEF fork_thread_func, ctxVars, Starting
  <2>2. {"inherit", "run", "freed"} \subseteq PCs \ {"none", "forking", "record"}
    BY DEF PCs, Starting, Guest, Ended
  <2>3. pc[t] # "none" BY <2>1 DEF Starting
  <2>4. Moves(t) BY <1>0, <2>1, <2>2, <2>3, GotoMoves
  <2>5. KeepsSlots
    <3>1. CASE UNCHANGED procs BY <3>1 DEF KeepsSlots
    <3>2. CASE procs' = [procs EXCEPT ![proc[t]].ctx = t]
      <4> DEFINE r == [procs[proc[t]] EXCEPT !.ctx = t]
      <4>1. r \in ProcType /\ r.pid = procs[proc[t]].pid /\ r.state = procs[proc[t]].state
        BY <1>2 DEF ProcType
      <4>2. procs' = [procs EXCEPT ![proc[t]] = r] BY <1>1, <3>2
      <4> HIDE DEF r
      <4> QED BY <1>1, <1>2, <4>1, <4>2 DEF KeepsSlots
    <3> QED BY <1>4, <3>1, <3>2 DEF fork_thread_func
  <2> QED BY <1>0, <2>1, <2>4, <2>5, KeepsOwned DEF Acting, Owned
<1>5. ASSUME NEW t \in Pid, NEW c \in ExitCodes, yos_exit(t, c) PROVE Owned' /\ SlotSteps
  <2>1. pc[t] = "run" /\ pc[t] \in Acting BY <1>5 DEF yos_exit, Acting, Guest
  <2>2. Live(proc[t]) BY <2>1 DEF Owned, ActingOwns, Live
  <2>3. MarkZombie(t, c, None, "ids") /\ UNCHANGED <<nextPid, proc>>
    BY <1>5, <2>2 DEF yos_exit, ctxVars
  <2>4. c \in Nat BY Constants
  <2> QED BY <1>0, <2>1, <2>3, <2>4, MarkOwned DEF Owned
<1>6. ASSUME NEW t \in Pid, Return(t) PROVE Owned' /\ SlotSteps
  <2>1. pc[t] = "run" /\ pc[t] \in Acting BY <1>6 DEF Return, Acting, Guest
  <2>2. {"check", "tail"} \subseteq PCs \ {"none", "forking", "record"} BY DEF PCs
  <2>3. Moves(t) BY <1>0, <1>6, <2>1, <2>2, GotoMoves DEF Return, FallOff
  <2> QED BY <1>3, <1>6, <2>1, <2>3 DEF Return, ctxVars
<1>7. ASSUME NEW t \in Pid, ThreadEnds(t) PROVE Owned' /\ SlotSteps
  <2> DEFINE r == [procs[proc[t]] EXCEPT !.state = "ZOMBIE", !.code = 0]
  <2>1. pc[t] = "tail" /\ pc[t] \in Acting BY <1>7 DEF ThreadEnds, Acting
  <2>2. Live(proc[t]) BY <2>1 DEF Owned, ActingOwns, Live
  <2>3. r \in ProcType /\ r.pid = procs[proc[t]].pid /\ r.state = "ZOMBIE"
    BY <1>2 DEF ProcType
  <2>4. procs' = [procs EXCEPT ![proc[t]] = r] BY <1>1, <1>7, <2>2 DEF ThreadEnds
  <2> HIDE DEF r
  <2>5. Rewrites(proc[t], r) BY <1>1, <1>2, <2>3, <2>4, StoreSlot
  <2>6. "freed" \in PCs \ {"none", "forking", "record"} /\ "freed" \notin Acting
    BY DEF PCs, Ended, Acting, Starting, Guest
  <2>7. Moves(t) /\ pc'[t] = "freed" BY <1>0, <1>7, <2>1, <2>6, GotoMoves DEF ThreadEnds
  <2>8. UNCHANGED <<nextPid, proc>> BY <1>7 DEF ThreadEnds, ctxVars
  <2> QED BY <1>0, <2>1, <2>3, <2>5, <2>6, <2>7, <2>8, EndsOwned DEF Owned
<1>8. ASSUME NEW t \in Pid, NEW g \in Signals, NEW n \in {"ids", "gone"}, MarkZombie(t, 0, g, n),
             pc[t] \in {"run", "pump", "deliver"}, UNCHANGED <<nextPid, proc>>
      PROVE  Owned' /\ SlotSteps
  <2>1. pc[t] \in Acting BY <1>8 DEF Acting, Guest
  <2>2. g # None BY DEF Signals, SIGHUP, SIGKILL, SIGCHLD, None
  <2> QED BY <1>0, <1>8, <2>1, <2>2, MarkOwned DEF Owned
<1>9. ASSUME NEW t \in Pid, yos_signal_pump(t) PROVE Owned' /\ SlotSteps
  <2>1. pc[t] \in {"run", "pump", "deliver"} /\ UNCHANGED <<nextPid, proc>>
    BY <1>9 DEF yos_signal_pump
  <2>2. CASE MarkZombie(t, 0, SIGKILL, "gone") BY <1>8, <2>1, <2>2 DEF Signals
  <2>3. ASSUME NEW g \in pend[t], invoke_signal_handler(t, g) PROVE Owned' /\ SlotSteps
    <3>1. g \in Signals BY <1>0 DEF TypeOK
    <3>2. CASE UNCHANGED <<procs, fate, pc, loc>>
      BY <1>3, <2>1, <3>2 DEF Moves
    <3>3. CASE MarkZombie(t, 0, g, "ids") BY <1>8, <2>1, <3>1, <3>3
    <3> QED BY <2>3, <3>2, <3>3 DEF invoke_signal_handler
  <2>4. CASE Goto(t, "deliver") /\ UNCHANGED <<procs, loc>>
    <3>1. "deliver" \in PCs \ {"none", "forking", "record"} /\ pc[t] \in Acting
      BY <2>1 DEF PCs, Guest, Acting
    <3>2. Moves(t) BY <1>0, <2>1, <2>4, <3>1, GotoMoves
    <3> QED BY <1>3, <2>1, <2>4, <3>1, <3>2
  <2> QED BY <1>9, <2>2, <2>3, <2>4 DEF yos_signal_pump
<1>10. ASSUME NEW t \in Pid, PumpReturns(t) \/ yos_execve(t)
                \/ (\E b \in BOOLEAN : IgnoreSigchld(t, b))
                \/ (\E p \in Pid, g \in KillSigs : yos_kill(t, p, g)) \/ KillDelivers(t)
       PROVE  Owned' /\ SlotSteps
  <2>1. pc[t] \in {"run", "pump", "kill", "deliver"} /\ UNCHANGED <<procs, nextPid, proc>>
    BY <1>10 DEF PumpReturns, yos_execve, IgnoreSigchld, yos_kill, KillDelivers, ctxVars
  <2>2. pc[t] \in Acting BY <2>1 DEF Acting, Guest
  <2>3. /\ UNCHANGED pc \/ Goto(t, "run") \/ Goto(t, "kill") \/ Goto(t, "pump")
        /\ \A u \in Pid \ {t} : loc'[u] = loc[u]
    BY <1>1, <1>10 DEF PumpReturns, yos_execve, IgnoreSigchld, yos_kill, KillDelivers
  <2>4. {"run", "kill", "pump"} \subseteq PCs \ {"none", "forking", "record"} BY DEF PCs, Guest
  <2>5. CASE UNCHANGED pc BY <1>3, <2>1, <2>2, <2>3, <2>5 DEF Moves
  <2>6. CASE ~UNCHANGED pc
    <3>1. Moves(t) BY <1>0, <2>1, <2>3, <2>4, <2>6, GotoMoves
    <3> QED BY <1>3, <2>1, <2>2, <3>1
  <2> QED BY <2>5, <2>6
<1>11. ASSUME NEW t \in Pid, ReadIds(t) \/ ReadOrphaned(t) \/ HupFinds(t) \/ HupDelivers(t)
                \/ PtyFinds(t) \/ PtyDelivers(t) \/ Leave(t)
       PROVE  Owned' /\ SlotSteps
  <2>1. pc[t] \in Cleaning /\ UNCHANGED <<procs, nextPid, proc>>
    BY <1>11 DEF ReadIds, ReadOrphaned, HupFinds, HupDelivers, PtyFinds, PtyDelivers,
                 Leave, ctxVars, Cleaning
  <2>2. \A u \in Pid \ {t} : loc'[u] = loc[u]
    BY <1>1, <1>11 DEF ReadIds, ReadOrphaned, HupFinds, HupDelivers, PtyFinds,
                       PtyDelivers, Leave
  <2>3. UNCHANGED pc \/ \E l \in Cleaning \cup {"gone", "down"} :
                          Goto(t, l) \/ BroadcastAndGoto(t, l)
    BY <1>11 DEF ReadIds, ReadOrphaned, HupFinds, HupDelivers, PtyFinds,
                 PtyDelivers, Leave, Cleaning
  <2>4. \A l \in Cleaning \cup {"gone", "down"} :
          l \in PCs \ {"none", "forking", "record"} /\ l \notin Acting
    BY DEF PCs, Ended, Cleaning, Acting, Starting, Guest
  <2>5. pc[t] # "none" BY <2>1 DEF Cleaning
  <2>6. CASE UNCHANGED pc BY <1>3, <2>1, <2>2, <2>4, <2>5, <2>6 DEF Moves
  <2>7. ASSUME NEW l \in Cleaning \cup {"gone", "down"}, Goto(t, l) \/ BroadcastAndGoto(t, l)
        PROVE  Owned' /\ SlotSteps
    <3>1. Moves(t) /\ pc'[t] = l BY <1>0, <2>2, <2>4, <2>5, <2>7, GotoMoves
    <3> QED BY <1>3, <2>1, <2>4, <3>1
  <2> QED BY <2>3, <2>6, <2>7
<1>12. ASSUME NEW t \in Pid, CleanTable(t) PROVE Owned' /\ SlotSteps
  <2>1. KeepsSlots BY <1>1, <1>2, <1>12, CleanType DEF KeepsSlots
  <2>2. pc[t] = "table" /\ Goto(t, "hup") /\ UNCHANGED <<nextPid, proc>>
    BY <1>12 DEF CleanTable, ctxVars
  <2>3. \A u \in Pid \ {t} : loc'[u] = loc[u] BY <1>1, <1>12 DEF CleanTable
  <2>4. "hup" \in PCs \ {"none", "forking", "record"} /\ "hup" \notin Acting
    BY DEF PCs, Cleaning, Acting, Starting, Guest
  <2>5. Moves(t) /\ pc'[t] = "hup" BY <1>0, <2>2, <2>3, <2>4, GotoMoves
  <2> QED BY <1>0, <2>1, <2>2, <2>4, <2>5, KeepsOwned DEF Owned
<1>13. ASSUME NEW s \in Slot, procs[s].state = "ZOMBIE", Reap(s) PROVE KeepsSlots
  <2> DEFINE r == [procs[s] EXCEPT !.state = "FREE"]
  <2>1. r.pid = procs[s].pid /\ r.state = "FREE" BY <1>1 DEF ProcType
  <2>2. Rewrites(s, r) BY <1>0, <1>13, ReapType
  <2> HIDE DEF r
  <2> QED BY <1>13, <2>1, <2>2 DEF Rewrites, KeepsSlots
<1>14. ASSUME NEW t \in Pid, NEW w \in Pid \cup {None}, yos_waitpid(t, w)
       PROVE  Owned' /\ SlotSteps
  <2> DEFINE me == procs[proc[t]].pid
  <2>1. pc[t] = "run" /\ UNCHANGED <<nextPid, proc>> /\ pc[t] \in Acting
    BY <1>14 DEF yos_waitpid, ctxVars, Acting, Guest
  <2>2. CASE (\E s \in find_zombie_child(me, w) : Reap(s)) /\ UNCHANGED <<pc, loc>>
    <3>1. KeepsSlots BY <1>13, <2>2 DEF find_zombie_child
    <3>2. Moves(t) BY <2>1, <2>2 DEF Moves
    <3> QED BY <1>0, <2>1, <3>1, <3>2, KeepsOwned DEF Owned
  <2>3. CASE /\ \A u \in Pid \ {t} : loc'[u] = loc[u]
             /\ Goto(t, "wait") /\ UNCHANGED procs
    <3>1. "wait" \in PCs \ {"none", "forking", "record"} BY DEF PCs, Guest
    <3>2. Moves(t) BY <1>0, <2>1, <2>3, <3>1, GotoMoves
    <3> QED BY <1>3, <2>1, <2>3, <3>2
  <2> QED BY <1>1, <1>14, <2>2, <2>3 DEF yos_waitpid
<1>15. ASSUME NEW t \in Pid, WaitPolls(t) PROVE Owned' /\ SlotSteps
  <2>1. pc[t] = "wait" /\ Goto(t, "run") /\ UNCHANGED <<nextPid, proc>> /\ pc[t] \in Acting
    BY <1>15 DEF WaitPolls, ctxVars, Acting, Guest
  <2>2. KeepsSlots BY <1>13, <1>15 DEF WaitPolls, find_zombie_child
  <2>3. \A u \in Pid \ {t} : loc'[u] = loc[u] BY <1>1, <1>15 DEF WaitPolls
  <2>4. "run" \in PCs \ {"none", "forking", "record"} BY DEF PCs, Guest
  <2>5. Moves(t) BY <1>0, <2>1, <2>3, <2>4, GotoMoves
  <2> QED BY <1>0, <2>1, <2>2, <2>5, KeepsOwned DEF Owned
<1>16. CASE ShutdownCheck
  <2>1. 1 \in Pid /\ pc[1] = "check" /\ UNCHANGED <<procs, nextPid, proc, loc>>
    BY <1>16, Constants DEF ShutdownCheck, ctxVars
  <2>2. {"sleep", "down"} \subseteq PCs \ {"none", "forking", "record"}
        /\ "sleep" \notin Acting /\ "down" \notin Acting
    BY DEF PCs, Acting, Starting, Guest
  <2>3. Moves(1) /\ pc'[1] \in {"sleep", "down"}
    BY <1>0, <1>16, <2>1, <2>2, GotoMoves DEF ShutdownCheck
  <2> QED BY <1>3, <2>1, <2>2, <2>3
<1>17. CASE UNCHANGED vars
  BY <1>0, <1>17 DEF vars, ctxVars, histVars, Owned, PidsFresh, PidsUnique, ActingOwns,
                     ReadyUnstarted, RecordersExit, SlotSteps, SlotStep
<1>18. ASSUME NEW t \in Pid PROVE ~Trap(t) /\ ~ExecLoadFails(t)
  BY DEF Trap, ExecLoadFails
<1> QED
  BY <1>0, <1>4, <1>5, <1>6, <1>7, <1>9, <1>10, <1>11, <1>12, <1>14, <1>15, <1>16, <1>17,
     <1>18, ForkOwned, PumpOwned, RecordOwned
  DEF Next, HostStep, GuestStep

\* No process that still runs guest code loses its slot of the process table,
\* however many processes fork, exit, are killed and are waited for at once.
THEOREM RunningOwnsSlot ==
  ASSUME Trappers = {}
  PROVE  Spec => []LiveOwnsSlot
<1>1. Owned => LiveOwnsSlot BY DEF Owned, ActingOwns, LiveOwnsSlot, Acting
<1>2. Owned /\ [Next]_vars => Owned' BY OwnedStep
<1> QED BY <1>1, <1>2, OwnedInit, PTL DEF Spec

\* A slot only moves along its life cycle: a freed slot never comes back as a
\* zombie, and a running process is never dropped.
THEOREM SlotsCycle ==
  ASSUME Trappers = {}
  PROVE  Spec => SlotLifecycle
<1>1. Owned /\ [Next]_vars => Owned' BY OwnedStep
<1>2. Owned /\ [Next]_vars => [\A s \in Slot : SlotStep(procs[s], procs'[s])]_procs
  BY OwnedStep DEF SlotSteps
<1> QED BY <1>1, <1>2, OwnedInit, PTL DEF Spec, SlotLifecycle

----------------------------------------------------------------------------
(* What waitpid reports *)

\* A process has not been reported while it has a slot or before it exists, and
\* what is a zombie or has been reported has ended.
Reported ==
  /\ \A p \in Pid : p >= nextPid => reports[p] = <<>>
  /\ \A s \in Slot : procs[s].state # "FREE" =>
       procs[s].pid \in Pid /\ reports[procs[s].pid] = <<>>
  /\ \A s \in Slot : procs[s].state = "ZOMBIE" => fate[procs[s].pid] # Alive
  /\ \A t \in Pid : pc[t] = "tail" => fate[t] = Exited(0)
  /\ ReapsOnce

\* While nothing is torn: a live slot has no terminating signal; a thread about
\* to store its status still has its slot and holds what ended it; any other
\* zombie's slot says how it ended; and so do the reports.
Recorded ==
  /\ \A s \in Slot : procs[s].state \in {"READY", "RUNNING"} => procs[s].tsig = None
  /\ \A t \in Pid : pc[t] = "record" =>
       /\ procs[proc[t]].pid = t /\ procs[proc[t]].state = "ZOMBIE"
       /\ procs[proc[t]].tsig = None
       /\ Decoded(StatusWord(loc[t].code, loc[t].sig)) = fate[t]
  /\ \A s \in Slot : procs[s].state = "ZOMBIE" =>
       \/ Recording(s)
       \/ Decoded(StatusWord(procs[s].code, procs[s].tsig)) = fate[procs[s].pid]
  /\ StatusObserved

Accounted == Reported /\ (~torn => Recorded)

\* The guest decodes from the status word the exit code or the signal that
\* waitpid found in the slot.
LEMMA DecodesExit ==
  ASSUME NEW c \in Nat
  PROVE  Decoded(StatusWord(c, None)) = Exited(c)
<1> DEFINE b == c % 256
<1>1. b \in 0..255 OBVIOUS
<1>2. StatusWord(c, None) = b * 256 BY DEF StatusWord
<1>3. Exited(c) = <<"exited", b>> BY DEF Exited
<1> HIDE DEF b
<1>4. (b * 256) % 128 = 0 /\ (b * 256) \div 256 = b /\ b % 256 = b BY <1>1
<1> QED BY <1>2, <1>3, <1>4 DEF Decoded, Exited

\* So does the signal that ended a process.
LEMMA DecodesSignal ==
  ASSUME NEW c \in Nat, NEW g \in Signals
  PROVE  Decoded(StatusWord(c, g)) = Signaled(g)
<1>1. g \in {1, 9, 20} /\ g # None BY DEF Signals, SIGHUP, SIGKILL, SIGCHLD, None
<1>2. g % 128 = g /\ g # 0 BY <1>1
<1>3. StatusWord(c, g) = g BY <1>1, <1>2 DEF StatusWord
<1> QED BY <1>2, <1>3 DEF Decoded, Signaled

\* Nothing has been reported about a process whose thread still acts for it.
LEMMA ActingUnreported ==
  ASSUME Owned, Reported, NEW t \in Pid, pc[t] \in Acting
  PROVE  /\ reports[t] = <<>>
         /\ proc[t] \in Slot /\ procs[proc[t]].pid = t /\ procs[proc[t]].state = "RUNNING"
<1>1. proc[t] \in Slot /\ procs[proc[t]].pid = t /\ procs[proc[t]].state = "RUNNING"
  BY DEF Owned, TypeOK, ActingOwns
<1> QED BY <1>1 DEF Reported

\* No thread acts for a process whose slot is a zombie.
LEMMA ZombieIdle ==
  ASSUME Owned, Reported, NEW s \in Slot, procs[s].state = "ZOMBIE"
  PROVE  procs[s].pid \in Pid /\ pc[procs[s].pid] \notin Acting
<1>1. procs[s].pid \in Pid BY DEF Reported
<1> SUFFICES ASSUME pc[procs[s].pid] \in Acting PROVE FALSE BY <1>1
<1> DEFINE q == proc[procs[s].pid]
<1>2. q \in Slot /\ procs[q].pid = procs[s].pid /\ procs[q].state = "RUNNING"
  BY <1>1 DEF Owned, TypeOK, ActingOwns
<1>3. q = s BY <1>1, <1>2, Constants DEF Owned, PidsUnique
<1> QED BY <1>2, <1>3

\* Slots keep their process or are freed, and become zombies only of processes
\* that have ended.
LEMMA KeepsReported ==
  ASSUME Owned, Reported, UNCHANGED <<nextPid, reports>>,
         \A s \in Slot : procs'[s].state # "FREE" =>
           procs[s].state # "FREE" /\ procs'[s].pid = procs[s].pid,
         \A s \in Slot : procs'[s].state = "ZOMBIE" =>
           procs[s].state = "ZOMBIE" \/ fate'[procs[s].pid] # Alive,
         \A p \in Pid : fate'[p] = fate[p] \/ fate'[p] # Alive,
         \A u \in Pid : pc'[u] = "tail" => fate'[u] = Exited(0)
  PROVE  Reported'
<1>1. \A p \in Pid : p >= nextPid' => reports'[p] = <<>> BY DEF Reported
<1>2. \A s \in Slot : procs'[s].state # "FREE" =>
        procs'[s].pid \in Pid /\ reports'[procs'[s].pid] = <<>>
  BY DEF Reported
<1>3. \A s \in Slot : procs'[s].state = "ZOMBIE" => fate'[procs'[s].pid] # Alive
  BY DEF Reported
<1>4. ReapsOnce' BY DEF Reported, ReapsOnce
<1> QED BY <1>1, <1>2, <1>3, <1>4 DEF Reported

\* The threads about to store their status stay where they are.
RecordersStay ==
  \A u \in Pid : /\ pc'[u] = "record" <=> pc[u] = "record"
                 /\ pc[u] = "record" => loc'[u] = loc[u] /\ proc'[u] = proc[u]

\* Slots keep what they say, or are freed when nobody is to store anything in
\* them, and fates change only for threads that still act.
LEMMA KeepsRecorded ==
  ASSUME Owned, Reported, Recorded, UNCHANGED reports, RecordersStay,
         \A s \in Slot :
           \/ /\ procs'[s].pid = procs[s].pid
              /\ procs'[s].code = procs[s].code /\ procs'[s].tsig = procs[s].tsig
              /\ procs'[s].state = "FREE" <=> procs[s].state = "FREE"
              /\ procs'[s].state = "ZOMBIE" <=> procs[s].state = "ZOMBIE"
           \/ procs'[s].state = "FREE" /\ ~Recording(s),
         TypeOK', \A p \in Pid : fate'[p] = fate[p] \/ pc[p] \in Acting
  PROVE  Recorded'
<1>1. \A s \in Slot : procs'[s].state \in {"READY", "RUNNING"} => procs'[s].tsig = None
  <2>1. \A s \in Slot : procs[s].state \in {"FREE", "READY", "RUNNING", "ZOMBIE"}
    BY DEF Owned, TypeOK, ProcType
  <2> QED BY <2>1 DEF Recorded
<1>2. ASSUME NEW t \in Pid, pc'[t] = "record"
      PROVE  /\ procs'[proc'[t]].pid = t /\ procs'[proc'[t]].state = "ZOMBIE"
             /\ procs'[proc'[t]].tsig = None
             /\ Decoded(StatusWord(loc'[t].code, loc'[t].sig)) = fate'[t]
  <2>1. pc[t] = "record" /\ loc'[t] = loc[t] /\ proc'[t] = proc[t] /\ proc[t] \in Slot
    BY <1>2 DEF RecordersStay, Owned, TypeOK
  <2>2. Recording(proc[t]) BY <2>1 DEF Recording
  <2>3. pc[t] \notin Acting BY <2>1 DEF Acting, Starting, Guest
  <2>4. fate'[t] = fate[t] BY <2>3
  <2> QED BY <2>1, <2>2, <2>4 DEF Recorded
<1>3. ASSUME NEW s \in Slot, procs'[s].state = "ZOMBIE", ~Recording(s)'
      PROVE  Decoded(StatusWord(procs'[s].code, procs'[s].tsig)) = fate'[procs'[s].pid]
  <2>1. ~Recording(s) BY <1>3 DEF Recording, RecordersStay
  <2>2. /\ procs[s].state = "ZOMBIE" /\ procs'[s].pid = procs[s].pid
        /\ procs'[s].code = procs[s].code /\ procs'[s].tsig = procs[s].tsig
    BY <1>3
  <2>3. procs[s].pid \in Pid /\ pc[procs[s].pid] \notin Acting BY <2>2, ZombieIdle
  <2>4. fate'[procs[s].pid] = fate[procs[s].pid] BY <2>3
  <2> QED BY <2>1, <2>2, <2>4 DEF Recorded
<1>4. StatusObserved'
  <2> SUFFICES ASSUME NEW p \in Pid
               PROVE  \A i \in 1..Len(reports[p]) : Decoded(reports[p][i]) = fate'[p]
    BY DEF StatusObserved
  <2>1. CASE fate'[p] = fate[p] BY <2>1 DEF Recorded, StatusObserved
  <2>2. CASE pc[p] \in Acting BY <2>2, ActingUnreported
  <2> QED BY <2>1, <2>2
<1> QED BY <1>1, <1>2, <1>3, <1>4 DEF Recorded

\* A step that leaves the slots, fates and reports alone changes no account.
LEMMA KeepsAccounted ==
  ASSUME Owned, Accounted, TypeOK', UNCHANGED <<nextPid, reports, torn>>, RecordersStay,
         \A s \in Slot :
           \/ /\ procs'[s].pid = procs[s].pid
              /\ procs'[s].code = procs[s].code /\ procs'[s].tsig = procs[s].tsig
              /\ procs'[s].state = "FREE" <=> procs[s].state = "FREE"
              /\ procs'[s].state = "ZOMBIE" <=> procs[s].state = "ZOMBIE"
           \/ procs'[s].state = "FREE" /\ ~Recording(s),
         \A p \in Pid : fate'[p] = fate[p] \/ (pc[p] \in Acting /\ fate'[p] # Alive),
         \A u \in Pid : pc'[u] = "tail" => fate'[u] = Exited(0)
  PROVE  Accounted'
<1>1. Reported BY DEF Accounted
<1>2. Reported' BY <1>1, KeepsReported
<1>3. Recorded => Recorded' BY <1>1, KeepsRecorded
<1> QED BY <1>2, <1>3 DEF Accounted

\* An ended process is not alive.
LEMMA FatesDiffer ==
  (\A c \in Nat : Exited(c) # Alive) /\ (\A g \in Signals : Signaled(g) # Alive)
BY DEF Exited, Signaled, Alive

\* While nothing is torn, no other thread is to store a status in the slot of
\* a thread that acts or has just given it up.
LEMMA OwnSlot ==
  ASSUME Recorded, NEW t \in Pid, procs[proc[t]].pid = t,
         NEW u \in Pid \ {t}, pc[u] = "record"
  PROVE  proc[u] # proc[t]
BY DEF Recorded

\* A thread that gives up its slot holds what it really ended with.
LEMMA MarkAccounted ==
  ASSUME Owned, Accounted, TypeOK', NEW t \in Pid, pc[t] \in Acting, NEW c \in Nat,
         NEW g \in Signals \cup {None}, NEW n \in {"ids", "tail", "gone"}, MarkZombie(t, c, g, n),
         fate' = [fate EXCEPT ![t] = IF g = None THEN Exited(c) ELSE Signaled(g)],
         UNCHANGED <<nextPid, proc, reports, torn>>
  PROVE  Accounted'
<1> DEFINE r == [procs[proc[t]] EXCEPT !.state = "ZOMBIE"]
<1>0. TypeOK /\ Reported BY DEF Owned, Accounted
<1>1. /\ reports[t] = <<>> /\ proc[t] \in Slot /\ procs[proc[t]].pid = t
      /\ procs[proc[t]].state = "RUNNING"
  BY <1>0, ActingUnreported
<1>2. procs[proc[t]] \in ProcType /\ fate \in [Pid -> {"alive", "exited", "signaled"} \X Nat]
  BY <1>0, <1>1 DEF TypeOK
<1>3. r.pid = t /\ r.state = "ZOMBIE" /\ r.tsig = procs[proc[t]].tsig
  BY <1>1, <1>2 DEF ProcType
<1>4. Rewrites(proc[t], r) BY <1>0, MarkType
<1> HIDE DEF r
<1>5. procs'[proc[t]] = r /\ \A s \in Slot \ {proc[t]} : procs'[s] = procs[s]
  BY <1>4 DEF Rewrites
<1>6. pc[t] # "none" BY DEF Acting, Starting, Guest
<1>7. /\ pc'[t] = "record" /\ \A u \in Pid \ {t} : pc'[u] = pc[u] /\ loc'[u] = loc[u]
      /\ loc'[t].code = c /\ loc'[t].sig = g
  BY <1>0, <1>6, MarkMoves
<1>8. fate'[t] = (IF g = None THEN Exited(c) ELSE Signaled(g))
      /\ \A p \in Pid \ {t} : fate'[p] = fate[p]
  BY <1>2
<1>9. fate'[t] # Alive BY <1>8, FatesDiffer
<1>10. Reported'
  <2>1. \A u \in Pid : pc'[u] = "tail" => fate'[u] = Exited(0)
    BY <1>0, <1>7, <1>8 DEF Reported
  <2> QED BY <1>0, <1>1, <1>3, <1>5, <1>8, <1>9, <2>1, KeepsReported
<1>11. ASSUME Recorded PROVE Recorded'
  <2>1. procs[proc[t]].tsig = None BY <1>1, <1>11 DEF Recorded
  <2>2. Decoded(StatusWord(loc'[t].code, loc'[t].sig)) = fate'[t]
    BY <1>7, <1>8, DecodesExit, DecodesSignal
  <2>3. \A s \in Slot : procs'[s].state \in {"READY", "RUNNING"} => procs'[s].tsig = None
    BY <1>3, <1>5, <1>11 DEF Recorded
  <2>4. ASSUME NEW u \in Pid, pc'[u] = "record"
        PROVE  /\ procs'[proc[u]].pid = u /\ procs'[proc[u]].state = "ZOMBIE"
               /\ procs'[proc[u]].tsig = None
               /\ Decoded(StatusWord(loc'[u].code, loc'[u].sig)) = fate'[u]
    <3>1. CASE u = t BY <1>3, <1>5, <2>1, <2>2, <3>1
    <3>2. CASE u # t
      <4>1. pc[u] = "record" /\ loc'[u] = loc[u] /\ proc[u] \in Slot
        BY <1>0, <1>7, <2>4, <3>2 DEF TypeOK
      <4>2. proc[u] # proc[t] BY <1>1, <1>11, <3>2, <4>1, OwnSlot
      <4> QED BY <1>5, <1>8, <1>11, <3>2, <4>1, <4>2 DEF Recorded
    <3> QED BY <3>1, <3>2
  <2>5. ASSUME NEW s \in Slot, procs'[s].state = "ZOMBIE", ~Recording(s)'
        PROVE  Decoded(StatusWord(procs'[s].code, procs'[s].tsig)) = fate'[procs'[s].pid]
    <3>1. s # proc[t] BY <1>7, <2>5 DEF Recording
    <3>2. ~Recording(s) BY <1>7, <2>5, <3>1 DEF Recording
    <3>3. procs'[s] = procs[s] BY <1>5, <3>1
    <3>4. procs[s].pid \in Pid BY <1>0, <2>5, <3>3 DEF Reported
    <3>5. procs[s].pid # t BY <1>1, <3>1, <3>4, Constants DEF Owned, PidsUnique
    <3> QED BY <1>8, <1>11, <2>5, <3>2, <3>3, <3>4, <3>5 DEF Recorded
  <2>6. StatusObserved'
    <3> SUFFICES ASSUME NEW p \in Pid
                 PROVE  \A i \in 1..Len(reports[p]) : Decoded(reports[p][i]) = fate'[p]
      BY DEF StatusObserved
    <3>1. CASE p # t BY <1>8, <1>11, <3>1 DEF Recorded, StatusObserved
    <3>2. CASE p = t BY <1>1, <3>2
    <3> QED BY <3>1, <3>2
  <2> QED BY <2>3, <2>4, <2>5, <2>6 DEF Recorded
<1> QED BY <1>10, <1>11 DEF Accounted

\* The end of fork_thread_func leaves in the slot what the thread ended with.
LEMMA TailAccounted ==
  ASSUME Owned, Accounted, TypeOK', NEW t \in Pid, ThreadEnds(t)
  PROVE  Accounted'
<1> DEFINE r == [procs[proc[t]] EXCEPT !.state = "ZOMBIE", !.code = 0]
<1>0. /\ TypeOK /\ Reported /\ pc[t] = "tail" /\ pc[t] \in Acting
      /\ UNCHANGED <<nextPid, proc, loc, fate, reports, torn>>
  BY DEF Owned, Accounted, ThreadEnds, Acting, ctxVars, histVars
<1>1. /\ proc[t] \in Slot /\ procs[proc[t]].pid = t /\ procs[proc[t]].state = "RUNNING"
      /\ procs \in [Slot -> ProcType] /\ pc \in [Pid -> PCs]
  BY <1>0, ActingUnreported DEF TypeOK
<1>2. r.pid = t /\ r.state = "ZOMBIE" /\ r.tsig = procs[proc[t]].tsig /\ r.code = 0
  BY <1>1 DEF ProcType
<1>3. procs' = [procs EXCEPT ![proc[t]] = r] BY <1>1 DEF ThreadEnds, Live
<1> HIDE DEF r
<1>4. procs'[proc[t]] = r /\ \A s \in Slot \ {proc[t]} : procs'[s] = procs[s]
  BY <1>1, <1>3
<1>5. \A u \in Pid : /\ pc'[u] = "record" <=> pc[u] = "record"
                     /\ pc'[u] = "tail" => pc[u] = "tail"
  BY <1>0, <1>1 DEF ThreadEnds, BroadcastAndGoto
<1>6. fate[t] = Exited(0) /\ Exited(0) # Alive BY <1>0, FatesDiffer DEF Reported
<1>7. Reported'
  <2>1. \A u \in Pid : pc'[u] = "tail" => fate'[u] = Exited(0)
    BY <1>0, <1>5 DEF Reported
  <2> QED BY <1>0, <1>1, <1>2, <1>4, <1>6, <2>1, KeepsReported
<1>8. ASSUME Recorded PROVE Recorded'
  <2>1. procs[proc[t]].tsig = None BY <1>1, <1>8 DEF Recorded
  <2>2. Decoded(StatusWord(r.code, r.tsig)) = fate[t] BY <1>2, <1>6, <2>1, DecodesExit
  <2>3. \A s \in Slot : procs'[s].state \in {"READY", "RUNNING"} => procs'[s].tsig = None
    BY <1>2, <1>4, <1>8 DEF Recorded
  <2>4. ASSUME NEW u \in Pid, pc'[u] = "record"
        PROVE  /\ procs'[proc[u]].pid = u /\ procs'[proc[u]].state = "ZOMBIE"
               /\ procs'[proc[u]].tsig = None
               /\ Decoded(StatusWord(loc'[u].code, loc'[u].sig)) = fate'[u]
    <3>1. pc[u] = "record" /\ u # t /\ proc[u] \in Slot BY <1>0, <1>5, <2>4 DEF TypeOK
    <3>2. proc[u] # proc[t] BY <1>1, <1>8, <3>1, OwnSlot
    <3> QED BY <1>0, <1>4, <1>8, <3>1, <3>2 DEF Recorded
  <2>5. ASSUME NEW s \in Slot, procs'[s].state = "ZOMBIE", ~Recording(s)'
        PROVE  Decoded(StatusWord(procs'[s].code, procs'[s].tsig)) = fate'[procs'[s].pid]
    <3>1. ~Recording(s) BY <1>0, <1>5, <2>5 DEF Recording
    <3>2. CASE s = proc[t] BY <1>0, <1>2, <1>4, <2>2, <3>2
    <3>3. CASE s # proc[t] BY <1>0, <1>4, <1>8, <2>5, <3>1, <3>3 DEF Recorded
    <3> QED BY <3>2, <3>3
  <2>6. StatusObserved' BY <1>0, <1>8 DEF Recorded, StatusObserved
  <2> QED BY <1>0, <2>3, <2>4, <2>5, <2>6 DEF Recorded
<1> QED BY <1>0, <1>7, <1>8 DEF Accounted

\* Storing the status makes the slot say what its thread held.
LEMMA RecordAccounted ==
  ASSUME Owned, Accounted, TypeOK', NEW t \in Pid, RecordStatus(t)
  PROVE  Accounted'
<1>0. /\ TypeOK /\ Reported /\ pc[t] = "record" /\ proc[t] \in Slot
      /\ UNCHANGED <<nextPid, proc, fate, reports, torn>>
  BY DEF Owned, Accounted, RecordStatus, ctxVars, histVars, TypeOK
<1>1. /\ procs'[proc[t]].pid = procs[proc[t]].pid
      /\ procs'[proc[t]].state = procs[proc[t]].state
      /\ procs'[proc[t]].code = loc[t].code
      /\ procs'[proc[t]].tsig = IF loc[t].sig = None THEN procs[proc[t]].tsig ELSE loc[t].sig
      /\ \A s \in Slot \ {proc[t]} : procs'[s] = procs[s]
  BY <1>0, RecordType
<1>2. pc' = [pc EXCEPT ![t] = AfterRecord(t)] /\ AfterRecord(t) \notin {"record", "tail"}
  <2>1. loc[t].next # "tail" BY <1>0 DEF Owned, RecordersExit
  <2>2. loc[t].next \in {"ids", "tail", "gone"} BY <1>0 DEF TypeOK, LocalType
  <2>3. AfterRecord(t) \in {"ids", "down", "gone"} BY <2>1, <2>2 DEF AfterRecord
  <2> QED BY <2>3 DEF RecordStatus, Goto
<1>3. \A u \in Pid : /\ pc'[u] = "record" => u # t /\ pc[u] = "record" /\ loc'[u] = loc[u]
                     /\ u # t => pc'[u] = pc[u]
                     /\ pc'[u] = "tail" => pc[u] = "tail"
  BY <1>0, <1>2 DEF RecordStatus, TypeOK
<1>4. Reported'
  <2>1. \A s \in Slot : procs'[s].pid = procs[s].pid /\ procs'[s].state = procs[s].state
    BY <1>0, <1>1
  <2>2. \A u \in Pid : pc'[u] = "tail" => fate'[u] = Exited(0)
    BY <1>0, <1>3 DEF Reported
  <2> QED BY <1>0, <2>1, <2>2, KeepsReported
<1>5. ASSUME Recorded PROVE Recorded'
  <2>1. /\ procs[proc[t]].pid = t /\ procs[proc[t]].state = "ZOMBIE"
        /\ procs[proc[t]].tsig = None
        /\ Decoded(StatusWord(loc[t].code, loc[t].sig)) = fate[t]
    BY <1>0, <1>5 DEF Recorded
  <2>2. /\ procs'[proc[t]].tsig = loc[t].sig /\ procs'[proc[t]].pid = t
        /\ procs'[proc[t]].state = "ZOMBIE"
    BY <1>1, <2>1
  <2>3. \A s \in Slot : procs'[s].state \in {"READY", "RUNNING"} => procs'[s].tsig = None
    BY <1>1, <1>5, <2>2 DEF Recorded
  <2>4. ASSUME NEW u \in Pid, pc'[u] = "record"
        PROVE  /\ procs'[proc[u]].pid = u /\ procs'[proc[u]].state = "ZOMBIE"
               /\ procs'[proc[u]].tsig = None
               /\ Decoded(StatusWord(loc'[u].code, loc'[u].sig)) = fate'[u]
    <3>1. pc[u] = "record" /\ u # t /\ loc'[u] = loc[u] /\ proc[u] \in Slot
      BY <1>0, <1>3, <2>4 DEF TypeOK
    <3>2. proc[u] # proc[t] BY <1>5, <2>1, <3>1, OwnSlot
    <3> QED BY <1>0, <1>1, <1>5, <3>1, <3>2 DEF Recorded
  <2>5. ASSUME NEW s \in Slot, procs'[s].state = "ZOMBIE", ~Recording(s)'
        PROVE  Decoded(StatusWord(procs'[s].code, procs'[s].tsig)) = fate'[procs'[s].pid]
    <3>1. CASE s = proc[t] BY <1>0, <1>1, <2>1, <2>2, <3>1
    <3>2. CASE s # proc[t]
      <4>1. ~Recording(s) BY <1>0, <1>3, <2>5, <3>2 DEF Recording
      <4> QED BY <1>0, <1>1, <1>5, <2>5, <3>2, <4>1 DEF Recorded
    <3> QED BY <3>1, <3>2
  <2>6. StatusObserved' BY <1>0, <1>5 DEF Recorded, StatusObserved
  <2> QED BY <1>0, <2>3, <2>4, <2>5, <2>6 DEF Recorded
<1> QED BY <1>0, <1>4, <1>5 DEF Accounted

\* Reaping a zombie reports its process for the first time.
LEMMA ReapAccounted ==
  ASSUME Owned, Accounted, TypeOK', NEW s \in Slot, procs[s].state = "ZOMBIE", Reap(s),
         UNCHANGED <<nextPid, proc, fate>>, RecordersStay,
         \A u \in Pid : pc'[u] = "tail" => pc[u] = "tail"
  PROVE  Accounted'
<1> DEFINE p == procs[s].pid
           w == StatusWord(procs[s].code, procs[s].tsig)
<1>0. TypeOK /\ Reported BY DEF Owned, Accounted
<1>1. p \in Pid /\ reports[p] = <<>> /\ fate[p] # Alive BY <1>0 DEF Reported
<1>2. reports' = [reports EXCEPT ![p] = Append(<<>>, w)] BY <1>1 DEF Reap
<1>3. p < nextPid BY DEF Owned, PidsFresh
<1>4. procs'[s].state = "FREE" /\ procs'[s].pid = p
  <2>1. Rewrites(s, [procs[s] EXCEPT !.state = "FREE"]) BY <1>0, ReapType
  <2>2. procs[s] \in ProcType BY <1>0 DEF TypeOK
  <2>3. [procs[s] EXCEPT !.state = "FREE"].state = "FREE"
        /\ [procs[s] EXCEPT !.state = "FREE"].pid = p
    BY <2>2 DEF ProcType
  <2> QED BY <2>1, <2>3 DEF Rewrites
<1>5. \A q \in Slot \ {s} : procs'[q] = procs[q] BY <1>0, ReapType DEF Rewrites
<1>6. \A q \in Slot \ {s} : procs[q].pid # p BY <1>1, Constants DEF Owned, PidsUnique
<1>7. reports \in [Pid -> Seq(Nat)] /\ nextPid \in Nat /\ Pid \subseteq Nat
  BY <1>0, Constants DEF TypeOK, Pid
<1>8. reports'[p] = <<w>> /\ \A q \in Pid \ {p} : reports'[q] = reports[q]
  BY <1>1, <1>2, <1>7
<1>9. w = StatusWord(procs[s].code, procs[s].tsig) /\ p = procs[s].pid OBVIOUS
<1> HIDE DEF p, w
<1>10. Len(<<w>>) = 1 /\ <<w>>[1] = w /\ 1..1 = {1} OBVIOUS
<1>11. Len(reports'[p]) = 1 /\ reports'[p][1] = w BY <1>8, <1>10
<1>12. Reported'
  <2>1. \A q \in Pid : q >= nextPid' => reports'[q] = <<>>
    BY <1>0, <1>1, <1>3, <1>7, <1>8 DEF Reported
  <2>2. \A q \in Slot : procs'[q].state # "FREE" =>
          procs'[q].pid \in Pid /\ reports'[procs'[q].pid] = <<>>
    BY <1>0, <1>4, <1>5, <1>6, <1>8 DEF Reported
  <2>3. \A q \in Slot : procs'[q].state = "ZOMBIE" => fate'[procs'[q].pid] # Alive
    BY <1>0, <1>4, <1>5 DEF Reported
  <2>4. \A u \in Pid : pc'[u] = "tail" => fate'[u] = Exited(0) BY <1>0 DEF Reported
  <2>5. ReapsOnce'
    <3> SUFFICES ASSUME NEW q \in Pid
                 PROVE  Len(reports'[q]) <= 1 /\ (reports'[q] # <<>> => fate[q] # Alive)
      BY DEF ReapsOnce
    <3>1. CASE q # p BY <1>0, <1>8, <3>1 DEF Reported, ReapsOnce
    <3>2. CASE q = p
      <4>1. Len(reports'[q]) = 1 /\ fate[q] # Alive BY <1>1, <1>11, <3>2
      <4> QED BY <4>1
    <3> QED BY <3>1, <3>2
  <2> QED BY <2>1, <2>2, <2>3, <2>4, <2>5 DEF Reported
<1>13. ASSUME Recorded, ~Recording(s) PROVE Recorded'
  <2>1. Decoded(w) = fate[p] BY <1>9, <1>13 DEF Recorded
  <2>2. \A q \in Slot : procs'[q].state \in {"READY", "RUNNING"} => procs'[q].tsig = None
    BY <1>4, <1>5, <1>13 DEF Recorded
  <2>3. ASSUME NEW u \in Pid, pc'[u] = "record"
        PROVE  /\ procs'[proc[u]].pid = u /\ procs'[proc[u]].state = "ZOMBIE"
               /\ procs'[proc[u]].tsig = None
               /\ Decoded(StatusWord(loc'[u].code, loc'[u].sig)) = fate'[u]
    <3>1. pc[u] = "record" /\ loc'[u] = loc[u] /\ proc[u] \in Slot
      BY <1>0, <2>3 DEF RecordersStay, TypeOK
    <3>2. proc[u] # s BY <1>13, <3>1 DEF Recording
    <3> QED BY <1>5, <1>13, <3>1, <3>2 DEF Recorded
  <2>4. ASSUME NEW q \in Slot, procs'[q].state = "ZOMBIE", ~Recording(q)'
        PROVE  Decoded(StatusWord(procs'[q].code, procs'[q].tsig)) = fate'[procs'[q].pid]
    <3>1. ~Recording(q) BY <2>4 DEF Recording, RecordersStay
    <3>2. q # s BY <1>4, <2>4
    <3> QED BY <1>5, <1>13, <2>4, <3>1, <3>2 DEF Recorded
  <2>5. StatusObserved'
    <3> SUFFICES ASSUME NEW q \in Pid
                 PROVE  \A i \in 1..Len(reports'[q]) : Decoded(reports'[q][i]) = fate[q]
      BY DEF StatusObserved
    <3>1. CASE q # p BY <1>8, <1>13, <3>1 DEF Recorded, StatusObserved
    <3>2. CASE q = p BY <1>10, <1>11, <2>1, <3>2
    <3> QED BY <3>1, <3>2
  <2> QED BY <2>2, <2>3, <2>4, <2>5 DEF Recorded
<1>14. ~torn' => ~torn /\ ~Recording(s) BY DEF Reap
<1> QED BY <1>12, <1>13, <1>14 DEF Accounted

\* Initially nothing has ended and nothing has been reported.
LEMMA AccountedInit == Init => Accounted
<1> SUFFICES ASSUME Init PROVE Accounted OBVIOUS
<1>1. \A s \in Slot : /\ s = 1 => procs[s].pid = 1 /\ procs[s].state = "RUNNING"
                                  /\ procs[s].tsig = None
                      /\ s # 1 => procs[s].state = "FREE"
  BY DEF Init, FreeProc
<1>2. \A p \in Pid : reports[p] = <<>> /\ pc[p] \notin {"tail", "record"} BY DEF Init
<1>3. ReapsOnce /\ StatusObserved BY <1>2 DEF ReapsOnce, StatusObserved
<1>4. Reported BY <1>1, <1>2, <1>3, Constants DEF Reported
<1>5. Recorded BY <1>1, <1>2, <1>3 DEF Recorded
<1> QED BY <1>4, <1>5 DEF Accounted

\* A new slot is nobody's until its thread starts.
LEMMA ForkAccounted ==
  ASSUME Owned, Accounted, TypeOK', NEW t \in Pid, yos_fork(t)
  PROVE  Accounted'
<1>0. /\ TypeOK /\ Reported /\ procs \in [Slot -> ProcType] /\ pc \in [Pid -> PCs]
      /\ loc \in [Pid -> LocalType] /\ pc[t] = "run"
      /\ UNCHANGED <<proc, fate, reports, torn>>
  BY DEF Owned, Accounted, yos_fork, TypeOK, ctxVars, histVars
<1>1. PICK s \in Slot :
        /\ procs[s].state = "FREE"
        /\ procs' = [procs EXCEPT ![s] = [FreeProc EXCEPT !.state = "READY",
                        !.pid = nextPid, !.ppid = procs[proc[t]].pid]]
        /\ nextPid' = nextPid + 1
  BY DEF yos_fork, yos_proc_alloc
<1>2. nextPid \in Pid /\ Pid \subseteq Nat BY <1>0 DEF yos_fork, TypeOK, Pid
<1>3. procs'[s].state = "READY" /\ procs'[s].pid = nextPid /\ procs'[s].tsig = None
  BY <1>0, <1>1 DEF FreeProc
<1>4. \A r \in Slot \ {s} : procs'[r] = procs[r] BY <1>0, <1>1
<1>5. \A u \in Pid : pc'[u] = "tail" => pc[u] = "tail" BY <1>0 DEF yos_fork, Goto
<1>6. RecordersStay BY <1>0 DEF yos_fork, Goto, RecordersStay
<1>7. Reported'
  <2>1. reports[nextPid] = <<>> BY <1>0, <1>2 DEF Reported
  <2>2. \A p \in Pid : p >= nextPid' => reports'[p] = <<>>
    BY <1>0, <1>1, <1>2 DEF Reported
  <2>3. \A r \in Slot : procs'[r].state # "FREE" =>
          procs'[r].pid \in Pid /\ reports'[procs'[r].pid] = <<>>
    BY <1>0, <1>2, <1>3, <1>4, <2>1 DEF Reported
  <2>4. \A r \in Slot : procs'[r].state = "ZOMBIE" => fate'[procs'[r].pid] # Alive
    BY <1>0, <1>3, <1>4 DEF Reported
  <2>5. ReapsOnce' BY <1>0 DEF Reported, ReapsOnce
  <2>6. \A u \in Pid : pc'[u] = "tail" => fate'[u] = Exited(0) BY <1>0, <1>5 DEF Reported
  <2> QED BY <2>2, <2>3, <2>4, <2>5, <2>6 DEF Reported
<1>8. ASSUME Recorded PROVE Recorded'
  <2>1. \A r \in Slot : procs'[r].state \in {"READY", "RUNNING"} => procs'[r].tsig = None
    BY <1>3, <1>4, <1>8 DEF Recorded
  <2>2. ASSUME NEW u \in Pid, pc'[u] = "record"
        PROVE  /\ procs'[proc[u]].pid = u /\ procs'[proc[u]].state = "ZOMBIE"
               /\ procs'[proc[u]].tsig = None
               /\ Decoded(StatusWord(loc'[u].code, loc'[u].sig)) = fate'[u]
    <3>1. pc[u] = "record" /\ loc'[u] = loc[u] /\ proc[u] \in Slot
      BY <1>0, <1>6, <2>2 DEF RecordersStay, TypeOK
    <3>2. proc[u] # s BY <1>1, <1>8, <3>1 DEF Recorded
    <3> QED BY <1>0, <1>4, <1>8, <3>1, <3>2 DEF Recorded
  <2>3. ASSUME NEW r \in Slot, procs'[r].state = "ZOMBIE", ~Recording(r)'
        PROVE  Decoded(StatusWord(procs'[r].code, procs'[r].tsig)) = fate'[procs'[r].pid]
    <3>1. ~Recording(r) BY <1>6, <2>3 DEF Recording, RecordersStay
    <3>2. r # s BY <1>3, <2>3
    <3> QED BY <1>0, <1>4, <1>8, <2>3, <3>1, <3>2 DEF Recorded
  <2>4. StatusObserved' BY <1>0, <1>8 DEF Recorded, StatusObserved
  <2> QED BY <1>0, <2>1, <2>2, <2>3, <2>4 DEF Recorded
<1> QED BY <1>0, <1>7, <1>8 DEF Accounted

\* Every step of any thread keeps slots, fates and reports in agreement.
LEMMA AccountedStep ==
  ASSUME Trappers = {}, Owned, Accounted, [Next]_vars
  PROVE  Accounted'
<1>0. TypeOK /\ TypeOK' BY TypeStep DEF Owned
<1>1. /\ procs \in [Slot -> ProcType] /\ pc \in [Pid -> PCs] /\ proc \in [Pid -> Slot]
      /\ loc \in [Pid -> LocalType]
      /\ fate \in [Pid -> {"alive", "exited", "signaled"} \X Nat]
  BY <1>0 DEF TypeOK
<1>2. \A t \in Pid : proc[t] \in Slot /\ procs[proc[t]] \in ProcType BY <1>1
<1>3. \A t \in Pid : pc[t] = "tail" => fate[t] = Exited(0) BY DEF Accounted, Reported
<1> DEFINE Calm == RecordersStay /\ \A u \in Pid : pc'[u] = "tail" => pc[u] = "tail"
<1>4. ASSUME UNCHANGED <<nextPid, procs, reports, fate, torn>>, Calm
      PROVE  Accounted'
  <2>1. \A u \in Pid : pc'[u] = "tail" => fate'[u] = Exited(0) BY <1>3, <1>4
  <2> QED BY <1>0, <1>4, <2>1, KeepsAccounted
<1>5. ASSUME NEW t \in Pid, pc[t] # "record",
             UNCHANGED proc, \A u \in Pid \ {t} : loc'[u] = loc[u],
             UNCHANGED pc \/ \E l \in PCs \ {"tail", "record"} :
                               Goto(t, l) \/ BroadcastAndGoto(t, l)
      PROVE  Calm
  <2>1. CASE UNCHANGED pc BY <1>5, <2>1 DEF RecordersStay
  <2>2. ASSUME NEW l \in PCs \ {"tail", "record"}, Goto(t, l) PROVE Calm
    BY <1>1, <1>5, <2>2 DEF Goto, RecordersStay
  <2>3. ASSUME NEW l \in PCs \ {"tail", "record"}, BroadcastAndGoto(t, l) PROVE Calm
    BY <1>1, <1>5, <2>3 DEF BroadcastAndGoto, RecordersStay
  <2> QED BY <1>5, <2>1, <2>2, <2>3
<1> HIDE DEF Calm
<1>6. ASSUME NEW t \in Pid, pc' = [pc EXCEPT ![t] = IF t = 1 THEN "check" ELSE "tail"],
             fate' = [fate EXCEPT ![t] = Exited(0)]
      PROVE  \A u \in Pid : pc'[u] = "tail" => fate'[u] = Exited(0)
  BY <1>1, <1>3, <1>6
<1>7. ASSUME NEW t \in Pid, yos_fork_pump(t) PROVE Accounted'
  <2> DEFINE c == loc[t].want
  <2>1. PICK s \in Slot :
          /\ procs[s].pid = c
          /\ \/ /\ procs' = [procs EXCEPT ![s].state = "RUNNING"]
                /\ pc' = [pc EXCEPT ![t] = "run", ![c] = "new"]
                /\ proc' = [proc EXCEPT ![c] = s]
                /\ \E a : loc' = [loc EXCEPT ![t] = NoLocals, ![c] = a]
                /\ UNCHANGED fate
             \/ /\ procs' = [procs EXCEPT ![s].state = "FREE"]
                /\ pc' = [pc EXCEPT ![t] = IF t = 1 THEN "check" ELSE "tail"]
                /\ fate' = [fate EXCEPT ![t] = Exited(0)]
                /\ loc' = [loc EXCEPT ![t] = NoLocals]
                /\ UNCHANGED proc
    BY <1>7 DEF yos_fork_pump, yos_proc_find, FallOff, Goto
  <2>2. pc[t] = "forking" /\ pc[t] \in Acting /\ UNCHANGED <<nextPid, reports, torn>>
    BY <1>7 DEF yos_fork_pump, Acting, Guest
  <2>3. procs[s].state = "READY" /\ c \in Pid /\ pc[c] = "none"
    <3>1. PICK q \in Slot : procs[q].pid = c /\ procs[q].state = "READY"
      BY <2>2 DEF Owned, ReadyUnstarted
    <3>2. procs[q].pid \in Pid /\ pc[c] = "none" BY <3>1 DEF Owned, ReadyUnstarted
    <3> QED BY <2>1, <3>1, <3>2, Constants DEF Owned, PidsUnique
  <2> HIDE DEF c
  <2>4. \A q \in Slot \ {s} : procs'[q] = procs[q] BY <1>1, <2>1
  <2>5. /\ procs'[s].pid = procs[s].pid /\ procs'[s].code = procs[s].code
        /\ procs'[s].tsig = procs[s].tsig
        /\ procs'[s].state = "RUNNING" \/ procs'[s].state = "FREE"
    <3>1. procs[s] \in ProcType BY <1>1
    <3>2. \A st \in {"RUNNING", "FREE"} :
            LET r == [procs[s] EXCEPT !.state = st]
            IN  r.pid = procs[s].pid /\ r.code = procs[s].code /\ r.tsig = procs[s].tsig
                /\ r.state = st
      BY <3>1 DEF ProcType
    <3>3. \E st \in {"RUNNING", "FREE"} : procs'[s] = [procs[s] EXCEPT !.state = st]
      BY <1>1, <2>1
    <3> QED BY <3>2, <3>3
  <2>6. Exited(0) # Alive BY FatesDiffer
  <2>7. \A p \in Pid : fate'[p] = fate[p] \/ (pc[p] \in Acting /\ fate'[p] # Alive)
    BY <1>1, <2>1, <2>2, <2>6
  <2>8. \A u \in Pid : pc'[u] = "tail" => fate'[u] = Exited(0)
    <3>1. CASE fate' = [fate EXCEPT ![t] = Exited(0)]
                 /\ pc' = [pc EXCEPT ![t] = IF t = 1 THEN "check" ELSE "tail"]
      BY <1>6, <3>1
    <3>2. CASE UNCHANGED fate /\ pc' = [pc EXCEPT ![t] = "run", ![c] = "new"]
      BY <1>1, <1>3, <3>2
    <3> QED BY <2>1, <3>1, <3>2
  <2>9. RecordersStay
    <3>1. CASE /\ pc' = [pc EXCEPT ![t] = "run", ![c] = "new"]
               /\ proc' = [proc EXCEPT ![c] = s]
               /\ \E a : loc' = [loc EXCEPT ![t] = NoLocals, ![c] = a]
      BY <1>1, <2>2, <2>3, <3>1 DEF RecordersStay
    <3>2. CASE /\ pc' = [pc EXCEPT ![t] = IF t = 1 THEN "check" ELSE "tail"]
               /\ loc' = [loc EXCEPT ![t] = NoLocals]
               /\ UNCHANGED proc
      BY <1>1, <2>2, <3>2 DEF RecordersStay
    <3> QED BY <2>1, <3>1, <3>2
  <2>10. Recorded => ~Recording(s) BY <2>3 DEF Recorded, Recording
  <2>11. Reported'
    BY <2>2, <2>3, <2>4, <2>5, <2>7, <2>8, KeepsReported DEF Accounted
  <2>12. ASSUME Recorded PROVE Recorded'
    <3>1. ~Recording(s) BY <2>10, <2>12
    <3>2. \A q \in Slot :
            \/ /\ procs'[q].pid = procs[q].pid
               /\ procs'[q].code = procs[q].code /\ procs'[q].tsig = procs[q].tsig
               /\ procs'[q].state = "FREE" <=> procs[q].state = "FREE"
               /\ procs'[q].state = "ZOMBIE" <=> procs[q].state = "ZOMBIE"
            \/ procs'[q].state = "FREE" /\ ~Recording(q)
      <4> TAKE q \in Slot
      <4>1. CASE q = s BY <2>3, <2>5, <3>1, <4>1
      <4>2. CASE q # s BY <2>4, <4>2
      <4> QED BY <4>1, <4>2
    <3>3. Reported BY DEF Accounted
    <3> QED BY <1>0, <2>2, <2>7, <2>9, <2>12, <3>2, <3>3, KeepsRecorded
  <2> QED BY <2>2, <2>11, <2>12 DEF Accounted
<1>8. ASSUME NEW t \in Pid, fork_thread_func(t) PROVE Accounted'
  <2>1. UNCHANGED <<nextPid, reports, fate, torn, proc>>
    BY <1>8 DEF fork_thread_func, histVars, ctxVars
  <2>2. {"inherit", "run", "freed"} \subseteq PCs \ {"tail", "record"}
    BY DEF PCs, Starting, Guest, Ended
  <2>3. Calm
    <3>1. pc[t] # "record" BY <1>8 DEF fork_thread_func, Starting
    <3>2. \A u \in Pid \ {t} : loc'[u] = loc[u] BY <1>1, <1>8 DEF fork_thread_func
    <3>3. \E l \in {"inherit", "run", "freed"} : Goto(t, l) BY <1>8 DEF fork_thread_func
    <3> QED BY <1>5, <2>1, <2>2, <3>1, <3>2, <3>3
  <2>4. CASE UNCHANGED procs BY <1>4, <2>1, <2>3, <2>4
  <2>5. CASE procs' = [procs EXCEPT ![proc[t]].ctx = t]
    <3> DEFINE r == [procs[proc[t]] EXCEPT !.ctx = t]
               q == procs[proc[t]]
    <3>1. r.pid = q.pid /\ r.state = q.state /\ r.code = q.code /\ r.tsig = q.tsig
      BY <1>2 DEF ProcType
    <3>2. procs' = [procs EXCEPT ![proc[t]] = r] BY <1>1, <2>5
    <3> HIDE DEF r
    <3>3. \A s \in Slot : /\ procs'[s].pid = procs[s].pid /\ procs'[s].state = procs[s].state
                          /\ procs'[s].code = procs[s].code /\ procs'[s].tsig = procs[s].tsig
      BY <1>1, <1>2, <3>1, <3>2
    <3>4. \A u \in Pid : pc'[u] = "tail" => fate'[u] = Exited(0)
      BY <1>3, <2>1, <2>3 DEF Calm
    <3>5. RecordersStay BY <2>3 DEF Calm
    <3> QED BY <1>0, <2>1, <3>3, <3>4, <3>5, KeepsAccounted
  <2> QED BY <1>8, <2>4, <2>5 DEF fork_thread_func
<1>9. ASSUME NEW t \in Pid, NEW c \in ExitCodes, yos_exit(t, c) PROVE Accounted'
  <2>1. pc[t] \in Acting BY <1>9 DEF yos_exit, Acting, Guest
  <2>2. Live(proc[t]) BY <2>1 DEF Owned, ActingOwns, Live
  <2>3. c \in Nat BY Constants
  <2>4. /\ MarkZombie(t, c, None, "ids") /\ fate' = [fate EXCEPT ![t] = Exited(c)]
        /\ UNCHANGED <<nextPid, proc, reports, torn>>
    BY <1>9, <2>2 DEF yos_exit, ctxVars
  <2> QED BY <1>0, <2>1, <2>3, <2>4, MarkAccounted
<1>10. ASSUME NEW t \in Pid, Return(t) PROVE Accounted'
  <2>1. pc[t] = "run" /\ pc[t] \in Acting BY <1>10 DEF Return, Acting, Guest
  <2>2. \A u \in Pid : pc'[u] = "tail" => fate'[u] = Exited(0)
    BY <1>6, <1>10 DEF Return, FallOff, Goto
  <2>3. Exited(0) # Alive BY FatesDiffer
  <2>4. \A p \in Pid : fate'[p] = fate[p] \/ (pc[p] \in Acting /\ fate'[p] # Alive)
    BY <1>1, <1>10, <2>1, <2>3 DEF Return
  <2>5. UNCHANGED <<procs, nextPid, proc, loc, reports, torn>> BY <1>10 DEF Return, ctxVars
  <2>6. RecordersStay BY <1>1, <1>10, <2>1, <2>5 DEF Return, FallOff, Goto, RecordersStay
  <2> QED BY <1>0, <2>2, <2>4, <2>5, <2>6, KeepsAccounted
<1>11. ASSUME NEW t \in Pid, NEW g \in Signals, NEW n \in {"ids", "gone"}, MarkZombie(t, 0, g, n),
              pc[t] \in {"run", "pump", "deliver"}, fate' = [fate EXCEPT ![t] = Signaled(g)],
              UNCHANGED <<nextPid, proc, reports, torn>>
       PROVE  Accounted'
  <2>1. pc[t] \in Acting BY <1>11 DEF Acting, Guest
  <2>2. g # None BY DEF Signals, SIGHUP, SIGKILL, SIGCHLD, None
  <2> QED BY <1>0, <1>11, <2>1, <2>2, MarkAccounted
<1>12. ASSUME NEW t \in Pid, yos_signal_pump(t) PROVE Accounted'
  <2>1. pc[t] \in {"run", "pump", "deliver"} /\ UNCHANGED <<nextPid, proc, reports, torn>>
    BY <1>12 DEF yos_signal_pump
  <2>2. CASE MarkZombie(t, 0, SIGKILL, "gone") /\ fate' = [fate EXCEPT ![t] = Signaled(SIGKILL)]
    BY <1>11, <2>1, <2>2 DEF Signals
  <2>3. ASSUME NEW g \in pend[t], invoke_signal_handler(t, g) PROVE Accounted'
    <3>1. g \in Signals BY <1>0 DEF TypeOK
    <3>2. CASE UNCHANGED <<procs, fate, pc, loc>>
      <4>1. Calm BY <1>5, <2>1, <3>2
      <4> QED BY <1>4, <2>1, <3>2, <4>1
    <3>3. CASE MarkZombie(t, 0, g, "ids") /\ fate' = [fate EXCEPT ![t] = Signaled(g)]
      BY <1>11, <2>1, <3>1, <3>3
    <3> QED BY <2>3, <3>2, <3>3 DEF invoke_signal_handler
  <2>4. CASE Goto(t, "deliver") /\ UNCHANGED <<procs, loc, fate>>
    <3>1. "deliver" \in PCs \ {"tail", "record"} BY DEF PCs, Guest
    <3>2. Calm BY <1>5, <2>1, <2>4, <3>1
    <3> QED BY <1>4, <2>1, <2>4, <3>2
  <2> QED BY <1>12, <2>2, <2>3, <2>4 DEF yos_signal_pump
<1>13. ASSUME NEW t \in Pid, PumpReturns(t) \/ yos_execve(t)
                \/ (\E b \in BOOLEAN : IgnoreSigchld(t, b))
                \/ (\E p \in Pid, g \in KillSigs : yos_kill(t, p, g)) \/ KillDelivers(t)
       PROVE  Accounted'
  <2>1. UNCHANGED <<procs, nextPid, reports, fate, torn, proc>> /\ pc[t] \in {"run", "pump", "kill", "deliver"}
    BY <1>13 DEF PumpReturns, yos_execve, IgnoreSigchld, yos_kill, KillDelivers, histVars,
                 ctxVars
  <2>2. /\ UNCHANGED pc \/ Goto(t, "run") \/ Goto(t, "kill") \/ Goto(t, "pump")
        /\ \A u \in Pid \ {t} : loc'[u] = loc[u]
    BY <1>1, <1>13 DEF PumpReturns, yos_execve, IgnoreSigchld, yos_kill, KillDelivers
  <2>3. {"run", "kill", "pump"} \subseteq PCs \ {"tail", "record"} BY DEF PCs, Guest
  <2>4. Calm BY <1>5, <2>1, <2>2, <2>3
  <2> QED BY <1>4, <2>1, <2>4
<1>14. ASSUME NEW t \in Pid, ReadIds(t) \/ ReadOrphaned(t) \/ HupFinds(t) \/ HupDelivers(t)
                \/ PtyFinds(t) \/ PtyDelivers(t) \/ Leave(t)
       PROVE  Accounted'
  <2>1. UNCHANGED <<procs, nextPid, reports, fate, torn, proc>> /\ pc[t] \in Cleaning
    BY <1>14 DEF ReadIds, ReadOrphaned, HupFinds, HupDelivers, PtyFinds, PtyDelivers,
                 Leave, histVars, ctxVars, Cleaning
  <2>2. UNCHANGED pc \/ \E l \in Cleaning \cup {"gone", "down"} :
                          Goto(t, l) \/ BroadcastAndGoto(t, l)
    BY <1>14 DEF ReadIds, ReadOrphaned, HupFinds, HupDelivers, PtyFinds,
                 PtyDelivers, Leave, Cleaning
  <2>3. Cleaning \cup {"gone", "down"} \subseteq PCs \ {"tail", "record"}
    BY DEF PCs, Ended, Cleaning
  <2>4. \A u \in Pid \ {t} : loc'[u] = loc[u]
    BY <1>1, <1>14 DEF ReadIds, ReadOrphaned, HupFinds, HupDelivers, PtyFinds,
                       PtyDelivers, Leave
  <2>5. pc[t] # "record" BY <2>1 DEF Cleaning
  <2>6. Calm BY <1>5, <2>1, <2>2, <2>3, <2>4, <2>5
  <2> QED BY <1>4, <2>1, <2>6
<1>15. ASSUME NEW t \in Pid, CleanTable(t) PROVE Accounted'
  <2>1. \A s \in Slot : /\ procs'[s].pid = procs[s].pid
                        /\ procs'[s].code = procs[s].code /\ procs'[s].tsig = procs[s].tsig
                        /\ \/ procs'[s].state = procs[s].state
                           \/ procs[s].state = "ZOMBIE" /\ procs'[s].state = "FREE"
    BY <1>1, <1>2, <1>15, CleanType
  <2>2. UNCHANGED <<nextPid, reports, fate, proc>> /\ pc[t] = "table"
    BY <1>15 DEF CleanTable, ctxVars
  <2>3. "hup" \in PCs \ {"tail", "record"} BY DEF PCs, Cleaning
  <2>4. \A u \in Pid \ {t} : loc'[u] = loc[u] BY <1>1, <1>15 DEF CleanTable
  <2>5. Calm BY <1>5, <1>15, <2>2, <2>3, <2>4 DEF CleanTable
  <2>6. \A u \in Pid : pc'[u] = "tail" => fate'[u] = Exited(0) BY <1>3, <2>2, <2>5 DEF Calm
  <2>7. Reported' BY <2>1, <2>2, <2>6, KeepsReported DEF Accounted
  <2>8. \A s \in Slot \ {proc[t]} : procs'[s].state = procs[s].state
    BY <1>1, <1>2, <1>15, CleanType
  <2>9. ~torn' => ~torn /\ (procs'[proc[t]].state = procs[proc[t]].state \/ ~Recording(proc[t]))
    BY <1>15 DEF CleanTable
  <2>10. ASSUME Recorded, procs'[proc[t]].state = procs[proc[t]].state \/ ~Recording(proc[t])
         PROVE  Recorded'
    <3>1. \A s \in Slot : procs'[s].state = procs[s].state \/ ~Recording(s)
      BY <2>8, <2>10
    <3>2. RecordersStay BY <2>5 DEF Calm
    <3>3. Reported BY DEF Accounted
    <3> QED BY <1>0, <2>1, <2>2, <2>10, <3>1, <3>2, <3>3, KeepsRecorded
  <2> QED BY <2>7, <2>9, <2>10 DEF Accounted
<1>16. ASSUME NEW t \in Pid, NEW w \in Pid \cup {None}, yos_waitpid(t, w) PROVE Accounted'
  <2>1. UNCHANGED <<nextPid, proc, fate>> /\ pc[t] = "run" BY <1>16 DEF yos_waitpid, ctxVars
  <2>2. CASE (\E s \in find_zombie_child(procs[proc[t]].pid, w) : Reap(s)) /\ UNCHANGED <<pc, loc>>
    <3>1. PICK s \in Slot : procs[s].state = "ZOMBIE" /\ Reap(s)
      BY <2>2 DEF find_zombie_child
    <3>2. Calm BY <1>5, <2>1, <2>2
    <3> QED BY <1>0, <2>1, <3>1, <3>2, ReapAccounted DEF Calm
  <2>3. CASE /\ Goto(t, "wait") /\ \A u \in Pid \ {t} : loc'[u] = loc[u]
             /\ UNCHANGED <<procs, reports, torn>>
    <3>1. "wait" \in PCs \ {"tail", "record"} BY DEF PCs, Guest
    <3>2. Calm BY <1>5, <2>1, <2>3, <3>1
    <3> QED BY <1>4, <2>1, <2>3, <3>2
  <2> QED BY <1>1, <1>16, <2>2, <2>3 DEF yos_waitpid
<1>17. ASSUME NEW t \in Pid, WaitPolls(t) PROVE Accounted'
  <2>1. PICK s \in Slot : procs[s].state = "ZOMBIE" /\ Reap(s)
    BY <1>17 DEF WaitPolls, find_zombie_child
  <2>2. "run" \in PCs \ {"tail", "record"} BY DEF PCs, Guest
  <2>3. /\ pc[t] = "wait" /\ UNCHANGED <<nextPid, proc, fate>> /\ Goto(t, "run")
        /\ \A u \in Pid \ {t} : loc'[u] = loc[u]
    BY <1>1, <1>17 DEF WaitPolls, ctxVars
  <2>4. Calm BY <1>5, <2>2, <2>3
  <2> QED BY <1>0, <2>1, <2>3, <2>4, ReapAccounted DEF Calm
<1>18. CASE ShutdownCheck
  <2>1. {"sleep", "down"} \subseteq PCs \ {"tail", "record"} BY DEF PCs
  <2>2. /\ pc[1] = "check" /\ UNCHANGED <<procs, nextPid, reports, fate, torn, proc, loc>>
        /\ Goto(1, "sleep") \/ Goto(1, "down")
    BY <1>18 DEF ShutdownCheck, ctxVars, histVars
  <2>3. Calm BY <1>5, <2>1, <2>2, Constants
  <2> QED BY <1>4, <2>2, <2>3
<1>19. CASE UNCHANGED vars
  <2>1. UNCHANGED <<procs, nextPid, reports, fate, torn, proc, loc, pc>>
    BY <1>19 DEF vars, histVars, ctxVars
  <2>2. Calm BY <2>1 DEF Calm, RecordersStay
  <2> QED BY <1>4, <2>1, <2>2
<1>20. ASSUME NEW t \in Pid PROVE ~Trap(t) /\ ~ExecLoadFails(t)
  BY DEF Trap, ExecLoadFails
<1> QED
  BY <1>0, <1>7, <1>8, <1>9, <1>10, <1>12, <1>13, <1>14, <1>15, <1>16, <1>17, <1>18, <1>19,
     <1>20, ForkAccounted, TailAccounted, RecordAccounted
  DEF Next, HostStep, GuestStep

\* waitpid hands out each process at most once, and only one that has ended.
THEOREM WaitReapsOnce ==
  ASSUME Trappers = {}
  PROVE  Spec => []ReapsOnce
<1>1. Owned /\ Accounted /\ [Next]_vars => (Owned /\ Accounted)'
  BY OwnedStep, AccountedStep
<1>2. Accounted => ReapsOnce BY DEF Accounted, Reported
<1> QED BY <1>1, <1>2, OwnedInit, AccountedInit, PTL DEF Spec

\* waitpid reports what really ended the process: the argument of exit(), the
\* terminating signal, or 0 when _start returned; as long as no slot is freed
\* before its status has been stored.
THEOREM WaitReportsFate ==
  ASSUME Trappers = {}
  PROVE  Spec => []ReportsFate
<1>1. Owned /\ Accounted /\ [Next]_vars => (Owned /\ Accounted)'
  BY OwnedStep, AccountedStep
<1>2. Accounted => ReportsFate BY DEF Accounted, Recorded, StatusObserved, ReportsFate
<1> QED BY <1>1, <1>2, OwnedInit, AccountedInit, PTL DEF Spec


----------------------------------------------------------------------------
(* The process table implements Lifecycle *)

\* A process in the table has a thread; a thread polls for its own children;
\* the slot a fork has taken is its caller's child, or init's by now.
Placed ==
  /\ \A s \in Slot : Occupied(s) => procs[s].pid \in Pid /\ pc[procs[s].pid] # "none"
  /\ \A t \in Pid : pc[t] = "wait" => loc[t].me = t
  /\ \A t \in Pid : pc[t] = "forking" =>
       \A s \in Slot : procs[s].pid = loc[t].want => procs[s].ppid \in {t, 1}

Mapped == Owned /\ Accounted /\ Placed

\* No thread starts or forks, and one that goes to poll does so for itself.
Calm ==
  \A u \in Pid :
    /\ pc'[u] = "none" <=> pc[u] = "none"
    /\ pc'[u] = "wait" => (pc[u] = "wait" /\ loc'[u] = loc[u]) \/ loc'[u].me = u
    /\ pc'[u] = "forking" => pc[u] = "forking" /\ loc'[u] = loc[u]

\* What of a slot the abstract process shows.
SameSlot(s) ==
  /\ procs'[s].pid = procs[s].pid
  /\ procs'[s].state = procs[s].state
  /\ procs'[s].ppid = procs[s].ppid

----------------------------------------------------------------------------

\* Most steps of a thread are calm.
LEMMA CalmStep ==
  ASSUME TypeOK, NEW t \in Pid, pc[t] # "none",
         \A u \in Pid \ {t} : loc'[u] = loc[u],
         \/ UNCHANGED pc /\ (pc[t] \in {"wait", "forking"} => loc'[t] = loc[t])
         \/ \E l \in PCs \ {"none", "wait", "forking"} : Goto(t, l) \/ BroadcastAndGoto(t, l)
  PROVE  Calm
<1>1. pc \in [Pid -> PCs] BY DEF TypeOK
<1>2. CASE UNCHANGED pc /\ (pc[t] \in {"wait", "forking"} => loc'[t] = loc[t])
  BY <1>2 DEF Calm
<1>3. ASSUME NEW l \in PCs \ {"none", "wait", "forking"}, Goto(t, l) \/ BroadcastAndGoto(t, l)
      PROVE  Calm
  <2>1. pc'[t] = l BY <1>1, <1>3 DEF Goto, BroadcastAndGoto
  <2>2. \A u \in Pid \ {t} : pc'[u] = pc[u] \/ (pc[u] = "sleep" /\ pc'[u] = "check")
    BY <1>1, <1>3 DEF Goto, BroadcastAndGoto
  <2> QED BY <2>1, <2>2 DEF Calm
<1> QED BY <1>2, <1>3

\* A calm step that fills no slot keeps everybody placed.
LEMMA PlacedKept ==
  ASSUME Owned, Placed, Calm,
         \A s \in Slot : /\ procs'[s].pid = procs[s].pid
                         /\ procs'[s].ppid \in {procs[s].ppid, 1}
                         /\ Occupied(s)' => Occupied(s)
  PROVE  Placed'
<1>1. \A s \in Slot : Occupied(s)' => procs'[s].pid \in Pid /\ pc'[procs'[s].pid] # "none"
  BY DEF Placed, Calm
<1>2. \A t \in Pid : pc'[t] = "wait" => loc'[t].me = t BY DEF Placed, Calm
<1>3. \A t \in Pid : pc'[t] = "forking" =>
        \A s \in Slot : procs'[s].pid = loc'[t].want => procs'[s].ppid \in {t, 1}
  BY DEF Placed, Calm
<1> QED BY <1>1, <1>2, <1>3 DEF Placed

\* A process in the table is where its slot says.
Shown(s) ==
  /\ procs[s].pid \in Pid
  /\ InTable(procs[s].pid) = {s}
  /\ Lives[procs[s].pid] = IF procs[s].state = "RUNNING" THEN "alive" ELSE "ended"
  /\ Parents[procs[s].pid] = {procs[s].ppid}
AllShown == \A s \in Slot : Occupied(s) => Shown(s)

\* Slots do say where their processes are.
LEMMA Located == Owned /\ Placed => AllShown
<1> SUFFICES ASSUME Owned, Placed, NEW s \in Slot, Occupied(s) PROVE Shown(s)
  BY DEF AllShown
<1> DEFINE p == procs[s].pid
<1>1. p \in Pid /\ pc[p] # "none" /\ p # None BY Constants DEF Placed
<1>2. InTable(p) = {s} BY <1>1 DEF InTable, Owned, PidsUnique
<1>3. LifeOf(p) = IF procs[s].state = "RUNNING" THEN "alive" ELSE "ended"
  BY <1>1, <1>2 DEF LifeOf
<1>4. Parents[p] = {procs[s].ppid} BY <1>1, <1>2 DEF Parents
<1> QED BY <1>1, <1>2, <1>3, <1>4 DEF Lives, Shown

\* Where nothing that shows has changed, nothing has happened.
LEMMA Elsewhere ==
  ASSUME NEW p \in Pid, pc'[p] = "none" <=> pc[p] = "none", reports'[p] = reports[p],
         \A s \in Slot : procs[s].pid = p \/ procs'[s].pid = p =>
           SameSlot(s) \/ (~Occupied(s) /\ ~Occupied(s)')
  PROVE  Lives'[p] = Lives[p] /\ Parents'[p] = Parents[p]
<1>1. InTable(p)' = InTable(p) BY DEF InTable, SameSlot, Occupied
<1>2. \A s \in InTable(p) : SameSlot(s) BY DEF InTable
<1>3. LifeOf(p)' = LifeOf(p)
  <2>1. (\E s \in InTable(p)' : procs'[s].state = "RUNNING")
          <=> (\E s \in InTable(p) : procs[s].state = "RUNNING")
    BY <1>1, <1>2 DEF SameSlot
  <2> QED BY <1>1, <2>1 DEF LifeOf
<1>4. {procs'[s].ppid : s \in InTable(p)'} = {procs[s].ppid : s \in InTable(p)}
  BY <1>1, <1>2 DEF SameSlot
<1> QED BY <1>3, <1>4 DEF Lives, Parents

----------------------------------------------------------------------------
(* The steps *)

LifeSame == Lives' = Lives /\ Parents' = Parents

\* A step that shows in no slot is a stuttering step.
LEMMA Stutters ==
  ASSUME \A p \in Pid : pc'[p] = "none" <=> pc[p] = "none", UNCHANGED reports,
         \A s \in Slot : SameSlot(s) \/ (~Occupied(s) /\ ~Occupied(s)')
  PROVE  LifeSame
<1>1. \A p \in Pid : Lives'[p] = Lives[p] /\ Parents'[p] = Parents[p] BY Elsewhere
<1> QED BY <1>1 DEF LifeSame, Lives, Parents

\* A calm step that leaves the slots alone is one.
LEMMA QuietMaps ==
  ASSUME Mapped, Calm, UNCHANGED reports, \A s \in Slot : SameSlot(s)
  PROVE  Placed' /\ LifeSame
<1>1. Placed' BY PlacedKept DEF Mapped, SameSlot, Occupied
<1>2. LifeSame BY Stutters DEF Calm
<1> QED BY <1>1, <1>2

\* A thread that makes its slot a zombie ends its process.
LEMMA EndMaps ==
  ASSUME Mapped, Owned', Calm, UNCHANGED reports, NEW s \in Slot,
         procs[s].state = "RUNNING", procs'[s].state = "ZOMBIE",
         procs'[s].pid = procs[s].pid, procs'[s].ppid = procs[s].ppid,
         \A r \in Slot \ {s} : procs'[r] = procs[r]
  PROVE  Placed' /\ Life!Next
<1> DEFINE p == procs[s].pid
<1>1. Placed' BY PlacedKept DEF Mapped, Occupied
<1>2. Occupied(s) /\ Occupied(s)' BY DEF Occupied
<1>3. p \in Pid /\ Lives[p] = "alive" /\ Parents[p] = {procs[s].ppid}
  BY <1>2, Located DEF Mapped, AllShown, Shown
<1>4. Lives'[p] = "ended" /\ Parents'[p] = Parents[p]
  <2>1. (Owned /\ Placed => AllShown)' BY Located, PTL
  <2>2. Shown(s)' BY <1>1, <1>2, <2>1 DEF AllShown
  <2> QED BY <1>3, <2>2 DEF Shown
<1>5. \A q \in Pid \ {p} : Lives'[q] = Lives[q] /\ Parents'[q] = Parents[q]
  BY Elsewhere DEF Calm, SameSlot
<1>6. Lives' = [Lives EXCEPT ![p] = "ended"] BY <1>3, <1>4, <1>5 DEF Lives
<1>7. Parents' = Parents BY <1>3, <1>4, <1>5 DEF Parents
<1>8. Lives' # Lives BY <1>3, <1>4
<1>9. Life!End(p) BY <1>3, <1>6, <1>7 DEF Life!End
<1> QED BY <1>1, <1>3, <1>8, <1>9 DEF Life!Next, Life!vars

\* Reaping a zombie child of the running process q reports it.
LEMMA ReapMaps ==
  ASSUME Mapped, Owned', Calm, NEW s \in Slot, NEW q \in Pid,
         pc[q] \in Acting, procs[s].ppid = q, procs[s].state = "ZOMBIE", Reap(s)
  PROVE  Placed' /\ Life!Next
<1>p. PICK p \in Pid : p = procs[s].pid BY DEF Mapped, Placed, Occupied
<1> DEFINE f == [procs[s] EXCEPT !.state = "FREE"]
<1>0. TypeOK /\ procs[s] \in ProcType /\ reports \in [Pid -> Seq(Nat)]
  BY DEF Mapped, Owned, TypeOK
<1>1. f.pid = p /\ f.ppid = procs[s].ppid /\ f.state = "FREE" BY <1>0, <1>p DEF ProcType
<1>2. Rewrites(s, f) BY <1>0, ReapType
<1> HIDE DEF f
<1>3. Occupied(s) /\ ~Occupied(s)' /\ procs'[s].pid = p /\ procs'[s].ppid = procs[s].ppid
  BY <1>1, <1>2 DEF Occupied, Rewrites
<1>4. \A r \in Slot \ {s} : procs'[r] = procs[r] BY <1>2 DEF Rewrites
<1>5. Placed' BY <1>p, <1>3, <1>4, PlacedKept DEF Mapped, Occupied
<1>6. InTable(p) = {s} /\ Lives[p] = "ended" /\ Parents[p] = {q}
  BY <1>p, <1>3, Located DEF Mapped, AllShown, Shown
<1>7. /\ reports'[p] # <<>>
      /\ \A o \in Pid \ {p} : reports'[o] = reports[o]
  <2> DEFINE w == StatusWord(procs[s].code, procs[s].tsig)
  <2>1. w \in Nat BY <1>0, StatusWordNat DEF ProcType
  <2>2. reports' = [reports EXCEPT ![p] = Append(reports[p], w)] BY <1>p DEF Reap
  <2> HIDE DEF w
  <2>3. \A v \in Seq(Nat) : Append(v, w) # <<>> BY <2>1
  <2>4. reports[p] \in Seq(Nat) BY <1>0
  <2> QED BY <1>0, <2>2, <2>3, <2>4
<1>8. Lives'[p] = "reported" /\ Parents'[p] = {}
  <2>1. \A r \in Slot : procs[r].pid = p => r = s
    BY <1>p, Constants DEF Mapped, Owned, PidsUnique
  <2>2. InTable(p)' = {} BY <1>3, <1>4, <2>1 DEF InTable
  <2>3. pc'[p] # "none" BY <1>p, <1>3 DEF Calm, Mapped, Placed
  <2>4. LifeOf(p)' = "reported" BY <1>7, <2>2, <2>3 DEF LifeOf
  <2> QED BY <1>6, <2>2, <2>4 DEF Lives, Parents
<1>9. \A o \in Pid \ {p} : Lives'[o] = Lives[o] /\ Parents'[o] = Parents[o]
  BY <1>p, <1>3, <1>4, <1>7, Elsewhere DEF Calm, SameSlot
<1>10. Lives' = [Lives EXCEPT ![p] = "reported"] BY <1>6, <1>8, <1>9 DEF Lives
<1>11. Parents' = [Parents EXCEPT ![p] = {}] BY <1>6, <1>8, <1>9 DEF Parents
<1>12. Lives[q] = "alive"
  <2>1. proc[q] \in Slot /\ procs[proc[q]].pid = q /\ procs[proc[q]].state = "RUNNING"
    BY DEF Mapped, Owned, TypeOK, ActingOwns
  <2> QED BY <2>1, Located DEF Mapped, Occupied, AllShown, Shown
<1>13. Lives' # Lives BY <1>6, <1>8
<1>14. Life!Report(p) BY <1>6, <1>10, <1>11, <1>12 DEF Life!Report
<1> QED BY <1>5, <1>6, <1>13, <1>14 DEF Life!Next, Life!vars


\* fork's first entry takes a slot, which does not show yet.
LEMMA ForkMaps ==
  ASSUME Mapped, Owned', NEW t \in Pid, yos_fork(t)
  PROVE  Placed' /\ LifeSame
<1>0. /\ procs \in [Slot -> ProcType] /\ pc \in [Pid -> PCs] /\ loc \in [Pid -> LocalType]
      /\ pc[t] = "run" /\ UNCHANGED <<proc, reports>>
  BY DEF Mapped, Owned, TypeOK, yos_fork, ctxVars, histVars
<1>1. procs[proc[t]].pid = t BY <1>0 DEF Mapped, Owned, ActingOwns, Acting, Guest
<1>2. PICK s \in Slot :
        /\ procs[s].state = "FREE"
        /\ procs' = [procs EXCEPT ![s] = [FreeProc EXCEPT !.state = "READY",
                        !.pid = nextPid, !.ppid = procs[proc[t]].pid]]
  BY DEF yos_fork, yos_proc_alloc
<1>3. procs'[s].state = "READY" /\ procs'[s].pid = nextPid /\ procs'[s].ppid = t
  BY <1>0, <1>1, <1>2 DEF FreeProc
<1>4. \A r \in Slot \ {s} : procs'[r] = procs[r] BY <1>0, <1>2
<1>5. pc' = [pc EXCEPT ![t] = "forking"] BY DEF yos_fork, Goto
<1>6. /\ loc'[t].want = nextPid
      /\ \A u \in Pid \ {t} : loc'[u] = loc[u]
  <2>1. loc' = [loc EXCEPT ![t] = [loc[t] EXCEPT !.want = nextPid]]
    BY <1>0 DEF yos_fork
  <2>2. [loc[t] EXCEPT !.want = nextPid].want = nextPid BY <1>0 DEF LocalType
  <2> QED BY <1>0, <2>1, <2>2
<1>7. \A r \in Slot : procs[r].pid # nextPid
  <2>1. \A r \in Slot : procs[r].pid < nextPid BY DEF Mapped, Owned, PidsFresh
  <2>2. \A r \in Slot : procs[r].pid \in Nat BY <1>0 DEF ProcType, Pid, None
  <2> QED BY <2>1, <2>2
<1>8. LifeSame
  <2>1. ~Occupied(s) /\ ~Occupied(s)' BY <1>2, <1>3 DEF Occupied
  <2>2. \A r \in Slot \ {s} : SameSlot(r) BY <1>4 DEF SameSlot
  <2>3. \A p \in Pid : pc'[p] = "none" <=> pc[p] = "none" BY <1>0, <1>5
  <2> QED BY <1>0, <2>1, <2>2, <2>3, Stutters
<1>9. Placed'
  <2>1. \A r \in Slot : Occupied(r)' => procs'[r].pid \in Pid /\ pc'[procs'[r].pid] # "none"
    BY <1>0, <1>3, <1>4, <1>5 DEF Mapped, Placed, Occupied
  <2>2. \A u \in Pid : pc'[u] = "wait" => loc'[u].me = u
    BY <1>0, <1>5, <1>6 DEF Mapped, Placed
  <2>3. ASSUME NEW u \in Pid, pc'[u] = "forking", NEW r \in Slot, procs'[r].pid = loc'[u].want
        PROVE  procs'[r].ppid \in {u, 1}
    <3>1. CASE u = t
      <4>1. r = s BY <1>4, <1>6, <1>7, <2>3, <3>1
      <4> QED BY <1>3, <3>1, <4>1
    <3>2. CASE u # t
      <4>1. pc[u] = "forking" /\ loc'[u] = loc[u] BY <1>0, <1>5, <1>6, <2>3, <3>2
      <4>2. loc[u].want # nextPid
        BY <1>7, <4>1 DEF Mapped, Owned, ReadyUnstarted
      <4>3. r # s BY <1>3, <2>3, <4>1, <4>2
      <4> QED BY <1>4, <2>3, <4>1, <4>3 DEF Mapped, Placed
    <3> QED BY <3>1, <3>2
  <2> QED BY <2>1, <2>2, <2>3 DEF Placed
<1> QED BY <1>8, <1>9

\* fork's second entry starts the child's thread, and a process is born; or it
\* gives back the slot, which has never shown.
LEMMA SpawnMaps ==
  ASSUME Mapped, Owned', NEW t \in Pid, yos_fork_pump(t)
  PROVE  Placed' /\ (Life!Next \/ LifeSame)
<1>0. /\ procs \in [Slot -> ProcType] /\ pc \in [Pid -> PCs] /\ loc \in [Pid -> LocalType]
      /\ pc[t] = "forking" /\ UNCHANGED reports
  BY DEF Mapped, Owned, TypeOK, yos_fork_pump
<1>1. PICK q \in Slot : procs[q].pid = loc[t].want /\ procs[q].state = "READY"
  BY <1>0 DEF Mapped, Owned, ReadyUnstarted
<1>2. PICK c \in Pid : c = loc[t].want /\ pc[c] = "none"
  BY <1>1 DEF Mapped, Owned, ReadyUnstarted
<1>3. PICK s \in Slot :
        /\ procs[s].pid = c
        /\ \/ /\ procs' = [procs EXCEPT ![s].state = "RUNNING"]
              /\ pc' = [pc EXCEPT ![t] = "run", ![c] = "new"]
              /\ \E a : loc' = [loc EXCEPT ![t] = NoLocals, ![c] = a]
           \/ /\ procs' = [procs EXCEPT ![s].state = "FREE"]
              /\ pc' = [pc EXCEPT ![t] = IF t = 1 THEN "check" ELSE "tail"]
              /\ loc' = [loc EXCEPT ![t] = NoLocals]
  BY <1>2 DEF yos_fork_pump, yos_proc_find, FallOff, Goto
<1>4. s = q /\ procs[s].state = "READY" /\ c # t /\ procs[s] \in ProcType
  BY <1>0, <1>1, <1>2, <1>3, Constants DEF Mapped, Owned, PidsUnique
<1>5. \A r \in Slot \ {s} : procs'[r] = procs[r] BY <1>0, <1>3
<1>6. \A r \in Slot : procs[r].pid = c => r = s
  BY <1>3, Constants DEF Mapped, Owned, PidsUnique
<1>7. CASE /\ procs' = [procs EXCEPT ![s].state = "RUNNING"]
           /\ pc' = [pc EXCEPT ![t] = "run", ![c] = "new"]
           /\ \E a : loc' = [loc EXCEPT ![t] = NoLocals, ![c] = a]
  <2> DEFINE n == [procs[s] EXCEPT !.state = "RUNNING"]
  <2>1. n.pid = c /\ n.state = "RUNNING" /\ n.ppid = procs[s].ppid
    BY <1>3, <1>4 DEF ProcType
  <2>2. procs' = [procs EXCEPT ![s] = n] BY <1>0, <1>7
  <2> HIDE DEF n
  <2>3. procs'[s].pid = c /\ procs'[s].state = "RUNNING" /\ procs'[s].ppid = procs[s].ppid
    BY <1>0, <2>1, <2>2
  <2>4. \A u \in Pid \ {t, c} : pc'[u] = pc[u] /\ loc'[u] = loc[u] BY <1>0, <1>7
  <2>5. pc'[t] = "run" /\ pc'[c] = "new" BY <1>0, <1>4, <1>7
  <2>6. Placed'
    <3>1. \A r \in Slot : Occupied(r)' => procs'[r].pid \in Pid /\ pc'[procs'[r].pid] # "none"
      BY <1>5, <2>3, <2>4, <2>5 DEF Mapped, Placed, Occupied
    <3>2. \A u \in Pid : pc'[u] = "wait" => loc'[u].me = u
      BY <2>4, <2>5 DEF Mapped, Placed
    <3>3. \A r \in Slot : procs'[r].pid = procs[r].pid /\ procs'[r].ppid = procs[r].ppid
      BY <1>3, <1>5, <2>3
    <3>4. \A u \in Pid : pc'[u] = "forking" => pc[u] = "forking" /\ loc'[u] = loc[u]
      BY <2>4, <2>5
    <3>5. \A u \in Pid : pc'[u] = "forking" =>
            \A r \in Slot : procs'[r].pid = loc'[u].want => procs'[r].ppid \in {u, 1}
      BY <3>3, <3>4 DEF Mapped, Placed
    <3> QED BY <3>1, <3>2, <3>5 DEF Placed
  <2>7. Lives[c] = "unborn" BY <1>2 DEF Lives, LifeOf
  <2>8. Lives'[c] = "alive" /\ Parents'[c] = {procs[s].ppid}
    <3>1. (Owned /\ Placed => AllShown)' BY Located, PTL
    <3>2. Shown(s)' BY <2>3, <2>6, <3>1 DEF AllShown, Occupied
    <3> QED BY <2>3, <3>2 DEF Shown
  <2>9. \A p \in Pid \ {c} : Lives'[p] = Lives[p] /\ Parents'[p] = Parents[p]
    <3>1. \A p \in Pid \ {c} : pc'[p] = "none" <=> pc[p] = "none"
      BY <1>0, <2>4, <2>5
    <3> QED BY <1>0, <1>3, <1>5, <2>3, <3>1, Elsewhere DEF SameSlot
  <2>10. Lives' = [Lives EXCEPT ![c] = "alive"] BY <2>8, <2>9 DEF Lives
  <2>11. Parents' = [Parents EXCEPT ![c] = {procs[s].ppid}] BY <2>8, <2>9 DEF Parents
  <2>12. procs[s].ppid \in {t, 1} BY <1>0, <1>2, <1>3 DEF Mapped, Placed
  <2>13. Lives[t] = "alive"
    <3>1. proc[t] \in Slot /\ procs[proc[t]].pid = t /\ procs[proc[t]].state = "RUNNING"
      BY <1>0 DEF Mapped, Owned, TypeOK, ActingOwns, Acting, Guest
    <3> QED BY <3>1, Located DEF Mapped, Occupied, AllShown, Shown
  <2>14. Lives' # Lives BY <2>7, <2>8
  <2>15. Life!Spawn(c) BY <2>7, <2>10, <2>11, <2>12, <2>13 DEF Life!Spawn
  <2> QED BY <2>6, <2>14, <2>15 DEF Life!Next, Life!vars
<1>8. CASE /\ procs' = [procs EXCEPT ![s].state = "FREE"]
           /\ pc' = [pc EXCEPT ![t] = IF t = 1 THEN "check" ELSE "tail"]
           /\ loc' = [loc EXCEPT ![t] = NoLocals]
  <2> DEFINE n == [procs[s] EXCEPT !.state = "FREE"]
  <2>1. n.pid = c /\ n.state = "FREE" /\ n.ppid = procs[s].ppid
    BY <1>3, <1>4 DEF ProcType
  <2>2. procs' = [procs EXCEPT ![s] = n] BY <1>0, <1>8
  <2> HIDE DEF n
  <2>3. procs'[s].pid = c /\ procs'[s].state = "FREE" /\ procs'[s].ppid = procs[s].ppid
    BY <1>0, <2>1, <2>2
  <2>4. ~Occupied(s) /\ ~Occupied(s)' BY <1>4, <2>3 DEF Occupied
  <2>5. Calm BY <1>0, <1>8 DEF Calm
  <2>6. Placed' BY <1>3, <1>5, <2>3, <2>4, <2>5, PlacedKept DEF Mapped, Occupied
  <2>7. \A r \in Slot \ {s} : SameSlot(r) BY <1>5 DEF SameSlot
  <2>8. LifeSame BY <1>0, <2>4, <2>5, <2>7, Stutters DEF Calm
  <2> QED BY <2>6, <2>8
<1> QED BY <1>3, <1>7, <1>8

\* What the locked section of post_exit_cleanup does to the parents, too.
LEMMA CleanShows ==
  ASSUME TypeOK, NEW t \in Pid, CleanTable(t)
  PROVE  \A s \in Slot :
           /\ procs'[s].pid = procs[s].pid
           /\ procs'[s].ppid = (IF s \in Orphans(loc[t].me) THEN 1 ELSE procs[s].ppid)
           /\ \/ procs'[s].state = procs[s].state
              \/ procs[s].state = "ZOMBIE" /\ procs'[s].state = "FREE" /\ s = proc[t]
<1>0. procs \in [Slot -> ProcType] /\ proc[t] \in Slot BY DEF TypeOK
<1> DEFINE R == Reparented(loc[t].me)
<1>1. \A s \in Slot : procs[s] \in ProcType BY <1>0
<1>2. \A s \in Slot : [procs[s] EXCEPT !.ppid = 1, !.orphaned = TRUE] \in ProcType
  BY <1>1, ReparentedRecord
<1>3. R \in [Slot -> ProcType] BY <1>0, <1>2 DEF Reparented
<1>4. \A s \in Slot : R[s].ppid = IF s \in Orphans(loc[t].me) THEN 1 ELSE procs[s].ppid
  <2>1. \A s \in Slot : [procs[s] EXCEPT !.ppid = 1, !.orphaned = TRUE].ppid = 1
    BY <1>0 DEF ProcType
  <2> QED BY <2>1 DEF Reparented
<1>5. procs' = R \/ procs' = AutoReaped(R, proc[t]) BY DEF CleanTable
<1> HIDE DEF R
<1>6. \A s \in Slot : procs'[s].ppid = R[s].ppid
  <2>1. CASE procs' = R BY <2>1
  <2>2. CASE procs' = AutoReaped(R, proc[t])
    <3> DEFINE r == R[proc[t]]
               z == r.state = "ZOMBIE"
               n == [r EXCEPT !.state = IF z THEN "FREE" ELSE r.state,
                              !.ctx = IF z THEN None ELSE r.ctx]
    <3>1. r \in ProcType BY <1>0, <1>3
    <3>2. procs' = [R EXCEPT ![proc[t]] = n] BY <1>3, <2>2 DEF AutoReaped
    <3>3. n.ppid = r.ppid BY <3>1 DEF ProcType
    <3> HIDE DEF n
    <3> QED BY <1>0, <1>3, <3>2, <3>3
  <2> QED BY <1>5, <2>1, <2>2
<1>7. \A s \in Slot :
        /\ procs'[s].pid = procs[s].pid
        /\ \/ procs'[s].state = procs[s].state
           \/ procs[s].state = "ZOMBIE" /\ procs'[s].state = "FREE" /\ s = proc[t]
  BY <1>0, CleanType
<1> QED BY <1>4, <1>6, <1>7

\* That section hands processes to init, and discards the one whose slot it
\* frees.
LEMMA CleanMaps ==
  ASSUME Mapped, Owned', NEW t \in Pid, CleanTable(t)
  PROVE  Placed' /\ (Life!Next \/ LifeSame)
<1>0. TypeOK /\ pc[t] = "table" /\ Goto(t, "hup") /\ UNCHANGED reports
      /\ loc \in [Pid -> LocalType] /\ proc[t] \in Slot
  BY DEF Mapped, Owned, TypeOK, CleanTable
<1>1. \A u \in Pid \ {t} : loc'[u] = loc[u] BY <1>0 DEF CleanTable
<1>2. Calm
  <2>1. "hup" \in PCs \ {"none", "wait", "forking"} BY DEF PCs, Cleaning
  <2> QED BY <1>0, <1>1, <2>1, CalmStep
<1>3. \A s \in Slot :
        /\ procs'[s].pid = procs[s].pid
        /\ procs'[s].ppid = (IF s \in Orphans(loc[t].me) THEN 1 ELSE procs[s].ppid)
        /\ \/ procs'[s].state = procs[s].state
           \/ procs[s].state = "ZOMBIE" /\ procs'[s].state = "FREE" /\ s = proc[t]
  BY <1>0, CleanShows
<1>4. Placed' BY <1>2, <1>3, PlacedKept DEF Mapped, Occupied
<1>5. AllShown BY Located DEF Mapped
<1>6. AllShown'
  <2>1. (Owned /\ Placed => AllShown)' BY Located, PTL
  <2> QED BY <1>4, <2>1
<1> DEFINE O == {p \in Pid : /\ InTable(p) # {} /\ Parents[p] # {1}
                             /\ InTable(p) \subseteq Orphans(loc[t].me)}
<1>7. \A s \in Slot : Occupied(s)' => Occupied(s) /\ Occupied(s)' /\ procs'[s].state = procs[s].state
  BY <1>3 DEF Occupied
<1>8. O \in SUBSET Life!Adoptable
  <2> SUFFICES ASSUME NEW p \in O PROVE Lives[p] \in {"alive", "ended"}
    BY DEF Life!Adoptable
  <2>1. PICK s \in Slot : procs[s].pid = p /\ Occupied(s) BY DEF InTable
  <2> QED BY <1>5, <2>1 DEF AllShown, Shown
<1>9. ASSUME NEW p \in Pid, NEW s \in Slot, procs[s].pid = p, Occupied(s), Occupied(s)'
      PROVE  Lives'[p] = Lives[p] /\ Parents'[p] = (IF p \in O THEN {1} ELSE Parents[p])
  <2>1. Shown(s) /\ Shown(s)' BY <1>5, <1>6, <1>9 DEF AllShown
  <2>2. procs'[s].pid = p /\ procs'[s].state = procs[s].state BY <1>3, <1>7, <1>9
  <2>3. Lives'[p] = Lives[p] BY <1>9, <2>1, <2>2 DEF Shown
  <2>4. Parents[p] = {procs[s].ppid} /\ Parents'[p] = {procs'[s].ppid} /\ InTable(p) = {s}
    BY <1>9, <2>1, <2>2 DEF Shown
  <2>5. p \in O <=> s \in Orphans(loc[t].me) /\ Parents[p] # {1} BY <2>4
  <2> QED BY <1>3, <2>3, <2>4, <2>5
<1>10. ASSUME NEW p \in Pid, InTable(p) = {}
       PROVE  Lives'[p] = Lives[p] /\ Parents'[p] = Parents[p] /\ p \notin O
  <2>1. \A s \in Slot : procs[s].pid = p \/ procs'[s].pid = p => ~Occupied(s) /\ ~Occupied(s)'
    BY <1>3, <1>7, <1>10 DEF InTable
  <2> QED BY <1>0, <1>2, <1>10, <2>1, Elsewhere DEF Calm
<1> HIDE DEF O
<1>11. CASE \A s \in Slot : Occupied(s) => Occupied(s)'
  <2>1. \A p \in Pid : Lives'[p] = Lives[p] /\ Parents'[p] = IF p \in O THEN {1} ELSE Parents[p]
    BY <1>9, <1>10, <1>11 DEF InTable
  <2>2. Lives' = Lives BY <2>1 DEF Lives
  <2>3. Parents' = [p \in Pid |-> IF p \in O THEN {1} ELSE Parents[p]] BY <2>1 DEF Parents
  <2>4. CASE Parents' = Parents BY <1>4, <2>2, <2>4 DEF LifeSame
  <2>5. CASE Parents' # Parents
    <3>1. O # {} BY <2>1, <2>5 DEF Parents
    <3>2. Life!Inherit(O) BY <2>2, <2>3, <3>1 DEF Life!Inherit
    <3> QED BY <1>4, <1>8, <2>5, <3>2 DEF Life!Next, Life!vars
  <2> QED BY <2>4, <2>5
<1>12. CASE \E s \in Slot : Occupied(s) /\ ~Occupied(s)'
  <2>1. PICK s \in Slot : Occupied(s) /\ ~Occupied(s)' BY <1>12
  <2>2. /\ procs[s].state = "ZOMBIE" /\ s = proc[t]
        /\ \A r \in Slot \ {s} : Occupied(r) => Occupied(r)'
    BY <1>3, <2>1 DEF Occupied
  <2>3. PICK p \in Pid : /\ p = procs[s].pid /\ Lives[p] = "ended" /\ InTable(p) = {s}
                         /\ pc[p] # "none"
    BY <1>5, <2>1, <2>2 DEF AllShown, Shown, Mapped, Placed
  <2>4. reports'[p] = <<>> BY <1>0, <2>2, <2>3 DEF Mapped, Accounted, Reported
  <2>5. Lives'[p] = "discarded" /\ Parents'[p] = {}
    <3>1. InTable(p)' = {} BY <1>3, <1>7, <2>1, <2>3 DEF InTable
    <3>2. LifeOf(p)' = "discarded" BY <1>2, <2>3, <2>4, <3>1 DEF LifeOf, Calm
    <3> QED BY <3>1, <3>2 DEF Lives, Parents
  <2>6. \A q \in Pid \ {p} :
          Lives'[q] = Lives[q] /\ Parents'[q] = IF q \in O THEN {1} ELSE Parents[q]
    BY <1>9, <1>10, <2>2, <2>3 DEF InTable
  <2>7. Lives' = [Lives EXCEPT ![p] = "discarded"] BY <2>5, <2>6 DEF Lives
  <2>8. Parents' = [q \in Pid |-> IF q = p THEN {} ELSE IF q \in O THEN {1} ELSE Parents[q]]
    BY <2>5, <2>6 DEF Parents
  <2>9. Life!Discard(p, O) BY <2>3, <2>7, <2>8 DEF Life!Discard
  <2>10. Lives' # Lives BY <2>3, <2>5
  <2> QED BY <1>4, <1>8, <2>9, <2>10 DEF Life!Next, Life!vars
<1> QED BY <1>11, <1>12

\* A thread that ends its process, by exit, by a signal or at its tail.
LEMMA MarkMaps ==
  ASSUME Mapped, Owned', NEW t \in Pid, pc[t] \in Acting, UNCHANGED reports,
         NEW c \in Nat, NEW g \in Signals \cup {None}, NEW n \in {"ids", "tail", "gone"},
         MarkZombie(t, c, g, n)
  PROVE  Placed' /\ Life!Next
<1>0. TypeOK /\ proc[t] \in Slot /\ procs[proc[t]] \in ProcType
      /\ procs[proc[t]].state = "RUNNING" /\ pc[t] # "none"
  BY DEF Mapped, Owned, TypeOK, ActingOwns, Acting, Starting, Guest
<1> DEFINE r == [procs[proc[t]] EXCEPT !.state = "ZOMBIE"]
<1>1. r.pid = procs[proc[t]].pid /\ r.ppid = procs[proc[t]].ppid /\ r.state = "ZOMBIE"
  BY <1>0 DEF ProcType
<1>2. Rewrites(proc[t], r) BY <1>0, MarkType
<1> HIDE DEF r
<1>3. Calm
  <2>1. "record" \in PCs \ {"none", "wait", "forking"} BY DEF PCs
  <2>2. Goto(t, "record") BY DEF MarkZombie
  <2>3. \A u \in Pid \ {t} : loc'[u] = loc[u] BY <1>0, MarkMoves
  <2> QED BY <1>0, <2>1, <2>2, <2>3, CalmStep
<1>4. PICK s \in Slot : s = proc[t] BY <1>0
<1> QED BY <1>0, <1>1, <1>2, <1>3, <1>4, EndMaps DEF Rewrites

\* Every step of the process table is a step of a process's life, or none.
LEMMA LifeStep ==
  ASSUME Trappers = {}, Mapped, [Next]_vars
  PROVE  Placed' /\ (Life!Next \/ LifeSame)
<1>0. TypeOK /\ Owned /\ Owned' BY OwnedStep DEF Mapped, Owned
<1>1. /\ procs \in [Slot -> ProcType] /\ pc \in [Pid -> PCs]
      /\ loc \in [Pid -> LocalType] /\ proc \in [Pid -> Slot]
  BY <1>0 DEF TypeOK
<1>2. \A t \in Pid : proc[t] \in Slot /\ procs[proc[t]] \in ProcType BY <1>1
<1>3. ASSUME Calm, UNCHANGED <<procs, reports>> PROVE Placed' /\ LifeSame
  BY <1>3, QuietMaps DEF SameSlot
<1>4. ASSUME NEW t \in Pid, fork_thread_func(t) PROVE Placed' /\ LifeSame
  <2>1. /\ pc[t] \in Starting /\ UNCHANGED reports
        /\ Goto(t, "inherit") \/ Goto(t, "run") \/ Goto(t, "freed")
        /\ \A u \in Pid \ {t} : loc'[u] = loc[u]
    BY <1>1, <1>4 DEF fork_thread_func, histVars, Starting
  <2>2. {"inherit", "run", "freed"} \subseteq PCs \ {"none", "wait", "forking"}
    BY DEF PCs, Starting, Guest, Ended
  <2>3. Calm BY <1>0, <2>1, <2>2, CalmStep DEF Starting
  <2>4. CASE UNCHANGED procs BY <1>3, <2>1, <2>3, <2>4
  <2>5. CASE procs' = [procs EXCEPT ![proc[t]].ctx = t]
    <3> DEFINE r == [procs[proc[t]] EXCEPT !.ctx = t]
    <3>1. /\ r.pid = procs[proc[t]].pid /\ r.state = procs[proc[t]].state
          /\ r.ppid = procs[proc[t]].ppid
      BY <1>2 DEF ProcType
    <3>2. procs' = [procs EXCEPT ![proc[t]] = r] BY <1>1, <2>5
    <3> HIDE DEF r
    <3>3. \A s \in Slot : SameSlot(s) BY <1>1, <1>2, <3>1, <3>2 DEF SameSlot
    <3> QED BY <2>1, <2>3, <3>3, QuietMaps
  <2> QED BY <1>4, <2>4, <2>5 DEF fork_thread_func
<1>5. ASSUME NEW t \in Pid, NEW c \in ExitCodes, yos_exit(t, c) PROVE Placed' /\ Life!Next
  <2>1. pc[t] \in Acting /\ UNCHANGED reports BY <1>5 DEF yos_exit, Acting, Guest
  <2>2. Live(proc[t]) BY <1>0, <2>1 DEF Owned, ActingOwns, Live
  <2>3. MarkZombie(t, c, None, "ids") BY <1>5, <2>2 DEF yos_exit
  <2>4. c \in Nat BY Constants
  <2> QED BY <1>0, <2>1, <2>3, <2>4, MarkMaps
<1>6. ASSUME NEW t \in Pid, Return(t) PROVE Placed' /\ LifeSame
  <2>1. {"check", "tail"} \subseteq PCs \ {"none", "wait", "forking"} BY DEF PCs
  <2>2. Calm BY <1>0, <1>6, <2>1, CalmStep DEF Return, FallOff
  <2> QED BY <1>3, <1>6, <2>2 DEF Return
<1>7. ASSUME NEW t \in Pid, ThreadEnds(t) PROVE Placed' /\ Life!Next
  <2> DEFINE r == [procs[proc[t]] EXCEPT !.state = "ZOMBIE", !.code = 0]
  <2>1. /\ pc[t] = "tail" /\ UNCHANGED <<loc, reports>> /\ BroadcastAndGoto(t, "freed")
    BY <1>7 DEF ThreadEnds, histVars
  <2>2. procs[proc[t]].state = "RUNNING" BY <1>0, <2>1 DEF Owned, ActingOwns, Acting
  <2>3. r.pid = procs[proc[t]].pid /\ r.ppid = procs[proc[t]].ppid /\ r.state = "ZOMBIE"
    BY <1>2 DEF ProcType
  <2>4. procs' = [procs EXCEPT ![proc[t]] = r] BY <1>1, <1>7, <2>2 DEF ThreadEnds, Live
  <2> HIDE DEF r
  <2>5. "freed" \in PCs \ {"none", "wait", "forking"} BY DEF PCs, Ended
  <2>6. Calm BY <1>0, <2>1, <2>5, CalmStep
  <2>7. PICK s \in Slot : s = proc[t] BY <1>2
  <2> QED BY <1>0, <1>1, <2>1, <2>2, <2>3, <2>4, <2>6, <2>7, EndMaps
<1>8. ASSUME NEW t \in Pid, yos_signal_pump(t) PROVE Placed' /\ (Life!Next \/ LifeSame)
  <2>1. pc[t] \in {"run", "pump", "deliver"} /\ UNCHANGED reports
    BY <1>8 DEF yos_signal_pump
  <2>2. pc[t] \in Acting BY <2>1 DEF Acting, Guest
  <2>3. CASE MarkZombie(t, 0, SIGKILL, "gone")
    BY <1>0, <2>1, <2>2, <2>3, MarkMaps DEF Signals
  <2>4. ASSUME NEW g \in pend[t], invoke_signal_handler(t, g)
        PROVE  Placed' /\ (Life!Next \/ LifeSame)
    <3>1. g \in Signals BY <1>0 DEF TypeOK
    <3>2. CASE UNCHANGED <<procs, fate, pc, loc>>
      <4>1. Calm BY <3>2 DEF Calm
      <4> QED BY <1>3, <2>1, <3>2, <4>1
    <3>3. CASE MarkZombie(t, 0, g, "ids") BY <1>0, <2>1, <2>2, <3>1, <3>3, MarkMaps
    <3> QED BY <2>4, <3>2, <3>3 DEF invoke_signal_handler
  <2>5. CASE Goto(t, "deliver") /\ UNCHANGED <<procs, loc>>
    <3>1. "deliver" \in PCs \ {"none", "wait", "forking"} BY DEF PCs, Guest
    <3>2. Calm BY <1>0, <2>1, <2>5, <3>1, CalmStep
    <3> QED BY <1>3, <2>1, <2>5, <3>2
  <2> QED BY <1>8, <2>3, <2>4, <2>5 DEF yos_signal_pump
<1>9. ASSUME NEW t \in Pid, PumpReturns(t) \/ yos_execve(t)
               \/ (\E b \in BOOLEAN : IgnoreSigchld(t, b))
               \/ (\E p \in Pid, g \in KillSigs : yos_kill(t, p, g)) \/ KillDelivers(t)
      PROVE  Placed' /\ LifeSame
  <2>1. pc[t] \in {"run", "pump", "kill", "deliver"} /\ UNCHANGED <<procs, reports>>
    BY <1>9 DEF PumpReturns, yos_execve, IgnoreSigchld, yos_kill, KillDelivers, histVars
  <2>2. /\ UNCHANGED pc \/ Goto(t, "run") \/ Goto(t, "kill") \/ Goto(t, "pump")
        /\ \A u \in Pid \ {t} : loc'[u] = loc[u]
    BY <1>1, <1>9 DEF PumpReturns, yos_execve, IgnoreSigchld, yos_kill, KillDelivers
  <2>3. {"run", "kill", "pump"} \subseteq PCs \ {"none", "wait", "forking"} BY DEF PCs, Guest
  <2>4. Calm BY <1>0, <2>1, <2>2, <2>3, CalmStep
  <2> QED BY <1>3, <2>1, <2>4
<1>10. ASSUME NEW t \in Pid, ReadIds(t) \/ ReadOrphaned(t) \/ HupFinds(t) \/ HupDelivers(t)
                \/ PtyFinds(t) \/ PtyDelivers(t) \/ Leave(t)
       PROVE  Placed' /\ LifeSame
  <2>1. pc[t] \in Cleaning /\ UNCHANGED <<procs, reports>>
    BY <1>10 DEF ReadIds, ReadOrphaned, HupFinds, HupDelivers, PtyFinds, PtyDelivers,
                 Leave, histVars, Cleaning
  <2>2. \A u \in Pid \ {t} : loc'[u] = loc[u]
    BY <1>1, <1>10 DEF ReadIds, ReadOrphaned, HupFinds, HupDelivers, PtyFinds,
                       PtyDelivers, Leave
  <2>3. UNCHANGED pc \/ \E l \in Cleaning \cup {"gone", "down"} :
                          Goto(t, l) \/ BroadcastAndGoto(t, l)
    BY <1>10 DEF ReadIds, ReadOrphaned, HupFinds, HupDelivers, PtyFinds,
                 PtyDelivers, Leave, Cleaning
  <2>4. Cleaning \cup {"gone", "down"} \subseteq PCs \ {"none", "wait", "forking"}
    BY DEF PCs, Ended, Cleaning
  <2>5. pc[t] \notin {"none", "wait", "forking"} BY <2>1 DEF Cleaning
  <2>6. Calm BY <1>0, <2>2, <2>3, <2>4, <2>5, CalmStep
  <2> QED BY <1>3, <2>1, <2>6
<1>11. ASSUME NEW t \in Pid, RecordStatus(t) PROVE Placed' /\ LifeSame
  <2>1. pc[t] = "record" /\ UNCHANGED reports /\ Goto(t, AfterRecord(t))
        /\ \A u \in Pid \ {t} : loc'[u] = loc[u]
    BY <1>1, <1>11 DEF RecordStatus, histVars
  <2>2. loc[t].next \in {"ids", "tail", "gone"} BY <1>1 DEF LocalType
  <2>3. AfterRecord(t) \in PCs \ {"none", "wait", "forking"}
    BY <2>2 DEF AfterRecord, PCs, Cleaning, Ended
  <2>4. Calm BY <1>0, <2>1, <2>3, CalmStep
  <2>5. \A s \in Slot : SameSlot(s)
    <3> DEFINE r == RecordedIn(procs[proc[t]], loc[t].code, loc[t].sig)
    <3>1. procs' = [procs EXCEPT ![proc[t]] = r] BY <1>1, <1>2, <1>11 DEF RecordStatus, RecordedIn
    <3>2. /\ r.pid = procs[proc[t]].pid /\ r.state = procs[proc[t]].state
          /\ r.ppid = procs[proc[t]].ppid
      BY <1>2 DEF ProcType, RecordedIn
    <3> HIDE DEF r
    <3> QED BY <1>1, <1>2, <3>1, <3>2 DEF SameSlot
  <2> QED BY <2>1, <2>4, <2>5, QuietMaps
<1>12. ASSUME NEW t \in Pid, NEW w \in Pid \cup {None}, yos_waitpid(t, w)
       PROVE  Placed' /\ (Life!Next \/ LifeSame)
  <2>1. pc[t] = "run" /\ pc[t] \in Acting BY <1>12 DEF yos_waitpid, Acting, Guest
  <2>2. procs[proc[t]].pid = t BY <1>0, <2>1 DEF Owned, ActingOwns
  <2>3. CASE (\E s \in find_zombie_child(t, w) : Reap(s)) /\ UNCHANGED <<pc, loc>>
    <3>1. PICK s \in Slot : procs[s].ppid = t /\ procs[s].state = "ZOMBIE" /\ Reap(s)
      BY <2>3 DEF find_zombie_child, Child
    <3>2. Calm BY <2>3 DEF Calm
    <3> QED BY <1>0, <2>1, <3>1, <3>2, ReapMaps
  <2>4. CASE /\ loc' = [loc EXCEPT ![t] = [NoLocals EXCEPT !.me = t, !.want = w]]
             /\ Goto(t, "wait") /\ UNCHANGED <<procs, reports>>
    <3> DEFINE l == [NoLocals EXCEPT !.me = t, !.want = w]
    <3>1. l.me = t BY DEF NoLocals
    <3> HIDE DEF l
    <3>2. loc'[t].me = t /\ \A u \in Pid \ {t} : loc'[u] = loc[u] BY <1>1, <2>4, <3>1 DEF l
    <3>3. Calm BY <1>1, <2>1, <2>4, <3>2 DEF Calm, Goto
    <3> QED BY <1>3, <2>4, <3>3
  <2> QED BY <1>12, <2>2, <2>3, <2>4 DEF yos_waitpid
<1>13. ASSUME NEW t \in Pid, WaitPolls(t) PROVE Placed' /\ Life!Next
  <2>1. pc[t] = "wait" /\ pc[t] \in Acting /\ loc[t].me = t
    BY <1>13 DEF WaitPolls, Acting, Guest, Mapped, Placed
  <2>2. PICK s \in Slot : procs[s].ppid = t /\ procs[s].state = "ZOMBIE" /\ Reap(s)
    BY <1>13, <2>1 DEF WaitPolls, find_zombie_child, Child
  <2>3. Goto(t, "run") /\ \A u \in Pid \ {t} : loc'[u] = loc[u]
    BY <1>1, <1>13 DEF WaitPolls
  <2>4. "run" \in PCs \ {"none", "wait", "forking"} BY DEF PCs, Guest
  <2>5. Calm BY <1>0, <2>1, <2>3, <2>4, CalmStep
  <2> QED BY <1>0, <2>1, <2>2, <2>5, ReapMaps
<1>14. CASE ShutdownCheck
  <2>1. 1 \in Pid /\ pc[1] = "check" /\ UNCHANGED <<procs, loc, reports>>
    BY <1>14, Constants DEF ShutdownCheck, histVars
  <2>2. {"sleep", "down"} \subseteq PCs \ {"none", "wait", "forking"} BY DEF PCs
  <2>3. Goto(1, "sleep") \/ Goto(1, "down") BY <1>14 DEF ShutdownCheck
  <2>4. Calm BY <1>0, <2>1, <2>2, <2>3, CalmStep
  <2> QED BY <1>3, <2>1, <2>4
<1>15. CASE UNCHANGED vars
  <2>1. UNCHANGED <<procs, reports, pc, loc>> BY <1>15 DEF vars, histVars
  <2>2. Calm BY <2>1 DEF Calm
  <2> QED BY <1>3, <2>1, <2>2
<1>16. ASSUME NEW t \in Pid PROVE ~Trap(t) /\ ~ExecLoadFails(t)
  BY DEF Trap, ExecLoadFails
<1> QED
  BY <1>0, <1>4, <1>5, <1>6, <1>7, <1>8, <1>9, <1>10, <1>11, <1>12, <1>13, <1>14, <1>15,
     <1>16, ForkMaps, SpawnMaps, CleanMaps
  DEF Next, HostStep, GuestStep

\* Initially pid 1 is alive and nobody else has been born.
LEMMA LifeInit == Init => Placed /\ Life!Init
<1> SUFFICES ASSUME Init PROVE Placed /\ Life!Init OBVIOUS
<1>1. \A s \in Slot :
        /\ s = 1 => procs[s].pid = 1 /\ procs[s].state = "RUNNING" /\ procs[s].ppid = 0
        /\ s # 1 => procs[s].pid = None /\ procs[s].state = "FREE"
  BY DEF Init, FreeProc, None
<1>2. \A t \in Pid : pc[t] = IF t = 1 THEN "run" ELSE "none" BY DEF Init
<1>3. Placed BY <1>1, <1>2, Constants DEF Placed, Occupied
<1>4. AllShown BY <1>3, Located, OwnedInit
<1>5. 1 \in Slot /\ 1 \in Pid /\ Occupied(1) BY <1>1, Constants DEF Occupied
<1>6. Lives[1] = "alive" /\ Parents[1] = {0} BY <1>1, <1>4, <1>5 DEF AllShown, Shown
<1>7. \A p \in Pid \ {1} : Lives[p] = "unborn" BY <1>2 DEF Lives, LifeOf
<1>8. \A p \in Pid \ {1} : Parents[p] = {}
  <2>1. \A p \in Pid \ {1} : InTable(p) = {} BY <1>1 DEF InTable, Occupied
  <2> QED BY <2>1 DEF Parents
<1>9. Lives = [p \in Pid |-> IF p = 1 THEN "alive" ELSE "unborn"]
  BY <1>6, <1>7 DEF Lives
<1>10. Parents = [p \in Pid |-> IF p = 1 THEN {0} ELSE {}] BY <1>6, <1>8 DEF Parents
<1> QED BY <1>3, <1>9, <1>10 DEF Life!Init

\* The process table, with its slots, its threads and the steps they take without
\* a lock, implements the life of a process as the guests see it.
THEOREM TableImplementsLifecycle ==
  ASSUME Trappers = {}
  PROVE  Spec => ImplementsLifecycle
<1>1. Init => Mapped /\ Life!Init BY OwnedInit, AccountedInit, LifeInit DEF Mapped
<1>2. Mapped /\ [Next]_vars => Mapped' BY OwnedStep, AccountedStep, LifeStep DEF Mapped
<1>3. Mapped /\ [Next]_vars => [Life!Next]_(Life!vars)
  BY LifeStep DEF LifeSame, Life!vars
<1> QED BY <1>1, <1>2, <1>3, PTL DEF Spec, ImplementsLifecycle, Life!Spec
=============================================================================
