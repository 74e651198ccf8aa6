----------------------------- MODULE ProcTable -----------------------------
(***************************************************************************)
(* The process table of the yos runtime: impl/proc/proc.c, the terminating *)
(* half of impl/proc/sig.c, and the shutdown wait of main.c.               *)
(*                                                                         *)
(* A guest process is a host pthread that owns an execution context and    *)
(* points, through ctx->proc, at one slot of rt->procs.  Pids are never    *)
(* reused, so a context and its host thread are named here by the pid the  *)
(* process was born with.  Slots are reused, so what a thread finds behind *)
(* ctx->proc is whatever the slot holds by then.  What the code does under *)
(* rt->proc_lock is one step; what it reads or writes outside the lock is  *)
(* a step of its own.                                                      *)
(***************************************************************************)
EXTENDS Integers, Sequences

CONSTANTS
  NSlots,      \* YOS_MAX_PROCS
  MaxPid,      \* bound on rt->next_pid: no pid above it is allocated
  ExitCodes,   \* the arguments guests give to exit()
  KillSigs,    \* the signals guests send with kill(), 0 for a probe
  Killers,     \* the processes whose program calls kill()
  Ignorers,    \* the processes whose program sets SIGCHLD's disposition
  ForkptyPids, \* the processes created through forkpty()
  Trappers,    \* the processes that may trap or exec a module that does not load
  GuestReturns,\* may a guest's _start return without calling exit()?
  HostFails    \* may the host run out of memory or threads in a fork?

SIGHUP  == 1
SIGKILL == 9
SIGCHLD == 20
Signals == {SIGHUP, SIGKILL, SIGCHLD}

ASSUME ConstantsAssumption ==
  /\ NSlots \in Nat \ {0}
  /\ MaxPid \in Nat \ {0}
  /\ ExitCodes \subseteq Nat
  /\ KillSigs \subseteq Signals \cup {0}
  /\ Killers \subseteq Nat /\ Ignorers \subseteq Nat
  /\ ForkptyPids \subseteq Nat /\ Trappers \subseteq Nat
  /\ {GuestReturns, HostFails} \subseteq BOOLEAN

Slot == 1..NSlots
Pid  == 1..MaxPid
None == 0

VARIABLES
  procs,     \* rt->procs, a struct yos_proc per slot
  nextPid,   \* rt->next_pid
  pc,        \* where each host thread is
  proc,      \* ctx->proc: the slot each thread points at
  pend,      \* ctx->sig_pending
  chldIgn,   \* is SIGCHLD in ctx->sig_ignore_mask?
  loc,       \* locals of the call each thread is in
  \* history, read only by the properties
  fate,      \* how each process ended, or Alive
  reports,   \* the statuses waitpid returned for each pid
  killed,    \* the processes for which a SIGKILL was accepted
  announced, \* the pids given to yos_kqueue_notify_exit
  torn       \* has a slot been freed before its status was recorded?

ctxVars  == <<proc, pend, chldIgn>>
histVars == <<fate, reports, killed, announced, torn>>
vars == <<procs, nextPid, pc, ctxVars, loc, histVars>>

(***************************************************************************)
(* The program counters of a host thread:                                  *)
(*   new      fork_thread_func, context not published in the slot yet      *)
(*   inherit  published, the parent's signal state not copied in yet       *)
(*   run      guest code                                                   *)
(*   forking  between yos_fork and yos_fork_pump                           *)
(*   wait     in the polling loop of waitpid                               *)
(*   kill     kill(): target found, signal not delivered yet               *)
(*   pump     kill() of oneself: the pump that runs before kill returns    *)
(*   deliver  in the pump's delivery loop, past its check for SIGKILL      *)
(*   record   the slot says ZOMBIE, the status is not stored in it yet     *)
(*   tail     fork_thread_func after its loop (trap, return, failed exec)  *)
(*   ids, flag, table    post_exit_cleanup, before its unlocked reads of   *)
(*            pid/ppid and of was_orphaned, and before its locked section  *)
(*   hup, huptgt, pty, ptytgt    post_exit_cleanup, signalling             *)
(*   leave    back in the caller of post_exit_cleanup                      *)
(*   notify   yos_exit, before its read of ctx->proc->pid for the kqueues   *)
(*   check, sleep    pid 1 in main's wait for the other processes          *)
(*   gone, freed     the thread has ended; its context leaked or freed     *)
(*   down     the host process has exited (pid 1 only)                     *)
(***************************************************************************)
Starting == {"new", "inherit"}
Guest    == {"run", "forking", "wait", "kill", "pump", "deliver"}
Cleaning == {"ids", "flag", "table", "hup", "huptgt", "pty", "ptytgt",
             "leave", "notify"}
Ended    == {"gone", "freed"}
PCs == Starting \cup Guest \cup Cleaning \cup Ended
         \cup {"none", "record", "tail", "check", "sleep", "down"}

Alive == <<"alive", 0>>
Exited(c)   == <<"exited", c % 256>>
Signaled(g) == <<"signaled", g>>

NoLocals ==
  [me     |-> None,   \* my_pid of waitpid, exiting_pid of post_exit_cleanup
   par    |-> None,   \* parent_pid
   ign    |-> FALSE,  \* parent_ignores_chld
   hups   |-> {},     \* hup_pids not signalled yet
   tgt    |-> 1,      \* the slot yos_proc_find returned
   sig    |-> None,   \* signal argument of kill, or the one that ends the process
   code   |-> 0,      \* the exit code to record
   next   |-> "ids",  \* where the thread goes on once it is recorded
   want   |-> None,   \* pid argument of waitpid (None: any); fork_return
   argPend |-> {},    \* fork_thread_arg: parent_sig_pending
   argIgn |-> FALSE,  \* fork_thread_arg: SIGCHLD in parent_sig_ignore_mask
   notify |-> FALSE]  \* yos_exit, not a signal, is what ends the process

FreeProc ==
  [state |-> "FREE", pid |-> None, ppid |-> None, orphaned |-> FALSE,
   ctx |-> None, code |-> 0, tsig |-> None]

Live(s) == procs[s].state \in {"READY", "RUNNING"}

\* Mutant: the exit code is stored whatever ended the process.
StatusWordNoSignal(c, g) == (c % 256) * 256

\* The status word waitpid stores for the guest.
StatusWord(c, g) == IF g # None THEN g % 128 ELSE (c % 256) * 256

yos_proc_find(p) == {s \in Slot : procs[s].pid = p /\ procs[s].state # "FREE"}

\* Mutant: waitpid of one pid does not ask whose child it is.
ChildByPid(s, p, w) == IF w = None THEN procs[s].ppid = p ELSE procs[s].pid = w

Child(s, p, w) == procs[s].ppid = p /\ (w = None \/ procs[s].pid = w)

has_children(p, w) == \E s \in Slot : Child(s, p, w) /\ procs[s].state # "FREE"

find_zombie_child(p, w) ==
  LET Z == {s \in Slot : Child(s, p, w) /\ procs[s].state = "ZOMBIE"}
  IN  {s \in Z : \A z \in Z : s <= z}

Goto(t, l) == pc' = [pc EXCEPT ![t] = l]

\* pthread_cond_broadcast(any_exit_cond) by thread t on its way to l.
BroadcastAndGoto(t, l) ==
  pc' = [pc EXCEPT ![t] = l, ![1] = IF t # 1 /\ @ = "sleep" THEN "check" ELSE @]

Init ==
  /\ procs = [s \in Slot |->
                IF s = 1 THEN [FreeProc EXCEPT !.state = "RUNNING", !.pid = 1, !.ctx = 1]
                         ELSE FreeProc]
  /\ nextPid = 2
  /\ pc = [t \in Pid |-> IF t = 1 THEN "run" ELSE "none"]
  /\ proc = [t \in Pid |-> 1]
  /\ pend = [t \in Pid |-> {}]
  /\ chldIgn = [t \in Pid |-> FALSE]
  /\ loc = [t \in Pid |-> NoLocals]
  /\ fate = [t \in Pid |-> Alive]
  /\ reports = [t \in Pid |-> <<>>]
  /\ killed = {}
  /\ announced = {}
  /\ torn = FALSE

----------------------------------------------------------------------------
(* fork *)

yos_proc_alloc(parent) ==
  \E s \in Slot :
    /\ procs[s].state = "FREE"
    /\ \A r \in Slot : procs[r].state = "FREE" => s <= r
    /\ procs' = [procs EXCEPT ![s] =
         [FreeProc EXCEPT !.state = "READY", !.pid = nextPid, !.ppid = parent]]
    /\ nextPid' = nextPid + 1

\* First entry: take a slot and unwind.  (A full table is -EAGAIN.)
yos_fork(t) ==
  /\ pc[t] = "run"
  /\ nextPid <= MaxPid
  /\ yos_proc_alloc(procs[proc[t]].pid)
  /\ loc' = [loc EXCEPT ![t].want = nextPid]
  /\ Goto(t, "forking")
  /\ UNCHANGED <<ctxVars, histVars>>

\* Thread t stops running guest code without calling exit(): pid 1 falls into
\* main's wait for the others, a child into the end of fork_thread_func.
FallOff(t) == Goto(t, IF t = 1 THEN "check" ELSE "tail")

\* The unwound parent spawns the child's host thread and rewinds; when the
\* host cannot give it memory or a thread, the slot is freed and the parent,
\* which is never rewound, ends as if its _start had returned.
\* (When pthread_create fails the slot has said RUNNING for a moment.  Only main's
\* shutdown wait tells that from READY, and it sees the parent running anyway.)
yos_fork_pump(t) ==
  /\ pc[t] = "forking"
  /\ \E s \in yos_proc_find(loc[t].want) :
       LET c == loc[t].want
       IN  \/ /\ procs' = [procs EXCEPT ![s].state = "RUNNING"]
              /\ pc' = [pc EXCEPT ![t] = "run", ![c] = "new"]
              /\ proc' = [proc EXCEPT ![c] = s]
              /\ loc' = [loc EXCEPT ![t] = NoLocals,
                           ![c] = [NoLocals EXCEPT !.argPend = pend[t],
                                                   !.argIgn = chldIgn[t]]]
              /\ UNCHANGED fate
           \/ /\ HostFails
              /\ procs' = [procs EXCEPT ![s].state = "FREE"]
              /\ FallOff(t)
              /\ fate' = [fate EXCEPT ![t] = Exited(0)]
              /\ loc' = [loc EXCEPT ![t] = NoLocals]
              /\ UNCHANGED proc
  /\ UNCHANGED <<nextPid, pend, chldIgn, reports, killed, announced, torn>>

\* The child's thread: publish the context, copy in the parent's signal
\* state, then run.  Either half may fail to load the module and just return.
fork_thread_func(t) ==
  /\ \/ /\ pc[t] = "new"
        /\ procs' = [procs EXCEPT ![proc[t]].ctx = t]
        /\ Goto(t, "inherit")
        /\ UNCHANGED <<ctxVars, loc>>
     \/ /\ pc[t] = "inherit"
        /\ pend' = [pend EXCEPT ![t] = loc[t].argPend]
        /\ chldIgn' = [chldIgn EXCEPT ![t] = loc[t].argIgn]
        /\ loc' = [loc EXCEPT ![t] = NoLocals]
        /\ Goto(t, "run")
        /\ UNCHANGED <<procs, proc>>
     \/ /\ HostFails
        /\ pc[t] \in Starting
        /\ loc' = [loc EXCEPT ![t] = NoLocals]
        /\ Goto(t, "freed")
        /\ UNCHANGED <<procs, ctxVars>>
  /\ UNCHANGED <<nextPid, histVars>>

----------------------------------------------------------------------------
(* The ways a process ends *)

\* Thread t's slot becomes a zombie.  With which exit code c, or by which signal
\* g, is stored only after that, and a waitpid may come in between: it holds
\* rt->proc_lock, the thread does not.
MarkZombie(t, c, g, next) ==
  /\ procs' = [procs EXCEPT ![proc[t]].state = "ZOMBIE"]
  /\ loc' = [loc EXCEPT ![t] = [NoLocals EXCEPT !.code = c, !.sig = g, !.next = next]]
  /\ Goto(t, "record")

\* A signal that ends pid 1 ends the host.
AfterRecord(t) ==
  IF loc[t].sig # None /\ procs[proc[t]].pid <= 1 THEN "down" ELSE loc[t].next

\* Is some thread about to store its status in slot s?
Recording(s) == \E t \in Pid : pc[t] = "record" /\ proc[t] = s

RecordStatus(t) ==
  /\ pc[t] = "record"
  /\ procs' = [procs EXCEPT ![proc[t]].code = loc[t].code,
                            ![proc[t]].tsig = IF loc[t].sig = None THEN @ ELSE loc[t].sig]
  /\ loc' = [loc EXCEPT ![t] = [NoLocals EXCEPT !.notify = (loc[t].sig = None)]]
  /\ Goto(t, AfterRecord(t))
  /\ UNCHANGED <<nextPid, ctxVars, histVars>>

yos_exit(t, c) ==
  /\ pc[t] = "run"
  /\ fate' = [fate EXCEPT ![t] = Exited(c)]
  /\ \/ Live(proc[t]) /\ MarkZombie(t, c, None, "ids")
     \/ /\ ~Live(proc[t])
        /\ loc' = [loc EXCEPT ![t] = [NoLocals EXCEPT !.notify = TRUE]]
        /\ Goto(t, "ids")
        /\ UNCHANGED procs
  /\ UNCHANGED <<nextPid, ctxVars, reports, killed, announced, torn>>

Trap(t) ==
  /\ t \in Trappers
  /\ pc[t] = "run"
  /\ fate' = [fate EXCEPT ![t] = Exited(139)]
  /\ \/ t # 1 /\ MarkZombie(t, 139, None, "tail")
     \/ t = 1 /\ FallOff(t) /\ UNCHANGED <<procs, loc>>
  /\ UNCHANGED <<nextPid, ctxVars, reports, killed, announced, torn>>

\* execve succeeded and the module it names then fails to load; pid 1's main
\* returns.
ExecLoadFails(t) ==
  /\ t \in Trappers
  /\ pc[t] = "run"
  /\ fate' = [fate EXCEPT ![t] = Exited(127)]
  /\ pend' = [pend EXCEPT ![t] = {}]
  /\ \/ t # 1 /\ MarkZombie(t, 127, None, "tail")
     \/ t = 1 /\ Goto(t, "down") /\ UNCHANGED <<procs, loc>>
  /\ UNCHANGED <<nextPid, proc, chldIgn, reports, killed, announced, torn>>

\* _start returns although the guest has not called exit().
Return(t) ==
  /\ GuestReturns
  /\ pc[t] = "run"
  /\ FallOff(t)
  /\ fate' = [fate EXCEPT ![t] = Exited(0)]
  /\ UNCHANGED <<procs, nextPid, ctxVars, loc, reports, killed, announced, torn>>

\* Mutant: the slot is marked whatever state it is in.
ThreadEndsUnchecked(t) ==
  /\ pc[t] = "tail"
  /\ procs' = [procs EXCEPT ![proc[t]].state = "ZOMBIE", ![proc[t]].code = 0]
  /\ BroadcastAndGoto(t, "freed")
  /\ UNCHANGED <<nextPid, ctxVars, loc, histVars>>

\* The end of fork_thread_func: mark the slot if it is still live, announce
\* the exit, free the context.  (The broadcast is a locked section of its own,
\* but nobody acts on the time between it and the first one.)
ThreadEnds(t) ==
  /\ pc[t] = "tail"
  /\ procs' = IF Live(proc[t])
                THEN [procs EXCEPT ![proc[t]].state = "ZOMBIE", ![proc[t]].code = 0]
                ELSE procs
  /\ BroadcastAndGoto(t, "freed")
  /\ UNCHANGED <<nextPid, ctxVars, loc, histVars>>

\* Whether a signal has a handler, is ignored or takes its default action is
\* the guest's choice, SIGKILL's too once it gets here; SIGCHLD is ignored by
\* default.
invoke_signal_handler(t, g) ==
  /\ pend' = [pend EXCEPT ![t] = @ \ {g}]
  /\ \/ /\ g # SIGCHLD
        /\ MarkZombie(t, 0, g, "ids")
        /\ fate' = [fate EXCEPT ![t] = Signaled(g)]
     \/ UNCHANGED <<procs, fate, pc, loc>>

\* A SIGKILL that is pending when the pump starts ends the process, which then
\* cleans nothing up; one that arrives later is delivered like any other signal.
yos_signal_pump(t) ==
  /\ \/ /\ pc[t] \in {"run", "pump"}
        /\ SIGKILL \in pend[t]
        /\ MarkZombie(t, 0, SIGKILL, "gone")
        /\ fate' = [fate EXCEPT ![t] = Signaled(SIGKILL)]
        /\ UNCHANGED pend
     \/ /\ pc[t] \in {"run", "pump"}
        /\ SIGKILL \notin pend[t]
        /\ Goto(t, "deliver")
        /\ UNCHANGED <<procs, loc, fate, pend>>
     \/ /\ pc[t] = "deliver"
        /\ \E g \in pend[t] : invoke_signal_handler(t, g)
  /\ UNCHANGED <<nextPid, proc, chldIgn, reports, killed, announced, torn>>

\* The loop leaves what sig_mask blocks pending, which SIGKILL never is.
PumpReturns(t) ==
  /\ pc[t] = "deliver"
  /\ SIGKILL \notin pend[t]
  /\ Goto(t, "run")
  /\ UNCHANGED <<procs, nextPid, ctxVars, loc, histVars>>

\* A successful execve drops what is pending.
yos_execve(t) ==
  /\ pc[t] = "run"
  /\ pend' = [pend EXCEPT ![t] = {}]
  /\ UNCHANGED <<procs, nextPid, pc, proc, chldIgn, loc, histVars>>

\* sigaction(SIGCHLD, ...) with SIG_IGN or something else.
IgnoreSigchld(t, b) ==
  /\ pc[t] = "run"
  /\ t \in Ignorers
  /\ chldIgn' = [chldIgn EXCEPT ![t] = b]
  /\ UNCHANGED <<procs, nextPid, pc, proc, pend, loc, histVars>>

----------------------------------------------------------------------------
(* kill *)

\* The unlocked second half of a kill: s was found earlier.  A signal is
\* accepted when the slot is live and its thread has published itself; signal
\* 0 only asks whether the process exists.
deliver_to_proc(s, g) ==
  LET c == procs[s].ctx
  IN  IF Live(s) /\ g # None /\ c # None
        THEN /\ pend' = [pend EXCEPT ![c] = @ \cup {g}]
             /\ killed' = IF g = SIGKILL THEN killed \cup {c} ELSE killed
        ELSE UNCHANGED <<pend, killed>>

yos_kill(t, p, g) ==
  /\ pc[t] = "run"
  /\ t \in Killers
  /\ \E s \in yos_proc_find(p) :
       loc' = [loc EXCEPT ![t] = [NoLocals EXCEPT !.tgt = s, !.sig = g]]
  /\ Goto(t, "kill")
  /\ UNCHANGED <<procs, nextPid, ctxVars, histVars>>

\* Mutant: SIGKILL makes the slot a zombie up front, as it once did.
KillMarksUpFront(t) ==
  /\ pc[t] = "kill"
  /\ deliver_to_proc(loc[t].tgt, loc[t].sig)
  /\ procs' = IF loc[t].sig = SIGKILL /\ Live(loc[t].tgt)
                THEN [procs EXCEPT ![loc[t].tgt].state = "ZOMBIE", ![loc[t].tgt].tsig = SIGKILL]
                ELSE procs
  /\ Goto(t, IF loc[t].tgt = proc[t] THEN "pump" ELSE "run")
  /\ loc' = [loc EXCEPT ![t] = NoLocals]
  /\ UNCHANGED <<nextPid, proc, chldIgn, fate, reports, announced, torn>>

\* A process that signals itself pumps before kill returns.
KillDelivers(t) ==
  /\ pc[t] = "kill"
  /\ deliver_to_proc(loc[t].tgt, loc[t].sig)
  /\ Goto(t, IF loc[t].tgt = proc[t] THEN "pump" ELSE "run")
  /\ loc' = [loc EXCEPT ![t] = NoLocals]
  /\ UNCHANGED <<procs, nextPid, proc, chldIgn, fate, reports, announced, torn>>

----------------------------------------------------------------------------
(* yos_proc_post_exit_cleanup *)

ReadIds(t) ==
  /\ pc[t] = "ids"
  /\ loc' = [loc EXCEPT ![t].me = procs[proc[t]].pid, ![t].par = procs[proc[t]].ppid]
  /\ Goto(t, "flag")
  /\ UNCHANGED <<procs, nextPid, ctxVars, histVars>>

ReadOrphaned(t) ==
  /\ pc[t] = "flag"
  /\ loc' = [loc EXCEPT ![t].ign = procs[proc[t]].orphaned]
  /\ Goto(t, "table")
  /\ UNCHANGED <<procs, nextPid, ctxVars, histVars>>

Orphans(p) ==
  {s \in Slot : procs[s].state # "FREE" /\ procs[s].ppid = p /\ procs[s].pid # p}

\* Does process p ignore SIGCHLD?  A freed context may read as anything.
IgnoresSigchld(p, junk) ==
  \E s \in yos_proc_find(p) :
    /\ procs[s].ctx # None
    /\ IF pc[procs[s].ctx] = "freed" THEN junk ELSE chldIgn[procs[s].ctx]

\* Under proc_lock: hand the children to init, and free the slot when nobody
\* is going to wait for it.
Reparented(p) ==
  [s \in Slot |-> IF s \in Orphans(p)
                    THEN [procs[s] EXCEPT !.ppid = 1, !.orphaned = TRUE]
                    ELSE procs[s]]

AutoReaped(table, s) ==
  [table EXCEPT ![s].state = IF @ = "ZOMBIE" THEN "FREE" ELSE @,
                ![s].ctx = IF table[s].state = "ZOMBIE" THEN None ELSE @]

CleanTable(t) ==
  /\ pc[t] = "table"
  /\ \E junk \in BOOLEAN :
       procs' = IF loc[t].ign \/ IgnoresSigchld(loc[t].par, junk)
                  THEN AutoReaped(Reparented(loc[t].me), proc[t])
                  ELSE Reparented(loc[t].me)
  /\ torn' = (torn \/ (procs'[proc[t]].state # procs[proc[t]].state /\ Recording(proc[t])))
  /\ loc' = [loc EXCEPT ![t].hups = {procs[s].pid : s \in Orphans(loc[t].me)}]
  /\ Goto(t, "hup")
  /\ UNCHANGED <<nextPid, ctxVars, fate, reports, killed, announced>>

\* SIGHUP to each orphan: find it, then deliver with no lock held.
HupFinds(t) ==
  /\ pc[t] = "hup"
  /\ \/ \E p \in loc[t].hups :
          \/ /\ yos_proc_find(p) = {}
             /\ loc' = [loc EXCEPT ![t].hups = @ \ {p}]
             /\ UNCHANGED pc
          \/ \E s \in yos_proc_find(p) :
               /\ loc' = [loc EXCEPT ![t].hups = @ \ {p}, ![t].tgt = s]
               /\ Goto(t, "huptgt")
     \/ /\ loc[t].hups = {}
        /\ Goto(t, IF t \in ForkptyPids THEN "pty" ELSE "leave")
        /\ UNCHANGED loc
  /\ UNCHANGED <<procs, nextPid, ctxVars, histVars>>

HupDelivers(t) ==
  /\ pc[t] = "huptgt"
  /\ deliver_to_proc(loc[t].tgt, SIGHUP)
  /\ Goto(t, "hup")
  /\ UNCHANGED <<procs, nextPid, proc, chldIgn, loc, fate, reports, announced, torn>>

\* SIGCHLD to the parent of a forkpty child.
PtyFinds(t) ==
  /\ pc[t] = "pty"
  /\ \/ /\ yos_proc_find(loc[t].par) = {}
        /\ Goto(t, "leave")
        /\ UNCHANGED loc
     \/ \E s \in yos_proc_find(loc[t].par) :
          /\ loc' = [loc EXCEPT ![t].tgt = s]
          /\ Goto(t, "ptytgt")
  /\ UNCHANGED <<procs, nextPid, ctxVars, histVars>>

PtyDelivers(t) ==
  /\ pc[t] = "ptytgt"
  /\ deliver_to_proc(loc[t].tgt, SIGCHLD)
  /\ Goto(t, "leave")
  /\ UNCHANGED <<procs, nextPid, proc, chldIgn, loc, fate, reports, announced, torn>>

\* yos_exit broadcasts, then tells the kqueue watchers which pid has exited and
\* ends the thread, or just ends the host when it is pid 1's; after a signal's
\* default action the thread just ends.
Leave(t) ==
  /\ \/ /\ pc[t] = "leave"
        /\ loc[t].notify
        /\ BroadcastAndGoto(t, IF t = 1 THEN "down" ELSE "notify")
        /\ UNCHANGED announced
     \/ /\ pc[t] = "leave"
        /\ ~loc[t].notify
        /\ Goto(t, "gone")
        /\ UNCHANGED announced
     \/ /\ pc[t] = "notify"
        /\ announced' = announced \cup {procs[proc[t]].pid}
        /\ Goto(t, "gone")
  /\ loc' = [loc EXCEPT ![t] = NoLocals]
  /\ UNCHANGED <<procs, nextPid, ctxVars, fate, reports, killed, torn>>

----------------------------------------------------------------------------
(* waitpid, and main's wait for the other processes *)

Reap(s) ==
  /\ procs' = [procs EXCEPT ![s].state = "FREE"]
  /\ reports' = [reports EXCEPT ![procs[s].pid] =
                   Append(@, StatusWord(procs[s].code, procs[s].tsig))]
  /\ torn' = (torn \/ Recording(s))

\* A call that has children: it reaps a zombie or goes to poll.  (ECHILD and
\* WNOHANG's 0 leave everything as it is.)
yos_waitpid(t, w) ==
  LET my_pid == procs[proc[t]].pid
  IN  /\ pc[t] = "run"
      /\ has_children(my_pid, w)
      /\ \/ /\ \E s \in find_zombie_child(my_pid, w) : Reap(s)
            /\ UNCHANGED <<pc, loc>>
         \/ /\ find_zombie_child(my_pid, w) = {}
            /\ loc' = [loc EXCEPT ![t] = [NoLocals EXCEPT !.me = my_pid, !.want = w]]
            /\ Goto(t, "wait")
            /\ UNCHANGED <<procs, reports, torn>>
      /\ UNCHANGED <<nextPid, ctxVars, fate, killed, announced>>

WaitPolls(t) ==
  /\ pc[t] = "wait"
  /\ \E s \in find_zombie_child(loc[t].me, loc[t].want) : Reap(s)
  /\ Goto(t, "run")
  /\ loc' = [loc EXCEPT ![t] = NoLocals]
  /\ UNCHANGED <<nextPid, ctxVars, fate, killed, announced>>

ShutdownCheck ==
  /\ pc[1] = "check"
  /\ Goto(1, IF \E s \in Slot : procs[s].state = "RUNNING" /\ procs[s].pid # 1
               THEN "sleep" ELSE "down")
  /\ UNCHANGED <<procs, nextPid, ctxVars, loc, histVars>>

----------------------------------------------------------------------------

\* What the thread does of itself, whatever its guest program wants.
HostStep(t) ==
  \/ yos_fork_pump(t) \/ fork_thread_func(t) \/ RecordStatus(t) \/ ThreadEnds(t)
  \/ KillDelivers(t) \/ PumpReturns(t)
  \/ ReadIds(t) \/ ReadOrphaned(t) \/ CleanTable(t)
  \/ HupFinds(t) \/ HupDelivers(t) \/ PtyFinds(t) \/ PtyDelivers(t) \/ Leave(t)
  \/ WaitPolls(t)

\* What a guest program may do next.
GuestStep(t) ==
  \/ yos_fork(t) \/ yos_execve(t) \/ Trap(t) \/ ExecLoadFails(t) \/ Return(t)
  \/ \E c \in ExitCodes : yos_exit(t, c)
  \/ \E b \in BOOLEAN : IgnoreSigchld(t, b)
  \/ \E w \in Pid \cup {None} : yos_waitpid(t, w)
  \/ \E p \in Pid, g \in KillSigs : yos_kill(t, p, g)

Next ==
  /\ pc[1] # "down"
  /\ \/ \E t \in Pid : HostStep(t) \/ yos_signal_pump(t) \/ GuestStep(t)
     \/ ShutdownCheck

Spec == Init /\ [][Next]_vars

\* Every thread keeps running what it is in; a blocking waitpid polls.  What
\* the guest program does next is its own business.
Fairness == \A t \in Pid : WF_vars(pc[1] # "down" /\ HostStep(t))
FairSpec == Spec /\ Fairness /\ WF_vars(ShutdownCheck)

----------------------------------------------------------------------------
(* Properties *)

ProcType ==
  [state : {"FREE", "READY", "RUNNING", "ZOMBIE"}, pid : Pid \cup {None},
   ppid : Pid \cup {None}, orphaned : BOOLEAN, ctx : Pid \cup {None},
   code : Nat, tsig : Signals \cup {None}]

LocalType ==
  [me : Pid \cup {None}, par : Pid \cup {None}, ign : BOOLEAN, hups : SUBSET (Pid \cup {None}),
   tgt : Slot, sig : Signals \cup {None}, code : Nat, next : {"ids", "tail", "gone"},
   want : Pid \cup {None},
   argPend : SUBSET Signals, argIgn : BOOLEAN, notify : BOOLEAN]

\* The shape of the state; in particular every slot and context a thread uses
\* exists, and a SIGKILL is only ever accepted for a published context.
TypeOK ==
  /\ procs \in [Slot -> ProcType]
  /\ nextPid \in 2..MaxPid + 1
  /\ pc \in [Pid -> PCs]
  /\ proc \in [Pid -> Slot]
  /\ pend \in [Pid -> SUBSET Signals]
  /\ chldIgn \in [Pid -> BOOLEAN]
  /\ loc \in [Pid -> LocalType]
  /\ fate \in [Pid -> {"alive", "exited", "signaled"} \X Nat]
  /\ reports \in [Pid -> Seq(Nat)]
  /\ killed \subseteq Pid
  /\ announced \subseteq Pid \cup {None}
  /\ torn \in BOOLEAN

\* A process that still runs guest code is in the process table under its own
\* pid, and not as a zombie: no waitpid, auto-reap or signal of another
\* process takes the slot from under it.  (While no guest traps.)
LiveOwnsSlot ==
  \A t \in Pid : pc[t] \in Starting \cup Guest =>
    procs[proc[t]].pid = t /\ procs[proc[t]].state = "RUNNING"

\* How POSIX reads a wait status: WIFEXITED, WEXITSTATUS and WTERMSIG.
Decoded(w) == IF w % 128 = 0 THEN Exited(w \div 256) ELSE Signaled(w % 128)

\* waitpid hands out each process once, after it has ended.
ReapsOnce ==
  \A p \in Pid : Len(reports[p]) <= 1 /\ (reports[p] # <<>> => fate[p] # Alive)

\* And it reports the exit code or the signal that really ended the process,
\* unless a slot has been freed between a thread's making it a zombie and its
\* storing the status.
ReportsFate ==
  ~torn => \A p \in Pid : \A i \in 1..Len(reports[p]) : Decoded(reports[p][i]) = fate[p]

\* Without that exception: "guest code using WIFSIGNALED / WTERMSIG observes the
\* right semantics".
StatusObserved ==
  \A p \in Pid : \A i \in 1..Len(reports[p]) : Decoded(reports[p][i]) = fate[p]

\* A slot goes FREE -> READY -> RUNNING -> ZOMBIE -> FREE, or from READY back to
\* FREE when the host cannot start the thread, and changes its pid only when
\* it is allocated: a freed slot never comes back as a phantom zombie and a
\* running process is never dropped from the table.
SlotStep(a, b) ==
  \/ b.state = a.state /\ b.pid = a.pid
  \/ a.state = "FREE" /\ b.state = "READY"
  \/ /\ <<a.state, b.state>> \in {<<"READY", "RUNNING">>, <<"READY", "FREE">>,
                                  <<"RUNNING", "ZOMBIE">>, <<"ZOMBIE", "FREE">>}
     /\ b.pid = a.pid
SlotLifecycle == [][\A s \in Slot : SlotStep(procs[s], procs'[s])]_procs

\* A SIGKILL that kill() accepted stays pending until its target is no longer
\* running: "the pending bit is already set and the target will see it on its
\* first bridge entry".
KillNotLost ==
  \A t \in killed : pc[t] \in Starting \cup Guest => SIGKILL \in pend[t]

\* main's wait ends once every other process has ended: "each proc-exit path
\* broadcasts rt->any_exit_cond, we wake, recount".
ShutdownCompletes ==
  (pc[1] \in {"check", "sleep"} /\ \A t \in Pid \ {1} : pc[t] \in Ended \cup {"none"})
    ~> pc[1] = "down"

\* yos_exit reports an exit to the kqueue watchers only for a process that has
\* ended: "libuv ... uses kqueue PROC events (not SIGCHLD) to detect child exit".
AnnouncesExited == \A p \in announced : fate[p] # Alive

----------------------------------------------------------------------------
(* The process table implements the life of a process *)

\* The slot of a process whose thread has been started, and process p's.
Occupied(s) == procs[s].state \in {"RUNNING", "ZOMBIE"}
InTable(p) == {s \in Slot : procs[s].pid = p /\ Occupied(s)}

LifeOf(p) ==
  IF pc[p] = "none" THEN "unborn"
  ELSE IF InTable(p) # {}
    THEN IF \E s \in InTable(p) : procs[s].state = "RUNNING" THEN "alive" ELSE "ended"
    ELSE IF reports[p] # <<>> THEN "reported" ELSE "discarded"

Lives   == [p \in Pid |-> LifeOf(p)]
Parents == [p \in Pid |-> {procs[s].ppid : s \in InTable(p)}]

Life == INSTANCE Lifecycle WITH life <- Lives, parents <- Parents

\* The slots, the threads that use them without a lock and the waits implement
\* the life of a process: nobody is reaped twice, after it was discarded, by
\* another than its parent, or while it runs.  (While no guest traps.)
ImplementsLifecycle == Life!Spec

\* A process gets another parent only once its own has ended: "POSIX semantics:
\* orphans get inherited by init, not left pointing at a dead parent".
OnlyOrphansInherited ==
  [][\A s \in Slot : procs'[s].ppid # procs[s].ppid /\ procs[s].state = "RUNNING"
       => LifeOf(procs[s].ppid) # "alive"]_procs

=============================================================================
