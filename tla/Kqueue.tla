------------------------------- MODULE Kqueue -------------------------------
(***************************************************************************)
(* kqueue and kevent on a Linux host (impl/libc/kqueue-linux.c).           *)
(*                                                                         *)
(* A kqueue is a host epoll descriptor.  A filter on a descriptor is an    *)
(* entry of it and left to the host.  A watch for the exit of a process is *)
(* an eventfd, held in a slot of one table that all guests share: yos_exit *)
(* writes to every eventfd of its pid, the epoll descriptor becomes ready, *)
(* and kevent then looks the watch up again, by the number of the epoll    *)
(* descriptor and the pid, to find the guest's udata and to remove it.     *)
(*                                                                         *)
(* The pid that yos_exit gives to them is the one it finds in its slot of  *)
(* the process table, and by then that slot may be another process's.      *)
(*                                                                         *)
(* regs and owed are the guests' view: the watches they asked for and that *)
(* were neither reported nor deleted, and those among them for whose pid   *)
(* an exit was announced since they were made.                             *)
(***************************************************************************)
EXTENDS Integers, FiniteSetsExt

CONSTANTS
  Threads,       \* guest threads that run an event loop
  Kqs,           \* numbers the host gives to epoll descriptors
  Pids, Later,   \* processes that are watched; those of them forked later on
  Udatas, Half,  \* values of udata; 2^16, the part of it an epoll tag holds
  NSlots,        \* MAX_PROC_WATCH
  ShareKq,       \* whether threads use each other's kqueues
  CloseArmed,    \* whether a kqueue is closed with watches in it
  AddsTwice,     \* whether a guest adds a watch it has
  HostFails,     \* whether eventfd and epoll_ctl fail
  None

VARIABLES
  life,          \* each process: "unborn", "running", "exiting", "announced" or "killed"
  pidIn,         \* the pid in the slot of the process table that a process has or had
  owner,         \* the thread that opened a kqueue, or None
  watches,       \* g_proc_watches
  batch,         \* what epoll_wait returned to a thread that is in kevent
  regs, owed

vars == <<life, pidIn, owner, watches, batch, regs, owed>>

Slots == 1 .. NSlots
Regs == [kq : Kqs, pid : Pids, udata : Udatas]
\* armed: the eventfd is an entry of an open epoll descriptor.
Watch == [kq : Kqs, pid : Pids, udata : Udatas, fired : BOOLEAN, armed : BOOLEAN]

ASSUME KqueueAssumption ==
  /\ None \notin Threads \cup Kqs \cup Watch /\ Udatas \subseteq Nat
  /\ Half \in Nat \ {0} /\ NSlots \in Nat
  /\ Later \subseteq Pids
  /\ {ShareKq, CloseArmed, AddsTwice, HostFails} \subseteq BOOLEAN

\* An exit in a batch: the process and what is left of udata in the tag.
Exits == [pid : Pids, tag : 0 .. Half - 1]
NoBatch == [kq |-> None, exits |-> {}]

TypeOK ==
  /\ life \in [Pids -> {"unborn", "running", "exiting", "announced", "killed"}]
  /\ pidIn \in [Pids -> Pids]
  /\ owner \in [Kqs -> Threads \cup {None}]
  /\ watches \in [Slots -> Watch \cup {None}]
  /\ batch \in [Threads -> [kq : Kqs \cup {None}, exits : SUBSET Exits]]
  /\ owed \subseteq regs /\ regs \subseteq Regs

Init ==
  /\ life = [p \in Pids |-> IF p \in Later THEN "unborn" ELSE "running"] /\ pidIn = [p \in Pids |-> p]
  /\ owner = [k \in Kqs |-> None]
  /\ watches = [i \in Slots |-> None]
  /\ batch = [t \in Threads |-> NoBatch]
  /\ regs = {} /\ owed = {}

\* Thread t may call kevent on k now.
Uses(t, k) ==
  /\ owner[k] # None /\ (ShareKq \/ owner[k] = t)
  /\ batch[t] = NoBatch

RegsOf(k, p) == {r \in regs : r.kq = k /\ r.pid = p}

-----------------------------------------------------------------------------
(* Processes *)

\* p is forked, into a slot of its own or into one that the process old has left:
\* it is a zombie, and waitpid has freed the slot.
Starts(p, old) ==
  /\ life[p] = "unborn"
  /\ p = old \/ (life[old] \in {"exiting", "announced", "killed"} /\ pidIn[old] = old)
  /\ life' = [life EXCEPT ![p] = "running"]
  /\ pidIn' = [q \in Pids |-> IF pidIn[q] = old THEN p ELSE pidIn[q]]
  /\ UNCHANGED <<owner, watches, batch, regs, owed>>

\* The slot in the process table is marked.  A process that dies of a signal
\* ends there and tells no kqueue.
Dies(p, how) ==
  /\ life[p] = "running" /\ life' = [life EXCEPT ![p] = how]
  /\ UNCHANGED <<pidIn, owner, watches, batch, regs, owed>>

\* ctx->proc->pid, as yos_exit reads it after the clean-up.
PidRead(p) == pidIn[p]

\* Mutant: the first watch that matches is the only one.
notify_first(p) ==
  LET S == {i \in Slots : watches[i] # None /\ watches[i].pid = PidRead(p)}
  IN  /\ life[p] = "exiting"
      /\ life' = [life EXCEPT ![p] = "announced"]
      /\ watches' = [i \in Slots |->
           IF S # {} /\ i = Min(S) THEN [watches[i] EXCEPT !.fired = TRUE] ELSE watches[i]]
      /\ owed' = owed \cup {r \in regs : r.pid = PidRead(p)}
      /\ UNCHANGED <<pidIn, owner, batch, regs>>

\* yos_exit, on its way out, announces the pid it finds in its slot.
yos_kqueue_notify_exit(p) ==
  /\ life[p] = "exiting"
  /\ life' = [life EXCEPT ![p] = "announced"]
  /\ watches' = [i \in Slots |->
       IF watches[i] # None /\ watches[i].pid = PidRead(p)
       THEN [watches[i] EXCEPT !.fired = TRUE] ELSE watches[i]]
  /\ owed' = owed \cup {r \in regs : r.pid = PidRead(p)}
  /\ UNCHANGED <<pidIn, owner, batch, regs>>

-----------------------------------------------------------------------------
(* kqueues *)

\* An event loop has one kqueue.
m3_yos_kqueue(t, k) ==
  /\ batch[t] = NoBatch /\ owner[k] = None /\ \A j \in Kqs : owner[j] # t
  /\ owner' = [owner EXCEPT ![k] = t]
  /\ UNCHANGED <<life, pidIn, watches, batch, regs, owed>>

\* close: the epoll descriptor goes, and its entries with it.  Nobody tells the
\* table of watches.
CloseKq(t, k) ==
  /\ Uses(t, k) /\ (CloseArmed \/ \A r \in regs : r.kq # k)
  /\ \A u \in Threads : batch[u].kq # k
  /\ owner' = [owner EXCEPT ![k] = None]
  /\ watches' = [i \in Slots |->
       IF watches[i] # None /\ watches[i].kq = k
       THEN [watches[i] EXCEPT !.armed = FALSE] ELSE watches[i]]
  /\ regs' = {r \in regs : r.kq # k} /\ owed' = {r \in owed : r.kq # k}
  /\ UNCHANGED <<life, pidIn, batch>>

-----------------------------------------------------------------------------
(* kevent: the changes *)

FreeSlots == {i \in Slots : watches[i] = None}

\* A watch for p takes a slot; with none free, or when the host refuses, the
\* change is dropped, and kevent does not say so.  Adding a watch again is to
\* change its udata, but takes a further slot.
proc_watch_add(t, k, p, u) ==
  LET r   == [kq |-> k, pid |-> p, udata |-> u]
      old == RegsOf(k, p)
  IN  /\ Uses(t, k) /\ (AddsTwice \/ old = {})
      /\ \/ /\ FreeSlots # {}
            /\ watches' = [watches EXCEPT ![Min(FreeSlots)] =
                 [kq |-> k, pid |-> p, udata |-> u, fired |-> FALSE, armed |-> TRUE]]
         \/ (FreeSlots = {} \/ HostFails) /\ UNCHANGED watches
      /\ regs' = (regs \ old) \cup {r}
      /\ owed' = IF old \cap owed = {} THEN owed ELSE (owed \ old) \cup {r}
      /\ UNCHANGED <<life, pidIn, owner, batch>>

\* Mutant: the watches of other kqueues on p match, too.
MatchingPid(k, p) == {i \in Slots : watches[i] # None /\ watches[i].pid = p}

\* The slots the loops over the table find for kqueue k and process p.
Matching(k, p) ==
  {i \in Slots : watches[i] # None /\ watches[i].kq = k /\ watches[i].pid = p}

\* Mutant: an exit that was announced stays in the table.
remove_pending(t, k, p) ==
  /\ Uses(t, k)
  /\ watches' = [i \in Slots |->
       IF i \in Matching(k, p) /\ ~watches[i].fired THEN None ELSE watches[i]]
  /\ regs' = regs \ RegsOf(k, p) /\ owed' = owed \ RegsOf(k, p)
  /\ UNCHANGED <<life, pidIn, owner, batch>>

proc_watch_remove(t, k, p) ==
  /\ Uses(t, k)
  /\ watches' = [i \in Slots |-> IF i \in Matching(k, p) THEN None ELSE watches[i]]
  /\ regs' = regs \ RegsOf(k, p) /\ owed' = owed \ RegsOf(k, p)
  /\ UNCHANGED <<life, pidIn, owner, batch>>

-----------------------------------------------------------------------------
(* kevent: the events *)

\* The exits whose eventfd is ready in k.
ReadyExits(k) ==
  {[pid |-> watches[i].pid, tag |-> watches[i].udata % Half] :
     i \in {j \in Slots : watches[j] # None /\ watches[j].kq = k
                            /\ watches[j].fired /\ watches[j].armed}}

\* epoll_wait returns some exits, as many as nevents has room for.  The events
\* of descriptors among them go to the guest as they are and change nothing.
EpollWait(t, k, E) ==
  /\ Uses(t, k) /\ E # {}
  /\ batch' = [batch EXCEPT ![t] = [kq |-> k, exits |-> E]]
  /\ UNCHANGED <<life, pidIn, owner, watches, regs, owed>>

\* The udata of an event: looked up in the table, or what the tag has left of
\* it when the watch is gone by now.
FoundUdata(k, e) ==
  LET S == Matching(k, e.pid) IN IF S # {} THEN watches[Min(S)].udata ELSE e.tag

\* An exit is handed to the guest, and its watch removed.
DeliverExit(t, e) ==
  LET k == batch[t].kq
      found == Matching(k, e.pid)
      told == [kq |-> k, pid |-> e.pid, udata |-> FoundUdata(k, e)]
  IN  /\ e \in batch[t].exits
      /\ watches' = IF found = {} THEN watches ELSE [watches EXCEPT ![Min(found)] = None]
      /\ batch' = [batch EXCEPT ![t].exits = @ \ {e}]
      /\ regs' = regs \ {told} /\ owed' = owed \ {told}
      /\ UNCHANGED <<life, pidIn, owner>>

KeventReturns(t) ==
  /\ batch[t] # NoBatch /\ batch[t].exits = {}
  /\ batch' = [batch EXCEPT ![t] = NoBatch]
  /\ UNCHANGED <<life, pidIn, owner, watches, regs, owed>>

-----------------------------------------------------------------------------

Delivers(t) == KeventReturns(t) \/ \E e \in batch[t].exits : DeliverExit(t, e)
Waits(t, k) == \E E \in SUBSET ReadyExits(k) : EpollWait(t, k, E)
Learns(k, p) ==
  \E t \in Threads, E \in SUBSET ReadyExits(k) :
     (\E e \in E : e.pid = p) /\ EpollWait(t, k, E)

Next ==
  \/ \E p \in Pids :
       \/ \E old \in Pids : Starts(p, old)
       \/ \E how \in {"exiting", "killed"} : Dies(p, how)
       \/ yos_kqueue_notify_exit(p)
  \/ \E t \in Threads : Delivers(t)
  \/ \E t \in Threads, k \in Kqs :
       \/ m3_yos_kqueue(t, k) \/ CloseKq(t, k) \/ Waits(t, k)
       \/ \E p \in Pids : proc_watch_remove(t, k, p) \/ \E u \in Udatas : proc_watch_add(t, k, p, u)

\* Host threads run, an event loop goes on asking its kqueues, and epoll, which
\* puts what it reported at the end of its list, leaves no ready entry out for
\* ever.
Fairness ==
  /\ \A p \in Pids : WF_vars(yos_kqueue_notify_exit(p))
  /\ \A t \in Threads : WF_vars(Delivers(t))
  /\ \A k \in Kqs, p \in Pids : SF_vars(Learns(k, p))

Spec == Init /\ [][Next]_vars /\ Fairness

-----------------------------------------------------------------------------
(* Properties *)

\* An exit kevent reports is owed to the guest: it has a watch on this pid in
\* this very kqueue, the pid was announced since the watch was made, and this is
\* the first report of it.  It carries the udata of that watch, not of another
\* loop's in the shared table nor what the sixteen bits of the tag have left of
\* it.  (That the process announced has ended is more than the code does: see
\* AnnouncesExited of ProcTable.)
ReportsTrue ==
  [][\A t \in Threads : \A e \in batch[t].exits : DeliverExit(t, e) =>
       [kq |-> batch[t].kq, pid |-> e.pid, udata |-> FoundUdata(batch[t].kq, e)] \in owed]_vars

\* The table has one slot for each watch of a guest, in a kqueue that is open,
\* and nothing else: no slot and no eventfd is left behind when a watch is
\* reported, deleted or gone with its kqueue.
WatchesBacked ==
  /\ \A r \in regs : \E i \in Matching(r.kq, r.pid) :
       /\ Matching(r.kq, r.pid) = {i} /\ watches[i].udata = r.udata
  /\ \A i \in Slots : watches[i] # None =>
       watches[i].armed /\ \E r \in regs : i \in Matching(r.kq, r.pid)

\* A watch that is there when an exit of its pid is announced is reported, unless
\* the guest deletes it or closes the kqueue first.
ExitsReported == \A r \in Regs : (r \in owed) ~> (r \notin owed)

\* A watch on a running process fires when that ends, of a signal as well, and
\* whatever becomes of its slot: what the comment at yos_kqueue_notify_exit says,
\* and what the code does not do.
DeathsReported ==
  \A r \in Regs :
    [](r \in regs /\ life[r.pid] = "running" /\ <>(life[r.pid] # "running") => <>(r \notin regs))
=============================================================================
