---------------------------- MODULE KqueueProofs ----------------------------
(***************************************************************************)
(* What holds of the watches for exits for any number of threads, kqueues  *)
(* and processes: no thread uses another's kqueue, none closes one that    *)
(* has watches, none adds a watch it has, the host refuses no eventfd, and *)
(* the table has a slot for every kqueue and process.                      *)
(***************************************************************************)
EXTENDS Kqueue, FiniteSetTheorems, WellFoundedInduction, TLAPS

\* The table is large enough, and guests use their kqueues as libuv does.
Orderly == ~ShareKq /\ ~CloseArmed /\ ~AddsTwice /\ ~HostFails
Roomy ==
  /\ IsFiniteSet(Kqs) /\ IsFiniteSet(Pids)
  /\ Cardinality(Kqs) * Cardinality(Pids) <= NSlots

----------------------------------------------------------------------------
(* The inductive invariant *)

Watches(i, k, p) == watches[i] # None /\ watches[i].kq = k /\ watches[i].pid = p

\* WatchesBacked slot by slot: a watch of a guest has a slot, two slots are never
\* about the same kqueue and process, and a slot is armed and has a watch.
Backed ==
  /\ \A r \in regs : \E i \in Slots : Watches(i, r.kq, r.pid) /\ watches[i].udata = r.udata
  /\ \A i, j \in Slots : watches[j] # None /\ Watches(i, watches[j].kq, watches[j].pid) => i = j
  /\ \A i \in Slots : watches[i] # None =>
       watches[i].armed /\ \E r \in regs : Watches(i, r.kq, r.pid)

\* Only a watch that was there when its pid was announced fires.
FiredOwed ==
  \A i \in Slots : watches[i] # None /\ watches[i].fired => \E r \in owed : Watches(i, r.kq, r.pid)

\* What epoll_wait gave to a thread is still in the table: the thread owns the
\* kqueue, and nobody else takes watches out of it.
BatchesHold ==
  \A t \in Threads :
    /\ batch[t].kq = None => batch[t].exits = {}
    /\ batch[t].kq # None => owner[batch[t].kq] = t
    /\ \A e \in batch[t].exits : \E i \in Slots :
         Watches(i, batch[t].kq, e.pid) /\ watches[i].fired /\ watches[i].udata % Half = e.tag

IInv == TypeOK /\ Backed /\ FiredOwed /\ BatchesHold

----------------------------------------------------------------------------
(* Lemmas *)

LEMMA MinIn ==
  ASSUME NEW S \in SUBSET Nat, S # {}
  PROVE  Min(S) \in S
<1>1. PICK x \in S : \A y \in S : ~(<<y, x>> \in OpToRel(<, Nat))
  BY WFMin, NatLessThanWellFounded
<1>2. ASSUME NEW y \in S PROVE x =< y
  <2>1. y < x => <<y, x>> \in OpToRel(<, Nat)
    BY DEF OpToRel
  <2>2. ~(y < x)
    BY <1>1, <2>1, Zenon
  <2> QED BY <2>2
<1> QED BY <1>2 DEF Min

\* While a pair of kqueue and process has no watch, the table has a free slot.
LEMMA SlotFree ==
  ASSUME IInv, Roomy, NEW k \in Kqs, NEW p \in Pids, RegsOf(k, p) = {}
  PROVE  FreeSlots # {}
<1> SUFFICES ASSUME FreeSlots = {} PROVE FALSE
  OBVIOUS
<1> DEFINE T == (Kqs \X Pids) \ {<<k, p>>}
           f == [i \in Slots |-> <<watches[i].kq, watches[i].pid>>]
<1>1. \A i \in Slots : watches[i] \in Watch /\ watches[i] # None
  BY DEF FreeSlots, IInv, TypeOK
<1>2. \A i \in Slots : ~(watches[i].kq = k /\ watches[i].pid = p)
  BY <1>1 DEF IInv, Backed, Watches, RegsOf
<1>3. f \in [Slots -> T]
  BY <1>1, <1>2 DEF Watch
<1>4. IsFiniteSet(Slots) /\ Cardinality(Slots) = NSlots
  <2>1. NSlots \in Nat
    BY KqueueAssumption
  <2> QED BY <2>1, FS_Interval DEF Slots
<1>5. IsFiniteSet(T) /\ Cardinality(T) < NSlots
  <2>1. /\ IsFiniteSet(Kqs \X Pids)
        /\ Cardinality(Kqs \X Pids) = Cardinality(Kqs) * Cardinality(Pids)
    BY FS_Product DEF Roomy
  <2>2. <<k, p>> \in Kqs \X Pids
    OBVIOUS
  <2>3. IsFiniteSet(T) /\ Cardinality(T) = Cardinality(Kqs \X Pids) - 1
    BY <2>1, <2>2, FS_RemoveElement
  <2>4. Cardinality(Kqs \X Pids) \in Nat /\ NSlots \in Nat
    BY <2>1, FS_CardinalityType, KqueueAssumption
  <2> QED BY <2>1, <2>3, <2>4 DEF Roomy
<1>6. PICK i, j \in Slots : i # j /\ f[i] = f[j]
  <2> HIDE DEF T, f
  <2>1. IsFiniteSet(Slots) /\ IsFiniteSet(T) /\ Cardinality(T) < Cardinality(Slots)
    BY <1>4, <1>5
  <2> QED BY <1>3, <2>1, FS_PigeonHole
<1>7. watches[i].kq = watches[j].kq /\ watches[i].pid = watches[j].pid
  BY <1>6
<1> QED BY <1>1, <1>6, <1>7 DEF IInv, Backed, Watches

LEMMA InitInv ==
  ASSUME Init
  PROVE  IInv
BY KqueueAssumption DEF Init, IInv, TypeOK, Backed, FiredOwed, BatchesHold, Watches, NoBatch, Slots

\* A thread that starts a kevent owns the kqueue, and nobody has a batch of it.
LEMMA UsesAlone ==
  ASSUME IInv, ~ShareKq, NEW t \in Threads, NEW k \in Kqs, Uses(t, k)
  PROVE  owner[k] = t /\ \A u \in Threads : batch[u].kq # k
<1>1. owner[k] = t /\ batch[t] = NoBatch
  BY DEF Uses
<1>2. batch[t].kq = None
  BY <1>1 DEF NoBatch
<1> QED BY <1>1, <1>2, KqueueAssumption DEF IInv, BatchesHold

\* A step that changes no watch.
LEMMA WatchesSame ==
  ASSUME Backed, watches' = watches, regs' = regs
  PROVE  Backed'
BY DEF Backed, Watches

----------------------------------------------------------------------------
(* The steps *)

LEMMA StartsInv ==
  ASSUME IInv, NEW p \in Pids, NEW old \in Pids, Starts(p, old)
  PROVE  IInv'
<1> USE DEF IInv
<1>1. TypeOK'
  BY DEF Starts, TypeOK
<1>2. Backed'
  BY WatchesSame DEF Starts
<1>3. FiredOwed'
  BY DEF Starts, FiredOwed, Watches
<1>4. BatchesHold'
  BY DEF Starts, BatchesHold, Watches
<1> QED BY <1>1, <1>2, <1>3, <1>4

LEMMA DiesInv ==
  ASSUME IInv, NEW p \in Pids, NEW how \in {"exiting", "killed"}, Dies(p, how)
  PROVE  IInv'
<1> USE DEF IInv
<1>1. TypeOK'
  BY DEF Dies, TypeOK
<1>2. Backed'
  BY WatchesSame DEF Dies
<1>3. FiredOwed'
  BY DEF Dies, FiredOwed, Watches
<1>4. BatchesHold'
  BY DEF Dies, BatchesHold, Watches
<1> QED BY <1>1, <1>2, <1>3, <1>4

LEMMA NotifyInv ==
  ASSUME IInv, NEW p \in Pids, yos_kqueue_notify_exit(p)
  PROVE  IInv'
<1> USE DEF IInv
<1> DEFINE q == pidIn[p]
<1>0. \A i \in Slots : watches[i] # None => watches[i] \in Watch
  BY DEF TypeOK
<1>a. ASSUME NEW i \in Slots, watches[i] # None
      PROVE  /\ watches'[i] \in Watch /\ watches'[i] # None
             /\ watches'[i].kq = watches[i].kq /\ watches'[i].pid = watches[i].pid
             /\ watches'[i].udata = watches[i].udata /\ watches'[i].armed = watches[i].armed
             /\ watches[i].fired => watches'[i].fired
             /\ watches[i].pid # q => watches'[i].fired = watches[i].fired
  <2>1. watches[i] \in Watch
    BY <1>0, <1>a
  <2>2. CASE watches[i].pid = q
    <3>1. watches'[i] = [watches[i] EXCEPT !.fired = TRUE]
      BY <1>a, <2>2 DEF yos_kqueue_notify_exit, PidRead
    <3>2. [watches[i] EXCEPT !.fired = TRUE] \in Watch
      BY <2>1 DEF Watch
    <3> QED BY <2>1, <2>2, <3>1, <3>2, KqueueAssumption DEF Watch
  <2>3. CASE watches[i].pid # q
    <3>1. watches'[i] = watches[i]
      BY <1>a, <2>3 DEF yos_kqueue_notify_exit, PidRead
    <3> QED BY <1>a, <2>1, <2>3, <3>1
  <2> QED BY <2>2, <2>3
<1>b. \A i \in Slots : watches[i] = None => watches'[i] = None
  BY DEF yos_kqueue_notify_exit, PidRead
<1>1. TypeOK'
  <2>1. watches' \in [Slots -> Watch \cup {None}]
    BY <1>a, <1>b DEF yos_kqueue_notify_exit, PidRead
  <2> QED BY <2>1 DEF yos_kqueue_notify_exit, PidRead, TypeOK
<1>d. UNCHANGED <<owner, batch, regs>> /\ owed' = owed \cup {r \in regs : r.pid = q}
  BY DEF yos_kqueue_notify_exit, PidRead
<1>2. Backed'
  <2>1. \A x \in regs' : \E i \in Slots : Watches(i, x.kq, x.pid)' /\ watches'[i].udata = x.udata
    BY <1>a, <1>d DEF Backed, Watches
  <2>2. \A i, j \in Slots : watches'[j] # None /\ Watches(i, watches[j].kq, watches[j].pid)' => i = j
    <3> SUFFICES ASSUME NEW i \in Slots, NEW j \in Slots, watches'[j] # None,
                        Watches(i, watches[j].kq, watches[j].pid)'
                 PROVE  i = j
      OBVIOUS
    <3>1. watches[i] # None /\ watches[j] # None
      BY <1>b DEF Watches
    <3>2. /\ watches'[i].kq = watches'[j].kq /\ watches'[i].pid = watches'[j].pid
      BY DEF Watches
    <3>3. watches[i].kq = watches[j].kq /\ watches[i].pid = watches[j].pid
      BY <1>a, <3>1, <3>2
    <3> QED BY <3>1, <3>3 DEF Backed, Watches
  <2>3. \A i \in Slots : watches'[i] # None =>
          watches'[i].armed /\ \E x \in regs' : Watches(i, x.kq, x.pid)'
    <3> SUFFICES ASSUME NEW i \in Slots, watches'[i] # None
                 PROVE  watches'[i].armed /\ \E x \in regs : Watches(i, x.kq, x.pid)'
      BY <1>d
    <3>1. watches[i] # None
      BY <1>b
    <3>2. watches[i].armed /\ \E x \in regs : Watches(i, x.kq, x.pid)
      BY <3>1 DEF Backed
    <3>3. watches'[i].armed
      BY <1>a, <3>1, <3>2
    <3>4. ASSUME NEW x \in regs, Watches(i, x.kq, x.pid) PROVE Watches(i, x.kq, x.pid)'
      BY <1>a, <1>d, <3>1, <3>4 DEF Watches
    <3> QED BY <3>2, <3>3, <3>4
  <2> QED BY <2>1, <2>2, <2>3 DEF Backed
<1>3. FiredOwed'
  <2> SUFFICES ASSUME NEW i \in Slots, watches'[i] # None, watches'[i].fired
               PROVE  \E r \in owed' : Watches(i, r.kq, r.pid)'
    BY DEF FiredOwed
  <2>1. watches[i] # None
    BY <1>b
  <2>2. CASE watches[i].pid = q
    <3>1. PICK r \in regs : Watches(i, r.kq, r.pid)
      BY <2>1 DEF Backed
    <3>2. r \in owed'
      BY <1>d, <2>2, <3>1 DEF Watches
    <3>3. Watches(i, r.kq, r.pid)'
      BY <1>a, <2>1, <3>1 DEF Watches
    <3> QED BY <3>2, <3>3
  <2>3. CASE watches[i].pid # q
    <3>1. watches[i].fired
      BY <1>a, <2>1, <2>3
    <3>2. PICK r \in owed : Watches(i, r.kq, r.pid)
      BY <2>1, <3>1 DEF FiredOwed
    <3>3. Watches(i, r.kq, r.pid)'
      BY <1>a, <2>1, <3>2 DEF Watches
    <3> QED BY <1>d, <3>2, <3>3
  <2> QED BY <2>2, <2>3
<1>4. BatchesHold'
  <2> SUFFICES ASSUME NEW t \in Threads
               PROVE  /\ batch[t].kq = None => batch[t].exits = {}
                      /\ batch[t].kq # None => owner[batch[t].kq] = t
                      /\ \A e \in batch[t].exits : \E i \in Slots :
                           /\ Watches(i, batch[t].kq, e.pid)' /\ watches'[i].fired
                           /\ watches'[i].udata % Half = e.tag
    BY <1>d DEF BatchesHold
  <2>1. ASSUME NEW e \in batch[t].exits
        PROVE  \E i \in Slots : /\ Watches(i, batch[t].kq, e.pid)' /\ watches'[i].fired
                               /\ watches'[i].udata % Half = e.tag
    <3>1. PICK i \in Slots :
            /\ Watches(i, batch[t].kq, e.pid) /\ watches[i].fired
            /\ watches[i].udata % Half = e.tag
      BY DEF BatchesHold
    <3>2. Watches(i, batch[t].kq, e.pid)'
      BY <1>a, <1>d, <3>1 DEF Watches
    <3>3. watches'[i].fired /\ watches'[i].udata % Half = e.tag
      BY <1>a, <3>1 DEF Watches
    <3> QED BY <3>2, <3>3
  <2> QED BY <2>1 DEF BatchesHold
<1> QED BY <1>1, <1>2, <1>3, <1>4

LEMMA OpenInv ==
  ASSUME IInv, NEW t \in Threads, NEW k \in Kqs, m3_yos_kqueue(t, k)
  PROVE  IInv'
<1> USE DEF IInv
<1>1. TypeOK'
  BY DEF m3_yos_kqueue, TypeOK
<1>2. Backed'
  BY WatchesSame DEF m3_yos_kqueue
<1>3. FiredOwed'
  BY DEF m3_yos_kqueue, FiredOwed, Watches
<1>4. BatchesHold'
  BY KqueueAssumption DEF m3_yos_kqueue, BatchesHold, Watches, TypeOK
<1> QED BY <1>1, <1>2, <1>3, <1>4

LEMMA CloseInv ==
  ASSUME IInv, ~ShareKq, ~CloseArmed, NEW t \in Threads, NEW k \in Kqs, CloseKq(t, k)
  PROVE  IInv'
<1> USE DEF IInv
<1>1. \A i \in Slots : ~(watches[i] # None /\ watches[i].kq = k)
  BY DEF CloseKq, Backed, Watches
<1>2. watches' = watches
  BY <1>1 DEF CloseKq, TypeOK
<1>3. regs' = regs /\ owed' = owed
  BY DEF CloseKq, TypeOK
<1>4. TypeOK'
  BY <1>2 DEF CloseKq, TypeOK
<1>5. Backed'
  BY <1>2, <1>3, WatchesSame
<1>6. FiredOwed'
  BY <1>2, <1>3 DEF FiredOwed, Watches
<1>7. BatchesHold'
  BY <1>2 DEF CloseKq, BatchesHold, Watches, TypeOK
<1> QED BY <1>4, <1>5, <1>6, <1>7

LEMMA AddInv ==
  ASSUME IInv, Orderly, Roomy, NEW t \in Threads, NEW k \in Kqs, NEW p \in Pids, NEW u \in Udatas,
         proc_watch_add(t, k, p, u)
  PROVE  IInv'
<1> USE DEF IInv
<1> DEFINE n == Min(FreeSlots)
           w == [kq |-> k, pid |-> p, udata |-> u, fired |-> FALSE, armed |-> TRUE]
           r == [kq |-> k, pid |-> p, udata |-> u]
<1>0. FreeSlots # {} /\ n \in Slots /\ watches[n] = None
  <2>1. FreeSlots # {}
    BY SlotFree DEF proc_watch_add, Orderly
  <2>2. FreeSlots \in SUBSET Nat
    BY DEF FreeSlots, Slots
  <2>3. n \in FreeSlots
    BY <2>1, <2>2, MinIn
  <2> QED BY <2>1, <2>3 DEF FreeSlots
<1> HIDE DEF n
<1>a. /\ watches' = [watches EXCEPT ![n] = w] /\ regs' = regs \cup {r}
      /\ owed' = owed /\ UNCHANGED <<life, pidIn, owner, batch>>
  BY <1>0 DEF proc_watch_add, n, Orderly
<1>b. w \in Watch /\ w # None /\ r \in Regs
  <2>1. w \in Watch
    BY DEF Watch
  <2>2. r \in Regs
    BY DEF Regs
  <2> HIDE DEF w, r
  <2> QED BY <2>1, <2>2, KqueueAssumption
<1>c. w.kq = k /\ w.pid = p /\ w.udata = u /\ w.fired = FALSE /\ w.armed = TRUE
      /\ r.kq = k /\ r.pid = p /\ r.udata = u
  OBVIOUS
<1> HIDE DEF w, r
<1>d. watches'[n] = w /\ \A i \in Slots : i # n => watches'[i] = watches[i]
  BY <1>0, <1>a DEF TypeOK
<1>e. \A i \in Slots : ~Watches(i, k, p)
  BY DEF proc_watch_add, RegsOf, Backed, Watches, Orderly
<1>1. TypeOK'
  BY <1>a, <1>b DEF TypeOK
<1>2. Backed'
  <2>1. \A x \in regs' : \E i \in Slots : Watches(i, x.kq, x.pid)' /\ watches'[i].udata = x.udata
    BY <1>0, <1>a, <1>b, <1>c, <1>d DEF Backed, Watches
  <2>2. \A i, j \in Slots : watches'[j] # None /\ Watches(i, watches[j].kq, watches[j].pid)' => i = j
    BY <1>0, <1>b, <1>c, <1>d, <1>e DEF Backed, Watches
  <2>3. \A i \in Slots : watches'[i] # None =>
          watches'[i].armed /\ \E x \in regs' : Watches(i, x.kq, x.pid)'
    BY <1>0, <1>a, <1>b, <1>c, <1>d DEF Backed, Watches
  <2> QED BY <2>1, <2>2, <2>3 DEF Backed
<1>3. FiredOwed'
  BY <1>0, <1>a, <1>c, <1>d DEF FiredOwed, Watches
<1>4. BatchesHold'
  BY <1>0, <1>a, <1>d DEF BatchesHold, Watches
<1> QED BY <1>1, <1>2, <1>3, <1>4

LEMMA RemoveInv ==
  ASSUME IInv, ~ShareKq, NEW t \in Threads, NEW k \in Kqs, NEW p \in Pids, proc_watch_remove(t, k, p)
  PROVE  IInv'
<1> USE DEF IInv
<1>0. \A v \in Threads : batch[v].kq # k
  BY UsesAlone DEF proc_watch_remove
<1>a. /\ \A i \in Slots : watches'[i] = IF Watches(i, k, p) THEN None ELSE watches[i]
      /\ regs' = regs \ RegsOf(k, p) /\ owed' = owed \ RegsOf(k, p)
  BY DEF proc_watch_remove, Matching, Watches
<1>1. TypeOK'
  BY DEF proc_watch_remove, TypeOK
<1>2. Backed'
  <2>1. \A x \in regs' : \E i \in Slots : Watches(i, x.kq, x.pid)' /\ watches'[i].udata = x.udata
    BY <1>a DEF Backed, Watches, RegsOf
  <2>2. \A i, j \in Slots : watches'[j] # None /\ Watches(i, watches[j].kq, watches[j].pid)' => i = j
    BY <1>a DEF Backed, Watches
  <2>3. \A i \in Slots : watches'[i] # None =>
          watches'[i].armed /\ \E x \in regs' : Watches(i, x.kq, x.pid)'
    BY <1>a DEF Backed, Watches, RegsOf
  <2> QED BY <2>1, <2>2, <2>3 DEF Backed
<1>3. FiredOwed'
  BY <1>a DEF FiredOwed, Watches, RegsOf
<1>4. BatchesHold'
  BY <1>0, <1>a DEF proc_watch_remove, BatchesHold, Watches
<1> QED BY <1>1, <1>2, <1>3, <1>4

LEMMA EpollInv ==
  ASSUME IInv, ~ShareKq, NEW t \in Threads, NEW k \in Kqs, NEW E \in SUBSET ReadyExits(k),
         EpollWait(t, k, E)
  PROVE  IInv'
<1> USE DEF IInv
<1>0. owner[k] = t
  BY UsesAlone DEF EpollWait
<1>a. ASSUME NEW e \in E
      PROVE  /\ e \in Exits
             /\ \E i \in Slots : Watches(i, k, e.pid) /\ watches[i].fired /\ watches[i].udata % Half = e.tag
  <2>1. PICK i \in Slots : /\ watches[i] # None /\ watches[i].kq = k /\ watches[i].fired
                           /\ e = [pid |-> watches[i].pid, tag |-> watches[i].udata % Half]
    BY DEF ReadyExits
  <2>2. watches[i] \in Watch
    BY <2>1 DEF TypeOK
  <2>3. watches[i].pid \in Pids /\ watches[i].udata \in Nat /\ Half \in Nat \ {0}
    BY <2>2, KqueueAssumption DEF Watch
  <2>4. watches[i].udata % Half \in 0 .. Half - 1
    BY <2>3
  <2> QED BY <2>1, <2>3, <2>4 DEF Exits, Watches
<1>b. /\ batch'[t].kq = k /\ batch'[t].exits = E
      /\ \A v \in Threads : v # t => batch'[v] = batch[v]
      /\ UNCHANGED <<life, pidIn, owner, watches, regs, owed>>
  BY DEF EpollWait, TypeOK
<1>1. TypeOK'
  <2>1. batch' \in [Threads -> [kq : Kqs \cup {None}, exits : SUBSET Exits]]
    BY <1>a DEF EpollWait, TypeOK
  <2> QED BY <1>b, <2>1 DEF TypeOK
<1>2. Backed'
  BY <1>b, WatchesSame
<1>3. FiredOwed'
  BY <1>b DEF FiredOwed, Watches
<1>4. BatchesHold'
  BY <1>0, <1>a, <1>b, KqueueAssumption DEF BatchesHold, Watches
<1> QED BY <1>1, <1>2, <1>3, <1>4

LEMMA ReturnInv ==
  ASSUME IInv, NEW t \in Threads, KeventReturns(t)
  PROVE  IInv'
<1> USE DEF IInv
<1>b. /\ batch'[t].kq = None /\ batch'[t].exits = {}
      /\ \A v \in Threads : v # t => batch'[v] = batch[v]
      /\ UNCHANGED <<life, pidIn, owner, watches, regs, owed>>
  BY DEF KeventReturns, TypeOK, NoBatch
<1>1. TypeOK'
  BY DEF KeventReturns, TypeOK, NoBatch
<1>2. Backed'
  BY <1>b, WatchesSame
<1>3. FiredOwed'
  BY <1>b DEF FiredOwed, Watches
<1>4. BatchesHold'
  BY <1>b, KqueueAssumption DEF BatchesHold, Watches
<1> QED BY <1>1, <1>2, <1>3, <1>4

\* What kevent reports: the one watch in the table, which is the guest's.
LEMMA Told ==
  ASSUME IInv, NEW t \in Threads, NEW e \in batch[t].exits
  PROVE  \E i \in Slots, r \in owed :
           /\ batch[t].kq \in Kqs /\ e \in Exits
           /\ Watches(i, batch[t].kq, e.pid) /\ Matching(batch[t].kq, e.pid) = {i}
           /\ watches[i].fired /\ watches[i].udata % Half = e.tag
           /\ Min(Matching(batch[t].kq, e.pid)) = i
           /\ r = [kq |-> batch[t].kq, pid |-> e.pid, udata |-> FoundUdata(batch[t].kq, e)]
<1> USE DEF IInv
<1> DEFINE k == batch[t].kq
<1>1. k \in Kqs /\ e \in Exits
  BY DEF TypeOK, BatchesHold
<1>2. PICK i \in Slots : Watches(i, k, e.pid) /\ watches[i].fired /\ watches[i].udata % Half = e.tag
  BY DEF BatchesHold
<1>3. Matching(k, e.pid) = {i}
  BY <1>2 DEF Matching, Backed, Watches
<1>4. Min({i}) = i
  BY DEF Min, Slots
<1>5. FoundUdata(k, e) = watches[i].udata
  BY <1>3, <1>4 DEF FoundUdata
<1>6. PICK r \in owed : Watches(i, r.kq, r.pid)
  BY <1>2 DEF FiredOwed, Watches
<1>7. r \in regs /\ r \in Regs /\ r.kq = k /\ r.pid = e.pid
  BY <1>2, <1>6 DEF Watches, TypeOK
<1>8. r.udata = watches[i].udata
  <2>1. PICK j \in Slots : Watches(j, r.kq, r.pid) /\ watches[j].udata = r.udata
    BY <1>7 DEF Backed
  <2>2. watches[i] # None /\ Watches(j, watches[i].kq, watches[i].pid)
    BY <1>6, <2>1 DEF Watches
  <2>3. j = i
    BY <2>2 DEF Backed
  <2> QED BY <2>1, <2>3
<1>9. r = [kq |-> k, pid |-> e.pid, udata |-> FoundUdata(k, e)]
  BY <1>5, <1>7, <1>8 DEF Regs
<1> QED BY <1>1, <1>2, <1>3, <1>4, <1>9

LEMMA DeliverInv ==
  ASSUME IInv, NEW t \in Threads, NEW e \in batch[t].exits, DeliverExit(t, e)
  PROVE  IInv'
<1> USE DEF IInv
<1> DEFINE k == batch[t].kq
<1>0. PICK i \in Slots, r \in owed :
           /\ k \in Kqs /\ e \in Exits
           /\ Watches(i, k, e.pid) /\ Matching(k, e.pid) = {i}
           /\ watches[i].fired /\ watches[i].udata % Half = e.tag
           /\ Min(Matching(k, e.pid)) = i
           /\ r = [kq |-> k, pid |-> e.pid, udata |-> FoundUdata(k, e)]
  BY Told
<1>a. /\ watches' = [watches EXCEPT ![i] = None]
      /\ batch' = [batch EXCEPT ![t].exits = @ \ {e}]
      /\ regs' = regs \ {r} /\ owed' = owed \ {r} /\ UNCHANGED <<life, pidIn, owner>>
  BY <1>0 DEF DeliverExit
<1>b. /\ watches'[i] = None /\ \A j \in Slots : j # i => watches'[j] = watches[j]
      /\ batch'[t].kq = k /\ batch'[t].exits = batch[t].exits \ {e}
      /\ \A v \in Threads : v # t => batch'[v] = batch[v]
  BY <1>a DEF TypeOK
<1>c. r.kq = k /\ r.pid = e.pid /\ r \in regs
  BY <1>0 DEF TypeOK
<1>d. \A x \in regs : x.kq = k /\ x.pid = e.pid => x = r
  <2> SUFFICES ASSUME NEW x \in regs, x.kq = k, x.pid = e.pid PROVE x = r
    OBVIOUS
  <2>1. x.udata = watches[i].udata /\ r.udata = watches[i].udata
    BY <1>0, <1>c DEF Backed, Watches
  <2>2. x \in Regs /\ r \in Regs
    BY DEF TypeOK
  <2> QED BY <1>c, <2>1, <2>2 DEF Regs
<1>1. TypeOK'
  <2>1. batch' \in [Threads -> [kq : Kqs \cup {None}, exits : SUBSET Exits]]
    BY <1>a DEF TypeOK
  <2> QED BY <1>a, <2>1 DEF TypeOK
<1>2. Backed'
  <2>1. \A x \in regs' : \E j \in Slots : Watches(j, x.kq, x.pid)' /\ watches'[j].udata = x.udata
    BY <1>0, <1>a, <1>b, <1>c, <1>d DEF Backed, Watches
  <2>2. \A h, j \in Slots : watches'[j] # None /\ Watches(h, watches[j].kq, watches[j].pid)' => h = j
    BY <1>a, <1>b DEF Backed, Watches
  <2>3. \A j \in Slots : watches'[j] # None =>
          watches'[j].armed /\ \E x \in regs' : Watches(j, x.kq, x.pid)'
    BY <1>0, <1>a, <1>b, <1>c DEF Backed, Watches
  <2> QED BY <2>1, <2>2, <2>3 DEF Backed
<1>3. FiredOwed'
  BY <1>0, <1>a, <1>b, <1>c DEF FiredOwed, Backed, Watches
<1>4. BatchesHold'
  <2>1. ASSUME NEW v \in Threads, NEW f \in batch'[v].exits
        PROVE  \E j \in Slots : /\ Watches(j, batch[v].kq, f.pid)'
                                /\ watches'[j].fired /\ watches'[j].udata % Half = f.tag
    <3>1. batch'[v].kq = batch[v].kq /\ f \in batch[v].exits
      BY <1>b
    <3>2. PICK j \in Slots : Watches(j, batch[v].kq, f.pid) /\ watches[j].fired /\ watches[j].udata % Half = f.tag
      BY <3>1 DEF BatchesHold
    <3>3. j # i
      <4> SUFFICES ASSUME j = i PROVE FALSE
        OBVIOUS
      <4>1. batch[v].kq = k /\ f.pid = e.pid /\ f.tag = e.tag
        BY <1>0, <3>2 DEF Watches
      <4>2. v = t
        BY <1>0, <4>1, KqueueAssumption DEF BatchesHold
      <4>3. f \in Exits /\ e \in Exits
        BY <1>0, <3>1 DEF TypeOK
      <4>4. f = e
        BY <4>1, <4>3 DEF Exits
      <4> QED BY <1>b, <2>1, <4>2, <4>4
    <3> QED BY <1>b, <3>1, <3>2, <3>3 DEF Watches
  <2> QED BY <1>a, <1>b, <2>1 DEF BatchesHold
<1> QED BY <1>1, <1>2, <1>3, <1>4

----------------------------------------------------------------------------
(* Theorems *)

LEMMA StepInv ==
  ASSUME IInv, Orderly, Roomy, [Next]_vars
  PROVE  IInv'
<1>1. CASE UNCHANGED vars
  BY <1>1 DEF vars, IInv, TypeOK, Backed, FiredOwed, BatchesHold, Watches
<1>2. CASE Next
  BY <1>2, StartsInv, DiesInv, NotifyInv, OpenInv, CloseInv, AddInv, RemoveInv, EpollInv, ReturnInv,
     DeliverInv DEF Next, Delivers, Waits, Orderly
<1> QED BY <1>1, <1>2

LEMMA Invariant ==
  ASSUME Orderly, Roomy
  PROVE  Spec => []IInv
<1>1. Init => IInv
  BY InitInv
<1>2. IInv /\ [Next]_vars => IInv'
  BY StepInv
<1> QED BY <1>1, <1>2, PTL DEF Spec

\* g_proc_watches has one armed slot for each watch a guest has, and nothing
\* else: proc_watch_add, proc_watch_remove and the end of kevent keep the table
\* and the guests' view together, for any number of event loops.
THEOREM TableBacksWatches ==
  ASSUME Orderly, Roomy
  PROVE  Spec => []WatchesBacked
<1>1. Spec => []IInv
  BY Invariant
<1>2. IInv => WatchesBacked
  <2> SUFFICES ASSUME IInv PROVE WatchesBacked
    OBVIOUS
  <2>1. ASSUME NEW r \in regs
        PROVE  \E i \in Matching(r.kq, r.pid) :
                 Matching(r.kq, r.pid) = {i} /\ watches[i].udata = r.udata
    <3>1. PICK i \in Slots : Watches(i, r.kq, r.pid) /\ watches[i].udata = r.udata
      BY DEF IInv, Backed
    <3>2. Matching(r.kq, r.pid) = {i}
      BY <3>1 DEF IInv, Backed, Matching, Watches
    <3> QED BY <3>1, <3>2
  <2>2. \A i \in Slots : watches[i] # None =>
          watches[i].armed /\ \E r \in regs : i \in Matching(r.kq, r.pid)
    BY DEF IInv, Backed, Matching, Watches
  <2> QED BY <2>1, <2>2 DEF WatchesBacked
<1> QED BY <1>1, <1>2, PTL

\* An exit that kevent reports is owed: announced while the guest had the watch,
\* not reported before, and with the udata of that watch, though the table was
\* unlocked between the announcement, epoll_wait and the look-up.
THEOREM ReportsAreOwed ==
  ASSUME Orderly, Roomy
  PROVE  Spec => ReportsTrue
<1> DEFINE A == \A t \in Threads : \A e \in batch[t].exits : DeliverExit(t, e) =>
       [kq |-> batch[t].kq, pid |-> e.pid, udata |-> FoundUdata(batch[t].kq, e)] \in owed
<1>1. Spec => []IInv
  BY Invariant
<1>2. IInv => A
  BY Told
<1>3. IInv /\ [Next]_vars => [A]_vars
  BY <1>2
<1> QED BY <1>1, <1>3, PTL DEF Spec, ReportsTrue
=============================================================================
