----------------------------- MODULE GuestSync -----------------------------
(***************************************************************************)
(* The synchronisation primitives a guest's threads share, as the host     *)
(* implements them in impl/proc/pthread.c on 32-bit cells of the guest's   *)
(* memory: mutex, condition variable, spinlock, rwlock, barrier and once,  *)
(* over the one wait queue of wasm3/source/m3_atomic.c.                    *)
(*                                                                         *)
(* Each access to a cell is a step.  A guest thread is at rest in "idle",  *)
(* or holds a lock there ("crit", "spun", "reading", "writing"); every     *)
(* other program counter is inside a call.  Guests use the primitives as   *)
(* POSIX allows: only the holder of a lock releases it, and cond_wait is   *)
(* called with the mutex held.                                             *)
(***************************************************************************)
EXTENDS Integers, FiniteSets

CONSTANTS
  Threads,      \* the threads of one guest process
  Workloads,    \* sets of primitives: a behaviour uses those of one of them
  SeqSize,      \* 2^32: what the sequence and generation counters wrap at
  MaxSignals,   \* bound on pthread_cond_signal and _broadcast calls
  RW_WRITER,    \* 0xFFFFFFFF, the rwlock cell when a writer holds it
  BarrierCount, \* the count given to pthread_barrier_init
  MaxArrivals   \* bound on when threads still start pthread_barrier_wait

Primitives == {"mutex", "cond", "spin", "rwlock", "once", "barrier"}
Mutexes == {"guest", "barrier"}  \* the guest's mutex, and b[0] of the barrier

ASSUME SyncAssumption ==
  /\ IsFiniteSet(Threads)
  /\ Workloads \subseteq SUBSET Primitives
  /\ SeqSize \in Nat \ {0}
  /\ MaxSignals \in Nat /\ MaxSignals < SeqSize
  /\ RW_WRITER \in Nat \ {0}
  /\ BarrierCount \in Nat \ {0}
  /\ MaxArrivals \in Nat

VARIABLES
  work,     \* the primitives the guest program uses
  mu,       \* the mutex cells: 0 free, 1 held, 2 held and contended
  seq,      \* the cond cell
  spin,     \* the spinlock cell
  rw,       \* the rwlock cell: 0, the number of readers, or RW_WRITER
  once,     \* the once cell: 0 new, 1 running, 2 done
  gen, arrived, bseq,  \* b[1], b[2] and b[4] of the barrier
  pc,       \* where each thread is
  lk,       \* the mutex of the mu_lock_cell or mu_unlock_cell it is in
  ret,      \* where that call, or cond_signal, returns to
  exp,      \* the value it loaded and gives to m3Atomic_Wait32
  mygen,    \* local gen of barrier_wait
  woken,    \* the parked threads that have seen g_notify_gen advance
  \* history, and the counters the bounds are about
  nsig,     \* the signals sent
  since,    \* of these, since each cond waiter loaded the sequence
  inits, returned,  \* runs of the once routine; did any pthread_once return?
  came, left        \* the barrier's arrivals and departures

threadVars  == <<pc, lk, ret, exp>>
condVars    == <<seq, nsig, since>>
onceVars    == <<once, inits, returned>>
barrierVars == <<gen, arrived, bseq, mygen, came, left>>
vars == <<work, mu, condVars, spin, rw, onceVars, barrierVars, threadVars, woken>>

Sleeping == {"msleep", "csleep", "rdsleep", "wrsleep", "osleep", "bsleep"}
Notifying == {"mnotify", "signotify", "rwnotify", "onotify", "bnotify"}
PCs == Sleeping \cup Notifying \cup
  {"idle", "crit", "spun", "reading", "writing",
   "mlock", "mxchg", "mwait", "munlock", "cwait",
   "rdlock", "rdwait", "wrlock", "wrwait", "init", "ocheck", "owait",
   "barr", "bcheck", "bwait"}

Init ==
  /\ work \in Workloads
  /\ mu = [m \in Mutexes |-> 0]
  /\ seq \in 0 .. SeqSize - 1
  /\ spin = 0 /\ rw = 0 /\ once = 0
  /\ gen = 0 /\ arrived = 0 /\ bseq = 0
  /\ pc = [t \in Threads |-> "idle"]
  /\ lk = [t \in Threads |-> "guest"]
  /\ ret = [t \in Threads |-> "idle"]
  /\ exp = [t \in Threads |-> 0]
  /\ mygen = [t \in Threads |-> 0]
  /\ woken = {}
  /\ nsig = 0 /\ since = [t \in Threads |-> 0]
  /\ inits = 0 /\ returned = FALSE
  /\ came = 0 /\ left = 0

Goto(t, l) == pc' = [pc EXCEPT ![t] = l]

\* Enter mu_lock_cell or mu_unlock_cell (label l) on mutex m, to return to r.
Call(t, l, m, r) ==
  /\ Goto(t, l)
  /\ lk' = [lk EXCEPT ![t] = m]
  /\ ret' = [ret EXCEPT ![t] = r]

Bump(n) == IF n = SeqSize - 1 THEN 0 ELSE n + 1

----------------------------------------------------------------------------
(* The wait queue *)

\* The cell a sleeping thread watches, and the value it went to sleep on.
Cell(t) == CASE pc[t] = "msleep" -> mu[lk[t]]
             [] pc[t] = "csleep" -> seq
             [] pc[t] \in {"rdsleep", "wrsleep"} -> rw
             [] pc[t] = "osleep" -> once
             [] OTHER -> bseq
Expected(t) == CASE pc[t] = "msleep" -> 2 [] pc[t] = "osleep" -> 1 [] OTHER -> exp[t]

\* The entry to m3Atomic_Wait32: park unless the cell has changed already.
m3Atomic_Wait32(t, cell, expected, sleep, next) ==
  Goto(t, IF cell = expected THEN sleep ELSE next)

\* Mutant: nobody is told.
NotifyNobody == woken' = woken

\* Notify advances the one generation all waiters watch, whatever its address
\* and count.
m3Atomic_Notify == woken' = woken \cup {t \in Threads : pc[t] \in Sleeping}

\* Where the call goes on when its wait is over.
AfterSleep ==
  [msleep |-> "mxchg", csleep |-> "mlock", rdsleep |-> "rdlock",
   wrsleep |-> "wrlock", osleep |-> "ocheck", bsleep |-> "mlock"]

LeaveSleep(t) ==
  /\ Goto(t, AfterSleep[pc[t]])
  /\ woken' = woken \ {t}
  /\ exp' = [exp EXCEPT ![t] = 0]
  /\ since' = [since EXCEPT ![t] = 0]
  /\ UNCHANGED <<work, mu, seq, nsig, spin, rw, onceVars, barrierVars, lk, ret>>

Notified(t) == pc[t] \in Sleeping /\ t \in woken /\ LeaveSleep(t)

\* The host's condition variable wakes the thread for no reason, and it finds
\* the cell changed; or the call is a timedwait and its time is up.
Spurious(t) == /\ pc[t] \in Sleeping
               /\ Cell(t) # Expected(t)
               /\ LeaveSleep(t)
TimeOut(t)  == pc[t] = "csleep" /\ LeaveSleep(t)

----------------------------------------------------------------------------
(* mutex *)

mu_lock_cell(t) ==
  /\ LET m == lk[t]
     IN  \/ /\ pc[t] = "mlock"
            /\ mu' = [mu EXCEPT ![m] = IF @ = 0 THEN 1 ELSE @]
            /\ Goto(t, CASE mu[m] = 0 -> ret[t]
                         [] mu[m] = 1 -> "mxchg"
                         [] OTHER     -> "mwait")
         \/ /\ pc[t] = "mxchg"
            /\ mu' = [mu EXCEPT ![m] = 2]
            /\ Goto(t, IF mu[m] = 0 THEN ret[t] ELSE "mwait")
         \/ /\ pc[t] = "mwait"
            /\ m3Atomic_Wait32(t, mu[m], 2, "msleep", "mxchg")
            /\ UNCHANGED mu
  /\ UNCHANGED <<work, condVars, spin, rw, onceVars, barrierVars, lk, ret, exp, woken>>

\* Mutant: the waiters are told when nobody waits.
mu_unlock_swapped(t) ==
  /\ pc[t] = "munlock"
  /\ mu' = [mu EXCEPT ![lk[t]] = 0]
  /\ Goto(t, IF mu[lk[t]] = 1 THEN "mnotify" ELSE ret[t])
  /\ UNCHANGED <<work, condVars, spin, rw, onceVars, barrierVars, lk, ret, exp, woken>>

mu_unlock_cell(t) ==
  /\ pc[t] = "munlock"
  /\ mu' = [mu EXCEPT ![lk[t]] = 0]
  /\ Goto(t, IF mu[lk[t]] = 2 THEN "mnotify" ELSE ret[t])
  /\ UNCHANGED <<work, condVars, spin, rw, onceVars, barrierVars, lk, ret, exp, woken>>

\* The notify that ends mu_unlock_cell and cond_signal.
Notify(t) ==
  /\ pc[t] \in {"mnotify", "signotify"}
  /\ m3Atomic_Notify
  /\ Goto(t, ret[t])
  /\ UNCHANGED <<work, mu, condVars, spin, rw, onceVars, barrierVars, lk, ret, exp>>

pthread_mutex_lock(t) ==
  /\ "mutex" \in work
  /\ pc[t] = "idle"
  /\ Call(t, "mlock", "guest", "crit")
  /\ UNCHANGED <<work, mu, condVars, spin, rw, onceVars, barrierVars, exp, woken>>

\* A failed trylock leaves everything as it is.
pthread_mutex_trylock(t) ==
  /\ "mutex" \in work
  /\ pc[t] = "idle"
  /\ mu["guest"] = 0
  /\ mu' = [mu EXCEPT !["guest"] = 1]
  /\ Call(t, "crit", "guest", "crit")
  /\ UNCHANGED <<work, condVars, spin, rw, onceVars, barrierVars, exp, woken>>

pthread_mutex_unlock(t) ==
  /\ pc[t] = "crit"
  /\ Call(t, "munlock", "guest", "idle")
  /\ UNCHANGED <<work, mu, condVars, spin, rw, onceVars, barrierVars, exp, woken>>

----------------------------------------------------------------------------
(* cond *)

\* pthread_cond_wait and _timedwait: load the sequence, release the mutex,
\* sleep on the value loaded, relock.
pthread_cond_wait(t) ==
  /\ "cond" \in work
  /\ pc[t] = "crit"
  /\ exp' = [exp EXCEPT ![t] = seq]
  /\ since' = [since EXCEPT ![t] = 0]
  /\ Call(t, "munlock", "guest", "cwait")
  /\ UNCHANGED <<work, mu, seq, nsig, spin, rw, onceVars, barrierVars, woken>>

\* Mutant: the sequence is loaded after the mutex is released.
CondSleepsLate(t) ==
  /\ pc[t] = "cwait"
  /\ Goto(t, "csleep")
  /\ exp' = [exp EXCEPT ![t] = seq]
  /\ ret' = [ret EXCEPT ![t] = "crit"]
  /\ UNCHANGED <<work, mu, condVars, spin, rw, onceVars, barrierVars, lk, woken>>

CondSleeps(t) ==
  /\ pc[t] = "cwait"
  /\ m3Atomic_Wait32(t, seq, exp[t], "csleep", "mlock")
  /\ ret' = [ret EXCEPT ![t] = "crit"]
  /\ exp' = [exp EXCEPT ![t] = IF seq = exp[t] THEN @ ELSE 0]
  /\ since' = [since EXCEPT ![t] = IF seq = exp[t] THEN @ ELSE 0]
  /\ UNCHANGED <<work, mu, seq, nsig, spin, rw, onceVars, barrierVars, lk, woken>>

\* Between its load of the sequence and the end of its sleep.
CondWaiting(t) ==
  \/ pc[t] \in {"cwait", "csleep"}
  \/ pc[t] \in {"munlock", "mnotify"} /\ ret[t] = "cwait"

\* pthread_cond_signal and _broadcast: the queue ignores how many to wake.
pthread_cond_signal(t) ==
  /\ "cond" \in work
  /\ pc[t] \in {"idle", "crit"}
  /\ nsig < MaxSignals
  /\ nsig' = nsig + 1
  /\ seq' = Bump(seq)
  /\ since' = [u \in Threads |-> IF CondWaiting(u) THEN since[u] + 1 ELSE since[u]]
  /\ ret' = [ret EXCEPT ![t] = pc[t]]
  /\ Goto(t, "signotify")
  /\ UNCHANGED <<work, mu, spin, rw, onceVars, barrierVars, lk, exp, woken>>

----------------------------------------------------------------------------
(* spinlock *)

\* A failed attempt, of spin_lock or spin_trylock, leaves everything as it is.
pthread_spin_lock(t) ==
  /\ "spin" \in work
  /\ pc[t] = "idle"
  /\ spin = 0
  /\ spin' = 1
  /\ Goto(t, "spun")
  /\ UNCHANGED <<work, mu, condVars, rw, onceVars, barrierVars, lk, ret, exp, woken>>

pthread_spin_unlock(t) ==
  /\ pc[t] = "spun"
  /\ spin' = 0
  /\ Goto(t, "idle")
  /\ UNCHANGED <<work, mu, condVars, rw, onceVars, barrierVars, lk, ret, exp, woken>>

----------------------------------------------------------------------------
(* rwlock.  The load of the cell and a compare-exchange that succeeds are one *)
(* step: one that fails only starts the loop again.  A try variant that fails *)
(* leaves everything as it is.                                                *)

\* Mutant: a writer's cell counts as one more reader.
ReadableAnyway == rw < RW_WRITER + 1

\* May one more reader come in?
Readable == rw # RW_WRITER /\ rw < RW_WRITER - 1

rw_rdlock_impl(t) ==
  /\ \/ pc[t] = "idle" /\ "rwlock" \in work
     \/ pc[t] = "rdlock"
  /\ \/ /\ Readable
        /\ rw' = rw + 1
        /\ Goto(t, "reading")
        /\ UNCHANGED exp
     \/ /\ ~Readable
        /\ exp' = [exp EXCEPT ![t] = rw]
        /\ Goto(t, "rdwait")
        /\ UNCHANGED rw
  /\ UNCHANGED <<work, mu, condVars, spin, onceVars, barrierVars, lk, ret, woken>>

rw_wrlock_impl(t) ==
  /\ \/ pc[t] = "idle" /\ "rwlock" \in work
     \/ pc[t] = "wrlock"
  /\ \/ /\ rw = 0
        /\ rw' = RW_WRITER
        /\ Goto(t, "writing")
        /\ UNCHANGED exp
     \/ /\ rw # 0
        /\ exp' = [exp EXCEPT ![t] = rw]
        /\ Goto(t, "wrwait")
        /\ UNCHANGED rw
  /\ UNCHANGED <<work, mu, condVars, spin, onceVars, barrierVars, lk, ret, woken>>

RwSleeps(t) ==
  /\ \/ pc[t] = "rdwait" /\ m3Atomic_Wait32(t, rw, exp[t], "rdsleep", "rdlock")
     \/ pc[t] = "wrwait" /\ m3Atomic_Wait32(t, rw, exp[t], "wrsleep", "wrlock")
  /\ UNCHANGED <<work, mu, condVars, spin, rw, onceVars, barrierVars, lk, ret, exp, woken>>

rw_unlock_impl(t) ==
  /\ \/ /\ pc[t] \in {"reading", "writing"}
        /\ rw' = IF rw = RW_WRITER THEN 0 ELSE rw - 1
        /\ Goto(t, "rwnotify")
        /\ UNCHANGED woken
     \/ /\ pc[t] = "rwnotify"
        /\ m3Atomic_Notify
        /\ Goto(t, "idle")
        /\ UNCHANGED rw
  /\ UNCHANGED <<work, mu, condVars, spin, onceVars, barrierVars, lk, ret, exp>>

----------------------------------------------------------------------------
(* once *)

pthread_once(t) ==
  /\ "once" \in work
  /\ pc[t] = "idle"
  /\ once' = IF once = 0 THEN 1 ELSE once
  /\ inits' = IF once = 0 THEN inits + 1 ELSE inits
  /\ Goto(t, IF once = 0 THEN "init" ELSE "ocheck")
  /\ UNCHANGED <<work, mu, condVars, spin, rw, returned, barrierVars, lk, ret, exp, woken>>

\* The init routine has returned, or has trapped.
OnceDone(t) ==
  /\ \/ /\ pc[t] = "init"
        /\ once' = 2
        /\ Goto(t, "onotify")
        /\ UNCHANGED <<woken, returned>>
     \/ /\ pc[t] = "onotify"
        /\ m3Atomic_Notify
        /\ Goto(t, "idle")
        /\ returned' = TRUE
        /\ UNCHANGED once
  /\ UNCHANGED <<work, mu, condVars, spin, rw, inits, barrierVars, lk, ret, exp>>

\* Mutant: a loser returns once the routine has been started.
OnceLosesEarly(t) ==
  /\ pc[t] = "ocheck"
  /\ Goto(t, "idle")
  /\ returned' = TRUE
  /\ UNCHANGED <<work, mu, condVars, spin, rw, once, inits, barrierVars, lk, ret, exp, woken>>

OnceLoses(t) ==
  /\ \/ /\ pc[t] = "ocheck"
        /\ Goto(t, IF once = 2 THEN "idle" ELSE "owait")
        /\ returned' = (returned \/ once = 2)
     \/ /\ pc[t] = "owait"
        /\ m3Atomic_Wait32(t, once, 1, "osleep", "ocheck")
        /\ UNCHANGED returned
  /\ UNCHANGED <<work, mu, condVars, spin, rw, once, inits, barrierVars, lk, ret, exp, woken>>

----------------------------------------------------------------------------
(* barrier *)

pthread_barrier_wait(t) ==
  /\ "barrier" \in work
  /\ pc[t] = "idle"
  /\ came < MaxArrivals
  /\ Call(t, "mlock", "barrier", "barr")
  /\ UNCHANGED <<work, mu, condVars, spin, rw, onceVars, barrierVars, exp, woken>>

\* With b[0] held: the last to arrive opens the next round.
BarrierArrives(t) ==
  /\ pc[t] = "barr"
  /\ came' = came + 1
  /\ mygen' = [mygen EXCEPT ![t] = gen]
  /\ \/ /\ arrived + 1 = BarrierCount
        /\ arrived' = 0
        /\ gen' = Bump(gen)
        /\ bseq' = Bump(bseq)
        /\ Goto(t, "bnotify")
     \/ /\ arrived + 1 # BarrierCount
        /\ arrived' = arrived + 1
        /\ Goto(t, "bcheck")
        /\ UNCHANGED <<gen, bseq>>
  /\ UNCHANGED <<work, mu, condVars, spin, rw, onceVars, left, lk, ret, exp, woken>>

BarrierOpens(t) ==
  /\ pc[t] = "bnotify"
  /\ m3Atomic_Notify
  /\ left' = left + 1
  /\ Call(t, "munlock", "barrier", "idle")
  /\ UNCHANGED <<work, mu, condVars, spin, rw, onceVars, gen, arrived, bseq, mygen, came, exp>>

\* Mutant: any wake-up lets the thread through.
BarrierTrustsWake(t) ==
  /\ pc[t] = "bcheck"
  /\ IF gen = mygen[t] /\ ret[t] = "barr"
       THEN /\ exp' = [exp EXCEPT ![t] = bseq]
            /\ Call(t, "munlock", "barrier", "bwait")
            /\ UNCHANGED left
       ELSE /\ left' = left + 1
            /\ Call(t, "munlock", "barrier", "idle")
            /\ UNCHANGED exp
  /\ UNCHANGED <<work, mu, condVars, spin, rw, onceVars, gen, arrived, bseq, mygen, came, woken>>

\* With b[0] held: leave when the round is over, sleep otherwise.
BarrierChecks(t) ==
  /\ pc[t] = "bcheck"
  /\ \/ /\ gen = mygen[t]
        /\ exp' = [exp EXCEPT ![t] = bseq]
        /\ Call(t, "munlock", "barrier", "bwait")
        /\ UNCHANGED left
     \/ /\ gen # mygen[t]
        /\ left' = left + 1
        /\ Call(t, "munlock", "barrier", "idle")
        /\ UNCHANGED exp
  /\ UNCHANGED <<work, mu, condVars, spin, rw, onceVars, gen, arrived, bseq, mygen, came, woken>>

BarrierSleeps(t) ==
  /\ pc[t] = "bwait"
  /\ m3Atomic_Wait32(t, bseq, exp[t], "bsleep", "mlock")
  /\ ret' = [ret EXCEPT ![t] = "bcheck"]
  /\ UNCHANGED <<work, mu, condVars, spin, rw, onceVars, barrierVars, lk, exp, woken>>

----------------------------------------------------------------------------

\* What a thread does of itself inside a call.
InCall(t) ==
  \/ Notified(t) \/ mu_lock_cell(t) \/ mu_unlock_cell(t) \/ Notify(t)
  \/ CondSleeps(t) \/ RwSleeps(t)
  \/ pc[t] = "rdlock" /\ rw_rdlock_impl(t)
  \/ pc[t] = "wrlock" /\ rw_wrlock_impl(t)
  \/ pc[t] = "rwnotify" /\ rw_unlock_impl(t)
  \/ pc[t] = "onotify" /\ OnceDone(t)
  \/ OnceLoses(t)
  \/ BarrierArrives(t) \/ BarrierOpens(t) \/ BarrierChecks(t) \/ BarrierSleeps(t)

\* What its program does, and what the host may do to it.
Chosen(t) ==
  \/ pthread_mutex_lock(t) \/ pthread_mutex_trylock(t) \/ pthread_mutex_unlock(t)
  \/ pthread_cond_wait(t) \/ pthread_cond_signal(t)
  \/ pthread_spin_lock(t) \/ pthread_spin_unlock(t)
  \/ pc[t] = "idle" /\ rw_rdlock_impl(t)
  \/ pc[t] = "idle" /\ rw_wrlock_impl(t)
  \/ pc[t] \in {"reading", "writing"} /\ rw_unlock_impl(t)
  \/ pthread_once(t)
  \/ pc[t] = "init" /\ OnceDone(t)
  \/ pthread_barrier_wait(t)
  \/ Spurious(t) \/ TimeOut(t)

Next == \E t \in Threads : InCall(t) \/ Chosen(t)

Spec == Init /\ [][Next]_vars

\* The host keeps running a thread that is inside a call; it owes nobody a
\* spurious wake-up, and what the guest does between calls is its own business.
FairSpec == Spec /\ \A t \in Threads : WF_vars(InCall(t))

----------------------------------------------------------------------------
(* Properties *)

\* The shape of the state; in particular the counters stay in their width.
TypeOK ==
  /\ work \in Workloads
  /\ mu \in [Mutexes -> 0..2]
  /\ seq \in 0 .. SeqSize - 1 /\ spin \in 0..1 /\ rw \in 0..RW_WRITER /\ once \in 0..2
  /\ gen \in 0 .. SeqSize - 1 /\ bseq \in 0 .. SeqSize - 1 /\ arrived \in 0 .. BarrierCount - 1
  /\ pc \in [Threads -> PCs]
  /\ lk \in [Threads -> Mutexes]
  /\ ret \in [Threads -> {"idle", "crit", "cwait", "barr", "bcheck", "bwait"}]
  /\ exp \in [Threads -> Nat]
  /\ mygen \in [Threads -> 0 .. SeqSize - 1]
  /\ woken \subseteq {t \in Threads : pc[t] \in Sleeping}
  /\ nsig \in 0..MaxSignals /\ since \in [Threads -> 0..MaxSignals]
  /\ inits \in Nat /\ returned \in BOOLEAN /\ came \in Nat /\ left \in Nat

\* Does thread t hold mutex m?
Holds(t, m) ==
  \/ pc[t] = "munlock" /\ lk[t] = m
  \/ m = "guest" /\ (pc[t] = "crit" \/ (pc[t] = "signotify" /\ ret[t] = "crit"))
  \/ m = "barrier" /\ pc[t] \in {"barr", "bcheck", "bnotify"}

\* No two threads hold a mutex, the spinlock, or the rwlock unless as readers.
MutualExclusion ==
  \A t, u \in Threads : t # u =>
    /\ \A m \in Mutexes : ~(Holds(t, m) /\ Holds(u, m))
    /\ ~(pc[t] = "spun" /\ pc[u] = "spun")
    /\ ~(pc[t] = "writing" /\ pc[u] \in {"reading", "writing"})

\* Has what sleeping thread t waits for happened?  For a mutex waiter: its
\* cell no longer says that somebody waits.
Due(t) == CASE pc[t] = "msleep" -> mu[lk[t]] # 2
            [] pc[t] = "csleep" -> seq # exp[t]
            [] pc[t] = "rdsleep" -> Readable
            [] pc[t] = "wrsleep" -> rw = 0
            [] pc[t] = "osleep" -> once = 2
            [] OTHER -> gen # mygen[t]

\* A thread is not left asleep when what it waits for has happened: the one
\* that made it happen has still to notify.
NoLostWakeup ==
  \A t \in Threads : (pc[t] \in Sleeping /\ t \notin woken /\ Due(t))
    => \E u \in Threads : pc[u] \in Notifying

\* A cond waiter is never asleep after a signal that came since it loaded the
\* sequence, with the mutex still held, has been sent in full.
CondNoMissedSignal ==
  \A t \in Threads : (pc[t] = "csleep" /\ t \notin woken /\ since[t] > 0)
    => \E u \in Threads : pc[u] = "signotify"

\* The once routine runs once, and nobody returns from pthread_once while it
\* does or before it has.
OnceOnly ==
  /\ inits <= 1
  /\ returned => once = 2 /\ \A t \in Threads : pc[t] # "init"

\* Nobody leaves the barrier before its round is complete.
BarrierHolds == left <= BarrierCount * (came \div BarrierCount)

\* A sleeping thread wakes up once what it waits for has happened.
SleepersWake ==
  \A t \in Threads : (pc[t] \in Sleeping /\ Due(t)) ~> (pc[t] \notin Sleeping)

\* "Writer-preferring: a new reader cannot acquire if any writer is waiting."
WriterPreference ==
  [][\A t \in Threads : (pc[t] # "reading" /\ pc'[t] = "reading")
       => \A u \in Threads : pc[u] \notin {"wrwait", "wrsleep"}]_vars

=============================================================================
