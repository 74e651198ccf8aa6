-------------------------- MODULE GuestSyncProofs --------------------------
(***************************************************************************)
(* What holds of the guest's synchronisation primitives for any set of     *)
(* threads, any mix of primitives and any counter width.                   *)
(***************************************************************************)
EXTENDS GuestSync, FiniteSetTheorems, TLAPS

(***************************************************************************)
(* A step of a thread, action by action: the cases of every proof below.   *)
(***************************************************************************)
LEMMA StepCases ==
  ASSUME NEW t \in Threads, InCall(t) \/ Chosen(t)
  PROVE  \/ Notified(t) \/ Spurious(t) \/ TimeOut(t)
         \/ mu_lock_cell(t) \/ mu_unlock_cell(t) \/ Notify(t)
         \/ pthread_mutex_lock(t) \/ pthread_mutex_trylock(t) \/ pthread_mutex_unlock(t)
         \/ pthread_cond_wait(t) \/ CondSleeps(t) \/ pthread_cond_signal(t)
         \/ pthread_spin_lock(t) \/ pthread_spin_unlock(t)
         \/ rw_rdlock_impl(t) \/ rw_wrlock_impl(t) \/ RwSleeps(t) \/ rw_unlock_impl(t)
         \/ pthread_once(t) \/ OnceDone(t) \/ OnceLoses(t)
         \/ pthread_barrier_wait(t) \/ BarrierArrives(t) \/ BarrierOpens(t)
         \/ BarrierChecks(t) \/ BarrierSleeps(t)
BY DEF InCall, Chosen

\* Whatever ends a sleep, the thread leaves it the same way.
LEMMA LeaveCases ==
  ASSUME NEW t \in Threads, Notified(t) \/ Spurious(t) \/ TimeOut(t)
  PROVE  pc[t] \in Sleeping /\ LeaveSleep(t)
BY DEF Notified, Spurious, TimeOut, Sleeping

----------------------------------------------------------------------------
(* The rwlock's cell counts its readers, or says that the one writer holds it. *)

Readers == {t \in Threads : pc[t] = "reading"}
Writers == {t \in Threads : pc[t] = "writing"}

RwOwned ==
  /\ rw = RW_WRITER => Readers = {} /\ \E t \in Threads : Writers = {t}
  /\ rw # RW_WRITER => Writers = {} /\ Cardinality(Readers) = rw

\* A reader is counted, a writer is alone.
LEMMA RwHolder ==
  ASSUME RwOwned, rw \in Nat, NEW t \in Threads
  PROVE  /\ pc[t] = "reading" => rw # RW_WRITER /\ rw > 0
         /\ pc[t] = "writing" => rw = RW_WRITER /\ Writers = {t}
<1>1. IsFiniteSet(Readers)
  BY FS_Subset, SyncAssumption DEF Readers
<1>2. ASSUME pc[t] = "reading" PROVE rw # RW_WRITER /\ rw > 0
  <2>1. t \in Readers
    BY <1>2 DEF Readers
  <2>2. rw # RW_WRITER /\ Cardinality(Readers) = rw
    BY <2>1 DEF RwOwned
  <2> QED
    BY <1>1, <2>1, <2>2, FS_EmptySet
<1>3. ASSUME pc[t] = "writing" PROVE rw = RW_WRITER /\ Writers = {t}
  BY <1>3 DEF RwOwned, Writers
<1> QED
  BY <1>2, <1>3

\* Only the rwlock's own operations touch it.
LEMMA RwUntouched ==
  ASSUME TypeOK, NEW t \in Threads, InCall(t) \/ Chosen(t),
         ~rw_rdlock_impl(t), ~rw_wrlock_impl(t), ~rw_unlock_impl(t)
  PROVE  rw' = rw /\ Readers' = Readers /\ Writers' = Writers
<1> USE DEF TypeOK, Goto, Call, Readers, Writers, Sleeping
<1>1. CASE Notified(t) \/ Spurious(t) \/ TimeOut(t)
  BY <1>1, LeaveCases DEF LeaveSleep, AfterSleep
<1>2. CASE mu_lock_cell(t) \/ mu_unlock_cell(t) \/ Notify(t)
  BY <1>2 DEF mu_lock_cell, mu_unlock_cell, Notify, m3Atomic_Wait32
<1>3. CASE pthread_mutex_lock(t) \/ pthread_mutex_trylock(t) \/ pthread_mutex_unlock(t)
  BY <1>3 DEF pthread_mutex_lock, pthread_mutex_trylock, pthread_mutex_unlock
<1>4. CASE pthread_cond_wait(t) \/ CondSleeps(t) \/ pthread_cond_signal(t)
  BY <1>4 DEF pthread_cond_wait, CondSleeps, pthread_cond_signal, m3Atomic_Wait32
<1>5. CASE pthread_spin_lock(t) \/ pthread_spin_unlock(t) \/ RwSleeps(t)
  BY <1>5 DEF pthread_spin_lock, pthread_spin_unlock, RwSleeps, m3Atomic_Wait32
<1>6. CASE pthread_once(t) \/ OnceDone(t) \/ OnceLoses(t)
  BY <1>6 DEF pthread_once, OnceDone, OnceLoses, m3Atomic_Wait32
<1>7. CASE pthread_barrier_wait(t) \/ BarrierArrives(t) \/ BarrierOpens(t)
              \/ BarrierChecks(t) \/ BarrierSleeps(t)
  BY <1>7 DEF pthread_barrier_wait, BarrierArrives, BarrierOpens, BarrierChecks,
              BarrierSleeps, m3Atomic_Wait32
<1> QED
  BY <1>1, <1>2, <1>3, <1>4, <1>5, <1>6, <1>7, StepCases

\* Every step keeps the count right.
LEMMA RwStep == TypeOK /\ RwOwned /\ [Next]_vars => RwOwned'
<1> SUFFICES ASSUME TypeOK, RwOwned, [Next]_vars PROVE RwOwned'
    OBVIOUS
<1> USE SyncAssumption
<1>0. IsFiniteSet(Readers) /\ rw \in Nat /\ rw <= RW_WRITER /\ Readers \subseteq Threads
  BY FS_Subset DEF Readers, TypeOK
<1>1. CASE UNCHANGED vars
  BY <1>1 DEF vars, threadVars, RwOwned, Readers, Writers
<1>2. ASSUME NEW t \in Threads, InCall(t) \/ Chosen(t) PROVE RwOwned'
  <2>1. CASE rw_rdlock_impl(t)
    <3>1. CASE Readable /\ rw' = rw + 1 /\ Goto(t, "reading")
      <4>1. pc[t] # "reading" /\ pc[t] # "writing"
        BY <2>1 DEF rw_rdlock_impl
      <4>2. Writers = {} /\ Cardinality(Readers) = rw /\ rw' # RW_WRITER
        BY <3>1, <1>0 DEF Readable, RwOwned
      <4>3. Readers' = Readers \cup {t} /\ Writers' = {} /\ t \notin Readers
        BY <3>1, <4>1, <4>2 DEF Goto, Readers, Writers, TypeOK
      <4>4. Cardinality(Readers') = rw'
        BY <1>0, <3>1, <4>2, <4>3, FS_AddElement
      <4> QED
        BY <4>2, <4>3, <4>4 DEF RwOwned
    <3>2. CASE Goto(t, "rdwait") /\ UNCHANGED rw
      <4>1. Readers' = Readers /\ Writers' = Writers
        BY <2>1, <3>2 DEF rw_rdlock_impl, Goto, Readers, Writers, TypeOK
      <4> QED
        BY <3>2, <4>1 DEF RwOwned
    <3> QED
      BY <2>1, <3>1, <3>2 DEF rw_rdlock_impl
  <2>2. CASE rw_wrlock_impl(t)
    <3>1. CASE rw = 0 /\ rw' = RW_WRITER /\ Goto(t, "writing")
      <4>1. Readers = {} /\ Writers = {}
        BY <1>0, <3>1, FS_EmptySet DEF RwOwned
      <4>2. Readers' = {} /\ Writers' = {t}
        BY <3>1, <4>1 DEF Goto, Readers, Writers, TypeOK
      <4> QED
        BY <3>1, <4>2 DEF RwOwned
    <3>2. CASE Goto(t, "wrwait") /\ UNCHANGED rw
      <4>1. Readers' = Readers /\ Writers' = Writers
        BY <2>2, <3>2 DEF rw_wrlock_impl, Goto, Readers, Writers, TypeOK
      <4> QED
        BY <3>2, <4>1 DEF RwOwned
    <3> QED
      BY <2>2, <3>1, <3>2 DEF rw_wrlock_impl
  <2>3. CASE rw_unlock_impl(t)
    <3>1. CASE pc[t] = "reading"
      <4>1. rw # RW_WRITER /\ rw > 0 /\ rw' = rw - 1 /\ Goto(t, "rwnotify")
        BY <1>0, <2>3, <3>1, RwHolder DEF rw_unlock_impl
      <4>2. Writers = {} /\ Cardinality(Readers) = rw
        BY <4>1 DEF RwOwned
      <4>3. Readers' = Readers \ {t} /\ Writers' = {} /\ t \in Readers
        BY <3>1, <4>1, <4>2 DEF Goto, Readers, Writers, TypeOK
      <4>4. Cardinality(Readers \ {t}) = Cardinality(Readers) - 1
        BY <1>0, <4>3, FS_RemoveElement
      <4>5. Cardinality(Readers') = rw'
        BY <4>1, <4>2, <4>3, <4>4
      <4>6. rw' # RW_WRITER
        BY <1>0, <4>1
      <4> QED
        BY <4>3, <4>5, <4>6 DEF RwOwned
    <3>2. CASE pc[t] = "writing"
      <4>1. rw = RW_WRITER /\ Writers = {t} /\ Readers = {} /\ rw' = 0 /\ Goto(t, "rwnotify")
        BY <1>0, <2>3, <3>2, RwHolder DEF rw_unlock_impl, RwOwned
      <4>2. Readers' = {} /\ Writers' = {} /\ rw' # RW_WRITER
        BY <4>1 DEF Goto, Readers, Writers, TypeOK
      <4> QED
        BY <4>1, <4>2, FS_EmptySet DEF RwOwned
    <3>3. CASE pc[t] = "rwnotify"
      <4>1. Readers' = Readers /\ Writers' = Writers /\ rw' = rw
        BY <2>3, <3>3 DEF rw_unlock_impl, Goto, Readers, Writers, TypeOK
      <4> QED
        BY <4>1 DEF RwOwned
    <3> QED
      BY <2>3, <3>1, <3>2, <3>3 DEF rw_unlock_impl
  <2>4. CASE ~rw_rdlock_impl(t) /\ ~rw_wrlock_impl(t) /\ ~rw_unlock_impl(t)
    <3> HIDE DEF RwOwned, Readers, Writers
    <3>1. rw' = rw /\ Readers' = Readers /\ Writers' = Writers
      BY <1>2, <2>4, RwUntouched
    <3> QED
      BY <3>1 DEF RwOwned
  <2> QED
    BY <2>1, <2>2, <2>3, <2>4
<1> QED
  BY <1>1, <1>2 DEF Next

----------------------------------------------------------------------------
(* Type correctness.  That the rwlock's count does not go below zero, and   *)
(* that the history of signals stays in its bound, takes a little more than *)
(* the types themselves.                                                    *)

SinceCounted == \A t \in Threads : since[t] <= nsig

\* Every step keeps the shape of the state.
LEMMA TypeStep == TypeOK /\ RwOwned /\ SinceCounted /\ [Next]_vars => TypeOK'
<1> SUFFICES ASSUME TypeOK, RwOwned, SinceCounted, [Next]_vars PROVE TypeOK'
    OBVIOUS
<1> USE SyncAssumption DEF TypeOK, PCs, Sleeping, Notifying, Goto, Call
<1>1. CASE UNCHANGED vars
  BY <1>1 DEF vars, threadVars, condVars, onceVars, barrierVars
<1>2. ASSUME NEW t \in Threads, InCall(t) \/ Chosen(t) PROVE TypeOK'
  <2>1. CASE Notified(t) \/ Spurious(t) \/ TimeOut(t)
    <3> LeaveSleep(t) /\ pc[t] \in Sleeping
      BY <2>1, LeaveCases
    <3> QED
      BY DEF LeaveSleep, AfterSleep, onceVars, barrierVars
  <2>2. CASE mu_lock_cell(t)
    BY <2>2 DEF mu_lock_cell, m3Atomic_Wait32, condVars, onceVars, barrierVars
  <2>3. CASE mu_unlock_cell(t)
    BY <2>3 DEF mu_unlock_cell, condVars, onceVars, barrierVars
  <2>4. CASE Notify(t)
    BY <2>4 DEF Notify, m3Atomic_Notify, condVars, onceVars, barrierVars
  <2>5. CASE pthread_mutex_lock(t)
    BY <2>5 DEF pthread_mutex_lock, Mutexes, condVars, onceVars, barrierVars
  <2>6. CASE pthread_mutex_trylock(t)
    BY <2>6 DEF pthread_mutex_trylock, Mutexes, condVars, onceVars, barrierVars
  <2>7. CASE pthread_mutex_unlock(t)
    BY <2>7 DEF pthread_mutex_unlock, Mutexes, condVars, onceVars, barrierVars
  <2>8. CASE pthread_cond_wait(t)
    BY <2>8 DEF pthread_cond_wait, Mutexes, condVars, onceVars, barrierVars
  <2>9. CASE CondSleeps(t)
    BY <2>9 DEF CondSleeps, m3Atomic_Wait32, condVars, onceVars, barrierVars
  <2>10. CASE pthread_spin_lock(t)
    BY <2>10 DEF pthread_spin_lock, condVars, onceVars, barrierVars
  <2>11. CASE pthread_spin_unlock(t)
    BY <2>11 DEF pthread_spin_unlock, condVars, onceVars, barrierVars
  <2>12. CASE rw_rdlock_impl(t)
    BY <2>12 DEF rw_rdlock_impl, Readable, condVars, onceVars, barrierVars
  <2>13. CASE rw_wrlock_impl(t)
    BY <2>13 DEF rw_wrlock_impl, condVars, onceVars, barrierVars
  <2>14. CASE RwSleeps(t)
    BY <2>14 DEF RwSleeps, m3Atomic_Wait32, condVars, onceVars, barrierVars
  <2>15. CASE pthread_once(t)
    BY <2>15 DEF pthread_once, condVars, onceVars, barrierVars
  <2>16. CASE OnceDone(t)
    <3>1. CASE pc[t] = "init"
      BY <2>16, <3>1 DEF OnceDone, condVars, onceVars, barrierVars
    <3>2. CASE pc[t] = "onotify"
      <4>1. returned' \in BOOLEAN
        BY <2>16, <3>2 DEF OnceDone
      <4> QED
        BY <2>16, <3>2, <4>1 DEF OnceDone, m3Atomic_Notify, condVars, barrierVars
    <3> QED
      BY <2>16, <3>1, <3>2 DEF OnceDone
  <2>17. CASE OnceLoses(t)
    BY <2>17 DEF OnceLoses, m3Atomic_Wait32, condVars, onceVars, barrierVars
  <2>18. CASE pthread_barrier_wait(t)
    BY <2>18 DEF pthread_barrier_wait, Mutexes, condVars, onceVars, barrierVars
  <2>19. CASE BarrierArrives(t)
    BY <2>19 DEF BarrierArrives, Bump, condVars, onceVars
  <2>20. CASE BarrierOpens(t)
    BY <2>20 DEF BarrierOpens, m3Atomic_Notify, Mutexes, condVars, onceVars
  <2>21. CASE BarrierChecks(t)
    BY <2>21 DEF BarrierChecks, Mutexes, condVars, onceVars
  <2>22. CASE BarrierSleeps(t)
    BY <2>22 DEF BarrierSleeps, m3Atomic_Wait32, condVars, onceVars, barrierVars
  <2>23. CASE pthread_cond_signal(t)
    <3>1. since' \in [Threads -> 0..MaxSignals] /\ nsig' \in 0..MaxSignals
      BY <2>23 DEF pthread_cond_signal, SinceCounted
    <3> QED
      BY <2>23, <3>1 DEF pthread_cond_signal, Bump, onceVars, barrierVars
  <2>24. CASE rw_unlock_impl(t)
    <3>1. rw' \in 0..RW_WRITER
      BY <2>24, RwHolder DEF rw_unlock_impl
    <3>2. woken' \subseteq {u \in Threads : pc'[u] \in Sleeping}
      BY <2>24 DEF rw_unlock_impl, m3Atomic_Notify
    <3> QED
      BY <2>24, <3>1, <3>2 DEF rw_unlock_impl, condVars, onceVars, barrierVars
  <2> QED
    BY <1>2, <2>1, <2>2, <2>3, <2>4, <2>5, <2>6, <2>7, <2>8, <2>9, <2>10, <2>11,
       <2>12, <2>13, <2>14, <2>15, <2>16, <2>17, <2>18, <2>19, <2>20, <2>21,
       <2>22, <2>23, <2>24, StepCases
<1> QED
  BY <1>1, <1>2 DEF Next

\* Every step keeps the history of signals in its bound.
LEMMA SinceStep == TypeOK /\ SinceCounted /\ [Next]_vars => SinceCounted'
<1> SUFFICES ASSUME TypeOK, SinceCounted, [Next]_vars PROVE SinceCounted'
    OBVIOUS
<1> USE DEF TypeOK, SinceCounted
<1>1. CASE UNCHANGED vars
  BY <1>1 DEF vars, condVars
<1>2. ASSUME NEW t \in Threads, InCall(t) \/ Chosen(t) PROVE SinceCounted'
  <2>1. CASE Notified(t) \/ Spurious(t) \/ TimeOut(t)
    BY <2>1, LeaveCases DEF LeaveSleep
  <2>2. CASE pthread_cond_wait(t) \/ CondSleeps(t) \/ pthread_cond_signal(t)
    BY <2>2 DEF pthread_cond_wait, CondSleeps, pthread_cond_signal
  <2>3. CASE ~(pthread_cond_wait(t) \/ CondSleeps(t) \/ pthread_cond_signal(t)
                 \/ Notified(t) \/ Spurious(t) \/ TimeOut(t))
    <3>1. UNCHANGED condVars
      BY <1>2, <2>3, StepCases
         DEF mu_lock_cell, mu_unlock_cell, Notify, pthread_mutex_lock, pthread_mutex_trylock,
             pthread_mutex_unlock, pthread_spin_lock, pthread_spin_unlock, rw_rdlock_impl,
             rw_wrlock_impl, RwSleeps, rw_unlock_impl, pthread_once, OnceDone, OnceLoses,
             pthread_barrier_wait, BarrierArrives, BarrierOpens, BarrierChecks, BarrierSleeps
    <3> QED
      BY <3>1 DEF condVars
  <2> QED
    BY <2>1, <2>2, <2>3
<1> QED
  BY <1>1, <1>2 DEF Next

Typed == TypeOK /\ RwOwned /\ SinceCounted

\* The initial states have the right shape.
LEMMA TypedInit == Init => Typed
<1> SUFFICES ASSUME Init PROVE Typed
    OBVIOUS
<1> USE SyncAssumption DEF Init
<1>1. TypeOK
  <2>1. returned \in BOOLEAN
    OBVIOUS
  <2>2. pc \in [Threads -> PCs] /\ lk \in [Threads -> Mutexes] /\ mu \in [Mutexes -> 0..2]
    BY DEF PCs, Mutexes
  <2> QED
    BY <2>1, <2>2 DEF TypeOK
<1>2. RwOwned
  <2>1. Readers = {} /\ Writers = {}
    BY DEF Readers, Writers
  <2> QED
    BY <2>1, FS_EmptySet DEF RwOwned
<1>3. SinceCounted
  BY DEF SinceCounted
<1> QED
  BY <1>1, <1>2, <1>3 DEF Typed

\* The shape of the state is invariant: whatever the threads do, the mutex and
\* rwlock cells and the counters keep to the values their width allows.
THEOREM SyncTyped == Spec => []Typed
<1>1. Typed /\ [Next]_vars => Typed'
  BY TypeStep, RwStep, SinceStep DEF Typed
<1> QED
  BY <1>1, TypedInit, PTL DEF Spec

\* The type invariant the runs check.
THEOREM SyncTypeCorrect == Spec => []TypeOK
<1>1. Typed => TypeOK
  BY DEF Typed
<1> QED
  BY <1>1, SyncTyped, PTL

----------------------------------------------------------------------------
(* Mutual exclusion.  A mutex cell that reads 0 is held by nobody, and who  *)
(* enters finds 0 in one atomic access.  That needs to know where a call of *)
(* mu_lock_cell or mu_unlock_cell returns to, on which mutex.               *)

Frames ==
  \A t \in Threads :
    /\ pc[t] \in {"mlock", "mxchg", "mwait", "msleep"} =>
         \/ lk[t] = "guest" /\ ret[t] = "crit"
         \/ lk[t] = "barrier" /\ ret[t] \in {"barr", "bcheck"}
    /\ pc[t] \in {"munlock", "mnotify"} =>
         \/ lk[t] = "guest" /\ ret[t] \in {"idle", "cwait"}
         \/ lk[t] = "barrier" /\ ret[t] \in {"idle", "bwait"}
    /\ pc[t] = "signotify" => ret[t] \in {"idle", "crit"}
    /\ pc[t] = "cwait" => lk[t] = "guest"
    /\ pc[t] = "csleep" => lk[t] = "guest" /\ ret[t] = "crit"
    /\ pc[t] = "bwait" => lk[t] = "barrier"
    /\ pc[t] = "bsleep" => lk[t] = "barrier" /\ ret[t] = "bcheck"

MutexOwned ==
  \A t \in Threads, m \in Mutexes :
    Holds(t, m) => mu[m] # 0 /\ \A u \in Threads : Holds(u, m) => u = t

SpinOwned ==
  \A t \in Threads :
    pc[t] = "spun" => spin = 1 /\ \A u \in Threads : pc[u] = "spun" => u = t

\* A call returns where it was made from.
LEMMA FramesStep == TypeOK /\ Frames /\ [Next]_vars => Frames'
<1> SUFFICES ASSUME TypeOK, Frames, [Next]_vars PROVE Frames'
    OBVIOUS
<1> USE DEF TypeOK, Frames, Goto, Call, Sleeping
<1>1. CASE UNCHANGED vars
  BY <1>1 DEF vars, threadVars
<1>2. ASSUME NEW t \in Threads, InCall(t) \/ Chosen(t) PROVE Frames'
  <2>1. CASE Notified(t) \/ Spurious(t) \/ TimeOut(t)
    BY <2>1, LeaveCases DEF LeaveSleep, AfterSleep, onceVars, barrierVars
  <2>2. CASE mu_lock_cell(t)
    BY <2>2 DEF mu_lock_cell, m3Atomic_Wait32
  <2>3. CASE mu_unlock_cell(t) \/ Notify(t)
    BY <2>3 DEF mu_unlock_cell, Notify
  <2>4. CASE pthread_mutex_lock(t) \/ pthread_mutex_trylock(t) \/ pthread_mutex_unlock(t)
    BY <2>4 DEF pthread_mutex_lock, pthread_mutex_trylock, pthread_mutex_unlock
  <2>5. CASE pthread_cond_wait(t) \/ CondSleeps(t) \/ pthread_cond_signal(t)
    BY <2>5 DEF pthread_cond_wait, CondSleeps, pthread_cond_signal, m3Atomic_Wait32
  <2>6. CASE pthread_spin_lock(t) \/ pthread_spin_unlock(t)
    BY <2>6 DEF pthread_spin_lock, pthread_spin_unlock
  <2>7. CASE rw_rdlock_impl(t) \/ rw_wrlock_impl(t) \/ RwSleeps(t) \/ rw_unlock_impl(t)
    BY <2>7 DEF rw_rdlock_impl, rw_wrlock_impl, RwSleeps, rw_unlock_impl, m3Atomic_Wait32
  <2>8. CASE pthread_once(t) \/ OnceDone(t) \/ OnceLoses(t)
    BY <2>8 DEF pthread_once, OnceDone, OnceLoses, m3Atomic_Wait32
  <2>9. CASE pthread_barrier_wait(t) \/ BarrierArrives(t)
    BY <2>9 DEF pthread_barrier_wait, BarrierArrives, barrierVars
  <2>10. CASE BarrierOpens(t) \/ BarrierChecks(t) \/ BarrierSleeps(t)
    BY <2>10 DEF BarrierOpens, BarrierChecks, BarrierSleeps, m3Atomic_Wait32, barrierVars
  <2> QED
    BY <1>2, <2>1, <2>2, <2>3, <2>4, <2>5, <2>6, <2>7, <2>8, <2>9, <2>10, StepCases
<1> QED
  BY <1>1, <1>2 DEF Next

\* A mutex passes from a holder to nobody, and from nobody to one thread.
LEMMA MutexStep == TypeOK /\ Frames /\ MutexOwned /\ [Next]_vars => MutexOwned'
<1> SUFFICES ASSUME TypeOK, Frames, MutexOwned, [Next]_vars PROVE MutexOwned'
    OBVIOUS
<1> USE DEF TypeOK, Frames, MutexOwned, Holds, Mutexes, Goto, Call, Sleeping
<1>1. CASE UNCHANGED vars
  BY <1>1 DEF vars, threadVars
<1>2. ASSUME NEW t \in Threads, InCall(t) \/ Chosen(t) PROVE MutexOwned'
  <2>1. CASE Notified(t) \/ Spurious(t) \/ TimeOut(t)
    BY <2>1, LeaveCases DEF LeaveSleep, AfterSleep, onceVars, barrierVars
  <2>2. CASE mu_lock_cell(t)
    BY <2>2 DEF mu_lock_cell, m3Atomic_Wait32
  <2>3. CASE mu_unlock_cell(t) \/ Notify(t)
    BY <2>3 DEF mu_unlock_cell, Notify
  <2>4. CASE pthread_mutex_lock(t) \/ pthread_mutex_trylock(t) \/ pthread_mutex_unlock(t)
    BY <2>4 DEF pthread_mutex_lock, pthread_mutex_trylock, pthread_mutex_unlock
  <2>5. CASE pthread_cond_wait(t) \/ CondSleeps(t) \/ pthread_cond_signal(t)
    BY <2>5 DEF pthread_cond_wait, CondSleeps, pthread_cond_signal, m3Atomic_Wait32
  <2>6. CASE pthread_spin_lock(t) \/ pthread_spin_unlock(t)
    BY <2>6 DEF pthread_spin_lock, pthread_spin_unlock
  <2>7. CASE rw_rdlock_impl(t) \/ rw_wrlock_impl(t) \/ RwSleeps(t) \/ rw_unlock_impl(t)
    BY <2>7 DEF rw_rdlock_impl, rw_wrlock_impl, RwSleeps, rw_unlock_impl, m3Atomic_Wait32
  <2>8. CASE pthread_once(t) \/ OnceDone(t) \/ OnceLoses(t)
    BY <2>8 DEF pthread_once, OnceDone, OnceLoses, m3Atomic_Wait32
  <2>9. CASE pthread_barrier_wait(t) \/ BarrierArrives(t)
    BY <2>9 DEF pthread_barrier_wait, BarrierArrives, barrierVars
  <2>10. CASE BarrierOpens(t) \/ BarrierChecks(t) \/ BarrierSleeps(t)
    BY <2>10 DEF BarrierOpens, BarrierChecks, BarrierSleeps, m3Atomic_Wait32, barrierVars
  <2> QED
    BY <1>2, <2>1, <2>2, <2>3, <2>4, <2>5, <2>6, <2>7, <2>8, <2>9, <2>10, StepCases
<1> QED
  BY <1>1, <1>2 DEF Next

\* So does the spinlock.
LEMMA SpinStep == TypeOK /\ SpinOwned /\ [Next]_vars => SpinOwned'
<1> SUFFICES ASSUME TypeOK, SpinOwned, [Next]_vars PROVE SpinOwned'
    OBVIOUS
<1> USE DEF TypeOK, SpinOwned, Goto, Call, Sleeping
<1>1. CASE UNCHANGED vars
  BY <1>1 DEF vars, threadVars
<1>2. ASSUME NEW t \in Threads, InCall(t) \/ Chosen(t) PROVE SpinOwned'
  <2>1. CASE Notified(t) \/ Spurious(t) \/ TimeOut(t)
    BY <2>1, LeaveCases DEF LeaveSleep, AfterSleep, onceVars, barrierVars
  <2>2. CASE mu_lock_cell(t)
    BY <2>2 DEF mu_lock_cell, m3Atomic_Wait32
  <2>3. CASE mu_unlock_cell(t) \/ Notify(t)
    BY <2>3 DEF mu_unlock_cell, Notify
  <2>4. CASE pthread_mutex_lock(t) \/ pthread_mutex_trylock(t) \/ pthread_mutex_unlock(t)
    BY <2>4 DEF pthread_mutex_lock, pthread_mutex_trylock, pthread_mutex_unlock
  <2>5. CASE pthread_cond_wait(t) \/ CondSleeps(t) \/ pthread_cond_signal(t)
    BY <2>5 DEF pthread_cond_wait, CondSleeps, pthread_cond_signal, m3Atomic_Wait32
  <2>6. CASE pthread_spin_lock(t) \/ pthread_spin_unlock(t)
    BY <2>6 DEF pthread_spin_lock, pthread_spin_unlock
  <2>7. CASE rw_rdlock_impl(t) \/ rw_wrlock_impl(t) \/ RwSleeps(t) \/ rw_unlock_impl(t)
    BY <2>7 DEF rw_rdlock_impl, rw_wrlock_impl, RwSleeps, rw_unlock_impl, m3Atomic_Wait32
  <2>8. CASE pthread_once(t) \/ OnceDone(t) \/ OnceLoses(t)
    BY <2>8 DEF pthread_once, OnceDone, OnceLoses, m3Atomic_Wait32
  <2>9. CASE pthread_barrier_wait(t) \/ BarrierArrives(t)
    BY <2>9 DEF pthread_barrier_wait, BarrierArrives, barrierVars
  <2>10. CASE BarrierOpens(t) \/ BarrierChecks(t) \/ BarrierSleeps(t)
    BY <2>10 DEF BarrierOpens, BarrierChecks, BarrierSleeps, m3Atomic_Wait32, barrierVars
  <2> QED
    BY <1>2, <2>1, <2>2, <2>3, <2>4, <2>5, <2>6, <2>7, <2>8, <2>9, <2>10, StepCases
<1> QED
  BY <1>1, <1>2 DEF Next

Exclusive == Typed /\ Frames /\ MutexOwned /\ SpinOwned

\* Two threads never hold the same mutex, the spinlock, or the rwlock other
\* than as readers: mu_lock_cell, the spinlock and rw_rdlock_impl and
\* rw_wrlock_impl let a thread in only when nobody it excludes is.
THEOREM SyncExcludes == Spec => []MutualExclusion
<1>1. Init => Exclusive
  <2>1. Init => Frames
    BY DEF Init, Frames
  <2>2. Init => MutexOwned
    BY DEF Init, MutexOwned, Holds
  <2>3. Init => SpinOwned
    BY DEF Init, SpinOwned
  <2> QED
    BY <2>1, <2>2, <2>3, TypedInit DEF Exclusive
<1>2. Exclusive /\ [Next]_vars => Exclusive'
  BY TypeStep, RwStep, SinceStep, FramesStep, MutexStep, SpinStep DEF Exclusive, Typed
<1>3. Exclusive => MutualExclusion
  <2> SUFFICES ASSUME Exclusive, NEW t \in Threads, NEW u \in Threads, t # u
               PROVE  /\ \A m \in Mutexes : ~(Holds(t, m) /\ Holds(u, m))
                      /\ ~(pc[t] = "spun" /\ pc[u] = "spun")
                      /\ ~(pc[t] = "writing" /\ pc[u] \in {"reading", "writing"})
    BY DEF MutualExclusion
  <2>1. \A m \in Mutexes : ~(Holds(t, m) /\ Holds(u, m))
    BY DEF Exclusive, MutexOwned
  <2>2. ~(pc[t] = "spun" /\ pc[u] = "spun")
    BY DEF Exclusive, SpinOwned
  <2>3. RwOwned /\ rw \in Nat
    BY SyncAssumption DEF Exclusive, Typed, TypeOK
  <2>4. ~(pc[t] = "writing" /\ pc[u] \in {"reading", "writing"})
    BY <2>3, RwHolder DEF Writers
  <2> QED
    BY <2>1, <2>2, <2>4
<1> QED
  BY <1>1, <1>2, <1>3, PTL DEF Spec

----------------------------------------------------------------------------
(* Once.  The cell tells how far the routine has come. *)

OnceOwned ==
  /\ once = 0 => inits = 0 /\ ~returned
  /\ once = 1 => inits = 1 /\ ~returned
  /\ once = 2 => inits = 1
  /\ \A t \in Threads :
       /\ pc[t] = "init" => once = 1 /\ \A u \in Threads : pc[u] = "init" => u = t
       /\ pc[t] = "onotify" => once = 2

\* The routine is entered from 0, by one thread, and left to 2.
LEMMA OnceStep == TypeOK /\ Frames /\ OnceOwned /\ [Next]_vars => OnceOwned'
<1> SUFFICES ASSUME TypeOK, Frames, OnceOwned, [Next]_vars PROVE OnceOwned'
    OBVIOUS
<1> USE DEF TypeOK, Frames, OnceOwned, Goto, Call, Sleeping, onceVars
<1>1. CASE UNCHANGED vars
  BY <1>1 DEF vars, threadVars
<1>2. ASSUME NEW t \in Threads, InCall(t) \/ Chosen(t) PROVE OnceOwned'
  <2>1. CASE Notified(t) \/ Spurious(t) \/ TimeOut(t)
    BY <2>1, LeaveCases DEF LeaveSleep, AfterSleep, onceVars, barrierVars
  <2>2. CASE mu_lock_cell(t)
    BY <2>2 DEF mu_lock_cell, m3Atomic_Wait32
  <2>3. CASE mu_unlock_cell(t) \/ Notify(t)
    BY <2>3 DEF mu_unlock_cell, Notify
  <2>4. CASE pthread_mutex_lock(t) \/ pthread_mutex_trylock(t) \/ pthread_mutex_unlock(t)
    BY <2>4 DEF pthread_mutex_lock, pthread_mutex_trylock, pthread_mutex_unlock
  <2>5. CASE pthread_cond_wait(t) \/ CondSleeps(t) \/ pthread_cond_signal(t)
    BY <2>5 DEF pthread_cond_wait, CondSleeps, pthread_cond_signal, m3Atomic_Wait32
  <2>6. CASE pthread_spin_lock(t) \/ pthread_spin_unlock(t)
    BY <2>6 DEF pthread_spin_lock, pthread_spin_unlock
  <2>7. CASE rw_rdlock_impl(t) \/ rw_wrlock_impl(t) \/ RwSleeps(t) \/ rw_unlock_impl(t)
    BY <2>7 DEF rw_rdlock_impl, rw_wrlock_impl, RwSleeps, rw_unlock_impl, m3Atomic_Wait32
  <2>8. CASE pthread_once(t) \/ OnceDone(t) \/ OnceLoses(t)
    BY <2>8 DEF pthread_once, OnceDone, OnceLoses, m3Atomic_Wait32
  <2>9. CASE pthread_barrier_wait(t) \/ BarrierArrives(t)
    BY <2>9 DEF pthread_barrier_wait, BarrierArrives, barrierVars
  <2>10. CASE BarrierOpens(t) \/ BarrierChecks(t) \/ BarrierSleeps(t)
    BY <2>10 DEF BarrierOpens, BarrierChecks, BarrierSleeps, m3Atomic_Wait32, barrierVars
  <2> QED
    BY <1>2, <2>1, <2>2, <2>3, <2>4, <2>5, <2>6, <2>7, <2>8, <2>9, <2>10, StepCases
<1> QED
  BY <1>1, <1>2 DEF Next

----------------------------------------------------------------------------
(* Condition variables.  While a thread waits, the cell is ahead of the     *)
(* value it loaded by the signals sent since; fewer than 2^32 of them, so   *)
(* the cell has that value only if there was none.                          *)

CondCounted ==
  \A t \in Threads : CondWaiting(t) =>
    /\ exp[t] \in 0 .. SeqSize - 1
    /\ seq = exp[t] + since[t] \/ seq = exp[t] + since[t] - SeqSize


\* Every signal advances the cell by one, around its width.
LEMMA CondStep ==
  TypeOK /\ Frames /\ SinceCounted /\ CondCounted /\ [Next]_vars => CondCounted'
<1> SUFFICES ASSUME TypeOK, Frames, SinceCounted, CondCounted, [Next]_vars
             PROVE  CondCounted'
    OBVIOUS
<1> USE SyncAssumption DEF TypeOK, Frames, SinceCounted, CondCounted, CondWaiting,
           Bump, Goto, Call, Sleeping, condVars
<1>1. CASE UNCHANGED vars
  BY <1>1 DEF vars, threadVars
<1>2. ASSUME NEW t \in Threads, InCall(t) \/ Chosen(t) PROVE CondCounted'
  <2>1. CASE Notified(t) \/ Spurious(t) \/ TimeOut(t)
    BY <2>1, LeaveCases DEF LeaveSleep, AfterSleep, onceVars, barrierVars
  <2>2. CASE mu_lock_cell(t)
    BY <2>2 DEF mu_lock_cell, m3Atomic_Wait32
  <2>3. CASE mu_unlock_cell(t) \/ Notify(t)
    BY <2>3 DEF mu_unlock_cell, Notify
  <2>4. CASE pthread_mutex_lock(t) \/ pthread_mutex_trylock(t) \/ pthread_mutex_unlock(t)
    BY <2>4 DEF pthread_mutex_lock, pthread_mutex_trylock, pthread_mutex_unlock
  <2>5. CASE pthread_cond_wait(t) \/ CondSleeps(t) \/ pthread_cond_signal(t)
    BY <2>5 DEF pthread_cond_wait, CondSleeps, pthread_cond_signal, m3Atomic_Wait32
  <2>6. CASE pthread_spin_lock(t) \/ pthread_spin_unlock(t)
    BY <2>6 DEF pthread_spin_lock, pthread_spin_unlock
  <2>7. CASE rw_rdlock_impl(t) \/ rw_wrlock_impl(t) \/ RwSleeps(t) \/ rw_unlock_impl(t)
    BY <2>7 DEF rw_rdlock_impl, rw_wrlock_impl, RwSleeps, rw_unlock_impl, m3Atomic_Wait32
  <2>8. CASE pthread_once(t) \/ OnceDone(t) \/ OnceLoses(t)
    BY <2>8 DEF pthread_once, OnceDone, OnceLoses, m3Atomic_Wait32
  <2>9. CASE pthread_barrier_wait(t) \/ BarrierArrives(t)
    BY <2>9 DEF pthread_barrier_wait, BarrierArrives, barrierVars
  <2>10. CASE BarrierOpens(t) \/ BarrierChecks(t) \/ BarrierSleeps(t)
    BY <2>10 DEF BarrierOpens, BarrierChecks, BarrierSleeps, m3Atomic_Wait32, barrierVars
  <2> QED
    BY <1>2, <2>1, <2>2, <2>3, <2>4, <2>5, <2>6, <2>7, <2>8, <2>9, <2>10, StepCases
<1> QED
  BY <1>1, <1>2 DEF Next

\* Who sleeps through a signal is about to be told.
LEMMA MissedStep ==
  TypeOK /\ Frames /\ SinceCounted /\ CondCounted /\ CondNoMissedSignal
    /\ [Next]_vars => CondNoMissedSignal'
<1> SUFFICES ASSUME TypeOK, Frames, SinceCounted, CondCounted, CondNoMissedSignal, [Next]_vars
             PROVE  CondNoMissedSignal'
    OBVIOUS
<1> USE SyncAssumption DEF TypeOK, Frames, SinceCounted, CondCounted,
           CondNoMissedSignal, CondWaiting, m3Atomic_Notify, Goto, Call, Sleeping,
           condVars
<1>1. CASE UNCHANGED vars
  BY <1>1 DEF vars, threadVars
<1>2. ASSUME NEW t \in Threads, InCall(t) \/ Chosen(t) PROVE CondNoMissedSignal'
  <2>1. CASE Notified(t) \/ Spurious(t) \/ TimeOut(t)
    BY <2>1, LeaveCases DEF LeaveSleep, AfterSleep, onceVars, barrierVars
  <2>2. CASE mu_lock_cell(t)
    BY <2>2 DEF mu_lock_cell, m3Atomic_Wait32
  <2>3. CASE mu_unlock_cell(t) \/ Notify(t)
    BY <2>3 DEF mu_unlock_cell, Notify
  <2>4. CASE pthread_mutex_lock(t) \/ pthread_mutex_trylock(t) \/ pthread_mutex_unlock(t)
    BY <2>4 DEF pthread_mutex_lock, pthread_mutex_trylock, pthread_mutex_unlock
  <2>5. CASE pthread_cond_wait(t) \/ CondSleeps(t) \/ pthread_cond_signal(t)
    BY <2>5 DEF pthread_cond_wait, CondSleeps, pthread_cond_signal, m3Atomic_Wait32
  <2>6. CASE pthread_spin_lock(t) \/ pthread_spin_unlock(t)
    BY <2>6 DEF pthread_spin_lock, pthread_spin_unlock
  <2>7. CASE rw_rdlock_impl(t) \/ rw_wrlock_impl(t) \/ RwSleeps(t) \/ rw_unlock_impl(t)
    BY <2>7 DEF rw_rdlock_impl, rw_wrlock_impl, RwSleeps, rw_unlock_impl, m3Atomic_Wait32
  <2>8. CASE pthread_once(t) \/ OnceDone(t) \/ OnceLoses(t)
    BY <2>8 DEF pthread_once, OnceDone, OnceLoses, m3Atomic_Wait32
  <2>9. CASE pthread_barrier_wait(t) \/ BarrierArrives(t)
    BY <2>9 DEF pthread_barrier_wait, BarrierArrives, barrierVars
  <2>10. CASE BarrierOpens(t) \/ BarrierChecks(t) \/ BarrierSleeps(t)
    BY <2>10 DEF BarrierOpens, BarrierChecks, BarrierSleeps, m3Atomic_Wait32, barrierVars
  <2> QED
    BY <1>2, <2>1, <2>2, <2>3, <2>4, <2>5, <2>6, <2>7, <2>8, <2>9, <2>10, StepCases
<1> QED
  BY <1>1, <1>2 DEF Next

----------------------------------------------------------------------------
(* Wake-ups.  A thread goes to sleep on a value that is not the one it      *)
(* waits for, and whoever changes the cell then notifies every sleeper.     *)

Parked ==
  /\ gen = bseq
  /\ \A t \in Threads :
       /\ pc[t] \in {"rdwait", "rdsleep"} => exp[t] = RW_WRITER \/ exp[t] >= RW_WRITER - 1
       /\ pc[t] \in {"wrwait", "wrsleep"} => exp[t] # 0
       /\ pc[t] \in {"munlock", "mnotify"} /\ ret[t] = "bwait" => exp[t] = mygen[t]
       /\ pc[t] \in {"bwait", "bsleep"} => exp[t] = mygen[t]

\* The value a thread is about to sleep on is one it has to wait at.
LEMMA ParkedStep == TypeOK /\ Frames /\ Parked /\ [Next]_vars => Parked'
<1> SUFFICES ASSUME TypeOK, Frames, Parked, [Next]_vars PROVE Parked'
    OBVIOUS
<1> USE SyncAssumption DEF TypeOK, Frames, Parked, Readable, Goto, Call, Sleeping,
           barrierVars
<1>1. CASE UNCHANGED vars
  BY <1>1 DEF vars, threadVars
<1>2. ASSUME NEW t \in Threads, InCall(t) \/ Chosen(t) PROVE Parked'
  <2>1. CASE Notified(t) \/ Spurious(t) \/ TimeOut(t)
    BY <2>1, LeaveCases DEF LeaveSleep, AfterSleep, onceVars, barrierVars
  <2>2. CASE mu_lock_cell(t)
    BY <2>2 DEF mu_lock_cell, m3Atomic_Wait32
  <2>3. CASE mu_unlock_cell(t) \/ Notify(t)
    BY <2>3 DEF mu_unlock_cell, Notify
  <2>4. CASE pthread_mutex_lock(t) \/ pthread_mutex_trylock(t) \/ pthread_mutex_unlock(t)
    BY <2>4 DEF pthread_mutex_lock, pthread_mutex_trylock, pthread_mutex_unlock
  <2>5. CASE pthread_cond_wait(t) \/ CondSleeps(t) \/ pthread_cond_signal(t)
    BY <2>5 DEF pthread_cond_wait, CondSleeps, pthread_cond_signal, m3Atomic_Wait32
  <2>6. CASE pthread_spin_lock(t) \/ pthread_spin_unlock(t)
    BY <2>6 DEF pthread_spin_lock, pthread_spin_unlock
  <2>7. CASE rw_rdlock_impl(t) \/ rw_wrlock_impl(t) \/ RwSleeps(t) \/ rw_unlock_impl(t)
    BY <2>7 DEF rw_rdlock_impl, rw_wrlock_impl, RwSleeps, rw_unlock_impl, m3Atomic_Wait32
  <2>8. CASE pthread_once(t) \/ OnceDone(t) \/ OnceLoses(t)
    BY <2>8 DEF pthread_once, OnceDone, OnceLoses, m3Atomic_Wait32
  <2>9. CASE pthread_barrier_wait(t) \/ BarrierArrives(t)
    BY <2>9 DEF pthread_barrier_wait, BarrierArrives, barrierVars
  <2>10. CASE BarrierOpens(t) \/ BarrierChecks(t) \/ BarrierSleeps(t)
    BY <2>10 DEF BarrierOpens, BarrierChecks, BarrierSleeps, m3Atomic_Wait32, barrierVars
  <2> QED
    BY <1>2, <2>1, <2>2, <2>3, <2>4, <2>5, <2>6, <2>7, <2>8, <2>9, <2>10, StepCases
<1> QED
  BY <1>1, <1>2 DEF Next

\* Every change a sleeper waits for is followed by a notify.
LEMMA WakeupStep ==
  TypeOK /\ Frames /\ Parked /\ NoLostWakeup /\ [Next]_vars => NoLostWakeup'
<1> SUFFICES ASSUME TypeOK, Frames, Parked, NoLostWakeup, [Next]_vars PROVE NoLostWakeup'
    OBVIOUS
<1> USE SyncAssumption DEF TypeOK, Frames, Parked, NoLostWakeup, Due, Readable,
           Notifying, m3Atomic_Notify, Goto, Call, Sleeping, condVars, onceVars,
           barrierVars
<1>1. CASE UNCHANGED vars
  BY <1>1 DEF vars, threadVars
<1>2. ASSUME NEW t \in Threads, InCall(t) \/ Chosen(t) PROVE NoLostWakeup'
  <2>1. CASE Notified(t) \/ Spurious(t) \/ TimeOut(t)
    BY <2>1, LeaveCases DEF LeaveSleep, AfterSleep, onceVars, barrierVars
  <2>2. CASE mu_lock_cell(t)
    BY <2>2 DEF mu_lock_cell, m3Atomic_Wait32
  <2>3. CASE mu_unlock_cell(t) \/ Notify(t)
    BY <2>3 DEF mu_unlock_cell, Notify
  <2>4. CASE pthread_mutex_lock(t) \/ pthread_mutex_trylock(t) \/ pthread_mutex_unlock(t)
    BY <2>4 DEF pthread_mutex_lock, pthread_mutex_trylock, pthread_mutex_unlock
  <2>5. CASE pthread_cond_wait(t) \/ CondSleeps(t) \/ pthread_cond_signal(t)
    BY <2>5 DEF pthread_cond_wait, CondSleeps, pthread_cond_signal, m3Atomic_Wait32
  <2>6. CASE pthread_spin_lock(t) \/ pthread_spin_unlock(t)
    BY <2>6 DEF pthread_spin_lock, pthread_spin_unlock
  <2>7. CASE rw_rdlock_impl(t) \/ rw_wrlock_impl(t) \/ RwSleeps(t) \/ rw_unlock_impl(t)
    BY <2>7 DEF rw_rdlock_impl, rw_wrlock_impl, RwSleeps, rw_unlock_impl, m3Atomic_Wait32
  <2>8. CASE pthread_once(t) \/ OnceDone(t) \/ OnceLoses(t)
    BY <2>8 DEF pthread_once, OnceDone, OnceLoses, m3Atomic_Wait32
  <2>9. CASE pthread_barrier_wait(t) \/ BarrierArrives(t)
    BY <2>9 DEF pthread_barrier_wait, BarrierArrives, barrierVars
  <2>10. CASE BarrierOpens(t) \/ BarrierChecks(t) \/ BarrierSleeps(t)
    BY <2>10 DEF BarrierOpens, BarrierChecks, BarrierSleeps, m3Atomic_Wait32, barrierVars
  <2> QED
    BY <1>2, <2>1, <2>2, <2>3, <2>4, <2>5, <2>6, <2>7, <2>8, <2>9, <2>10, StepCases
<1> QED
  BY <1>1, <1>2 DEF Next

----------------------------------------------------------------------------
(* The barrier.  Who has arrived and not left is inside; as many as have    *)
(* arrived in the open round are inside with that round's generation, which *)
(* keeps them there.                                                        *)

Inside == {t \in Threads :
  \/ pc[t] \in {"bcheck", "bnotify", "bwait", "bsleep"}
  \/ pc[t] \in {"munlock", "mnotify"} /\ ret[t] = "bwait"
  \/ pc[t] \in {"mlock", "mxchg", "mwait", "msleep"} /\ ret[t] = "bcheck"}
Round == {t \in Inside : mygen[t] = gen /\ pc[t] # "bnotify"}

BarrierCounted ==
  /\ left + Cardinality(Inside) = came
  /\ arrived <= Cardinality(Round)
  /\ \E k \in Nat : came = BarrierCount * k + arrived

\* Only arriving at the barrier and leaving it changes who is inside.
LEMMA InsideUntouched ==
  ASSUME TypeOK, Frames, NEW t \in Threads, InCall(t) \/ Chosen(t),
         ~BarrierArrives(t), ~BarrierOpens(t), ~BarrierChecks(t)
  PROVE  /\ Inside' = Inside /\ Round' = Round
         /\ left' = left /\ came' = came /\ arrived' = arrived
<1> USE DEF TypeOK, Frames, Goto, Call, Inside, Round, Sleeping, barrierVars
<1>1. CASE Notified(t) \/ Spurious(t) \/ TimeOut(t)
  BY <1>1, LeaveCases DEF LeaveSleep, AfterSleep, onceVars, barrierVars
<1>2. CASE mu_lock_cell(t)
  BY <1>2 DEF mu_lock_cell, m3Atomic_Wait32
<1>3. CASE mu_unlock_cell(t) \/ Notify(t)
  BY <1>3 DEF mu_unlock_cell, Notify
<1>4. CASE pthread_mutex_lock(t) \/ pthread_mutex_trylock(t) \/ pthread_mutex_unlock(t)
  BY <1>4 DEF pthread_mutex_lock, pthread_mutex_trylock, pthread_mutex_unlock
<1>5. CASE pthread_cond_wait(t) \/ CondSleeps(t) \/ pthread_cond_signal(t)
  BY <1>5 DEF pthread_cond_wait, CondSleeps, pthread_cond_signal, m3Atomic_Wait32
<1>6. CASE pthread_spin_lock(t) \/ pthread_spin_unlock(t)
  BY <1>6 DEF pthread_spin_lock, pthread_spin_unlock
<1>7. CASE rw_rdlock_impl(t) \/ rw_wrlock_impl(t) \/ RwSleeps(t) \/ rw_unlock_impl(t)
  BY <1>7 DEF rw_rdlock_impl, rw_wrlock_impl, RwSleeps, rw_unlock_impl, m3Atomic_Wait32
<1>8. CASE pthread_once(t) \/ OnceDone(t) \/ OnceLoses(t)
  BY <1>8 DEF pthread_once, OnceDone, OnceLoses, m3Atomic_Wait32
<1>9. CASE pthread_barrier_wait(t) \/ BarrierSleeps(t)
  BY <1>9 DEF pthread_barrier_wait, BarrierSleeps, m3Atomic_Wait32
<1> QED
  BY <1>1, <1>2, <1>3, <1>4, <1>5, <1>6, <1>7, <1>8, <1>9, StepCases

\* Every step keeps the barrier's books.
LEMMA BarrierStep ==
  TypeOK /\ Frames /\ BarrierCounted /\ [Next]_vars => BarrierCounted'
<1> SUFFICES ASSUME TypeOK, Frames, BarrierCounted, [Next]_vars PROVE BarrierCounted'
    OBVIOUS
<1>0. /\ IsFiniteSet(Inside) /\ IsFiniteSet(Round) /\ Cardinality(Round) \in Nat
      /\ Cardinality(Inside) \in Nat
  BY SyncAssumption, FS_Subset, FS_CardinalityType DEF Inside, Round
<1>t. /\ arrived \in Nat /\ came \in Nat /\ left \in Nat /\ BarrierCount \in Nat \ {0}
      /\ arrived < BarrierCount
  BY SyncAssumption DEF TypeOK
<1>k. PICK k \in Nat : came = BarrierCount * k + arrived
  BY DEF BarrierCounted
<1>1. CASE UNCHANGED vars
  BY <1>1 DEF vars, threadVars, barrierVars, BarrierCounted, Inside, Round
<1>2. ASSUME NEW t \in Threads, InCall(t) \/ Chosen(t) PROVE BarrierCounted'
  <2>1. CASE BarrierArrives(t)
    <3>1. t \notin Inside /\ came' = came + 1 /\ left' = left
      BY <2>1 DEF BarrierArrives, Inside
    <3>2. Inside' = Inside \cup {t}
      BY <2>1 DEF BarrierArrives, Inside, Goto, TypeOK
    <3>3. Cardinality(Inside') = Cardinality(Inside) + 1
      BY <1>0, <3>1, <3>2, FS_AddElement
    <3>4. left' + Cardinality(Inside') = came'
      BY <1>0, <1>t, <3>1, <3>3 DEF BarrierCounted
    <3>5. CASE arrived + 1 = BarrierCount /\ arrived' = 0
      <4>1. came' = BarrierCount * (k + 1) + arrived'
        BY <1>k, <1>t, <3>1, <3>5
      <4>2. Cardinality(Round') \in Nat
        <5>1. IsFiniteSet(Inside')
          BY <1>0, <3>2, FS_AddElement
        <5>2. Round' \subseteq Inside'
          BY DEF Round
        <5> QED
          BY <5>1, <5>2, FS_Subset, FS_CardinalityType
      <4> QED
        BY <3>4, <3>5, <4>1, <4>2 DEF BarrierCounted
    <3>6. CASE arrived' = arrived + 1 /\ UNCHANGED gen /\ Goto(t, "bcheck")
      <4>1. Round' = Round \cup {t} /\ t \notin Round
        BY <2>1, <3>1, <3>2, <3>6 DEF BarrierArrives, Round, Goto, TypeOK, Inside
      <4>2. Cardinality(Round') = Cardinality(Round) + 1
        BY <1>0, <4>1, FS_AddElement
      <4>3. arrived' <= Cardinality(Round')
        BY <1>0, <1>t, <3>6, <4>2 DEF BarrierCounted
      <4>4. came' = BarrierCount * k + arrived'
        BY <1>k, <1>t, <3>1, <3>6
      <4> QED
        BY <3>4, <4>3, <4>4 DEF BarrierCounted
    <3> QED
      BY <2>1, <3>5, <3>6 DEF BarrierArrives
  <2>2. CASE BarrierOpens(t) \/ (BarrierChecks(t) /\ gen # mygen[t])
    <3>1. t \in Inside /\ t \notin Round /\ came' = came /\ left' = left + 1
      BY <2>2 DEF BarrierOpens, BarrierChecks, Inside, Round
    <3>2. Inside' = Inside \ {t} /\ Round' = Round /\ arrived' = arrived
      BY <2>2 DEF BarrierOpens, BarrierChecks, Inside, Round, Call, Goto, TypeOK
    <3>3. Cardinality(Inside') = Cardinality(Inside) - 1
      BY <1>0, <3>1, <3>2, FS_RemoveElement
    <3>4. left' + Cardinality(Inside') = came'
      BY <1>0, <1>t, <3>1, <3>3 DEF BarrierCounted
    <3> QED
      BY <3>1, <3>2, <3>4 DEF BarrierCounted
  <2>3. CASE BarrierChecks(t) /\ gen = mygen[t]
    <3>1. /\ Inside' = Inside /\ Round' = Round
          /\ left' = left /\ came' = came /\ arrived' = arrived
      BY <2>3 DEF BarrierChecks, Inside, Round, Call, Goto, TypeOK
    <3> QED
      BY <3>1 DEF BarrierCounted
  <2>4. CASE ~BarrierArrives(t) /\ ~BarrierOpens(t) /\ ~BarrierChecks(t)
    <3>1. /\ Inside' = Inside /\ Round' = Round
          /\ left' = left /\ came' = came /\ arrived' = arrived
      BY <1>2, <2>4, InsideUntouched
    <3> QED
      BY <3>1 DEF BarrierCounted
  <2> QED
    BY <2>1, <2>2, <2>3, <2>4
<1> QED
  BY <1>1, <1>2 DEF Next

----------------------------------------------------------------------------
(* What a user of the primitives relies on *)

Sound ==
  /\ Exclusive /\ OnceOwned /\ CondCounted /\ Parked /\ BarrierCounted
  /\ CondNoMissedSignal /\ NoLostWakeup

\* The initial states satisfy the inductive invariant.
LEMMA SoundInit == Init => Sound
<1> SUFFICES ASSUME Init PROVE Sound
    OBVIOUS
<1> USE SyncAssumption DEF Init
<1>1. Frames /\ MutexOwned /\ SpinOwned
  BY DEF Frames, MutexOwned, SpinOwned, Holds
<1>2. OnceOwned /\ CondCounted /\ Parked
  BY DEF OnceOwned, CondCounted, CondWaiting, Parked
<1>3. CondNoMissedSignal /\ NoLostWakeup
  BY DEF CondNoMissedSignal, NoLostWakeup, Sleeping
<1>4. BarrierCounted
  <2>1. Inside = {} /\ Round = {}
    BY DEF Inside, Round
  <2>2. came = BarrierCount * 0 + arrived
    OBVIOUS
  <2> QED
    BY <2>1, <2>2, FS_EmptySet DEF BarrierCounted
<1> QED
  BY <1>1, <1>2, <1>3, <1>4, TypedInit DEF Sound, Exclusive

\* Every step keeps it.
LEMMA SoundStep == Sound /\ [Next]_vars => Sound'
BY TypeStep, RwStep, SinceStep, FramesStep, MutexStep, SpinStep, OnceStep, CondStep,
   MissedStep, ParkedStep, WakeupStep, BarrierStep DEF Sound, Exclusive, Typed

\* pthread_once runs the routine once, and nobody returns from it before the
\* routine has ended: the cell goes 0, 1, 2 and never back.
THEOREM OnceRunsOnce == Spec => []OnceOnly
<1>1. Sound => OnceOnly
  BY DEF Sound, Exclusive, Typed, TypeOK, OnceOwned, OnceOnly
<1> QED
  BY <1>1, SoundInit, SoundStep, PTL DEF Spec

\* A waiter of pthread_cond_wait does not miss a signal sent between its load
\* of the sequence, with the mutex held, and its sleep.
THEOREM CondSignalsArrive == Spec => []CondNoMissedSignal
<1>1. Sound => CondNoMissedSignal
  BY DEF Sound
<1> QED
  BY <1>1, SoundInit, SoundStep, PTL DEF Spec

\* No primitive leaves a thread asleep after what it waits for has happened,
\* unless the thread that made it happen is still to call m3Atomic_Notify.
THEOREM WakeupsArrive == Spec => []NoLostWakeup
<1>1. Sound => NoLostWakeup
  BY DEF Sound
<1> QED
  BY <1>1, SoundInit, SoundStep, PTL DEF Spec

\* Nobody leaves pthread_barrier_wait before its round is complete, even when
\* the generation wraps around.
THEOREM BarrierIsOne == Spec => []BarrierHolds
<1>1. Sound => BarrierHolds
  <2> SUFFICES ASSUME Sound PROVE BarrierHolds
    OBVIOUS
  <2>1. /\ arrived \in Nat /\ came \in Nat /\ left \in Nat
        /\ BarrierCount \in Nat \ {0} /\ arrived < BarrierCount
    BY SyncAssumption DEF Sound, Exclusive, Typed, TypeOK
  <2>2. PICK k \in Nat : came = BarrierCount * k + arrived
    BY DEF Sound, BarrierCounted
  <2>3. came \div BarrierCount = k
    BY <2>1, <2>2
  <2>4. IsFiniteSet(Inside) /\ Round \subseteq Inside
    BY SyncAssumption, FS_Subset DEF Inside, Round
  <2>5. Cardinality(Round) <= Cardinality(Inside) /\ Cardinality(Round) \in Nat
        /\ Cardinality(Inside) \in Nat
    BY <2>4, FS_Subset, FS_CardinalityType
  <2>6. left <= came - arrived
    BY <2>1, <2>5 DEF Sound, BarrierCounted
  <2> QED
    BY <2>1, <2>2, <2>3, <2>6 DEF BarrierHolds
<1> QED
  BY <1>1, SoundInit, SoundStep, PTL DEF Spec

=============================================================================
