------------------------------ MODULE ForkRace ------------------------------
(***************************************************************************)
(* fork of a process with several threads, as impl/proc/proc.c does it: it *)
(* copies the memory first and the cursors and the list of holes later,    *)
(* without taking mem_lock, while the other threads of the process go on.  *)
(* MemMap forks in one step, between calls; this module takes the two      *)
(* steps apart, to show what that leaves out.                              *)
(***************************************************************************)
EXTENDS MemMap

VARIABLE snap   \* memory_snapshot, while fork is between its two copies

\* What the guest has mapped in the copy, and what need not be zero there.
NoSnap == [taken |-> FALSE, held |-> {}, dirty |-> {}]

RaceInit == MapInit /\ snap = NoSnap

\* snapshot_wasm_memory copies the memory.
ForkSnapshots ==
  /\ ~snap.taken
  /\ snap' = [taken |-> TRUE, held |-> held, dirty |-> stale \cup InUse]
  /\ UNCHANGED mapVars

\* The break, the cursor and the holes are copied as they are by now, wherever a
\* call of another thread is; the child starts from them and the older memory.
ForkCopiesLists ==
  /\ snap.taken /\ snap' = NoSnap
  /\ held' = snap.held
  /\ stale' = snap.dirty \ (snap.held \cup 0 .. heapEnd - 1)
  /\ isChild' = TRUE /\ call' = NoCall
  /\ InheritLists
  /\ UNCHANGED harm

\* The other threads' steps, and the child's once the fork is over.
RaceNext ==
  \/ ForkSnapshots \/ ForkCopiesLists
  \/ MapNext /\ UNCHANGED snap

RaceSpec == RaceInit /\ [][RaceNext]_<<mapVars, snap>>

=============================================================================
