----------------------------- MODULE Lifecycle -----------------------------
(***************************************************************************)
(* What the process table promises its guests, without slots, threads or   *)
(* locks: a process is born once, ends once, and after that it is either    *)
(* reported to one waitpid of its parent or discarded, never both and never *)
(* twice.  Only a running process is given a report, and only about a child *)
(* of its own.                                                              *)
(***************************************************************************)
CONSTANT Pid    \* the process ids; Init's is 1

VARIABLES
  life,      \* where each process is in its life
  parents    \* who may wait for it: one process while it is alive or ended

vars == <<life, parents>>

Init ==
  /\ life = [p \in Pid |-> IF p = 1 THEN "alive" ELSE "unborn"]
  /\ parents = [p \in Pid |-> IF p = 1 THEN {0} ELSE {}]

\* fork: a running process has a child p.  (It is init's when its parent has
\* been taken for dead.)
Spawn(p) ==
  /\ life[p] = "unborn"
  /\ life' = [life EXCEPT ![p] = "alive"]
  /\ \E q \in Pid :
       /\ life[q] = "alive"
       /\ parents' \in {[parents EXCEPT ![p] = {q}], [parents EXCEPT ![p] = {1}]}

\* exit, or a signal's default action
End(p) ==
  /\ life[p] = "alive"
  /\ life' = [life EXCEPT ![p] = "ended"]
  /\ UNCHANGED parents

\* waitpid of its parent, which is running, returns p
Report(p) ==
  /\ life[p] = "ended"
  /\ life' = [life EXCEPT ![p] = "reported"]
  /\ parents' = [parents EXCEPT ![p] = {}]
  /\ \E q \in Pid : life[q] = "alive" /\ parents[p] = {q}

\* The processes init may inherit.
Adoptable == {p \in Pid : life[p] \in {"alive", "ended"} /\ parents[p] # {1}}

\* Init inherits the processes in O.
Inherit(O) ==
  /\ O # {}
  /\ parents' = [p \in Pid |-> IF p \in O THEN {1} ELSE parents[p]]
  /\ UNCHANGED life

\* The same, perhaps with nobody in O, and nobody is going to wait for p.
Discard(p, O) ==
  /\ life[p] = "ended"
  /\ life' = [life EXCEPT ![p] = "discarded"]
  /\ parents' = [o \in Pid |-> IF o = p THEN {} ELSE IF o \in O THEN {1} ELSE parents[o]]

Next ==
  /\ vars' # vars
  /\ \/ \E p \in Pid : Spawn(p) \/ End(p) \/ Report(p)
     \/ \E O \in SUBSET Adoptable : Inherit(O) \/ \E p \in Pid : Discard(p, O)

Spec == Init /\ [][Next]_vars
=============================================================================
