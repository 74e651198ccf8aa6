----------------------------- MODULE Descriptors -----------------------------
(***************************************************************************)
(* What a guest is promised about its file descriptors, as POSIX states    *)
(* it: a process has a table of its own, only its own calls change it, fork*)
(* gives the child a copy with the close-on-exec flags kept, and execve    *)
(* closes exactly the descriptors with that flag.                          *)
(***************************************************************************)
CONSTANTS
  Procs, Wfds, Objs,   \* processes, descriptor numbers, files
  None                 \* no file

VARIABLE view          \* view[p] is p's table, Absent when there is no process p

Absent == [w \in {} |-> None]
Entry == [obj : Objs, cloexec : BOOLEAN] \cup {None}

Exists(p) == view[p] # Absent

DescTypeOK == view \in [Procs -> [Wfds -> Entry] \cup {Absent}]

\* A call of p that gives it new files at descriptors it does not use, such as
\* open, or a pair for pipe.
Gain(p, W) ==
  /\ Exists(p) /\ \A w \in W : view[p][w] = None
  /\ \E f \in [W -> Entry \ {None}] :
       view' = [view EXCEPT ![p] = [w \in Wfds |-> IF w \in W THEN f[w] ELSE view[p][w]]]

\* close, closefrom, close_range, fclose.
Lose(p, W) ==
  /\ Exists(p)
  /\ view' = [view EXCEPT ![p] = [w \in Wfds |-> IF w \in W THEN None ELSE view[p][w]]]

\* dup, dup2, dup3 and F_DUPFD: the same file under a second number.
Copy(p, from, to, cloexec) ==
  /\ Exists(p) /\ view[p][from] # None /\ from # to
  /\ view' = [view EXCEPT ![p][to] = [obj |-> view[p][from].obj, cloexec |-> cloexec]]

Fork(p, c) ==
  /\ Exists(p) /\ ~Exists(c)
  /\ view' = [view EXCEPT ![c] = view[p]]

Exec(p) ==
  /\ Exists(p)
  /\ view' = [view EXCEPT ![p] =
       [w \in Wfds |-> IF view[p][w] # None /\ view[p][w].cloexec THEN None ELSE view[p][w]]]

Exit(p) == Exists(p) /\ view' = [view EXCEPT ![p] = Absent]

DescNext ==
  /\ view' # view
  /\ \E p \in Procs :
       \/ \E W \in SUBSET Wfds : Gain(p, W) \/ Lose(p, W)
       \/ \E from, to \in Wfds, cloexec \in BOOLEAN : Copy(p, from, to, cloexec)
       \/ \E c \in Procs : Fork(p, c)
       \/ Exec(p)
       \/ Exit(p)

DescSpec == DescTypeOK /\ [][DescNext]_view
=============================================================================
