------------------------------- MODULE FdTable -------------------------------
(***************************************************************************)
(* The descriptors of the guests (impl/io/io.c, impl/io/file.c and what    *)
(* fork, execve and exit do with them in impl/proc/proc.c).                *)
(*                                                                         *)
(* Every guest process is a thread of one host process, so all of them     *)
(* share the host's descriptor table: host[h] is the file behind host      *)
(* descriptor h.  fd_map[p] translates p's own numbers.  A close by number *)
(* that comes one step too late hits whichever process the kernel has      *)
(* given the number to since; owed[p] holds the numbers p is about to      *)
(* close again, and the steps of other processes come in between.          *)
(*                                                                         *)
(* files[p] is the table of stdio streams: the host descriptor inside the  *)
(* FILE, the guest's number for it, whether yos chose that number, and     *)
(* whether the running image knows the stream.                             *)
(***************************************************************************)
EXTENDS Integers, FiniteSets, FiniteSetsExt

CONSTANTS
  Procs, Root,       \* processes, and the one that runs at start
  FdMax,             \* YOS_FD_MAX, the size of fd_map
  NStd,              \* 3: the host's own stdin, stdout and stderr
  HostMax,           \* descriptors the host process may have
  Handles,           \* slots of the stream table
  Objs, None,        \* files
  KeepStreams        \* whether a guest forks, executes or exits with streams open

VARIABLES
  host, fd_map, files,
  pc,        \* "none", "running", "forking", "starting", "loading" or "exiting"
  fork,      \* the child p is making and the next descriptor to duplicate
  owed       \* host numbers p will close once more

vars == <<host, fd_map, files, pc, fork, owed>>

Wfds == 0 .. FdMax - 1
HostFds == 0 .. HostMax - 1
FREE_SLOT == -1
YOS_FD_FCLOSE_TOMB == -2

ASSUME FdAssumption ==
  /\ Root \in Procs /\ None \notin Objs /\ None \notin [obj : Objs, cloexec : BOOLEAN]
  /\ NStd \in Nat \ {0} /\ FdMax \in Nat /\ HostMax \in Nat
  /\ NStd <= FdMax /\ 2 * NStd <= HostMax
  /\ KeepStreams \in BOOLEAN

Closed == [obj |-> None, cloexec |-> FALSE]
Open(o, cloexec) == [obj |-> o, cloexec |-> cloexec]
Unmapped == [w \in Wfds |-> FREE_SLOT]
NoFile == [hfd |-> -1, wfd |-> -1, own |-> FALSE, held |-> FALSE]
NoFork == [child |-> Root, at |-> 0]

TypeOK ==
  /\ host \in [HostFds -> [obj : Objs \cup {None}, cloexec : BOOLEAN]]
  /\ fd_map \in [Procs -> [Wfds -> HostFds \cup {FREE_SLOT, YOS_FD_FCLOSE_TOMB}]]
  /\ files \in [Procs -> [Handles ->
       [hfd : HostFds \cup {-1}, wfd : Wfds \cup {-1}, own : BOOLEAN, held : BOOLEAN]]]
  /\ pc \in [Procs -> {"none", "running", "forking", "starting", "loading", "exiting"}]
  /\ fork \in [Procs -> [child : Procs, at : 0 .. FdMax]]
  /\ owed \in [Procs -> SUBSET HostFds]

\* The root process has a duplicate of each of the host's own descriptors.
yos_fd_table_init(o) ==
  /\ host = [h \in HostFds |-> IF h < 2 * NStd THEN Open(o, FALSE) ELSE Closed]
  /\ fd_map = [p \in Procs |-> [w \in Wfds |->
                 IF p = Root /\ w < NStd THEN NStd + w ELSE FREE_SLOT]]

Init ==
  /\ \E o \in Objs : yos_fd_table_init(o)
  /\ files = [p \in Procs |-> [x \in Handles |-> NoFile]]
  /\ pc = [p \in Procs |-> IF p = Root THEN "running" ELSE "none"]
  /\ fork = [p \in Procs |-> NoFork]
  /\ owed = [p \in Procs |-> {}]

-----------------------------------------------------------------------------
(* The two tables *)

\* Mutant: a tombstone counts as a free slot.
FreeOrTomb(p) == {w \in Wfds : fd_map[p][w] < 0}

Free(p) == {w \in Wfds : fd_map[p][w] = FREE_SLOT}

HostFree == {h \in HostFds : host[h] = Closed}
Mapped(p) == {w \in Wfds : fd_map[p][w] >= 0}
HostOf(p) == {fd_map[p][w] : w \in Mapped(p)}

\* The kernel's choice: the lowest number that is free; without one, and for
\* a number that is closed, its calls fail and change nothing.
Lowest == Min(HostFree)
Second == Min(HostFree \ {Lowest})
Duplicable(h) == h >= 0 /\ host[h] # Closed /\ HostFree # {}

Streams(p) == {x \in Handles : files[p][x] # NoFile}
StreamFds(p) == {files[p][x].wfd : x \in {y \in Handles : files[p][y].held}}
NoSlot(p) == Streams(p) = Handles

\* A thread that has nothing left to close and is not making a child.
Runs(p) == pc[p] = "running" /\ owed[p] = {}
MayLeaveStreams(p) == KeepStreams \/ Streams(p) = {}

\* yos_fd_alloc takes the lowest free slot; a tombstone is not free.
yos_fd_alloc(p, h) == [fd_map EXCEPT ![p][Min(Free(p))] = h]

-----------------------------------------------------------------------------
(* Calls on descriptors *)

\* open, openat, socket, accept, kqueue and the others that make one descriptor.
yos_open(p, o, cloexec) ==
  /\ Runs(p) /\ Free(p) # {} /\ HostFree # {}
  /\ host' = [host EXCEPT ![Lowest] = Open(o, cloexec)]
  /\ fd_map' = yos_fd_alloc(p, Lowest)
  /\ UNCHANGED <<files, pc, fork, owed>>

\* dup, and F_DUPFD with and without the flag.
yos_dup(p, w, cloexec) ==
  /\ Runs(p) /\ Duplicable(fd_map[p][w]) /\ Free(p) # {}
  /\ host' = [host EXCEPT ![Lowest] = Open(host[fd_map[p][w]].obj, cloexec)]
  /\ fd_map' = yos_fd_alloc(p, Lowest)
  /\ UNCHANGED <<files, pc, fork, owed>>

\* dup with the table full: yos_fd_alloc closes the duplicate, and dup closes the
\* number once more, in vain when nobody has been given it in between.  (FullTable
\* has what happens when somebody has.)
DupFull(p, w) ==
  /\ Runs(p) /\ Duplicable(fd_map[p][w]) /\ Free(p) = {}
  /\ UNCHANGED vars

\* The numbers of a pair, read end first.
yos_pipe(p, o) ==
  /\ Runs(p) /\ Cardinality(Free(p)) >= 2 /\ Cardinality(HostFree) >= 2
  /\ host' = [host EXCEPT ![Lowest] = Open(o, FALSE), ![Second] = Open(o, FALSE)]
  /\ LET r == Min(Free(p)) IN
     fd_map' = [fd_map EXCEPT ![p][r] = Lowest, ![p][Min(Free(p) \ {r})] = Second]
  /\ UNCHANGED <<files, pc, fork, owed>>

\* Mutant: what newfd named before stays open.
fd_assign_keeps(p, newfd, h, entry) ==
  /\ host' = [host EXCEPT ![h] = entry]
  /\ fd_map' = [fd_map EXCEPT ![p][newfd] = h]

\* The duplicate is made first; what newfd named before is closed.
yos_fd_assign(p, newfd, h, entry) ==
  LET old == fd_map[p][newfd]
  IN  /\ host' = [g \in HostFds |->
                    IF g = h THEN entry ELSE IF g = old THEN Closed ELSE host[g]]
      /\ fd_map' = [fd_map EXCEPT ![p][newfd] = h]

\* dup2 and dup3.  The guest does not put a file under a stream of its own.
yos_dup2(p, oldfd, newfd, cloexec) ==
  /\ Runs(p) /\ Duplicable(fd_map[p][oldfd]) /\ oldfd # newfd /\ newfd \notin StreamFds(p)
  /\ yos_fd_assign(p, newfd, Lowest, Open(host[fd_map[p][oldfd]].obj, cloexec))
  /\ UNCHANGED <<files, pc, fork, owed>>

CloseAll(H) == [h \in HostFds |-> IF h \in H THEN Closed ELSE host[h]]

\* close, and closefrom and close_range, which close every mapped descriptor
\* of a range.
yos_close_range(p, low, high) ==
  LET W == {w \in Mapped(p) : low <= w /\ w <= high}
  IN  /\ Runs(p) /\ W # {} /\ W \cap StreamFds(p) = {}
      /\ host' = CloseAll({fd_map[p][w] : w \in W})
      /\ fd_map' = [fd_map EXCEPT ![p] = [w \in Wfds |->
                      IF w \in W THEN FREE_SLOT ELSE fd_map[p][w]]]
      /\ UNCHANGED <<files, pc, fork, owed>>

-----------------------------------------------------------------------------
(* Streams *)

\* A stream whose number yos chose.
NewStream(h, w) == [hfd |-> h, wfd |-> w, own |-> TRUE, held |-> TRUE]

\* fopen: the descriptor inside the FILE gets a number of its own.
yos_fopen(p, x, o) ==
  /\ Runs(p) /\ HostFree # {} /\ Free(p) # {} /\ x \notin Streams(p)
  /\ host' = [host EXCEPT ![Lowest] = Open(o, FALSE)]
  /\ fd_map' = yos_fd_alloc(p, Lowest)
  /\ files' = [files EXCEPT ![p][x] = NewStream(Lowest, Min(Free(p)))]
  /\ UNCHANGED <<pc, fork, owed>>

\* Mutant: a second number for the descriptor of w.
fdopen_allocs(p, x, w) ==
  /\ Runs(p) /\ w \in Mapped(p) /\ w \notin StreamFds(p)
  /\ x \notin Streams(p) /\ Free(p) # {}
  /\ files' = [files EXCEPT ![p][x] = NewStream(fd_map[p][w], Min(Free(p)))]
  /\ fd_map' = yos_fd_alloc(p, fd_map[p][w])
  /\ UNCHANGED <<host, pc, fork, owed>>

\* fdopen adopts a number the guest already has; with no slot left the stream
\* is closed at once and the number is tombstoned.
yos_fdopen(p, x, w) ==
  /\ Runs(p) /\ w \in Mapped(p) /\ w \notin StreamFds(p)
  /\ \/ /\ x \notin Streams(p)
        /\ files' = [files EXCEPT ![p][x] = 
             [hfd |-> fd_map[p][w], wfd |-> w, own |-> FALSE, held |-> TRUE]]
        /\ UNCHANGED <<host, fd_map>>
     \/ /\ NoSlot(p)
        /\ host' = CloseAll({fd_map[p][w]})
        /\ fd_map' = [fd_map EXCEPT ![p][w] = YOS_FD_FCLOSE_TOMB]
        /\ UNCHANGED files
  /\ UNCHANGED <<pc, fork, owed>>

\* free_handle: a number yos chose becomes free, one the guest opened itself is
\* tombstoned, so that the guest's own close of it fails.
Released(p, f) ==
  IF f.wfd < 0 THEN fd_map
  ELSE [fd_map EXCEPT ![p][f.wfd] = IF f.own THEN FREE_SLOT ELSE YOS_FD_FCLOSE_TOMB]

yos_fclose(p, x) ==
  /\ Runs(p) /\ files[p][x].held
  /\ host' = CloseAll({files[p][x].hfd})
  /\ fd_map' = Released(p, files[p][x])
  /\ files' = [files EXCEPT ![p][x] = NoFile]
  /\ UNCHANGED <<pc, fork, owed>>

-----------------------------------------------------------------------------
(* fork, execve and exit *)

\* fork starts.  Before it resumes the parent, yos_fork_pump duplicates its
\* descriptors one by one and then its streams.
yos_fork(p, c) ==
  /\ Runs(p) /\ pc[c] = "none" /\ MayLeaveStreams(p)
  /\ pc' = [pc EXCEPT ![p] = "forking", ![c] = "starting"]
  /\ fork' = [fork EXCEPT ![p] = [child |-> c, at |-> 0]]
  /\ UNCHANGED <<host, fd_map, files, owed>>

\* Mutant: F_DUPFD strips the flag.
ForkDupStrips(p) ==
  LET phfd == fd_map[p][fork[p].at]
      c == fork[p].child
  IN  /\ pc[p] = "forking" /\ fork[p].at < FdMax
      /\ fd_map' = [fd_map EXCEPT ![c][fork[p].at] = IF Duplicable(phfd) THEN Lowest ELSE FREE_SLOT]
      /\ host' = IF ~Duplicable(phfd) THEN host
                 ELSE [host EXCEPT ![Lowest] = Open(host[phfd].obj, FALSE)]
      /\ fork' = [fork EXCEPT ![p].at = @ + 1]
      /\ UNCHANGED <<files, pc, owed>>

\* The duplicate keeps the flag; a tombstone becomes a free slot in the child.
ForkDup(p) ==
  LET c == fork[p].child
      i == fork[p].at
      phfd == fd_map[p][i]
  IN  /\ pc[p] = "forking" /\ i < FdMax
      /\ IF Duplicable(phfd)
         THEN /\ host' = [host EXCEPT ![Lowest] = host[phfd]]
              /\ fd_map' = [fd_map EXCEPT ![c][i] = Lowest]
         ELSE fd_map' = [fd_map EXCEPT ![c][i] = FREE_SLOT] /\ UNCHANGED host
      /\ fork' = [fork EXCEPT ![p].at = i + 1]
      /\ UNCHANGED <<files, pc, owed>>

\* Every descriptor, and every stream that can be, is duplicated.
ForkDone(p) ==
  /\ pc[p] = "forking" /\ fork[p].at = FdMax
  /\ \A x \in Streams(p) \ Streams(fork[p].child) : ~Duplicable(files[p][x].hfd)
  /\ fork' = [fork EXCEPT ![p] = NoFork]

\* The child's thread takes the duplicates over, and the parent resumes.
ForkStarts(p) ==
  /\ ForkDone(p)
  /\ pc' = [pc EXCEPT ![p] = "running", ![fork[p].child] = "loading"]
  /\ UNCHANGED <<host, fd_map, files, owed>>

\* The duplicates of c are closed again.
DupsReleased(c) ==
  /\ host' = CloseAll(HostOf(c) \cup {files[c][x].hfd : x \in Streams(c)})
  /\ fd_map' = [fd_map EXCEPT ![c] = Unmapped]
  /\ files' = [files EXCEPT ![c] = [x \in Handles |-> NoFile]]
  /\ UNCHANGED owed

\* The host has no thread left: release_parent_dups.
ForkFails(p) ==
  /\ ForkDone(p)
  /\ pc' = [pc EXCEPT ![p] = "running", ![fork[p].child] = "none"]
  /\ DupsReleased(fork[p].child)

ChildLoads(c) ==
  /\ pc[c] = "loading"
  /\ pc' = [pc EXCEPT ![c] = "running"]
  /\ UNCHANGED <<host, fd_map, files, fork, owed>>

\* The module does not load; the parent goes on meanwhile.
LoadFails(c) ==
  /\ pc[c] = "loading"
  /\ pc' = [pc EXCEPT ![c] = "none"]
  /\ DupsReleased(c) /\ UNCHANGED fork

\* execve closes what is marked; the streams stay in their table, though the
\* new image does not know them.
yos_execve(p) ==
  LET W == {w \in Mapped(p) : host[fd_map[p][w]].cloexec}
  IN  /\ Runs(p) /\ MayLeaveStreams(p)
      /\ host' = CloseAll({fd_map[p][w] : w \in W})
      /\ fd_map' = [fd_map EXCEPT ![p] = [w \in Wfds |->
                      IF w \in W THEN FREE_SLOT ELSE fd_map[p][w]]]
      /\ files' = [files EXCEPT ![p] = [x \in Handles |-> [files[p][x] EXCEPT !.held = FALSE]]]
      /\ UNCHANGED <<pc, fork, owed>>

\* exit: the descriptors are closed through the table, and then every stream
\* is closed, whose descriptor was among them.
yos_proc_post_exit_cleanup(p) ==
  /\ Runs(p) /\ MayLeaveStreams(p)
  /\ pc' = [pc EXCEPT ![p] = "exiting"]
  /\ host' = CloseAll({h \in HostOf(p) : h >= NStd})
  /\ fd_map' = [fd_map EXCEPT ![p] = Unmapped]
  /\ owed' = [owed EXCEPT ![p] = {files[p][x].hfd : x \in Streams(p)}]
  /\ files' = [files EXCEPT ![p] = [x \in Handles |-> NoFile]]
  /\ UNCHANGED fork

ExitDone(p) ==
  /\ pc[p] = "exiting" /\ owed[p] = {}
  /\ pc' = [pc EXCEPT ![p] = "none"]
  /\ UNCHANGED <<host, fd_map, files, fork, owed>>

Next == \E p \in Procs :
  \/ \E o \in Objs :
       \/ \E cloexec \in BOOLEAN : yos_open(p, o, cloexec)
       \/ yos_pipe(p, o)
       \/ \E x \in Handles : yos_fopen(p, x, o)
  \/ \E w \in Wfds, cloexec \in BOOLEAN :
       \/ yos_dup(p, w, cloexec)
       \/ \E newfd \in Wfds : yos_dup2(p, w, newfd, cloexec)
  \/ \E w \in Wfds : DupFull(p, w)
  \/ \E low, high \in Wfds : yos_close_range(p, low, high)
  \/ \E x \in Handles : yos_fclose(p, x)
  \/ \E x \in Handles, w \in Wfds : yos_fdopen(p, x, w)
  \/ \E c \in Procs : yos_fork(p, c)
  \/ ForkDup(p) \/ ForkStarts(p) \/ ForkFails(p) \/ ChildLoads(p) \/ LoadFails(p)
  \/ yos_execve(p)
  \/ yos_proc_post_exit_cleanup(p)
  \/ ExitDone(p)

Spec == Init /\ [][Next]_vars

-----------------------------------------------------------------------------
(* What else can happen once a guest calls with a full table, or forks and   *)
(* exits with streams open.                                                  *)

\* With the table full yos_fd_alloc closes the descriptor that open, pipe and
\* F_DUPFD made.  dup, socket, accept, kqueue and socketpair then close the
\* number a second time.
FullTable(p) ==
  /\ Runs(p) /\ Free(p) = {} /\ HostFree # {}
  /\ owed' = [owed EXCEPT ![p] = {Lowest}]
  /\ UNCHANGED <<host, fd_map, files, pc, fork>>

\* fopen with the table full keeps a FILE whose descriptor is closed; with no
\* slot left the descriptor is closed through the table and again by fclose.
FopenFull(p, x) ==
  /\ Runs(p) /\ HostFree # {}
  /\ \/ /\ Free(p) = {} /\ x \notin Streams(p)
        /\ files' = [files EXCEPT ![p][x] = NewStream(Lowest, -1)]
        /\ UNCHANGED owed
     \/ /\ NoSlot(p)
        /\ owed' = [owed EXCEPT ![p] = {Lowest}]
        /\ UNCHANGED files
  /\ UNCHANGED <<host, fd_map, pc, fork>>

\* A stream of the child has a duplicate of its own, with the flag set, and
\* keeps the parent's number.
ForkDupFile(p, x) ==
  LET c == fork[p].child
      f == files[p][x]
  IN  /\ pc[p] = "forking" /\ fork[p].at = FdMax
      /\ x \in Streams(p) \ Streams(c) /\ Duplicable(f.hfd)
      /\ host' = [host EXCEPT ![Lowest] = Open(host[f.hfd].obj, TRUE)]
      /\ files' = [files EXCEPT ![c][x] = [f EXCEPT !.hfd = Lowest]]
      /\ UNCHANGED <<fd_map, pc, fork, owed>>

\* A close by number, whoever has the number by now.
CloseOwed(p, h) ==
  /\ h \in owed[p]
  /\ host' = CloseAll({h})
  /\ owed' = [owed EXCEPT ![p] = @ \ {h}]
  /\ UNCHANGED <<fd_map, files, pc, fork>>

FaultNext ==
  \/ Next
  \/ \E p \in Procs :
       \/ FullTable(p)
       \/ \E x \in Handles : FopenFull(p, x) \/ ForkDupFile(p, x)
       \/ \E h \in owed[p] : CloseOwed(p, h)

FaultSpec == Init /\ [][FaultNext]_vars

-----------------------------------------------------------------------------
(* Properties *)

\* A process in the making or on its way out has no table a guest can see.
ViewOf(p) ==
  IF pc[p] \in {"running", "forking", "loading"}
  THEN [w \in Wfds |-> IF fd_map[p][w] < 0 THEN None ELSE host[fd_map[p][w]]]
  ELSE [w \in {} |-> None]

Guests == INSTANCE Descriptors WITH view <- [p \in Procs |-> ViewOf(p)]

\* The tables implement what POSIX promises each guest: however the calls of
\* several processes interleave on the shared host descriptors, no process
\* ever finds another file behind a descriptor, or none, unless its own call
\* put it there.
ImplementsDescriptors == Guests!DescSpec

\* Every slot has a host descriptor of its own, an open one and none of the
\* host's, and a stream stands for the descriptor of its own slot: a close in
\* one process, or of one stream, cannot reach another.
OwnDescriptor ==
  \A p, q \in Procs :
    /\ \A w \in Mapped(p) :
         /\ host[fd_map[p][w]] # Closed /\ fd_map[p][w] >= NStd
         /\ \A v \in Mapped(q) : fd_map[p][w] = fd_map[q][v] => p = q /\ w = v
    /\ \A x \in Streams(p) :
         /\ files[p][x].wfd >= 0 /\ fd_map[p][files[p][x].wfd] = files[p][x].hfd
         /\ \A y \in Streams(q) : files[p][x].hfd = files[q][y].hfd => p = q /\ x = y

\* No host descriptor is left open that nobody will close: a leaked end of a
\* pipe would keep its reader waiting for ever.
NoLeak ==
  \A h \in HostFds : host[h] # Closed /\ h >= NStd =>
    \E p \in Procs : h \in HostOf(p) \cup {files[p][x].hfd : x \in Streams(p)}

\* A number that fclose released under the guest's feet is not handed out
\* again by open, so the close the guest still makes of it fails.
TombsStay == [][\A p \in Procs, w \in Wfds :
    fd_map[p][w] = YOS_FD_FCLOSE_TOMB /\ fd_map'[p][w] >= 0 =>
      \E o \in Wfds : \E cloexec \in BOOLEAN : yos_dup2(p, o, w, cloexec)]_vars
=============================================================================
