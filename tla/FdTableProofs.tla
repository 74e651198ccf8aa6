--------------------------- MODULE FdTableProofs ---------------------------
(***************************************************************************)
(* What holds of the descriptors for any number of processes, files and    *)
(* descriptors, as long as a guest closes its streams before it forks,     *)
(* executes or exits and no call finds its table full.                     *)
(***************************************************************************)
EXTENDS FdTable, FiniteSetTheorems, WellFoundedInduction, TLAPS

\* The host process may have a descriptor for every slot of every guest.
Roomy ==
  /\ IsFiniteSet(Procs)
  /\ NStd + Cardinality(Procs) * FdMax <= HostMax

----------------------------------------------------------------------------
(* The inductive invariant *)

Files == [obj : Objs, cloexec : BOOLEAN]
FileRecs == [hfd : HostFds \cup {-1}, wfd : Wfds \cup {-1}, own : BOOLEAN, held : BOOLEAN]

\* The host's own descriptors are open, so no guest is ever given one.
HostSound ==
  /\ \A h \in HostFds : host[h] = Closed \/ host[h] \in Files
  /\ \A h \in HostFds : h < NStd => host[h] # Closed

\* Every slot that is mapped has an open host descriptor for itself.
SlotsApart ==
  \A p \in Procs, w \in Wfds : fd_map[p][w] >= 0 =>
    /\ host[fd_map[p][w]] # Closed /\ fd_map[p][w] >= NStd
    /\ \A q \in Procs, v \in Wfds : fd_map[q][v] = fd_map[p][w] => q = p /\ v = w

\* Every open host descriptor is in some slot.
Accounted ==
  \A h \in HostFds : host[h] # Closed /\ h >= NStd =>
    \E p \in Procs, w \in Wfds : fd_map[p][w] = h

\* The streams of p are known to its image, and each sits on a slot for itself.
StreamsOf(p) ==
  \A x \in Handles : files[p][x] # NoFile =>
    /\ files[p][x].held /\ files[p][x].wfd \in Wfds
    /\ files[p][x].hfd >= 0 /\ fd_map[p][files[p][x].wfd] = files[p][x].hfd
    /\ \A y \in Handles : files[p][y] # NoFile /\ files[p][y].wfd = files[p][x].wfd => y = x

StreamsSit == \A p \in Procs : StreamsOf(p)

\* Only a process that runs has streams, and only one that is there has
\* descriptors; nobody has a number to close again.
Quiet ==
  \A p \in Procs :
    /\ owed[p] = {}
    /\ pc[p] # "running" => \A x \in Handles : files[p][x] = NoFile
    /\ pc[p] \in {"none", "exiting"} => \A w \in Wfds : fd_map[p][w] = FREE_SLOT

\* A child in the making has one parent, and the slots the parent has not come
\* to yet are free in the child.
Forking ==
  \A p \in Procs : pc[p] = "forking" =>
    /\ pc[fork[p].child] = "starting"
    /\ \A w \in Wfds : w >= fork[p].at => fd_map[fork[p].child][w] = FREE_SLOT
    /\ \A q \in Procs : pc[q] = "forking" /\ fork[q].child = fork[p].child => q = p

\* The files of slot w of c are those of slot w of p.
SameSlot(p, c, w) ==
  IF fd_map[p][w] >= 0 THEN fd_map[c][w] >= 0 /\ host[fd_map[c][w]] = host[fd_map[p][w]]
                       ELSE fd_map[c][w] < 0

\* What was duplicated so far.
Copied ==
  Roomy => \A p \in Procs : pc[p] = "forking" =>
    \A w \in Wfds : w < fork[p].at => SameSlot(p, fork[p].child, w)

IInv == TypeOK /\ HostSound /\ SlotsApart /\ Accounted /\ StreamsSit /\ Quiet /\ Forking /\ Copied

----------------------------------------------------------------------------
(* Steps that change the tables of one process *)

\* Only q's slots and the host descriptors behind them change; q's new slots
\* have open descriptors that were free or its own, and nothing open is lost.
Touches(q) ==
  /\ host' \in [HostFds -> Files \cup {Closed}]
  /\ fd_map' \in [Procs -> [Wfds -> HostFds \cup {FREE_SLOT, YOS_FD_FCLOSE_TOMB}]]
  /\ \A r \in Procs : r # q => fd_map'[r] = fd_map[r]
  /\ \A h \in HostFds :
       host'[h] = host[h] \/ host[h] = Closed \/ \E w \in Wfds : fd_map[q][w] = h
  /\ \A w \in Wfds : fd_map'[q][w] >= 0 =>
       /\ host'[fd_map'[q][w]] # Closed
       /\ fd_map'[q][w] = fd_map[q][w] \/ host[fd_map'[q][w]] = Closed
       /\ \A v \in Wfds : fd_map'[q][v] = fd_map'[q][w] => v = w
  /\ \A h \in HostFds :
       host'[h] # Closed /\ (host[h] = Closed \/ \E w \in Wfds : fd_map[q][w] = h) =>
         \E w \in Wfds : fd_map'[q][w] = h

LEMMA Domains ==
  /\ Wfds \subseteq Nat /\ HostFds \subseteq Nat
  /\ FREE_SLOT = -1 /\ YOS_FD_FCLOSE_TOMB = -2 /\ NStd \in Nat \ {0}
  /\ -1 \notin Wfds /\ -1 \notin HostFds
BY FdAssumption DEF Wfds, HostFds, FREE_SLOT, YOS_FD_FCLOSE_TOMB

LEMMA OpenFile ==
  /\ \A o \in Objs, c \in BOOLEAN : Open(o, c) \in Files /\ Open(o, c).obj = o /\ Open(o, c).cloexec = c
  /\ Closed \notin Files
BY FdAssumption DEF Open, Files, Closed

\* The types as the lemmas below use them.
LEMMA MapType ==
  ASSUME IInv
  PROVE  /\ host \in [HostFds -> Files \cup {Closed}]
         /\ \A p \in Procs, w \in Wfds :
              /\ fd_map[p][w] \in HostFds \cup {FREE_SLOT, YOS_FD_FCLOSE_TOMB}
              /\ fd_map[p][w] >= 0 <=> fd_map[p][w] \in HostFds
         /\ \A p \in Procs : fd_map[p] \in [Wfds -> HostFds \cup {FREE_SLOT, YOS_FD_FCLOSE_TOMB}]
         /\ fd_map \in [Procs -> [Wfds -> HostFds \cup {FREE_SLOT, YOS_FD_FCLOSE_TOMB}]]
<1>1. host \in [HostFds -> Files \cup {Closed}]
  BY DEF IInv, TypeOK, HostSound
<1>2. fd_map \in [Procs -> [Wfds -> HostFds \cup {FREE_SLOT, YOS_FD_FCLOSE_TOMB}]]
  BY DEF IInv, TypeOK
<1>3. \A p \in Procs : fd_map[p] \in [Wfds -> HostFds \cup {FREE_SLOT, YOS_FD_FCLOSE_TOMB}]
  BY <1>2
<1>4. \A p \in Procs, w \in Wfds : fd_map[p][w] \in HostFds \cup {FREE_SLOT, YOS_FD_FCLOSE_TOMB}
  BY <1>3
<1>5. \A h \in HostFds \cup {FREE_SLOT, YOS_FD_FCLOSE_TOMB} : h >= 0 <=> h \in HostFds
  BY Domains
<1> QED BY <1>1, <1>2, <1>3, <1>4, <1>5

LEMMA MinIn ==
  ASSUME NEW S \in SUBSET Nat, S # {}
  PROVE  Min(S) \in S
<1>1. PICK x \in S : \A y \in S : ~(<<y, x>> \in OpToRel(<, Nat))
  BY WFMin, NatLessThanWellFounded
<1>2. ASSUME NEW y \in S PROVE x =< y
  <2>1. y < x => <<y, x>> \in OpToRel(<, Nat)
    BY DEF OpToRel
  <2>2. ~(y < x)
    BY <1>1, <2>1, Zenon
  <2> QED BY <2>2
<1> QED BY <1>2 DEF Min

LEMMA LowestFree ==
  ASSUME HostFree # {}
  PROVE  Lowest \in HostFds /\ host[Lowest] = Closed
<1>1. HostFree \in SUBSET Nat
  BY Domains DEF HostFree
<1> QED BY <1>1, MinIn DEF Lowest, HostFree

LEMMA SlotFree ==
  ASSUME NEW p \in Procs, Free(p) # {}
  PROVE  Min(Free(p)) \in Wfds /\ fd_map[p][Min(Free(p))] = FREE_SLOT
<1>1. Free(p) \in SUBSET Nat
  BY Domains DEF Free
<1>2. Min(Free(p)) \in Free(p)
  BY <1>1, MinIn
<1> QED BY <1>2 DEF Free

\* A free host descriptor gets a file and is put into a slot; what the slot had
\* before is closed.
\* The host's table with e at h, and without what slot s of q had.
PutHost(q, s, h, e) ==
  [g \in HostFds |-> IF g = h THEN e ELSE IF g = fd_map[q][s] THEN Closed ELSE host[g]]

LEMMA PutTouches ==
  ASSUME IInv, NEW q \in Procs, NEW s \in Wfds, NEW h \in HostFds, host[h] = Closed,
         NEW e \in Files, fd_map' = [fd_map EXCEPT ![q][s] = h],
         host' = PutHost(q, s, h, e)
  PROVE  Touches(q)
<1> USE DEF PutHost
<1>1. /\ fd_map'[q][s] = h /\ \A w \in Wfds : w # s => fd_map'[q][w] = fd_map[q][w]
      /\ \A r \in Procs : r # q => fd_map'[r] = fd_map[r]
  BY MapType
<1>2. host' \in [HostFds -> Files \cup {Closed}]
  BY MapType
<1>3. fd_map' \in [Procs -> [Wfds -> HostFds \cup {FREE_SLOT, YOS_FD_FCLOSE_TOMB}]]
  BY MapType
<1>4. \A g \in HostFds :
        host'[g] = host[g] \/ host[g] = Closed \/ \E w \in Wfds : fd_map[q][w] = g
  OBVIOUS
<1>5. \A w \in Wfds : fd_map'[q][w] >= 0 =>
       /\ host'[fd_map'[q][w]] # Closed
       /\ fd_map'[q][w] = fd_map[q][w] \/ host[fd_map'[q][w]] = Closed
       /\ \A v \in Wfds : fd_map'[q][v] = fd_map'[q][w] => v = w
  <2> SUFFICES ASSUME NEW w \in Wfds, fd_map'[q][w] >= 0
               PROVE  /\ host'[fd_map'[q][w]] # Closed
                      /\ fd_map'[q][w] = fd_map[q][w] \/ host[fd_map'[q][w]] = Closed
                      /\ \A v \in Wfds : fd_map'[q][v] = fd_map'[q][w] => v = w
    OBVIOUS
  <2>1. \A v \in Wfds : fd_map[q][v] # h
    BY MapType DEF IInv, SlotsApart
  <2>2. CASE w = s
    <3>1. host'[h] # Closed
      BY OpenFile
    <3> QED BY <1>1, <2>1, <2>2, <3>1
  <2>3. CASE w # s
    <3>1. fd_map'[q][w] = fd_map[q][w] /\ fd_map[q][w] \in HostFds /\ host[fd_map[q][w]] # Closed
      BY <1>1, <2>3, MapType DEF IInv, SlotsApart
    <3>2. fd_map[q][w] # fd_map[q][s]
      BY <2>3, <3>1, MapType DEF IInv, SlotsApart
    <3>3. host'[fd_map[q][w]] # Closed
      BY <2>1, <3>1, <3>2
    <3>4. \A v \in Wfds : fd_map'[q][v] = fd_map'[q][w] => v = w
      BY <1>1, <2>1, <3>1, MapType DEF IInv, SlotsApart
    <3> QED BY <3>1, <3>3, <3>4
  <2> QED BY <2>2, <2>3
<1>6. \A g \in HostFds :
       host'[g] # Closed /\ (host[g] = Closed \/ \E w \in Wfds : fd_map[q][w] = g) =>
         \E w \in Wfds : fd_map'[q][w] = g
  BY <1>1
<1> QED BY <1>1, <1>2, <1>3, <1>4, <1>5, <1>6 DEF Touches

\* Slots W are unmapped and their host descriptors closed.
LEMMA DropTouches ==
  ASSUME IInv, NEW q \in Procs, NEW W \in SUBSET Wfds,
         \A w \in W : fd_map[q][w] >= 0,
         host' = CloseAll({fd_map[q][w] : w \in W}),
         fd_map' \in [Procs -> [Wfds -> HostFds \cup {FREE_SLOT, YOS_FD_FCLOSE_TOMB}]],
         \A r \in Procs : r # q => fd_map'[r] = fd_map[r],
         \A w \in W : fd_map'[q][w] < 0,
         \A w \in Wfds \ W : fd_map'[q][w] = fd_map[q][w]
  PROVE  Touches(q)
<1>1. \A g \in HostFds : host'[g] = IF \E w \in W : fd_map[q][w] = g THEN Closed ELSE host[g]
  BY DEF CloseAll
<1>2. host' \in [HostFds -> Files \cup {Closed}]
  BY MapType DEF CloseAll
<1>4. \A g \in HostFds :
        host'[g] = host[g] \/ host[g] = Closed \/ \E w \in Wfds : fd_map[q][w] = g
  BY <1>1
<1>5. ASSUME NEW w \in Wfds, fd_map'[q][w] >= 0
      PROVE  /\ host'[fd_map'[q][w]] # Closed
             /\ fd_map'[q][w] = fd_map[q][w] \/ host[fd_map'[q][w]] = Closed
             /\ \A v \in Wfds : fd_map'[q][v] = fd_map'[q][w] => v = w
  <2>0. \A v \in Wfds : fd_map'[q][v] \in HostFds \cup {FREE_SLOT, YOS_FD_FCLOSE_TOMB}
    OBVIOUS
  <2>1. ASSUME NEW v \in Wfds, fd_map'[q][v] >= 0
        PROVE  v \notin W /\ fd_map'[q][v] = fd_map[q][v]
    <3>1. \A h \in HostFds \cup {FREE_SLOT, YOS_FD_FCLOSE_TOMB} : ~(h < 0 /\ h >= 0)
      BY Domains
    <3>2. v \notin W
      BY <2>0, <2>1, <3>1
    <3> QED BY <3>2
  <2>2. w \notin W /\ fd_map'[q][w] = fd_map[q][w] /\ fd_map[q][w] \in HostFds
    BY <1>5, <2>1, MapType
  <2>3. \A v \in Wfds : fd_map[q][v] = fd_map[q][w] => v = w
    BY <1>5, <2>2 DEF IInv, SlotsApart
  <2>4. host'[fd_map[q][w]] = host[fd_map[q][w]]
    BY <1>1, <2>2, <2>3
  <2>5. host[fd_map[q][w]] # Closed
    BY <1>5, <2>2 DEF IInv, SlotsApart
  <2>6. \A v \in Wfds : fd_map'[q][v] = fd_map'[q][w] => v = w
    BY <1>5, <2>1, <2>2, <2>3
  <2> QED BY <2>2, <2>4, <2>5, <2>6
<1>6. \A g \in HostFds :
       host'[g] # Closed /\ (host[g] = Closed \/ \E w \in Wfds : fd_map[q][w] = g) =>
         \E w \in Wfds : fd_map'[q][w] = g
  BY <1>1
<1> QED BY <1>2, <1>4, <1>5, <1>6 DEF Touches

\* A step that leaves the tables alone.
LEMMA SameTouches ==
  ASSUME IInv, NEW q \in Procs, host' = host, fd_map' = fd_map
  PROVE  Touches(q)
BY MapType DEF Touches, IInv, SlotsApart

\* What such a step keeps.
LEMMA TouchKeeps ==
  ASSUME IInv, NEW q \in Procs, Touches(q)
  PROVE  /\ HostSound' /\ SlotsApart' /\ Accounted'
         /\ \A r \in Procs : r # q => fd_map'[r] = fd_map[r]
         /\ \A r \in Procs, w \in Wfds : r # q /\ fd_map[r][w] >= 0 =>
              host'[fd_map[r][w]] = host[fd_map[r][w]]
<1>0. \A r \in Procs : r # q => fd_map'[r] = fd_map[r]
  BY DEF Touches
<1>1. ASSUME NEW r \in Procs, NEW w \in Wfds, r # q, fd_map[r][w] >= 0
      PROVE  host'[fd_map[r][w]] = host[fd_map[r][w]]
  <2>1. fd_map[r][w] \in HostFds /\ host[fd_map[r][w]] # Closed
    BY <1>1, MapType DEF IInv, SlotsApart
  <2>2. \A v \in Wfds : fd_map[q][v] # fd_map[r][w]
    BY <1>1 DEF IInv, SlotsApart
  <2> QED BY <2>1, <2>2 DEF Touches
<1>2. HostSound'
  <2>1. \A h \in HostFds : host'[h] = Closed \/ host'[h] \in Files
    BY DEF Touches
  <2>2. ASSUME NEW h \in HostFds, h < NStd PROVE host'[h] # Closed
    <3>1. host[h] # Closed
      BY <2>2 DEF IInv, HostSound
    <3>2. \A w \in Wfds : fd_map[q][w] # h
      BY <2>2, MapType, Domains DEF IInv, SlotsApart
    <3> QED BY <3>1, <3>2 DEF Touches
  <2> QED BY <2>1, <2>2 DEF HostSound
<1>3. SlotsApart'
  <2> SUFFICES ASSUME NEW p \in Procs, NEW w \in Wfds, fd_map'[p][w] >= 0,
                      NEW r \in Procs, NEW v \in Wfds
               PROVE  /\ host'[fd_map'[p][w]] # Closed /\ fd_map'[p][w] >= NStd
                      /\ fd_map'[r][v] = fd_map'[p][w] => r = p /\ v = w
    BY DEF SlotsApart
  <2>0. fd_map'[p][w] \in HostFds
    <3>1. fd_map'[p] \in [Wfds -> HostFds \cup {FREE_SLOT, YOS_FD_FCLOSE_TOMB}]
      BY DEF Touches
    <3>2. fd_map'[p][w] \in HostFds \cup {FREE_SLOT, YOS_FD_FCLOSE_TOMB}
      BY <3>1
    <3> QED BY <3>2, Domains
  <2>1. CASE p # q
    <3>1. fd_map'[p][w] = fd_map[p][w] /\ fd_map[p][w] >= 0
      BY <1>0, <2>1
    <3>2. host[fd_map[p][w]] # Closed /\ fd_map[p][w] >= NStd
      BY <3>1 DEF IInv, SlotsApart
    <3>3. fd_map[r][v] = fd_map[p][w] => r = p /\ v = w
      BY <3>1 DEF IInv, SlotsApart
    <3>4. r = q => fd_map'[r][v] # fd_map'[p][w]
      <4> SUFFICES ASSUME r = q, fd_map'[q][v] = fd_map'[p][w] PROVE FALSE
        OBVIOUS
      <4>1. fd_map'[q][v] = fd_map[q][v] \/ host[fd_map'[q][v]] = Closed
        BY DEF Touches
      <4> QED BY <2>1, <3>1, <3>2, <3>3, <4>1
    <3>5. r # q => fd_map'[r][v] = fd_map[r][v]
      BY <1>0
    <3> QED BY <1>1, <2>1, <3>1, <3>2, <3>3, <3>4, <3>5
  <2>2. CASE p = q
    <3>1. /\ host'[fd_map'[q][w]] # Closed
          /\ fd_map'[q][w] = fd_map[q][w] \/ host[fd_map'[q][w]] = Closed
          /\ fd_map'[q][v] = fd_map'[q][w] => v = w
      BY <2>2 DEF Touches
    <3>2. fd_map'[q][w] >= NStd
      <4>1. CASE fd_map'[q][w] = fd_map[q][w]
        BY <2>2, <4>1 DEF IInv, SlotsApart
      <4>2. CASE host[fd_map'[q][w]] = Closed
        <5>1. \A h \in HostFds : host[h] = Closed => h >= NStd
          BY Domains DEF IInv, HostSound
        <5> QED BY <2>0, <2>2, <4>2, <5>1
      <4> QED BY <3>1, <4>1, <4>2
    <3>3. r # q => fd_map'[r][v] # fd_map'[q][w]
      <4> SUFFICES ASSUME r # q, fd_map[r][v] = fd_map'[q][w] PROVE FALSE
        BY <1>0
      <4>1. fd_map[r][v] >= 0
        BY <2>2
      <4>2. host[fd_map[r][v]] # Closed /\ fd_map[q][w] # fd_map[r][v]
        BY <4>1 DEF IInv, SlotsApart
      <4> QED BY <3>1, <4>2
    <3> QED BY <2>2, <3>1, <3>2, <3>3
  <2> QED BY <2>1, <2>2
<1>4. Accounted'
  <2> SUFFICES ASSUME NEW h \in HostFds, host'[h] # Closed, h >= NStd
               PROVE  \E p \in Procs, w \in Wfds : fd_map'[p][w] = h
    BY DEF Accounted
  <2>1. CASE host[h] = Closed \/ \E w \in Wfds : fd_map[q][w] = h
    BY <2>1 DEF Touches
  <2>2. CASE host[h] # Closed /\ \A w \in Wfds : fd_map[q][w] # h
    <3>1. \E p \in Procs, w \in Wfds : fd_map[p][w] = h
      BY <2>2 DEF IInv, Accounted
    <3> QED BY <1>0, <2>2, <3>1
  <2> QED BY <2>1, <2>2
<1> QED BY <1>0, <1>1, <1>2, <1>3, <1>4

LEMMA EntriesType == Files \cup {Closed} \subseteq [obj : Objs \cup {None}, cloexec : BOOLEAN]
<1>1. Closed \in [obj : Objs \cup {None}, cloexec : BOOLEAN]
  BY DEF Closed
<1>2. ASSUME NEW e \in Files PROVE e \in [obj : Objs \cup {None}, cloexec : BOOLEAN]
  <2>1. e = [obj |-> e.obj, cloexec |-> e.cloexec] /\ e.obj \in Objs /\ e.cloexec \in BOOLEAN
    BY DEF Files
  <2> QED BY <2>1
<1> QED BY <1>1, <1>2

LEMMA TouchTypes ==
  ASSUME IInv, NEW q \in Procs, Touches(q),
         files' \in [Procs -> [Handles -> FileRecs]],
         pc' \in [Procs -> {"none", "running", "forking", "starting", "loading", "exiting"}],
         fork' \in [Procs -> [child : Procs, at : 0 .. FdMax]],
         owed' \in [Procs -> SUBSET HostFds]
  PROVE  TypeOK'
BY EntriesType DEF Touches, TypeOK, FileRecs

\* A step after which the copies are as they were.
LEMMA CopiesStay ==
  ASSUME NEW p \in Procs, NEW c \in Procs, NEW w \in Wfds, SameSlot(p, c, w),
         fd_map'[p] = fd_map[p], fd_map'[c] = fd_map[c],
         fd_map[p][w] >= 0 => host'[fd_map[p][w]] = host[fd_map[p][w]],
         fd_map[c][w] >= 0 => host'[fd_map[c][w]] = host[fd_map[c][w]]
  PROVE  SameSlot(p, c, w)'
BY DEF SameSlot

\* A call of q, which runs.
LEMMA CallInv ==
  ASSUME IInv, NEW q \in Procs, Runs(q), Touches(q), UNCHANGED <<pc, fork, owed>>,
         files' \in [Procs -> [Handles -> FileRecs]],
         \A r \in Procs : r # q => files'[r] = files[r],
         StreamsOf(q)'
  PROVE  IInv'
<1>0. pc[q] = "running"
  BY DEF Runs
<1>1. TypeOK'
  BY TouchTypes DEF IInv, TypeOK
<1>2. HostSound' /\ SlotsApart' /\ Accounted'
  BY TouchKeeps
<1>3. StreamsSit'
  <2> SUFFICES ASSUME NEW r \in Procs, r # q PROVE StreamsOf(r)'
    BY DEF StreamsSit
  <2>1. fd_map'[r] = fd_map[r] /\ files'[r] = files[r]
    BY TouchKeeps
  <2> QED BY <2>1 DEF IInv, StreamsSit, StreamsOf
<1>4. Quiet'
  <2> SUFFICES ASSUME NEW r \in Procs
               PROVE  /\ owed[r] = {}
                      /\ pc[r] # "running" => \A x \in Handles : files'[r][x] = NoFile
                      /\ pc[r] \in {"none", "exiting"} => \A w \in Wfds : fd_map'[r][w] = FREE_SLOT
    BY DEF Quiet
  <2>1. r # q => fd_map'[r] = fd_map[r] /\ files'[r] = files[r]
    BY TouchKeeps
  <2> QED BY <1>0, <2>1 DEF IInv, Quiet
<1>5. \A r \in Procs : pc[r] = "forking" => fork[r].child \in Procs /\ fork[r].child # q /\ r # q
  BY <1>0 DEF IInv, TypeOK, Forking
<1>6. \A r \in Procs : pc[r] = "forking" =>
        fd_map'[r] = fd_map[r] /\ fd_map'[fork[r].child] = fd_map[fork[r].child]
  BY <1>5, TouchKeeps
<1>7. Forking'
  <2>1. pc' = pc /\ fork' = fork
    OBVIOUS
  <2> QED BY <1>6, <2>1 DEF IInv, Forking
<1>8. Copied'
  <2> SUFFICES ASSUME Roomy, NEW r \in Procs, pc[r] = "forking", NEW w \in Wfds, w < fork[r].at
               PROVE  SameSlot(r, fork[r].child, w)'
    BY DEF Copied
  <2> DEFINE c == fork[r].child
  <2>1. SameSlot(r, c, w) /\ c \in Procs /\ c # q /\ r # q
    BY <1>5 DEF IInv, Copied
  <2>2. fd_map'[r] = fd_map[r] /\ fd_map'[c] = fd_map[c]
    BY <1>6
  <2>3. /\ fd_map[r][w] >= 0 => host'[fd_map[r][w]] = host[fd_map[r][w]]
        /\ fd_map[c][w] >= 0 => host'[fd_map[c][w]] = host[fd_map[c][w]]
    BY <2>1, TouchKeeps
  <2>4. c' = c
    OBVIOUS
  <2> HIDE DEF c
  <2>5. SameSlot(r, c, w)'
    <3>1. \A g \in Procs : g = c => SameSlot(r, g, w)'
      BY <2>1, <2>2, <2>3, CopiesStay
    <3> QED BY <2>1, <2>4, <3>1 DEF SameSlot
  <2> QED BY <2>5 DEF c
<1> QED BY <1>1, <1>2, <1>3, <1>4, <1>7, <1>8 DEF IInv

----------------------------------------------------------------------------
(* The calls *)

LEMMA InitInv ==
  ASSUME Init
  PROVE  IInv
<1>1. PICK o \in Objs : yos_fd_table_init(o)
  BY DEF Init
<1>2. Open(o, FALSE) \in Files /\ Closed \notin Files
  BY OpenFile
<1>3. \A h \in HostFds : host[h] = IF h < 2 * NStd THEN Open(o, FALSE) ELSE Closed
  BY <1>1 DEF yos_fd_table_init
<1>4. \A p \in Procs, w \in Wfds : fd_map[p][w] = IF p = Root /\ w < NStd THEN NStd + w ELSE FREE_SLOT
  BY <1>1 DEF yos_fd_table_init
<1>5. \A w \in Wfds : w < NStd => NStd + w \in HostFds /\ NStd + w < 2 * NStd /\ w \in Nat
  BY FdAssumption DEF Wfds, HostFds
<1>6. Open(o, FALSE) # Closed
  BY <1>2
<1>b. NoFile \in FileRecs /\ NoFork \in [child : Procs, at : 0 .. FdMax]
  BY FdAssumption DEF NoFile, FileRecs, NoFork
<1>7. TypeOK
  <2>1. host \in [HostFds -> [obj : Objs \cup {None}, cloexec : BOOLEAN]]
    BY <1>1, <1>2, EntriesType DEF yos_fd_table_init
  <2>2. fd_map \in [Procs -> [Wfds -> HostFds \cup {FREE_SLOT, YOS_FD_FCLOSE_TOMB}]]
    BY <1>1, <1>5 DEF yos_fd_table_init
  <2>3. /\ files \in [Procs -> [Handles -> FileRecs]]
        /\ pc \in [Procs -> {"none", "running", "forking", "starting", "loading", "exiting"}]
        /\ fork \in [Procs -> [child : Procs, at : 0 .. FdMax]] /\ owed \in [Procs -> SUBSET HostFds]
    BY <1>b DEF Init
  <2> QED BY <2>1, <2>2, <2>3 DEF TypeOK, FileRecs
<1>8. HostSound
  <2>1. \A h \in HostFds : h < NStd => h < 2 * NStd
    BY Domains
  <2> QED BY <1>2, <1>3, <1>6, <2>1 DEF HostSound
<1>9. SlotsApart
  <2>1. ASSUME NEW p \in Procs, NEW w \in Wfds, fd_map[p][w] >= 0
        PROVE  p = Root /\ w < NStd /\ fd_map[p][w] = NStd + w
    BY <1>4, <2>1, Domains
  <2>2. \A w, v \in Wfds : w < NStd => NStd + w >= NStd /\ (NStd + v = NStd + w => v = w)
    BY Domains
  <2>3. \A w \in Wfds : w < NStd => host[NStd + w] # Closed
    BY <1>3, <1>5, <1>6
  <2> SUFFICES ASSUME NEW p \in Procs, NEW w \in Wfds, fd_map[p][w] >= 0,
                      NEW q \in Procs, NEW v \in Wfds
               PROVE  /\ host[fd_map[p][w]] # Closed /\ fd_map[p][w] >= NStd
                      /\ fd_map[q][v] = fd_map[p][w] => q = p /\ v = w
    BY DEF SlotsApart
  <2> QED BY <2>1, <2>2, <2>3
<1>10. Accounted
  <2> SUFFICES ASSUME NEW h \in HostFds, host[h] # Closed, h >= NStd
               PROVE  \E p \in Procs, w \in Wfds : fd_map[p][w] = h
    BY DEF Accounted
  <2>1. h < 2 * NStd
    BY <1>3
  <2>2. h - NStd \in Wfds /\ h - NStd < NStd /\ NStd + (h - NStd) = h /\ Root \in Procs
    BY <2>1, FdAssumption DEF Wfds, HostFds
  <2>3. fd_map[Root][h - NStd] = h
    BY <1>4, <2>2
  <2> QED BY <2>2, <2>3
<1>11. StreamsSit
  BY DEF Init, StreamsSit, StreamsOf
<1>12. Quiet
  BY <1>4 DEF Init, Quiet
<1>13. Forking /\ Copied
  BY DEF Init, Forking, Copied
<1> QED BY <1>7, <1>8, <1>9, <1>10, <1>11, <1>12, <1>13 DEF IInv

\* The streams of p after a call that changes none of their slots.
LEMMA StreamsKept ==
  ASSUME IInv, NEW p \in Procs, files'[p] = files[p],
         \A x \in Handles : files[p][x] # NoFile =>
           fd_map'[p][files[p][x].wfd] = fd_map[p][files[p][x].wfd]
  PROVE  StreamsOf(p)'
BY DEF IInv, StreamsSit, StreamsOf

\* A stream sits on a slot that is mapped and is among the guest's stream numbers.
LEMMA StreamSlot ==
  ASSUME IInv, NEW p \in Procs, NEW x \in Handles, files[p][x] # NoFile
  PROVE  /\ files[p][x].wfd \in Wfds /\ files[p][x].wfd \in StreamFds(p)
         /\ fd_map[p][files[p][x].wfd] >= 0
BY DEF IInv, StreamsSit, StreamsOf, StreamFds

\* Putting a free descriptor into a slot that is free.
LEMMA AllocTouches ==
  ASSUME IInv, NEW q \in Procs, NEW s \in Wfds, fd_map[q][s] = FREE_SLOT,
         NEW h \in HostFds, host[h] = Closed, NEW e \in Files,
         fd_map' = [fd_map EXCEPT ![q][s] = h], host' = [host EXCEPT ![h] = e]
  PROVE  Touches(q)
<1>1. host' = PutHost(q, s, h, e)
  <2>1. \A g \in HostFds : g # fd_map[q][s]
    BY Domains
  <2>2. host' \in [HostFds -> Files \cup {Closed}]
        /\ \A g \in HostFds : host'[g] = IF g = h THEN e ELSE host[g]
    BY MapType
  <2>3. \A g \in HostFds :
          (IF g = h THEN e ELSE IF g = fd_map[q][s] THEN Closed ELSE host[g]) = host'[g]
    BY <2>1, <2>2
  <2> QED BY <2>2, <2>3 DEF PutHost
<1> QED BY <1>1, PutTouches

LEMMA AllocCall ==
  ASSUME IInv, NEW p \in Procs, NEW e \in Files, Runs(p), Free(p) # {}, HostFree # {},
         host' = [host EXCEPT ![Lowest] = e], fd_map' = yos_fd_alloc(p, Lowest)
  PROVE  /\ Touches(p)
         /\ \A w \in Wfds : fd_map[p][w] # FREE_SLOT => fd_map'[p][w] = fd_map[p][w]
         /\ fd_map'[p][Min(Free(p))] = Lowest
<1>1. /\ Lowest \in HostFds /\ host[Lowest] = Closed
      /\ Min(Free(p)) \in Wfds /\ fd_map[p][Min(Free(p))] = FREE_SLOT
  BY LowestFree, SlotFree
<1>2. fd_map' = [fd_map EXCEPT ![p][Min(Free(p))] = Lowest]
  BY DEF yos_fd_alloc
<1>3. Touches(p)
  BY <1>1, <1>2, AllocTouches
<1>4. \A w \in Wfds : fd_map[p][w] # FREE_SLOT => fd_map'[p][w] = fd_map[p][w]
  BY <1>1, <1>2, MapType
<1>5. fd_map'[p][Min(Free(p))] = Lowest
  BY <1>1, <1>2, MapType
<1> QED BY <1>3, <1>4, <1>5

\* A call that fills a free slot and has nothing to do with streams.
LEMMA AllocInv ==
  ASSUME IInv, NEW p \in Procs, NEW e \in Files, Runs(p), Free(p) # {}, HostFree # {},
         host' = [host EXCEPT ![Lowest] = e], fd_map' = yos_fd_alloc(p, Lowest),
         UNCHANGED <<files, pc, fork, owed>>
  PROVE  IInv'
<1>1. Touches(p)
  BY AllocCall
<1>2. \A x \in Handles : files[p][x] # NoFile =>
        fd_map'[p][files[p][x].wfd] = fd_map[p][files[p][x].wfd]
  <2>1. \A w \in Wfds : fd_map[p][w] # FREE_SLOT => fd_map'[p][w] = fd_map[p][w]
    BY AllocCall
  <2>2. ~(FREE_SLOT >= 0)
    BY Domains
  <2> QED BY <2>1, <2>2, StreamSlot
<1>3. StreamsOf(p)'
  BY <1>2, StreamsKept
<1>4. files' \in [Procs -> [Handles -> FileRecs]] /\ \A r \in Procs : r # p => files'[r] = files[r]
  BY DEF IInv, TypeOK, FileRecs
<1> QED BY <1>1, <1>3, <1>4, CallInv

LEMMA OpenInv ==
  ASSUME IInv, NEW p \in Procs, NEW o \in Objs, NEW cloexec \in BOOLEAN, yos_open(p, o, cloexec)
  PROVE  IInv'
<1>1. Open(o, cloexec) \in Files
  BY OpenFile
<1> QED BY <1>1, AllocInv DEF yos_open

\* The descriptor that dup and dup2 read.
LEMMA DupEntry ==
  ASSUME IInv, NEW p \in Procs, NEW w \in Wfds, NEW cloexec \in BOOLEAN, Duplicable(fd_map[p][w])
  PROVE  /\ HostFree # {} /\ fd_map[p][w] >= 0 /\ fd_map[p][w] \in HostFds
         /\ host[fd_map[p][w]] \in Files
         /\ host[fd_map[p][w]].obj \in Objs /\ Open(host[fd_map[p][w]].obj, cloexec) \in Files
<1>1. fd_map[p][w] >= 0 /\ host[fd_map[p][w]] # Closed /\ HostFree # {}
  BY DEF Duplicable
<1>2. fd_map[p][w] \in HostFds
  BY <1>1, MapType
<1>3. host[fd_map[p][w]] \in Files
  BY <1>1, <1>2 DEF IInv, HostSound
<1>4. host[fd_map[p][w]].obj \in Objs
  BY <1>3 DEF Files
<1> QED BY <1>1, <1>2, <1>3, <1>4, OpenFile

LEMMA DupInv ==
  ASSUME IInv, NEW p \in Procs, NEW w \in Wfds, NEW cloexec \in BOOLEAN, yos_dup(p, w, cloexec)
  PROVE  IInv'
<1>1. HostFree # {} /\ Open(host[fd_map[p][w]].obj, cloexec) \in Files
  BY DupEntry DEF yos_dup
<1> QED BY <1>1, AllocInv DEF yos_dup

\* A set with two elements has another one than x.
LEMMA Another ==
  ASSUME NEW n \in Nat, NEW S \in SUBSET (0 .. n - 1), Cardinality(S) >= 2, NEW x
  PROVE  S # {} /\ S \ {x} # {}
<1>1. IsFiniteSet(0 .. n - 1)
  BY FS_Interval
<1>2. IsFiniteSet(S)
  BY <1>1, FS_Subset
<1>3. S # {}
  BY FS_EmptySet
<1>4. S \ {x} # {}
  <2> SUFFICES ASSUME S \ {x} = {} PROVE FALSE
    OBVIOUS
  <2>1. S = {x}
    BY <1>3
  <2>2. Cardinality(S) = 1
    BY <2>1, FS_Singleton
  <2> QED BY <2>2
<1> QED BY <1>3, <1>4

\* The two slots and the two host descriptors of a pipe.
LEMMA PipeSlots ==
  ASSUME IInv, NEW p \in Procs, NEW o \in Objs, yos_pipe(p, o)
  PROVE  LET r == Min(Free(p))
             s == Min(Free(p) \ {r})
         IN  /\ r \in Wfds /\ s \in Wfds /\ r # s
             /\ fd_map[p][r] = FREE_SLOT /\ fd_map[p][s] = FREE_SLOT
             /\ Lowest \in HostFds /\ Second \in HostFds /\ Lowest # Second
             /\ host[Lowest] = Closed /\ host[Second] = Closed
             /\ host' = [host EXCEPT ![Lowest] = Open(o, FALSE), ![Second] = Open(o, FALSE)]
             /\ fd_map' = [fd_map EXCEPT ![p][r] = Lowest, ![p][s] = Second]
<1> DEFINE r == Min(Free(p))
           s == Min(Free(p) \ {r})
<1>0. /\ Cardinality(Free(p)) >= 2 /\ Cardinality(HostFree) >= 2 /\ FdMax \in Nat /\ HostMax \in Nat
      /\ host' = [host EXCEPT ![Lowest] = Open(o, FALSE), ![Second] = Open(o, FALSE)]
      /\ fd_map' = [fd_map EXCEPT ![p][r] = Lowest, ![p][s] = Second]
  BY FdAssumption DEF yos_pipe
<1>1. Free(p) \in SUBSET (0 .. FdMax - 1) /\ HostFree \in SUBSET (0 .. HostMax - 1)
  BY DEF Free, HostFree, Wfds, HostFds
<1>2. /\ Free(p) # {} /\ Free(p) \ {r} # {} /\ HostFree # {} /\ HostFree \ {Lowest} # {}
  <2> HIDE DEF r, s
  <2> QED BY <1>0, <1>1, Another
<1>3. r \in Free(p) /\ s \in Free(p) \ {r}
  <2>1. r \in Free(p)
    BY <1>1, <1>2, MinIn, Domains DEF Wfds
  <2>2. Free(p) \ {r} \in SUBSET Nat
    BY <1>1
  <2> HIDE DEF r
  <2> QED BY <1>2, <2>1, <2>2, MinIn
<1>4. Second \in HostFree \ {Lowest}
  <2>1. HostFree \ {Lowest} \in SUBSET Nat
    BY Domains DEF HostFree
  <2> QED BY <1>2, <2>1, MinIn DEF Second
<1>5. Lowest \in HostFds /\ host[Lowest] = Closed
  BY <1>2, LowestFree
<1> HIDE DEF r, s
<1>6. /\ r \in Wfds /\ s \in Wfds /\ r # s /\ fd_map[p][r] = FREE_SLOT /\ fd_map[p][s] = FREE_SLOT
  BY <1>3 DEF Free
<1>7. Second \in HostFds /\ Lowest # Second /\ host[Second] = Closed
  BY <1>4 DEF HostFree
<1> QED BY <1>0, <1>5, <1>6, <1>7 DEF r, s

LEMMA PipeTouches ==
  ASSUME IInv, NEW p \in Procs, NEW r \in Wfds, NEW s \in Wfds, r # s,
         fd_map[p][r] = FREE_SLOT, fd_map[p][s] = FREE_SLOT,
         NEW g \in HostFds, NEW h \in HostFds, g # h, host[g] = Closed, host[h] = Closed,
         NEW e \in Files, host' = [host EXCEPT ![g] = e, ![h] = e],
         fd_map' = [fd_map EXCEPT ![p][r] = g, ![p][s] = h]
  PROVE  Touches(p)
<1>0. e # Closed /\ FREE_SLOT \notin HostFds
  BY OpenFile, Domains
<1>1. /\ fd_map'[p][r] = g /\ fd_map'[p][s] = h
      /\ \A w \in Wfds : w # r /\ w # s => fd_map'[p][w] = fd_map[p][w]
      /\ \A q \in Procs : q # p => fd_map'[q] = fd_map[q]
  BY MapType
<1>2. host'[g] = e /\ host'[h] = e /\ \A k \in HostFds : k # g /\ k # h => host'[k] = host[k]
  BY MapType
<1>3. host' \in [HostFds -> Files \cup {Closed}]
  BY MapType
<1>4. fd_map' \in [Procs -> [Wfds -> HostFds \cup {FREE_SLOT, YOS_FD_FCLOSE_TOMB}]]
  BY MapType
<1>5. \A w \in Wfds : fd_map[p][w] # g /\ fd_map[p][w] # h
  BY MapType DEF IInv, SlotsApart
<1>6. ASSUME NEW w \in Wfds, w # r, w # s, fd_map'[p][w] >= 0
      PROVE  /\ fd_map'[p][w] = fd_map[p][w] /\ host'[fd_map[p][w]] # Closed
             /\ \A v \in Wfds : fd_map[p][v] = fd_map[p][w] => v = w
  <2>1. fd_map'[p][w] = fd_map[p][w] /\ fd_map[p][w] >= 0 /\ fd_map[p][w] \in HostFds
    BY <1>1, <1>6, MapType
  <2>2. host[fd_map[p][w]] # Closed /\ \A v \in Wfds : fd_map[p][v] = fd_map[p][w] => v = w
    BY <2>1 DEF IInv, SlotsApart
  <2>3. host'[fd_map[p][w]] = host[fd_map[p][w]]
    BY <1>2, <1>5, <2>1
  <2> QED BY <2>1, <2>2, <2>3
<1>7. \A w \in Wfds : fd_map'[p][w] >= 0 =>
        /\ host'[fd_map'[p][w]] # Closed
        /\ fd_map'[p][w] = fd_map[p][w] \/ host[fd_map'[p][w]] = Closed
  <2> SUFFICES ASSUME NEW w \in Wfds, fd_map'[p][w] >= 0
               PROVE  /\ host'[fd_map'[p][w]] # Closed
                      /\ fd_map'[p][w] = fd_map[p][w] \/ host[fd_map'[p][w]] = Closed
    OBVIOUS
  <2>1. CASE w = r
    <3>1. fd_map'[p][w] = g
      BY <1>1, <2>1
    <3> QED BY <1>0, <1>2, <3>1
  <2>2. CASE w = s
    <3>1. fd_map'[p][w] = h
      BY <1>1, <2>2
    <3> QED BY <1>0, <1>2, <3>1
  <2>3. CASE w # r /\ w # s
    BY <1>6, <2>3
  <2> QED BY <2>1, <2>2, <2>3
<1>8. \A w, v \in Wfds : fd_map'[p][w] >= 0 /\ fd_map'[p][v] = fd_map'[p][w] => v = w
  <2> SUFFICES ASSUME NEW w \in Wfds, NEW v \in Wfds, fd_map'[p][w] >= 0,
                      fd_map'[p][v] = fd_map'[p][w]
               PROVE  v = w
    OBVIOUS
  <2>1. fd_map'[p][v] >= 0
    OBVIOUS
  <2>2. CASE w = r
    <3>1. fd_map'[p][v] = g
      BY <1>1, <2>2
    <3> QED BY <1>1, <1>5, <2>2, <3>1
  <2>3. CASE w = s
    <3>1. fd_map'[p][v] = h
      BY <1>1, <2>3
    <3> QED BY <1>1, <1>5, <2>3, <3>1
  <2>4. CASE w # r /\ w # s
    <3>1. fd_map'[p][v] = fd_map[p][w] /\ \A u \in Wfds : fd_map[p][u] = fd_map[p][w] => u = w
      BY <1>6, <2>4
    <3>2. v # r /\ v # s
      BY <1>1, <1>5, <3>1
    <3> QED BY <1>1, <3>1, <3>2
  <2> QED BY <2>2, <2>3, <2>4
<1>9. \A k \in HostFds :
        host'[k] = host[k] \/ host[k] = Closed \/ \E w \in Wfds : fd_map[p][w] = k
  BY <1>2
<1>10. ASSUME NEW k \in HostFds, host'[k] # Closed, host[k] = Closed \/ \E w \in Wfds : fd_map[p][w] = k
       PROVE  \E w \in Wfds : fd_map'[p][w] = k
  <2>1. CASE host[k] = Closed
    <3>1. k = g \/ k = h
      BY <1>2, <1>10, <2>1
    <3> QED BY <1>1, <3>1
  <2>2. CASE \E w \in Wfds : fd_map[p][w] = k
    <3>1. PICK w \in Wfds : fd_map[p][w] = k
      BY <2>2
    <3>2. w # r /\ w # s
      BY <1>0, <3>1
    <3> QED BY <1>1, <3>1, <3>2
  <2> QED BY <1>10, <2>1, <2>2
<1> QED BY <1>1, <1>3, <1>4, <1>7, <1>8, <1>9, <1>10 DEF Touches

LEMMA PipeInv ==
  ASSUME IInv, NEW p \in Procs, NEW o \in Objs, yos_pipe(p, o)
  PROVE  IInv'
<1> DEFINE r == Min(Free(p))
           s == Min(Free(p) \ {r})
<1>1. /\ r \in Wfds /\ s \in Wfds /\ r # s
      /\ fd_map[p][r] = FREE_SLOT /\ fd_map[p][s] = FREE_SLOT
      /\ Lowest \in HostFds /\ Second \in HostFds /\ Lowest # Second
      /\ host[Lowest] = Closed /\ host[Second] = Closed
      /\ host' = [host EXCEPT ![Lowest] = Open(o, FALSE), ![Second] = Open(o, FALSE)]
      /\ fd_map' = [fd_map EXCEPT ![p][r] = Lowest, ![p][s] = Second]
  BY PipeSlots
<1> HIDE DEF r, s
<1>2. Open(o, FALSE) \in Files
  BY OpenFile
<1>3. Touches(p)
  BY <1>1, <1>2, PipeTouches
<1>4. Runs(p) /\ UNCHANGED <<files, pc, fork, owed>>
  BY DEF yos_pipe
<1>5. \A x \in Handles : files[p][x] # NoFile =>
        fd_map'[p][files[p][x].wfd] = fd_map[p][files[p][x].wfd]
  <2>1. \A w \in Wfds : fd_map[p][w] # FREE_SLOT => fd_map'[p][w] = fd_map[p][w]
    BY <1>1, MapType
  <2>2. ~(FREE_SLOT >= 0)
    BY Domains
  <2> QED BY <2>1, <2>2, StreamSlot
<1>6. StreamsOf(p)'
  BY <1>4, <1>5, StreamsKept
<1>7. files' \in [Procs -> [Handles -> FileRecs]] /\ \A q \in Procs : q # p => files'[q] = files[q]
  BY <1>4 DEF IInv, TypeOK, FileRecs
<1> QED BY <1>3, <1>4, <1>6, <1>7, CallInv

LEMMA Dup2Touches ==
  ASSUME IInv, NEW p \in Procs, NEW oldfd \in Wfds, NEW newfd \in Wfds, NEW cloexec \in BOOLEAN,
         yos_dup2(p, oldfd, newfd, cloexec)
  PROVE  Touches(p)
<1>1. HostFree # {} /\ Open(host[fd_map[p][oldfd]].obj, cloexec) \in Files
  BY DupEntry DEF yos_dup2
<1>2. Lowest \in HostFds /\ host[Lowest] = Closed
  BY <1>1, LowestFree
<1>3. /\ fd_map' = [fd_map EXCEPT ![p][newfd] = Lowest]
      /\ host' = PutHost(p, newfd, Lowest, Open(host[fd_map[p][oldfd]].obj, cloexec))
  BY DEF yos_dup2, yos_fd_assign, PutHost
<1> QED BY <1>1, <1>2, <1>3, PutTouches

LEMMA Dup2Inv ==
  ASSUME IInv, NEW p \in Procs, NEW oldfd \in Wfds, NEW newfd \in Wfds, NEW cloexec \in BOOLEAN,
         yos_dup2(p, oldfd, newfd, cloexec)
  PROVE  IInv'
<1>1. Touches(p)
  BY Dup2Touches
<1>2. Runs(p) /\ UNCHANGED <<files, pc, fork, owed>> /\ newfd \notin StreamFds(p)
  BY DEF yos_dup2
<1>3. \A w \in Wfds : w # newfd => fd_map'[p][w] = fd_map[p][w]
  BY MapType DEF yos_dup2, yos_fd_assign
<1>4. \A x \in Handles : files[p][x] # NoFile =>
        fd_map'[p][files[p][x].wfd] = fd_map[p][files[p][x].wfd]
  BY <1>2, <1>3, StreamSlot
<1>5. StreamsOf(p)'
  BY <1>2, <1>4, StreamsKept
<1>6. files' \in [Procs -> [Handles -> FileRecs]] /\ \A q \in Procs : q # p => files'[q] = files[q]
  BY <1>2 DEF IInv, TypeOK, FileRecs
<1> QED BY <1>1, <1>2, <1>5, <1>6, CallInv

\* Slots W become free.
LEMMA DropSlots ==
  ASSUME IInv, NEW p \in Procs, NEW W \in SUBSET Mapped(p),
         host' = CloseAll({fd_map[p][w] : w \in W}),
         fd_map' = [fd_map EXCEPT ![p] = [w \in Wfds |-> IF w \in W THEN FREE_SLOT ELSE fd_map[p][w]]]
  PROVE  /\ Touches(p)
         /\ \A w \in Wfds : fd_map'[p][w] = IF w \in W THEN FREE_SLOT ELSE fd_map[p][w]
<1>1. W \in SUBSET Wfds /\ \A w \in W : fd_map[p][w] >= 0
  BY DEF Mapped
<1>2. \A w \in Wfds : fd_map'[p][w] = IF w \in W THEN FREE_SLOT ELSE fd_map[p][w]
  BY MapType
<1>3. fd_map' \in [Procs -> [Wfds -> HostFds \cup {FREE_SLOT, YOS_FD_FCLOSE_TOMB}]]
  BY MapType
<1>4. \A r \in Procs : r # p => fd_map'[r] = fd_map[r]
  BY MapType
<1>5. \A w \in W : fd_map'[p][w] < 0
  BY <1>1, <1>2, Domains
<1>6. \A w \in Wfds \ W : fd_map'[p][w] = fd_map[p][w]
  BY <1>2
<1> QED BY <1>1, <1>2, <1>3, <1>4, <1>5, <1>6, DropTouches

LEMMA CloseInv ==
  ASSUME IInv, NEW p \in Procs, NEW low \in Wfds, NEW high \in Wfds, yos_close_range(p, low, high)
  PROVE  IInv'
<1> DEFINE W == {w \in Mapped(p) : low <= w /\ w <= high}
<1>0. /\ Runs(p) /\ W \cap StreamFds(p) = {} /\ UNCHANGED <<files, pc, fork, owed>>
      /\ host' = CloseAll({fd_map[p][w] : w \in W})
      /\ fd_map' = [fd_map EXCEPT ![p] = [w \in Wfds |-> IF w \in W THEN FREE_SLOT ELSE fd_map[p][w]]]
      /\ W \in SUBSET Mapped(p)
  BY DEF yos_close_range
<1> HIDE DEF W
<1>1. /\ Touches(p)
      /\ \A w \in Wfds : fd_map'[p][w] = IF w \in W THEN FREE_SLOT ELSE fd_map[p][w]
  BY <1>0, DropSlots
<1>2. \A x \in Handles : files[p][x] # NoFile =>
        fd_map'[p][files[p][x].wfd] = fd_map[p][files[p][x].wfd]
  BY <1>0, <1>1, StreamSlot
<1>3. StreamsOf(p)'
  BY <1>0, <1>2, StreamsKept
<1>4. files' \in [Procs -> [Handles -> FileRecs]] /\ \A q \in Procs : q # p => files'[q] = files[q]
  BY <1>0 DEF IInv, TypeOK, FileRecs
<1> QED BY <1>0, <1>1, <1>3, <1>4, CallInv

\* A new stream of p on slot s, which no stream of p had before.
LEMMA StreamAdded ==
  ASSUME IInv, NEW p \in Procs, NEW x \in Handles, NEW f \in FileRecs, files[p][x] = NoFile,
         files' = [files EXCEPT ![p][x] = f],
         f.held, f.wfd \in Wfds, f.hfd >= 0, fd_map'[p][f.wfd] = f.hfd,
         \A y \in Handles : files[p][y] # NoFile =>
           /\ files[p][y].wfd # f.wfd
           /\ fd_map'[p][files[p][y].wfd] = fd_map[p][files[p][y].wfd]
  PROVE  /\ files' \in [Procs -> [Handles -> FileRecs]]
         /\ \A r \in Procs : r # p => files'[r] = files[r]
         /\ StreamsOf(p)'
<1>0. files \in [Procs -> [Handles -> FileRecs]]
  BY DEF IInv, TypeOK, FileRecs
<1>1. /\ files'[p][x] = f /\ \A y \in Handles : y # x => files'[p][y] = files[p][y]
      /\ \A r \in Procs : r # p => files'[r] = files[r]
  BY <1>0
<1>2. files' \in [Procs -> [Handles -> FileRecs]]
  BY <1>0
<1>3. StreamsOf(p)'
  <2> SUFFICES ASSUME NEW y \in Handles, files'[p][y] # NoFile
               PROVE  /\ files'[p][y].held /\ files'[p][y].wfd \in Wfds
                      /\ files'[p][y].hfd >= 0 /\ fd_map'[p][files'[p][y].wfd] = files'[p][y].hfd
                      /\ \A z \in Handles :
                           files'[p][z] # NoFile /\ files'[p][z].wfd = files'[p][y].wfd => z = y
    BY DEF StreamsOf
  <2>1. CASE y = x
    BY <1>1, <2>1
  <2>2. CASE y # x
    <3>1. files'[p][y] = files[p][y] /\ files[p][y] # NoFile
      BY <1>1, <2>2
    <3>2. /\ files[p][y].held /\ files[p][y].wfd \in Wfds /\ files[p][y].hfd >= 0
          /\ fd_map[p][files[p][y].wfd] = files[p][y].hfd
          /\ \A z \in Handles : files[p][z] # NoFile /\ files[p][z].wfd = files[p][y].wfd => z = y
      BY <3>1 DEF IInv, StreamsSit, StreamsOf
    <3> QED BY <1>1, <3>1, <3>2
  <2> QED BY <2>1, <2>2
<1> QED BY <1>1, <1>2, <1>3

LEMMA FopenInv ==
  ASSUME IInv, NEW p \in Procs, NEW x \in Handles, NEW o \in Objs, yos_fopen(p, x, o)
  PROVE  IInv'
<1> DEFINE s == Min(Free(p))
           f == NewStream(Lowest, s)
<1>0. /\ Runs(p) /\ HostFree # {} /\ Free(p) # {} /\ files[p][x] = NoFile
      /\ host' = [host EXCEPT ![Lowest] = Open(o, FALSE)] /\ fd_map' = yos_fd_alloc(p, Lowest)
      /\ files' = [files EXCEPT ![p][x] = f] /\ UNCHANGED <<pc, fork, owed>>
  BY DEF yos_fopen, Streams
<1>1. /\ Lowest \in HostFds /\ s \in Wfds /\ fd_map[p][s] = FREE_SLOT /\ Open(o, FALSE) \in Files
  BY <1>0, LowestFree, SlotFree, OpenFile
<1>2. /\ Touches(p) /\ fd_map'[p][s] = Lowest
      /\ \A w \in Wfds : fd_map[p][w] # FREE_SLOT => fd_map'[p][w] = fd_map[p][w]
  BY <1>0, <1>1, AllocCall
<1> HIDE DEF s
<1>3. f \in FileRecs /\ f.held /\ f.wfd = s /\ f.hfd = Lowest
  BY <1>1 DEF NewStream, FileRecs
<1>4. Lowest >= 0 /\ ~(FREE_SLOT >= 0)
  BY <1>1, Domains
<1> HIDE DEF f
<1>5. ASSUME NEW y \in Handles, files[p][y] # NoFile
      PROVE  /\ files[p][y].wfd # f.wfd
             /\ fd_map'[p][files[p][y].wfd] = fd_map[p][files[p][y].wfd]
  <2>1. files[p][y].wfd \in Wfds /\ fd_map[p][files[p][y].wfd] # FREE_SLOT
    BY <1>4, <1>5, StreamSlot
  <2> QED BY <1>1, <1>2, <1>3, <2>1
<1>6. /\ files' \in [Procs -> [Handles -> FileRecs]]
      /\ \A r \in Procs : r # p => files'[r] = files[r]
      /\ StreamsOf(p)'
  BY <1>0, <1>1, <1>2, <1>3, <1>4, <1>5, StreamAdded
<1> QED BY <1>0, <1>2, <1>6, CallInv

\* A slot that is mapped becomes free or a tombstone.
LEMMA SlotCleared ==
  ASSUME IInv, NEW p \in Procs, NEW s \in Wfds, fd_map[p][s] >= 0,
         NEW v \in {FREE_SLOT, YOS_FD_FCLOSE_TOMB},
         host' = CloseAll({fd_map[p][s]}), fd_map' = [fd_map EXCEPT ![p][s] = v]
  PROVE  /\ Touches(p)
         /\ fd_map'[p][s] = v /\ \A w \in Wfds : w # s => fd_map'[p][w] = fd_map[p][w]
<1>1. {fd_map[p][s]} = {fd_map[p][w] : w \in {s}}
  OBVIOUS
<1>2. fd_map'[p][s] = v /\ \A w \in Wfds : w # s => fd_map'[p][w] = fd_map[p][w]
  BY MapType
<1>3. fd_map' \in [Procs -> [Wfds -> HostFds \cup {FREE_SLOT, YOS_FD_FCLOSE_TOMB}]]
  BY MapType
<1>4. \A r \in Procs : r # p => fd_map'[r] = fd_map[r]
  BY MapType
<1>5. \A w \in {s} : fd_map'[p][w] < 0
  BY <1>2, Domains
<1>6. {s} \in SUBSET Wfds /\ \A w \in Wfds \ {s} : fd_map'[p][w] = fd_map[p][w]
  BY <1>2
<1>7. \A w \in {s} : fd_map[p][w] >= 0
  OBVIOUS
<1> QED BY <1>1, <1>2, <1>3, <1>4, <1>5, <1>6, <1>7, DropTouches

LEMMA FdopenInv ==
  ASSUME IInv, NEW p \in Procs, NEW x \in Handles, NEW w \in Wfds, yos_fdopen(p, x, w)
  PROVE  IInv'
<1>0. Runs(p) /\ fd_map[p][w] >= 0 /\ w \notin StreamFds(p) /\ UNCHANGED <<pc, fork, owed>>
  BY DEF yos_fdopen, Mapped
<1>1. \A y \in Handles : files[p][y] # NoFile => files[p][y].wfd \in Wfds /\ files[p][y].wfd # w
  BY <1>0, StreamSlot
<1>2. CASE /\ x \notin Streams(p) /\ UNCHANGED <<host, fd_map>>
           /\ files' = [files EXCEPT ![p][x] =
                [hfd |-> fd_map[p][w], wfd |-> w, own |-> FALSE, held |-> TRUE]]
  <2> DEFINE f == [hfd |-> fd_map[p][w], wfd |-> w, own |-> FALSE, held |-> TRUE]
  <2>1. fd_map[p][w] \in HostFds /\ files[p][x] = NoFile
    BY <1>0, <1>2, MapType DEF Streams
  <2>2. f \in FileRecs /\ f.held /\ f.wfd = w /\ f.hfd = fd_map[p][w]
    BY <2>1 DEF FileRecs
  <2>3. files' = [files EXCEPT ![p][x] = f] /\ fd_map' = fd_map /\ host' = host
    BY <1>2
  <2> HIDE DEF f
  <2>4. /\ files' \in [Procs -> [Handles -> FileRecs]]
        /\ \A r \in Procs : r # p => files'[r] = files[r]
        /\ StreamsOf(p)'
    <3>1. f.wfd \in Wfds /\ f.hfd >= 0 /\ fd_map'[p][f.wfd] = f.hfd
      BY <1>0, <2>2, <2>3
    <3>2. \A y \in Handles : files[p][y] # NoFile =>
            /\ files[p][y].wfd # f.wfd
            /\ fd_map'[p][files[p][y].wfd] = fd_map[p][files[p][y].wfd]
      BY <1>0, <1>1, <2>2, <2>3
    <3> QED BY <3>1, <3>2, <2>1, <2>2, <2>3, StreamAdded
  <2>5. Touches(p)
    BY <2>3, SameTouches
  <2> QED BY <1>0, <2>4, <2>5, CallInv
<1>3. CASE /\ host' = CloseAll({fd_map[p][w]}) /\ UNCHANGED files
           /\ fd_map' = [fd_map EXCEPT ![p][w] = YOS_FD_FCLOSE_TOMB]
  <2>1. Touches(p) /\ \A v \in Wfds : v # w => fd_map'[p][v] = fd_map[p][v]
    BY <1>0, <1>3, SlotCleared
  <2>2. \A y \in Handles : files[p][y] # NoFile =>
          fd_map'[p][files[p][y].wfd] = fd_map[p][files[p][y].wfd]
    BY <1>1, <2>1
  <2>3. StreamsOf(p)'
    BY <1>3, <2>2, StreamsKept
  <2>4. files' \in [Procs -> [Handles -> FileRecs]] /\ \A r \in Procs : r # p => files'[r] = files[r]
    BY <1>3 DEF IInv, TypeOK, FileRecs
  <2> QED BY <1>0, <2>1, <2>3, <2>4, CallInv
<1> QED BY <1>2, <1>3 DEF yos_fdopen

\* What fclose does to the tables.
LEMMA FcloseClears ==
  ASSUME IInv, NEW p \in Procs, NEW x \in Handles, yos_fclose(p, x)
  PROVE  \E s \in Wfds :
           /\ files[p][x] # NoFile /\ files[p][x].wfd = s /\ fd_map[p][s] >= 0
           /\ host' = CloseAll({fd_map[p][s]})
           /\ \E v \in {FREE_SLOT, YOS_FD_FCLOSE_TOMB} : fd_map' = [fd_map EXCEPT ![p][s] = v]
<1> DEFINE f == files[p][x]
           v == IF f.own THEN FREE_SLOT ELSE YOS_FD_FCLOSE_TOMB
<1>1. f.held /\ host' = CloseAll({f.hfd}) /\ fd_map' = Released(p, f)
  BY DEF yos_fclose
<1>2. f # NoFile
  BY <1>1 DEF NoFile
<1>3. f.wfd \in Wfds /\ f.hfd >= 0 /\ fd_map[p][f.wfd] = f.hfd
  BY <1>2 DEF IInv, StreamsSit, StreamsOf
<1>4. ~(f.wfd < 0)
  <2>1. \A w \in Wfds : ~(w < 0)
    BY Domains
  <2> HIDE DEF f
  <2> QED BY <1>3, <2>1
<1>5. fd_map' = [fd_map EXCEPT ![p][f.wfd] = v]
  BY <1>1, <1>4 DEF Released
<1>6. v \in {FREE_SLOT, YOS_FD_FCLOSE_TOMB}
  OBVIOUS
<1> HIDE DEF v
<1> QED BY <1>1, <1>2, <1>3, <1>5, <1>6

LEMMA FcloseInv ==
  ASSUME IInv, NEW p \in Procs, NEW x \in Handles, yos_fclose(p, x)
  PROVE  IInv'
<1>1. PICK s \in Wfds :
           /\ files[p][x] # NoFile /\ files[p][x].wfd = s /\ fd_map[p][s] >= 0
           /\ host' = CloseAll({fd_map[p][s]})
           /\ \E v \in {FREE_SLOT, YOS_FD_FCLOSE_TOMB} : fd_map' = [fd_map EXCEPT ![p][s] = v]
  BY FcloseClears
<1>2. Touches(p) /\ \A w \in Wfds : w # s => fd_map'[p][w] = fd_map[p][w]
  BY <1>1, SlotCleared
<1>3. Runs(p) /\ UNCHANGED <<pc, fork, owed>> /\ files' = [files EXCEPT ![p][x] = NoFile]
  BY DEF yos_fclose
<1>4. files \in [Procs -> [Handles -> FileRecs]] /\ NoFile \in FileRecs
  BY DEF IInv, TypeOK, FileRecs, NoFile
<1>5. /\ files' \in [Procs -> [Handles -> FileRecs]] /\ files'[p][x] = NoFile
      /\ \A r \in Procs : r # p => files'[r] = files[r]
      /\ \A y \in Handles : y # x => files'[p][y] = files[p][y]
  BY <1>3, <1>4
<1>6. StreamsOf(p)'
  <2> SUFFICES ASSUME NEW y \in Handles, files'[p][y] # NoFile
               PROVE  /\ files'[p][y].held /\ files'[p][y].wfd \in Wfds
                      /\ files'[p][y].hfd >= 0 /\ fd_map'[p][files'[p][y].wfd] = files'[p][y].hfd
                      /\ \A z \in Handles :
                           files'[p][z] # NoFile /\ files'[p][z].wfd = files'[p][y].wfd => z = y
    BY DEF StreamsOf
  <2>1. y # x /\ files'[p][y] = files[p][y] /\ files[p][y] # NoFile
    BY <1>5
  <2>2. /\ files[p][y].held /\ files[p][y].wfd \in Wfds /\ files[p][y].hfd >= 0
        /\ fd_map[p][files[p][y].wfd] = files[p][y].hfd
        /\ \A z \in Handles : files[p][z] # NoFile /\ files[p][z].wfd = files[p][y].wfd => z = y
    BY <2>1 DEF IInv, StreamsSit, StreamsOf
  <2>3. files[p][y].wfd # s
    BY <1>1, <2>1, <2>2
  <2> QED BY <1>2, <1>5, <2>1, <2>2, <2>3
<1> QED BY <1>2, <1>3, <1>5, <1>6, CallInv

\* Without KeepStreams there is no stream to leave.
LEMMA LeavesNone ==
  ASSUME ~KeepStreams, NEW p \in Procs, MayLeaveStreams(p)
  PROVE  \A x \in Handles : files[p][x] = NoFile
BY DEF MayLeaveStreams, Streams

LEMMA ExecTouches ==
  ASSUME IInv, NEW p \in Procs, yos_execve(p)
  PROVE  /\ Touches(p)
         /\ \A w \in Wfds : fd_map'[p][w] =
              IF fd_map[p][w] >= 0 /\ host[fd_map[p][w]].cloexec THEN FREE_SLOT ELSE fd_map[p][w]
<1> DEFINE W == {w \in Mapped(p) : host[fd_map[p][w]].cloexec}
<1>0. /\ host' = CloseAll({fd_map[p][w] : w \in W})
      /\ fd_map' = [fd_map EXCEPT ![p] = [w \in Wfds |-> IF w \in W THEN FREE_SLOT ELSE fd_map[p][w]]]
      /\ W \in SUBSET Mapped(p)
  BY DEF yos_execve
<1>1. \A w \in Wfds : w \in W <=> fd_map[p][w] >= 0 /\ host[fd_map[p][w]].cloexec
  BY DEF Mapped
<1> HIDE DEF W
<1>2. Touches(p) /\ \A w \in Wfds : fd_map'[p][w] = IF w \in W THEN FREE_SLOT ELSE fd_map[p][w]
  BY <1>0, DropSlots
<1> QED BY <1>1, <1>2

LEMMA ExecInv ==
  ASSUME IInv, ~KeepStreams, NEW p \in Procs, yos_execve(p)
  PROVE  IInv'
<1>1. Touches(p)
  BY ExecTouches
<1>2. /\ Runs(p) /\ UNCHANGED <<pc, fork, owed>> /\ MayLeaveStreams(p)
      /\ files' = [files EXCEPT ![p] = [x \in Handles |-> [files[p][x] EXCEPT !.held = FALSE]]]
  BY DEF yos_execve
<1>3. files \in [Procs -> [Handles -> FileRecs]] /\ NoFile \in FileRecs
  BY DEF IInv, TypeOK, FileRecs, NoFile
<1>4. \A x \in Handles : [files[p][x] EXCEPT !.held = FALSE] = NoFile
  <2>1. [NoFile EXCEPT !.held = FALSE] = NoFile
    <3> DEFINE f == [NoFile EXCEPT !.held = FALSE]
    <3>1. f \in FileRecs
      BY <1>3 DEF FileRecs
    <3>2. f.hfd = -1 /\ f.wfd = -1 /\ f.own = FALSE /\ f.held = FALSE
      BY DEF NoFile
    <3> HIDE DEF f
    <3>3. f = [hfd |-> f.hfd, wfd |-> f.wfd, own |-> f.own, held |-> f.held]
      BY <3>1 DEF FileRecs
    <3>4. f = NoFile
      BY <3>2, <3>3 DEF NoFile
    <3> QED BY <3>4 DEF f
  <2> QED BY <1>2, <2>1, LeavesNone
<1>5. files' = [files EXCEPT ![p] = [x \in Handles |-> NoFile]]
  BY <1>2, <1>4
<1>6. /\ files' \in [Procs -> [Handles -> FileRecs]]
      /\ \A r \in Procs : r # p => files'[r] = files[r]
      /\ \A x \in Handles : files'[p][x] = NoFile
  BY <1>3, <1>5
<1>7. StreamsOf(p)'
  BY <1>6 DEF StreamsOf
<1> QED BY <1>1, <1>2, <1>6, <1>7, CallInv

----------------------------------------------------------------------------
(* fork, execve and exit *)

ProcStates == {"none", "running", "forking", "starting", "loading", "exiting"}

\* A step in the life of a process that changes the tables of q at most.
LEMMA LifeInv ==
  ASSUME IInv, NEW q \in Procs, Touches(q), files' = files, owed' = owed,
         \A x \in Handles : files[q][x] = NoFile,
         pc' \in [Procs -> ProcStates], fork' \in [Procs -> [child : Procs, at : 0 .. FdMax]],
         \A r \in Procs : pc'[r] # "running" => \A x \in Handles : files[r][x] = NoFile,
         \A r \in Procs : pc'[r] \in {"none", "exiting"} => \A w \in Wfds : fd_map'[r][w] = FREE_SLOT,
         \A r \in Procs : pc'[r] = "forking" =>
           /\ pc[r] = "forking" /\ fork'[r] = fork[r] /\ pc'[fork[r].child] = "starting"
           /\ r # q /\ fork[r].child # q
  PROVE  IInv'
<1>1. TypeOK'
  BY TouchTypes DEF IInv, TypeOK, FileRecs, ProcStates
<1>2. HostSound' /\ SlotsApart' /\ Accounted'
  BY TouchKeeps
<1>3. StreamsSit'
  <2> SUFFICES ASSUME NEW r \in Procs PROVE StreamsOf(r)'
    BY DEF StreamsSit
  <2>1. CASE r = q
    BY <2>1 DEF StreamsOf
  <2>2. CASE r # q
    <3>1. fd_map'[r] = fd_map[r]
      BY <2>2, TouchKeeps
    <3> QED BY <3>1 DEF IInv, StreamsSit, StreamsOf
  <2> QED BY <2>1, <2>2
<1>4. Quiet'
  BY DEF IInv, Quiet
<1>5. ASSUME NEW r \in Procs, pc'[r] = "forking"
      PROVE  /\ fork[r].child \in Procs /\ pc[r] = "forking" /\ fork'[r] = fork[r]
             /\ fd_map'[r] = fd_map[r] /\ fd_map'[fork[r].child] = fd_map[fork[r].child]
  <2>1. fork[r].child \in Procs
    BY DEF IInv, TypeOK
  <2> QED BY <1>5, <2>1, TouchKeeps
<1>6. Forking'
  <2> SUFFICES ASSUME NEW r \in Procs, pc'[r] = "forking"
               PROVE  /\ pc'[fork'[r].child] = "starting"
                      /\ \A w \in Wfds : w >= fork'[r].at => fd_map'[fork'[r].child][w] = FREE_SLOT
                      /\ \A s \in Procs : pc'[s] = "forking" /\ fork'[s].child = fork'[r].child => s = r
    BY DEF Forking
  <2> QED BY <1>5 DEF IInv, Forking
<1>7. Copied'
  <2> SUFFICES ASSUME Roomy, NEW r \in Procs, pc'[r] = "forking", NEW w \in Wfds, w < fork'[r].at
               PROVE  \A g \in Procs : g = fork'[r].child => SameSlot(r, g, w)'
    BY <1>5 DEF Copied, SameSlot
  <2> SUFFICES ASSUME NEW g \in Procs, g = fork[r].child PROVE SameSlot(r, g, w)'
    BY <1>5
  <2>1. SameSlot(r, g, w) /\ g # q /\ r # q
    BY <1>5 DEF IInv, Copied
  <2>2. fd_map'[r] = fd_map[r] /\ fd_map'[g] = fd_map[g]
    BY <1>5
  <2>3. /\ fd_map[r][w] >= 0 => host'[fd_map[r][w]] = host[fd_map[r][w]]
        /\ fd_map[g][w] >= 0 => host'[fd_map[g][w]] = host[fd_map[g][w]]
    BY <2>1, TouchKeeps
  <2> QED BY <2>1, <2>2, <2>3, CopiesStay
<1> QED BY <1>1, <1>2, <1>3, <1>4, <1>6, <1>7 DEF IInv

\* All slots of c are closed.
LEMMA EndTouches ==
  ASSUME IInv, NEW c \in Procs, host' = CloseAll(HostOf(c)), fd_map' = [fd_map EXCEPT ![c] = Unmapped]
  PROVE  Touches(c) /\ \A w \in Wfds : fd_map'[c][w] = FREE_SLOT
<1>2. \A w \in Wfds : fd_map'[c][w] = FREE_SLOT
  BY MapType DEF Unmapped
<1>3. fd_map' \in [Procs -> [Wfds -> HostFds \cup {FREE_SLOT, YOS_FD_FCLOSE_TOMB}]]
  BY MapType DEF Unmapped
<1>4. \A r \in Procs : r # c => fd_map'[r] = fd_map[r]
  BY MapType
<1>5. Touches(c)
  <2>1. host' \in [HostFds -> Files \cup {Closed}]
    BY MapType DEF CloseAll
  <2>2. \A g \in HostFds : host'[g] = IF \E w \in Wfds : fd_map[c][w] = g THEN Closed ELSE host[g]
    <3>1. \A g \in HostFds : g \in HostOf(c) <=> \E w \in Wfds : fd_map[c][w] = g
      BY MapType DEF HostOf, Mapped
    <3> QED BY <3>1 DEF CloseAll
  <2>3. \A w \in Wfds : ~(fd_map'[c][w] >= 0)
    BY <1>2, Domains
  <2> QED BY <1>3, <1>4, <2>1, <2>2, <2>3 DEF Touches
<1> QED BY <1>2, <1>5

LEMMA ReleaseTouches ==
  ASSUME IInv, NEW c \in Procs, pc[c] # "running", DupsReleased(c)
  PROVE  /\ Touches(c) /\ files' = files /\ owed' = owed
         /\ \A x \in Handles : files[c][x] = NoFile
         /\ \A w \in Wfds : fd_map'[c][w] = FREE_SLOT
<1>1. \A x \in Handles : files[c][x] = NoFile
  BY DEF IInv, Quiet
<1>2. {files[c][x].hfd : x \in Streams(c)} = {}
  BY <1>1 DEF Streams
<1>3. HostOf(c) \cup {files[c][x].hfd : x \in Streams(c)} = HostOf(c)
  BY <1>2
<1>4. host' = CloseAll(HostOf(c)) /\ fd_map' = [fd_map EXCEPT ![c] = Unmapped] /\ owed' = owed
  BY <1>3 DEF DupsReleased
<1>5. files' = files
  <2>1. files \in [Procs -> [Handles -> FileRecs]]
    BY DEF IInv, TypeOK, FileRecs
  <2>2. files[c] = [x \in Handles |-> NoFile]
    BY <1>1, <2>1
  <2>3. files' = [files EXCEPT ![c] = files[c]]
    BY <2>2 DEF DupsReleased
  <2> QED BY <2>1, <2>3
<1> QED BY <1>1, <1>4, <1>5, EndTouches

\* Facts about a process that is making a child.
LEMMA ForkFacts ==
  ASSUME IInv, NEW p \in Procs, pc[p] = "forking"
  PROVE  /\ fork[p].child \in Procs /\ fork[p].at \in 0 .. FdMax
         /\ pc[fork[p].child] = "starting" /\ fork[p].child # p
         /\ \A x \in Handles : files[fork[p].child][x] = NoFile /\ files[p][x] = NoFile
         /\ \A r \in Procs : pc[r] = "forking" /\ r # p =>
              /\ fork[r].child # fork[p].child /\ fork[r].child # p /\ r # fork[p].child
              /\ pc[fork[r].child] = "starting" /\ fork[r].child \in Procs
<1>1. fork[p].child \in Procs /\ fork[p].at \in 0 .. FdMax
  BY DEF IInv, TypeOK
<1>2. pc[fork[p].child] = "starting" /\ fork[p].child # p
  BY DEF IInv, Forking
<1>3. \A x \in Handles : files[fork[p].child][x] = NoFile /\ files[p][x] = NoFile
  BY <1>1, <1>2 DEF IInv, Quiet
<1>4. \A r \in Procs : pc[r] = "forking" /\ r # p =>
        /\ fork[r].child # fork[p].child /\ fork[r].child # p /\ r # fork[p].child
        /\ pc[fork[r].child] = "starting" /\ fork[r].child \in Procs
  BY <1>2 DEF IInv, Forking, TypeOK
<1> QED BY <1>1, <1>2, <1>3, <1>4

LEMMA ForkStartsInv ==
  ASSUME IInv, NEW p \in Procs, ForkStarts(p)
  PROVE  IInv'
<1> DEFINE c == fork[p].child
<1>0. /\ pc[p] = "forking" /\ fork' = [fork EXCEPT ![p] = NoFork]
      /\ pc' = [pc EXCEPT ![p] = "running", ![c] = "loading"]
      /\ UNCHANGED <<host, fd_map, files, owed>>
  BY DEF ForkStarts, ForkDone
<1>1. /\ c \in Procs /\ pc[c] = "starting" /\ c # p /\ \A x \in Handles : files[c][x] = NoFile
      /\ \A r \in Procs : pc[r] = "forking" /\ r # p =>
           /\ fork[r].child # c /\ fork[r].child # p /\ r # c
           /\ pc[fork[r].child] = "starting" /\ fork[r].child \in Procs
  BY <1>0, ForkFacts
<1> HIDE DEF c
<1>2. Touches(c)
  BY <1>0, <1>1, SameTouches
<1>3. NoFork \in [child : Procs, at : 0 .. FdMax]
  BY FdAssumption DEF NoFork
<1>4. pc' \in [Procs -> ProcStates] /\ fork' \in [Procs -> [child : Procs, at : 0 .. FdMax]]
  BY <1>0, <1>3 DEF IInv, TypeOK, ProcStates
<1>5. /\ pc'[p] = "running" /\ pc'[c] = "loading"
      /\ \A r \in Procs : r # p /\ r # c => pc'[r] = pc[r]
      /\ \A r \in Procs : r # p => fork'[r] = fork[r]
  BY <1>0, <1>1 DEF IInv, TypeOK
<1>6. \A r \in Procs : pc'[r] # "running" => \A x \in Handles : files[r][x] = NoFile
  BY <1>1, <1>5 DEF IInv, Quiet
<1>7. \A r \in Procs : pc'[r] \in {"none", "exiting"} => \A w \in Wfds : fd_map'[r][w] = FREE_SLOT
  BY <1>0, <1>5 DEF IInv, Quiet
<1>8. \A r \in Procs : pc'[r] = "forking" =>
        /\ pc[r] = "forking" /\ fork'[r] = fork[r] /\ pc'[fork[r].child] = "starting"
        /\ r # c /\ fork[r].child # c
  BY <1>1, <1>5
<1> QED BY <1>0, <1>1, <1>2, <1>4, <1>6, <1>7, <1>8, LifeInv

LEMMA ForkFailsInv ==
  ASSUME IInv, NEW p \in Procs, ForkFails(p)
  PROVE  IInv'
<1> DEFINE c == fork[p].child
<1>0. /\ pc[p] = "forking" /\ fork' = [fork EXCEPT ![p] = NoFork]
      /\ pc' = [pc EXCEPT ![p] = "running", ![c] = "none"] /\ DupsReleased(c)
  BY DEF ForkFails, ForkDone
<1>1. /\ c \in Procs /\ pc[c] = "starting" /\ c # p
      /\ \A r \in Procs : pc[r] = "forking" /\ r # p =>
           /\ fork[r].child # c /\ fork[r].child # p /\ r # c
           /\ pc[fork[r].child] = "starting" /\ fork[r].child \in Procs
  BY <1>0, ForkFacts
<1> HIDE DEF c
<1>2. /\ Touches(c) /\ files' = files /\ owed' = owed
      /\ \A x \in Handles : files[c][x] = NoFile
      /\ \A w \in Wfds : fd_map'[c][w] = FREE_SLOT
  BY <1>0, <1>1, ReleaseTouches
<1>3. NoFork \in [child : Procs, at : 0 .. FdMax]
  BY FdAssumption DEF NoFork
<1>4. pc' \in [Procs -> ProcStates] /\ fork' \in [Procs -> [child : Procs, at : 0 .. FdMax]]
  BY <1>0, <1>3 DEF IInv, TypeOK, ProcStates
<1>5. /\ pc'[p] = "running" /\ pc'[c] = "none"
      /\ \A r \in Procs : r # p /\ r # c => pc'[r] = pc[r]
      /\ \A r \in Procs : r # p => fork'[r] = fork[r]
  BY <1>0, <1>1 DEF IInv, TypeOK
<1>6. \A r \in Procs : pc'[r] # "running" => \A x \in Handles : files[r][x] = NoFile
  BY <1>2, <1>5 DEF IInv, Quiet
<1>7. \A r \in Procs : pc'[r] \in {"none", "exiting"} => \A w \in Wfds : fd_map'[r][w] = FREE_SLOT
  <2> SUFFICES ASSUME NEW r \in Procs, pc'[r] \in {"none", "exiting"}, r # c
               PROVE  \A w \in Wfds : fd_map'[r][w] = FREE_SLOT
    BY <1>2
  <2>1. fd_map'[r] = fd_map[r]
    BY <1>1, <1>2, TouchKeeps
  <2> QED BY <1>5, <2>1 DEF IInv, Quiet
<1>8. \A r \in Procs : pc'[r] = "forking" =>
        /\ pc[r] = "forking" /\ fork'[r] = fork[r] /\ pc'[fork[r].child] = "starting"
        /\ r # c /\ fork[r].child # c
  BY <1>1, <1>5
<1> QED BY <1>1, <1>2, <1>4, <1>6, <1>7, <1>8, LifeInv

\* A step of q alone, which has no stream and is neither a parent nor the child
\* of one at the time.
LEMMA OwnStepInv ==
  ASSUME IInv, NEW q \in Procs, Touches(q), files' = files, owed' = owed, fork' = fork,
         \A x \in Handles : files[q][x] = NoFile,
         pc[q] \in {"running", "loading", "exiting"}, NEW s \in {"none", "running", "exiting"},
         pc' = [pc EXCEPT ![q] = s],
         s \in {"none", "exiting"} => \A w \in Wfds : fd_map'[q][w] = FREE_SLOT
  PROVE  IInv'
<1>1. pc'[q] = s /\ \A r \in Procs : r # q => pc'[r] = pc[r]
  BY DEF IInv, TypeOK
<1>2. pc' \in [Procs -> ProcStates] /\ fork' \in [Procs -> [child : Procs, at : 0 .. FdMax]]
  BY DEF IInv, TypeOK, ProcStates
<1>3. \A r \in Procs : pc'[r] # "running" => \A x \in Handles : files[r][x] = NoFile
  BY <1>1 DEF IInv, Quiet
<1>4. \A r \in Procs : pc'[r] \in {"none", "exiting"} => \A w \in Wfds : fd_map'[r][w] = FREE_SLOT
  <2> SUFFICES ASSUME NEW r \in Procs, pc'[r] \in {"none", "exiting"}, r # q
               PROVE  \A w \in Wfds : fd_map'[r][w] = FREE_SLOT
    BY <1>1
  <2>1. fd_map'[r] = fd_map[r]
    BY TouchKeeps
  <2> QED BY <1>1, <2>1 DEF IInv, Quiet
<1>5. \A r \in Procs : pc'[r] = "forking" =>
        /\ pc[r] = "forking" /\ fork'[r] = fork[r] /\ pc'[fork[r].child] = "starting"
        /\ r # q /\ fork[r].child # q
  <2> SUFFICES ASSUME NEW r \in Procs, pc'[r] = "forking"
               PROVE  pc[r] = "forking" /\ pc'[fork[r].child] = "starting" /\ r # q /\ fork[r].child # q
    OBVIOUS
  <2>1. r # q /\ pc[r] = "forking"
    BY <1>1
  <2>2. fork[r].child \in Procs /\ pc[fork[r].child] = "starting"
    BY <2>1, ForkFacts
  <2>3. fork[r].child # q
    BY <2>2
  <2> QED BY <1>1, <2>1, <2>2, <2>3
<1> QED BY <1>2, <1>3, <1>4, <1>5, LifeInv

LEMMA LoadsInv ==
  ASSUME IInv, NEW c \in Procs, ChildLoads(c)
  PROVE  IInv'
<1>1. /\ pc[c] = "loading" /\ pc' = [pc EXCEPT ![c] = "running"]
      /\ UNCHANGED <<host, fd_map, files, fork, owed>>
  BY DEF ChildLoads
<1>2. Touches(c) /\ \A x \in Handles : files[c][x] = NoFile
  BY <1>1, SameTouches DEF IInv, Quiet
<1> QED BY <1>1, <1>2, OwnStepInv

LEMMA LoadFailsInv ==
  ASSUME IInv, NEW c \in Procs, LoadFails(c)
  PROVE  IInv'
<1>1. pc[c] = "loading" /\ pc' = [pc EXCEPT ![c] = "none"] /\ DupsReleased(c) /\ fork' = fork
  BY DEF LoadFails
<1>2. /\ Touches(c) /\ files' = files /\ owed' = owed
      /\ \A x \in Handles : files[c][x] = NoFile
      /\ \A w \in Wfds : fd_map'[c][w] = FREE_SLOT
  BY <1>1, ReleaseTouches
<1> QED BY <1>1, <1>2, OwnStepInv

LEMMA ExitTouches ==
  ASSUME IInv, ~KeepStreams, NEW p \in Procs, yos_proc_post_exit_cleanup(p)
  PROVE  /\ Touches(p) /\ files' = files /\ owed' = owed
         /\ \A x \in Handles : files[p][x] = NoFile
         /\ \A w \in Wfds : fd_map'[p][w] = FREE_SLOT
<1>1. \A x \in Handles : files[p][x] = NoFile
  BY LeavesNone DEF yos_proc_post_exit_cleanup
<1>2. {h \in HostOf(p) : h >= NStd} = HostOf(p)
  BY DEF HostOf, Mapped, IInv, SlotsApart
<1>3. host' = CloseAll(HostOf(p)) /\ fd_map' = [fd_map EXCEPT ![p] = Unmapped]
  BY <1>2 DEF yos_proc_post_exit_cleanup
<1>4. owed' = owed
  <2>1. {files[p][x].hfd : x \in Streams(p)} = {}
    BY <1>1 DEF Streams
  <2>2. owed[p] = {} /\ owed \in [Procs -> SUBSET HostFds]
    BY DEF IInv, Quiet, TypeOK
  <2>3. owed' = [owed EXCEPT ![p] = {}]
    BY <2>1 DEF yos_proc_post_exit_cleanup
  <2> QED BY <2>2, <2>3
<1>5. files' = files
  <2>1. files \in [Procs -> [Handles -> FileRecs]]
    BY DEF IInv, TypeOK, FileRecs
  <2>2. files[p] = [x \in Handles |-> NoFile]
    BY <1>1, <2>1
  <2>3. files' = [files EXCEPT ![p] = files[p]]
    BY <2>2 DEF yos_proc_post_exit_cleanup
  <2> QED BY <2>1, <2>3
<1> QED BY <1>1, <1>3, <1>4, <1>5, EndTouches

LEMMA ExitInv ==
  ASSUME IInv, ~KeepStreams, NEW p \in Procs, yos_proc_post_exit_cleanup(p)
  PROVE  IInv'
<1>1. pc[p] = "running" /\ pc' = [pc EXCEPT ![p] = "exiting"] /\ fork' = fork
  BY DEF yos_proc_post_exit_cleanup, Runs
<1> QED BY <1>1, ExitTouches, OwnStepInv

LEMMA ExitDoneInv ==
  ASSUME IInv, NEW p \in Procs, ExitDone(p)
  PROVE  IInv'
<1>1. /\ pc[p] = "exiting" /\ pc' = [pc EXCEPT ![p] = "none"]
      /\ UNCHANGED <<host, fd_map, files, fork, owed>>
  BY DEF ExitDone
<1>2. /\ Touches(p) /\ \A x \in Handles : files[p][x] = NoFile
      /\ \A w \in Wfds : fd_map'[p][w] = FREE_SLOT
  BY <1>1, SameTouches DEF IInv, Quiet
<1> QED BY <1>1, <1>2, OwnStepInv

LEMMA ForkInv ==
  ASSUME IInv, ~KeepStreams, NEW p \in Procs, NEW c \in Procs, yos_fork(p, c)
  PROVE  IInv'
<1>0. /\ pc[p] = "running" /\ pc[c] = "none" /\ p # c /\ MayLeaveStreams(p)
      /\ pc' = [pc EXCEPT ![p] = "forking", ![c] = "starting"]
      /\ fork' = [fork EXCEPT ![p] = [child |-> c, at |-> 0]]
      /\ UNCHANGED <<host, fd_map, files, owed>>
  BY DEF yos_fork, Runs
<1>1. /\ pc'[p] = "forking" /\ pc'[c] = "starting"
      /\ \A r \in Procs : r # p /\ r # c => pc'[r] = pc[r]
      /\ fork'[p].child = c /\ fork'[p].at = 0
      /\ \A r \in Procs : r # p => fork'[r] = fork[r]
  BY <1>0 DEF IInv, TypeOK
<1>2. \A r \in Procs : pc[r] = "forking" =>
        /\ fork[r].child \in Procs /\ pc[fork[r].child] = "starting"
        /\ r # p /\ fork[r].child # p /\ fork[r].child # c
  BY <1>0, ForkFacts
<1>3. TypeOK'
  <2>1. [child |-> c, at |-> 0] \in [child : Procs, at : 0 .. FdMax]
    BY FdAssumption
  <2> QED BY <1>0, <2>1 DEF IInv, TypeOK
<1>4. HostSound' /\ SlotsApart' /\ Accounted' /\ StreamsSit'
  BY <1>0 DEF IInv, HostSound, SlotsApart, Accounted, StreamsSit, StreamsOf
<1>5. Quiet'
  <2>1. \A x \in Handles : files[p][x] = NoFile
    BY <1>0, LeavesNone
  <2> QED BY <1>0, <1>1, <2>1 DEF IInv, Quiet
<1>6. Forking'
  <2> SUFFICES ASSUME NEW r \in Procs, pc'[r] = "forking"
               PROVE  /\ pc'[fork'[r].child] = "starting"
                      /\ \A w \in Wfds : w >= fork'[r].at => fd_map[fork'[r].child][w] = FREE_SLOT
                      /\ \A s \in Procs : pc'[s] = "forking" /\ fork'[s].child = fork'[r].child => s = r
    BY <1>0 DEF Forking
  <2>1. \A s \in Procs : pc'[s] = "forking" /\ s # p =>
          pc[s] = "forking" /\ fork'[s] = fork[s] /\ fork[s].child # c
    BY <1>1, <1>2
  <2>2. CASE r = p
    <3>1. \A w \in Wfds : fd_map[c][w] = FREE_SLOT
      BY <1>0 DEF IInv, Quiet
    <3>2. fork'[r].child = c
      BY <1>1, <2>2
    <3>3. \A s \in Procs : pc'[s] = "forking" /\ fork'[s].child = c => s = r
      BY <2>1, <2>2
    <3> QED BY <1>1, <3>1, <3>2, <3>3
  <2>3. CASE r # p
    <3>1. pc[r] = "forking" /\ fork'[r] = fork[r] /\ fork[r].child # c /\ pc'[fork[r].child] = "starting"
      BY <1>1, <1>2, <2>1, <2>3
    <3> QED BY <1>1, <2>1, <3>1 DEF IInv, Forking
  <2> QED BY <2>2, <2>3
<1>7. Copied'
  <2> SUFFICES ASSUME Roomy, NEW r \in Procs, pc'[r] = "forking", NEW w \in Wfds, w < fork'[r].at
               PROVE  \A g \in Procs : g = fork'[r].child => SameSlot(r, g, w)
    BY <1>0, <1>3 DEF Copied, SameSlot, TypeOK
  <2>1. r # p
    BY <1>1, Domains
  <2>2. pc[r] = "forking" /\ fork'[r] = fork[r]
    BY <1>1, <2>1
  <2> QED BY <2>2 DEF IInv, Copied
<1> QED BY <1>3, <1>4, <1>5, <1>6, <1>7 DEF IInv

\* While a slot is not mapped, the host has a descriptor left.
LEMMA RoomLeft ==
  ASSUME IInv, Roomy, NEW c \in Procs, NEW i \in Wfds, fd_map[c][i] < 0
  PROVE  HostFree # {}
<1> SUFFICES ASSUME HostFree = {} PROVE FALSE
  OBVIOUS
<1> DEFINE S == NStd .. HostMax - 1
           T == (Procs \X Wfds) \ {<<c, i>>}
           At(h, s) == fd_map[s[1]][s[2]] = h
           f == [h \in S |-> CHOOSE s \in T : At(h, s)]
<1>1. ASSUME NEW h \in S PROVE \E s \in T : At(h, s)
  <2>1. h \in HostFds /\ host[h] # Closed /\ h >= NStd
    BY Domains, FdAssumption DEF HostFree, HostFds
  <2>2. PICK p \in Procs : \E w \in Wfds : fd_map[p][w] = h
    BY <2>1 DEF IInv, Accounted
  <2>3. PICK w \in Wfds : fd_map[p][w] = h
    BY <2>2
  <2>4. <<p, w>> \in T
    BY <2>1, <2>3, Domains
  <2>5. At(h, <<p, w>>)
    BY <2>3
  <2> HIDE DEF At, T
  <2> QED BY <2>4, <2>5
<1>2. \A h \in S : f[h] \in T /\ At(h, f[h])
  <2> HIDE DEF At, T, S
  <2> QED BY <1>1
<1>3. f \in [S -> T]
  <2> HIDE DEF At, T, S
  <2> QED BY <1>2
<1>4. IsFiniteSet(S) /\ Cardinality(S) = HostMax - NStd
  <2>1. NStd \in Int /\ HostMax - 1 \in Int /\ NStd <= HostMax - 1
    BY FdAssumption
  <2>2. ~(NStd > HostMax - 1) /\ (HostMax - 1) - NStd + 1 = HostMax - NStd
    BY FdAssumption
  <2>3. Cardinality(S) = (HostMax - 1) - NStd + 1 /\ IsFiniteSet(S)
    BY <2>1, <2>2, FS_Interval
  <2> QED BY <2>2, <2>3
<1>5. IsFiniteSet(Wfds) /\ Cardinality(Wfds) = FdMax
  <2>1. FdMax \in Nat /\ 0 <= FdMax - 1
    BY FdAssumption
  <2>2. 0 \in Int /\ FdMax - 1 \in Int /\ ~(0 > FdMax - 1) /\ (FdMax - 1) - 0 + 1 = FdMax
    BY <2>1
  <2>3. IsFiniteSet(0 .. FdMax - 1) /\ Cardinality(0 .. FdMax - 1) = (FdMax - 1) - 0 + 1
    BY <2>2, FS_Interval
  <2> QED BY <2>2, <2>3 DEF Wfds
<1>6. IsFiniteSet(T) /\ Cardinality(T) < HostMax - NStd
  <2>1. /\ IsFiniteSet(Procs \X Wfds)
        /\ Cardinality(Procs \X Wfds) = Cardinality(Procs) * Cardinality(Wfds)
    BY <1>5, FS_Product DEF Roomy
  <2>2. <<c, i>> \in Procs \X Wfds
    OBVIOUS
  <2>3. IsFiniteSet(T) /\ Cardinality(T) = Cardinality(Procs \X Wfds) - 1
    BY <2>1, <2>2, FS_RemoveElement
  <2>4. Cardinality(Procs) * FdMax \in Nat /\ NStd \in Nat /\ HostMax \in Nat
    BY <2>1, <1>5, FS_CardinalityType, FdAssumption
  <2> HIDE DEF T
  <2> QED BY <1>5, <2>1, <2>3, <2>4 DEF Roomy
<1>7. PICK g, h \in S : g # h /\ f[g] = f[h]
  <2> HIDE DEF S, T, f
  <2>1. Cardinality(T) < Cardinality(S)
    BY <1>4, <1>6
  <2> QED BY <1>3, <1>4, <1>6, <2>1, FS_PigeonHole
<1>8. At(g, f[g]) /\ At(h, f[g])
  <2> HIDE DEF At, f, S, T
  <2> QED BY <1>2, <1>7
<1> QED BY <1>7, <1>8

\* What a step of the duplication does.
LEMMA ForkDupTouches ==
  ASSUME IInv, NEW p \in Procs, ForkDup(p), NEW c, c = fork[p].child
  PROVE  /\ Touches(c)
         /\ \A w \in Wfds : w # fork[p].at => fd_map'[c][w] = fd_map[c][w]
         /\ \A h \in HostFds : host[h] # Closed => host'[h] = host[h]
         /\ Roomy => \A k : k = fork[p].at => SameSlot(p, c, k)'
<1> DEFINE i == fork[p].at
           d == fd_map[p][i]
<1>0. pc[p] = "forking" /\ i < FdMax
  BY DEF ForkDup
<1>1. c \in Procs /\ i \in Wfds /\ c # p /\ fd_map[c][i] = FREE_SLOT
  <2>1. c \in Procs /\ i \in 0 .. FdMax /\ c # p
    BY <1>0, ForkFacts
  <2>2. i \in Wfds
    BY <1>0, <2>1, FdAssumption DEF Wfds
  <2>3. fd_map[c][i] = FREE_SLOT
    BY <1>0, <2>2, Domains DEF IInv, Forking
  <2> QED BY <2>1, <2>2, <2>3
<1>2. d \in HostFds \cup {FREE_SLOT, YOS_FD_FCLOSE_TOMB} /\ (d >= 0 <=> d \in HostFds)
  BY <1>1, MapType
<1>3. CASE Duplicable(d)
  <2>1. host' = [host EXCEPT ![Lowest] = host[d]] /\ fd_map' = [fd_map EXCEPT ![c][i] = Lowest]
    BY <1>3 DEF ForkDup
  <2>2. HostFree # {} /\ d \in HostFds /\ host[d] \in Files
    BY <1>1, <1>3, DupEntry
  <2>3. Lowest \in HostFds /\ host[Lowest] = Closed
    BY <2>2, LowestFree
  <2> HIDE DEF i, d
  <2>4. Touches(c)
    BY <1>1, <2>1, <2>2, <2>3, AllocTouches
  <2>5. \A w \in Wfds : w # i => fd_map'[c][w] = fd_map[c][w]
    BY <1>1, <2>1, MapType
  <2>6. \A h \in HostFds : host[h] # Closed => host'[h] = host[h]
    BY <2>1, <2>3, MapType
  <2>7. fd_map'[c][i] = Lowest /\ fd_map'[p] = fd_map[p] /\ host'[Lowest] = host[d]
    BY <1>1, <2>1, <2>3, MapType
  <2>8. host'[d] = host[d] /\ d >= 0 /\ Lowest >= 0
    BY <1>2, <1>3, <2>2, <2>3, <2>6, Domains DEF Duplicable
  <2>9. d = fd_map[p][i] /\ i = fork[p].at
    BY DEF d, i
  <2>10. \A k : k = i => SameSlot(p, c, k)'
    BY <2>7, <2>8, <2>9 DEF SameSlot
  <2> QED BY <2>4, <2>5, <2>6, <2>9, <2>10
<1>4. CASE ~Duplicable(d)
  <2>1. host' = host /\ fd_map' = [fd_map EXCEPT ![c][i] = FREE_SLOT]
    BY <1>4 DEF ForkDup
  <2> HIDE DEF i, d
  <2>2. fd_map' = fd_map
    BY <1>1, <2>1, MapType
  <2>3. Roomy => ~(d >= 0)
    <3> SUFFICES ASSUME Roomy, d >= 0 PROVE FALSE
      OBVIOUS
    <3>1. fd_map[c][i] < 0
      BY <1>1, Domains
    <3>2. HostFree # {}
      BY <1>1, <3>1, RoomLeft
    <3>3. host[d] # Closed
      BY <1>1 DEF IInv, SlotsApart, d
    <3> QED BY <1>4, <3>2, <3>3 DEF Duplicable
  <2>4. d = fd_map[p][i] /\ i = fork[p].at
    BY DEF d, i
  <2>5. fd_map[c][i] < 0
    BY <1>1, Domains
  <2>6. Roomy => \A k : k = i => SameSlot(p, c, k)'
    BY <2>2, <2>3, <2>4, <2>5 DEF SameSlot
  <2>7. Touches(c)
    BY <1>1, <2>1, <2>2, SameTouches
  <2> QED BY <2>1, <2>2, <2>4, <2>6, <2>7
<1> QED BY <1>3, <1>4

LEMMA ForkDupInv ==
  ASSUME IInv, NEW p \in Procs, ForkDup(p)
  PROVE  IInv'
<1>0. /\ pc[p] = "forking" /\ UNCHANGED <<files, pc, owed>>
      /\ fork' = [fork EXCEPT ![p].at = fork[p].at + 1] /\ fork[p].at < FdMax
  BY DEF ForkDup
<1>1. PICK c \in Procs : c = fork[p].child
  BY <1>0, ForkFacts
<1>2. PICK i \in Wfds : i = fork[p].at
  BY <1>0, ForkFacts, FdAssumption DEF Wfds
<1>3. /\ Touches(c)
      /\ \A w \in Wfds : w # i => fd_map'[c][w] = fd_map[c][w]
      /\ \A h \in HostFds : host[h] # Closed => host'[h] = host[h]
      /\ Roomy => SameSlot(p, c, i)'
  BY <1>1, <1>2, ForkDupTouches
<1>4. /\ pc[c] = "starting" /\ c # p /\ \A x \in Handles : files[c][x] = NoFile
      /\ \A r \in Procs : pc[r] = "forking" /\ r # p =>
           /\ fork[r].child # c /\ r # c /\ fork[r].child \in Procs
  BY <1>0, <1>1, ForkFacts
<1>5. /\ fork' \in [Procs -> [child : Procs, at : 0 .. FdMax]]
      /\ fork'[p].child = c /\ fork'[p].at = i + 1
      /\ \A r \in Procs : r # p => fork'[r] = fork[r]
  <2>1. fork[p] \in [child : Procs, at : 0 .. FdMax] /\ fork \in [Procs -> [child : Procs, at : 0 .. FdMax]]
    BY DEF IInv, TypeOK
  <2>2. i + 1 \in 0 .. FdMax
    BY FdAssumption DEF Wfds
  <2>3. [fork[p] EXCEPT !.at = i + 1] \in [child : Procs, at : 0 .. FdMax]
    BY <2>1, <2>2
  <2>4. fork' = [fork EXCEPT ![p] = [fork[p] EXCEPT !.at = i + 1]]
    BY <1>0, <1>2
  <2> QED BY <1>1, <2>1, <2>3, <2>4
<1>6. TypeOK'
  BY <1>0, <1>3, <1>5, TouchTypes DEF IInv, TypeOK, FileRecs
<1>7. HostSound' /\ SlotsApart' /\ Accounted'
  BY <1>3, TouchKeeps
<1>8. \A r \in Procs : r # c => fd_map'[r] = fd_map[r]
  BY <1>3, TouchKeeps
<1>9. StreamsSit'
  <2> SUFFICES ASSUME NEW r \in Procs PROVE StreamsOf(r)'
    BY DEF StreamsSit
  <2>1. CASE r = c
    BY <1>0, <1>4, <2>1 DEF StreamsOf
  <2>2. CASE r # c
    BY <1>0, <1>8, <2>2 DEF IInv, StreamsSit, StreamsOf
  <2> QED BY <2>1, <2>2
<1>10. Quiet'
  BY <1>0, <1>4, <1>8 DEF IInv, Quiet
<1>11. Forking'
  <2> SUFFICES ASSUME NEW r \in Procs, pc[r] = "forking"
               PROVE  /\ pc[fork'[r].child] = "starting"
                      /\ \A w \in Wfds : w >= fork'[r].at => fd_map'[fork'[r].child][w] = FREE_SLOT
                      /\ \A s \in Procs : pc[s] = "forking" /\ fork'[s].child = fork'[r].child => s = r
    BY <1>0 DEF Forking
  <2>1. \A s \in Procs : fork'[s].child = fork[s].child
    BY <1>1, <1>5
  <2>2. \A s \in Procs : pc[s] = "forking" /\ fork'[s].child = fork'[r].child => s = r
    BY <2>1 DEF IInv, Forking
  <2>3. CASE r = p
    <3>1. \A w \in Wfds : w >= i + 1 => w # i /\ w >= i
      BY Domains
    <3>2. \A w \in Wfds : w >= i => fd_map[c][w] = FREE_SLOT
      BY <1>0, <1>1, <1>2 DEF IInv, Forking
    <3> QED BY <1>3, <1>4, <1>5, <2>2, <2>3, <3>1, <3>2
  <2>4. CASE r # p
    <3>1. fork'[r] = fork[r] /\ fork[r].child # c /\ fork[r].child \in Procs
      BY <1>4, <1>5, <2>4
    <3> QED BY <1>8, <2>2, <3>1 DEF IInv, Forking
  <2> QED BY <2>3, <2>4
<1>12. Copied'
  <2> SUFFICES ASSUME Roomy, NEW r \in Procs, pc[r] = "forking", NEW w \in Wfds, w < fork'[r].at,
                      NEW g \in Procs, g = fork'[r].child
               PROVE  SameSlot(r, g, w)'
    BY <1>0, <1>5 DEF Copied, SameSlot
  <2>1. CASE r = p
    <3>1. g = c /\ (w = i \/ w < i)
      BY <1>5, <2>1, Domains
    <3>2. CASE w = i
      BY <1>3, <2>1, <3>1, <3>2
    <3>3. CASE w < i
      <4>1. SameSlot(p, c, w) /\ w # i
        BY <1>0, <1>1, <1>2, <3>3, Domains DEF IInv, Copied
      <4>2. fd_map'[p][w] = fd_map[p][w] /\ fd_map'[c][w] = fd_map[c][w]
        BY <1>3, <1>4, <1>8, <4>1
      <4>3. \A q \in Procs : fd_map[q][w] >= 0 => host'[fd_map[q][w]] = host[fd_map[q][w]]
        BY <1>3, MapType DEF IInv, SlotsApart
      <4>4. SameSlot(p, c, w)'
        BY <4>1, <4>2, <4>3 DEF SameSlot
      <4> QED BY <2>1, <3>1, <4>4
    <3> QED BY <3>1, <3>2, <3>3
  <2>2. CASE r # p
    <3>1. fork'[r] = fork[r] /\ g # c /\ r # c /\ g = fork[r].child
      BY <1>4, <1>5, <2>2
    <3>2. SameSlot(r, g, w)
      BY <3>1 DEF IInv, Copied
    <3>3. fd_map'[r] = fd_map[r] /\ fd_map'[g] = fd_map[g]
      BY <1>8, <3>1
    <3>4. \A q \in Procs : fd_map[q][w] >= 0 => host'[fd_map[q][w]] = host[fd_map[q][w]]
      BY <1>3, MapType DEF IInv, SlotsApart
    <3> QED BY <3>2, <3>3, <3>4, CopiesStay
  <2> QED BY <2>1, <2>2
<1> QED BY <1>6, <1>7, <1>9, <1>10, <1>11, <1>12 DEF IInv

LEMMA NextInv ==
  ASSUME IInv, ~KeepStreams, [Next]_vars
  PROVE  IInv'
<1>1. ASSUME UNCHANGED vars PROVE IInv'
  BY <1>1 DEF vars, IInv, TypeOK, HostSound, SlotsApart, Accounted, StreamsSit, StreamsOf, Quiet,
              Forking, Copied, SameSlot
<1>2. CASE Next
  <2> SUFFICES ASSUME NEW p \in Procs,
                 \/ \E o \in Objs :
                      \/ \E cloexec \in BOOLEAN : yos_open(p, o, cloexec)
                      \/ yos_pipe(p, o)
                      \/ \E x \in Handles : yos_fopen(p, x, o)
                 \/ \E w \in Wfds, cloexec \in BOOLEAN :
                      \/ yos_dup(p, w, cloexec)
                      \/ \E newfd \in Wfds : yos_dup2(p, w, newfd, cloexec)
                 \/ \E w \in Wfds : DupFull(p, w)
                 \/ \E low, high \in Wfds : yos_close_range(p, low, high)
                 \/ \E x \in Handles : yos_fclose(p, x)
                 \/ \E x \in Handles, w \in Wfds : yos_fdopen(p, x, w)
                 \/ \E c \in Procs : yos_fork(p, c)
                 \/ ForkDup(p) \/ ForkStarts(p) \/ ForkFails(p) \/ ChildLoads(p) \/ LoadFails(p)
                 \/ yos_execve(p)
                 \/ yos_proc_post_exit_cleanup(p)
                 \/ ExitDone(p)
               PROVE  IInv'
    BY <1>2 DEF Next
  <2>1. CASE \E w \in Wfds : DupFull(p, w)
    BY <1>1, <2>1 DEF DupFull
  <2> QED BY <2>1, OpenInv, PipeInv, FopenInv, DupInv, Dup2Inv, CloseInv, FcloseInv, FdopenInv, ForkInv,
             ForkDupInv, ForkStartsInv, ForkFailsInv, LoadsInv, LoadFailsInv, ExecInv, ExitInv, ExitDoneInv
<1> QED BY <1>1, <1>2

\* The strengthening is an invariant: no interleaving of the calls, of the
\* one-by-one duplication of fork and of its failures breaks it.
THEOREM Invariance ==
  ASSUME ~KeepStreams
  PROVE  Spec => []IInv
<1>1. Init => IInv
  BY InitInv
<1>2. IInv /\ [Next]_vars => IInv'
  BY NextInv
<1> QED BY <1>1, <1>2, PTL DEF Spec

\* A close in one process, or of one stream, never reaches the descriptor of
\* another (yos_fd_alloc, yos_fd_assign, the duplication of fork and fclose).
THEOREM CloseReachesOwn ==
  ASSUME ~KeepStreams
  PROVE  Spec => []OwnDescriptor
<1>1. ASSUME IInv PROVE OwnDescriptor
  <2> SUFFICES ASSUME NEW p \in Procs, NEW q \in Procs
               PROVE  /\ \A w \in Mapped(p) :
                           /\ host[fd_map[p][w]] # Closed /\ fd_map[p][w] >= NStd
                           /\ \A v \in Mapped(q) : fd_map[p][w] = fd_map[q][v] => p = q /\ w = v
                      /\ \A x \in Streams(p) :
                           /\ files[p][x].wfd >= 0 /\ fd_map[p][files[p][x].wfd] = files[p][x].hfd
                           /\ \A y \in Streams(q) :
                                files[p][x].hfd = files[q][y].hfd => p = q /\ x = y
    BY DEF OwnDescriptor
  <2>1. \A w \in Mapped(p) :
          /\ host[fd_map[p][w]] # Closed /\ fd_map[p][w] >= NStd
          /\ \A v \in Mapped(q) : fd_map[p][w] = fd_map[q][v] => p = q /\ w = v
    BY <1>1 DEF IInv, SlotsApart, Mapped
  <2>2. ASSUME NEW x \in Streams(p)
        PROVE  /\ files[p][x].wfd >= 0 /\ fd_map[p][files[p][x].wfd] = files[p][x].hfd
               /\ \A y \in Streams(q) : files[p][x].hfd = files[q][y].hfd => p = q /\ x = y
    <3>1. /\ files[p][x].wfd \in Wfds /\ fd_map[p][files[p][x].wfd] = files[p][x].hfd
          /\ files[p][x].hfd >= 0
          /\ \A y \in Handles : files[p][y] # NoFile /\ files[p][y].wfd = files[p][x].wfd => y = x
      BY <1>1 DEF IInv, StreamsSit, StreamsOf, Streams
    <3>2. files[p][x].wfd >= 0
      <4>1. \A w \in Wfds : w >= 0
        BY Domains
      <4> QED BY <3>1, <4>1
    <3>3. ASSUME NEW y \in Streams(q), files[p][x].hfd = files[q][y].hfd PROVE p = q /\ x = y
      <4>1. files[q][y].wfd \in Wfds /\ fd_map[q][files[q][y].wfd] = files[q][y].hfd
        BY <1>1 DEF IInv, StreamsSit, StreamsOf, Streams
      <4>2. q = p /\ files[q][y].wfd = files[p][x].wfd
        BY <1>1, <3>1, <3>3, <4>1 DEF IInv, SlotsApart
      <4> QED BY <3>1, <4>2 DEF Streams
    <3> QED BY <3>1, <3>2, <3>3
  <2> QED BY <2>1, <2>2
<1> QED BY <1>1, Invariance, PTL

\* Every open host descriptor is in a slot of some process, so that its exit
\* closes it: no failed fork, load or call leaks one.
THEOREM NothingLeaks ==
  ASSUME ~KeepStreams
  PROVE  Spec => []NoLeak
<1>1. IInv => NoLeak
  <2> SUFFICES ASSUME IInv, NEW h \in HostFds, host[h] # Closed, h >= NStd
               PROVE  \E p \in Procs : h \in HostOf(p)
    BY DEF NoLeak
  <2>1. PICK p \in Procs : \E w \in Wfds : fd_map[p][w] = h
    BY DEF IInv, Accounted
  <2>2. h >= 0
    BY Domains
  <2> QED BY <2>1, <2>2 DEF HostOf, Mapped
<1> QED BY <1>1, Invariance, PTL

----------------------------------------------------------------------------
(* Tombstones *)

\* No tombstone is mapped in this step.
TombsKept == \A r \in Procs, w \in Wfds : fd_map[r][w] = YOS_FD_FCLOSE_TOMB => ~(fd_map'[r][w] >= 0)

LEMMA TombsKeptBy ==
  ASSUME IInv, NEW q \in Procs, Touches(q),
         \A w \in Wfds : fd_map'[q][w] >= 0 => fd_map[q][w] = FREE_SLOT \/ fd_map'[q][w] = fd_map[q][w]
  PROVE  TombsKept
<1>1. \A r \in Procs : r # q => fd_map'[r] = fd_map[r]
  BY TouchKeeps
<1>2. ~(YOS_FD_FCLOSE_TOMB >= 0) /\ FREE_SLOT # YOS_FD_FCLOSE_TOMB
  BY Domains
<1> QED BY <1>1, <1>2 DEF TombsKept

LEMMA TombsSame ==
  ASSUME IInv, fd_map' = fd_map
  PROVE  TombsKept
<1>1. ~(YOS_FD_FCLOSE_TOMB >= 0)
  BY Domains
<1> QED BY <1>1 DEF TombsKept

LEMMA AllocTombs ==
  ASSUME IInv, NEW p \in Procs, NEW e \in Files, Runs(p), Free(p) # {}, HostFree # {},
         host' = [host EXCEPT ![Lowest] = e], fd_map' = yos_fd_alloc(p, Lowest)
  PROVE  TombsKept
BY AllocCall, TombsKeptBy

LEMMA PipeTombs ==
  ASSUME IInv, NEW p \in Procs, NEW o \in Objs, yos_pipe(p, o)
  PROVE  TombsKept
<1> DEFINE r == Min(Free(p))
           s == Min(Free(p) \ {r})
<1>1. /\ r \in Wfds /\ s \in Wfds /\ r # s
      /\ fd_map[p][r] = FREE_SLOT /\ fd_map[p][s] = FREE_SLOT
      /\ Lowest \in HostFds /\ Second \in HostFds /\ Lowest # Second
      /\ host[Lowest] = Closed /\ host[Second] = Closed
      /\ host' = [host EXCEPT ![Lowest] = Open(o, FALSE), ![Second] = Open(o, FALSE)]
      /\ fd_map' = [fd_map EXCEPT ![p][r] = Lowest, ![p][s] = Second]
  BY PipeSlots
<1> HIDE DEF r, s
<1>2. Open(o, FALSE) \in Files
  BY OpenFile
<1>3. Touches(p)
  BY <1>1, <1>2, PipeTouches
<1>4. \A w \in Wfds : fd_map[p][w] = FREE_SLOT \/ fd_map'[p][w] = fd_map[p][w]
  BY <1>1, MapType
<1> QED BY <1>3, <1>4, TombsKeptBy

LEMMA StepTombs ==
  ASSUME IInv, ~KeepStreams, Next
  PROVE  \/ TombsKept
         \/ \E p \in Procs, o, n \in Wfds, cloexec \in BOOLEAN : yos_dup2(p, o, n, cloexec)
<1>1. ASSUME NEW p \in Procs, NEW o \in Objs, NEW cloexec \in BOOLEAN, yos_open(p, o, cloexec)
      PROVE  TombsKept
  BY <1>1, AllocTombs, OpenFile DEF yos_open
<1>2. ASSUME NEW p \in Procs, NEW o \in Objs, NEW x \in Handles, yos_fopen(p, x, o)
      PROVE  TombsKept
  BY <1>2, AllocTombs, OpenFile DEF yos_fopen
<1>3. ASSUME NEW p \in Procs, NEW w \in Wfds, NEW cloexec \in BOOLEAN, yos_dup(p, w, cloexec)
      PROVE  TombsKept
  <2>1. HostFree # {} /\ Open(host[fd_map[p][w]].obj, cloexec) \in Files
    BY <1>3, DupEntry DEF yos_dup
  <2> QED BY <1>3, <2>1, AllocTombs DEF yos_dup
<1>4. ASSUME NEW p \in Procs, NEW low \in Wfds, NEW high \in Wfds, yos_close_range(p, low, high)
      PROVE  TombsKept
  <2> DEFINE W == {w \in Mapped(p) : low <= w /\ w <= high}
  <2>1. /\ host' = CloseAll({fd_map[p][w] : w \in W}) /\ W \in SUBSET Mapped(p)
        /\ fd_map' = [fd_map EXCEPT ![p] = [w \in Wfds |-> IF w \in W THEN FREE_SLOT ELSE fd_map[p][w]]]
    BY <1>4 DEF yos_close_range
  <2> HIDE DEF W
  <2>2. /\ Touches(p)
        /\ \A w \in Wfds : fd_map'[p][w] = IF w \in W THEN FREE_SLOT ELSE fd_map[p][w]
    BY <2>1, DropSlots
  <2>3. ~(FREE_SLOT >= 0)
    BY Domains
  <2> QED BY <2>2, <2>3, TombsKeptBy
<1>5. ASSUME NEW p \in Procs, NEW x \in Handles, yos_fclose(p, x)
      PROVE  TombsKept
  <2>1. PICK s \in Wfds :
           /\ files[p][x] # NoFile /\ files[p][x].wfd = s /\ fd_map[p][s] >= 0
           /\ host' = CloseAll({fd_map[p][s]})
           /\ \E v \in {FREE_SLOT, YOS_FD_FCLOSE_TOMB} : fd_map' = [fd_map EXCEPT ![p][s] = v]
    BY <1>5, FcloseClears
  <2>2. PICK v \in {FREE_SLOT, YOS_FD_FCLOSE_TOMB} : fd_map' = [fd_map EXCEPT ![p][s] = v]
    BY <2>1
  <2>a. fd_map[p][s] >= 0 /\ host' = CloseAll({fd_map[p][s]})
    BY <2>1
  <2>3. Touches(p) /\ fd_map'[p][s] = v /\ \A w \in Wfds : w # s => fd_map'[p][w] = fd_map[p][w]
    BY <2>a, <2>2, SlotCleared
  <2>4. ~(v >= 0)
    BY Domains
  <2> QED BY <2>3, <2>4, TombsKeptBy
<1>6. ASSUME NEW p \in Procs, NEW x \in Handles, NEW w \in Wfds, yos_fdopen(p, x, w)
      PROVE  TombsKept
  <2>1. CASE UNCHANGED <<host, fd_map>>
    BY <2>1, TombsSame
  <2>2. CASE /\ host' = CloseAll({fd_map[p][w]})
             /\ fd_map' = [fd_map EXCEPT ![p][w] = YOS_FD_FCLOSE_TOMB]
    <3>1. fd_map[p][w] >= 0
      BY <1>6 DEF yos_fdopen, Mapped
    <3>2. /\ Touches(p) /\ fd_map'[p][w] = YOS_FD_FCLOSE_TOMB
          /\ \A v \in Wfds : v # w => fd_map'[p][v] = fd_map[p][v]
      BY <2>2, <3>1, SlotCleared
    <3>3. ~(YOS_FD_FCLOSE_TOMB >= 0)
      BY Domains
    <3> QED BY <3>2, <3>3, TombsKeptBy
  <2> QED BY <1>6, <2>1, <2>2 DEF yos_fdopen
<1>7. ASSUME NEW p \in Procs, ForkDup(p)
      PROVE  TombsKept
  <2>1. pc[p] = "forking" /\ fork[p].at < FdMax
    BY <1>7 DEF ForkDup
  <2>2. PICK c \in Procs : c = fork[p].child
    BY <2>1, ForkFacts
  <2>3. Touches(c) /\ \A w \in Wfds : w # fork[p].at => fd_map'[c][w] = fd_map[c][w]
    BY <1>7, <2>2, ForkDupTouches
  <2>4. \A w \in Wfds : w = fork[p].at => fd_map[c][w] = FREE_SLOT
    <3>1. \A w \in Wfds : w >= w
      BY Domains
    <3> QED BY <2>1, <2>2, <3>1 DEF IInv, Forking
  <2> QED BY <2>3, <2>4, TombsKeptBy
<1>8. ASSUME NEW p \in Procs, ForkFails(p)
      PROVE  TombsKept
  <2>1. pc[p] = "forking" /\ DupsReleased(fork[p].child)
    BY <1>8 DEF ForkFails, ForkDone
  <2>2. PICK c \in Procs : c = fork[p].child /\ pc[c] = "starting"
    BY <2>1, ForkFacts
  <2>3. Touches(c) /\ \A w \in Wfds : fd_map'[c][w] = FREE_SLOT
    BY <2>1, <2>2, ReleaseTouches
  <2>4. ~(FREE_SLOT >= 0)
    BY Domains
  <2> QED BY <2>3, <2>4, TombsKeptBy
<1>9. ASSUME NEW c \in Procs, LoadFails(c)
      PROVE  TombsKept
  <2>1. pc[c] = "loading" /\ DupsReleased(c)
    BY <1>9 DEF LoadFails
  <2>2. Touches(c) /\ \A w \in Wfds : fd_map'[c][w] = FREE_SLOT
    BY <2>1, ReleaseTouches
  <2>3. ~(FREE_SLOT >= 0)
    BY Domains
  <2> QED BY <2>2, <2>3, TombsKeptBy
<1>10. ASSUME NEW p \in Procs, yos_execve(p)
       PROVE  TombsKept
  <2>1. Touches(p) /\ \A w \in Wfds : fd_map'[p][w] = FREE_SLOT \/ fd_map'[p][w] = fd_map[p][w]
    BY <1>10, ExecTouches
  <2>2. ~(FREE_SLOT >= 0)
    BY Domains
  <2> QED BY <2>1, <2>2, TombsKeptBy
<1>11. ASSUME NEW p \in Procs, yos_proc_post_exit_cleanup(p)
       PROVE  TombsKept
  <2>1. Touches(p) /\ \A w \in Wfds : fd_map'[p][w] = FREE_SLOT
    BY <1>11, ExitTouches
  <2>2. ~(FREE_SLOT >= 0)
    BY Domains
  <2> QED BY <2>1, <2>2, TombsKeptBy
<1>12. ASSUME NEW p \in Procs,
              \/ \E c \in Procs : yos_fork(p, c)
              \/ ForkStarts(p) \/ ChildLoads(p) \/ ExitDone(p)
       PROVE  TombsKept
  <2>1. fd_map' = fd_map
    BY <1>12 DEF yos_fork, ForkStarts, ChildLoads, ExitDone
  <2> QED BY <2>1, TombsSame
<1>13. ASSUME NEW p \in Procs, NEW w \in Wfds, DupFull(p, w)
       PROVE  TombsKept
  <2>1. fd_map' = fd_map
    BY <1>13 DEF DupFull, vars
  <2> QED BY <2>1, TombsSame
<1> QED BY <1>1, <1>2, <1>3, <1>4, <1>5, <1>6, <1>7, <1>8, <1>9, <1>10, <1>11, <1>12, <1>13, PipeTombs DEF Next

\* A number that fclose released under the guest's feet comes back only when
\* the guest itself puts a file there with dup2 (FREE_SLOT is the only value
\* that yos_fd_alloc takes for a free slot).
THEOREM TombstonesStay ==
  ASSUME ~KeepStreams
  PROVE  Spec => TombsStay
<1> DEFINE TombStep == \A p \in Procs, w \in Wfds :
             fd_map[p][w] = YOS_FD_FCLOSE_TOMB /\ fd_map'[p][w] >= 0 =>
               \E o \in Wfds : \E cloexec \in BOOLEAN : yos_dup2(p, o, w, cloexec)
<1>1. ASSUME IInv, [Next]_vars PROVE [TombStep]_vars
  <2>1. CASE UNCHANGED vars
    BY <2>1
  <2>2. CASE Next
    <3>1. CASE TombsKept
      BY <3>1 DEF TombsKept
    <3>2. CASE \E p \in Procs, o, n \in Wfds, cloexec \in BOOLEAN : yos_dup2(p, o, n, cloexec)
      <4>1. PICK p \in Procs, o \in Wfds, n \in Wfds, cloexec \in BOOLEAN : yos_dup2(p, o, n, cloexec)
        BY <3>2
      <4>2. /\ \A r \in Procs : r # p => fd_map'[r] = fd_map[r]
            /\ \A w \in Wfds : w # n => fd_map'[p][w] = fd_map[p][w]
        BY <1>1, <4>1, MapType DEF yos_dup2, yos_fd_assign
      <4>3. ~(YOS_FD_FCLOSE_TOMB >= 0)
        BY Domains
      <4>4. ASSUME NEW r \in Procs, NEW w \in Wfds,
                   fd_map[r][w] = YOS_FD_FCLOSE_TOMB, fd_map'[r][w] >= 0
            PROVE  r = p /\ w = n
        BY <4>2, <4>3, <4>4
      <4> QED BY <4>1, <4>4
    <3> QED BY <1>1, <2>2, <3>1, <3>2, StepTombs
  <2> QED BY <1>1, <2>1, <2>2
<1> QED BY <1>1, Invariance, PTL DEF Spec, TombsStay

----------------------------------------------------------------------------
(* The refinement of Descriptors *)

View == [p \in Procs |-> ViewOf(p)]
Alive(p) == pc[p] \in {"running", "forking", "loading"}

\* The file a guest finds behind number w.
FileAt(p, w) == IF fd_map[p][w] < 0 THEN None ELSE host[fd_map[p][w]]

LEMMA ViewFacts ==
  ASSUME IInv, NEW p \in Procs
  PROVE  /\ Alive(p) => /\ View[p] = [w \in Wfds |-> FileAt(p, w)]
                        /\ \A w \in Wfds : View[p][w] = FileAt(p, w)
                        /\ View[p] # [w \in {} |-> None]
         /\ ~Alive(p) => View[p] = [w \in {} |-> None]
         /\ \A w \in Wfds : IF fd_map[p][w] >= 0
                            THEN FileAt(p, w) = host[fd_map[p][w]] /\ FileAt(p, w) \in Files
                            ELSE FileAt(p, w) = None
<1>1. Alive(p) => View[p] = [w \in Wfds |-> FileAt(p, w)]
  BY DEF View, ViewOf, Alive, FileAt
<1>2. ~Alive(p) => View[p] = [w \in {} |-> None]
  BY DEF View, ViewOf, Alive
<1>3. [w \in Wfds |-> FileAt(p, w)] # [w \in {} |-> None]
  <2>1. 0 \in Wfds
    BY FdAssumption DEF Wfds
  <2>2. DOMAIN [w \in Wfds |-> FileAt(p, w)] = Wfds /\ DOMAIN [w \in {} |-> None] = {}
    OBVIOUS
  <2> QED BY <2>1, <2>2
<1>4. ASSUME NEW w \in Wfds
      PROVE  IF fd_map[p][w] >= 0
             THEN FileAt(p, w) = host[fd_map[p][w]] /\ FileAt(p, w) \in Files
             ELSE FileAt(p, w) = None
  <2>1. CASE fd_map[p][w] >= 0
    <3>0. \A h \in HostFds : ~(h < 0)
      BY Domains
    <3>1. fd_map[p][w] \in HostFds /\ ~(fd_map[p][w] < 0)
      BY <2>1, <3>0, MapType
    <3>2. host[fd_map[p][w]] \in Files
      BY <2>1, <3>1 DEF IInv, HostSound, SlotsApart
    <3> QED BY <2>1, <3>1, <3>2 DEF FileAt
  <2>2. CASE ~(fd_map[p][w] >= 0)
    <3>1. fd_map[p][w] < 0
      BY <2>2, MapType, Domains
    <3> QED BY <2>2, <3>1 DEF FileAt
  <2> QED BY <2>1, <2>2
<1>5. \A w \in Wfds : [v \in Wfds |-> FileAt(p, v)][w] = FileAt(p, w)
  OBVIOUS
<1> QED BY <1>1, <1>2, <1>3, <1>4, <1>5

\* The views of the others after a step that touches q's tables.
LEMMA OtherView ==
  ASSUME IInv, NEW q \in Procs, Touches(q), NEW r \in Procs, r # q, Alive(r)' <=> Alive(r)
  PROVE  View'[r] = View[r]
<1>1. fd_map'[r] = fd_map[r]
  BY TouchKeeps
<1>2. \A w \in Wfds : FileAt(r, w)' = FileAt(r, w)
  <2> SUFFICES ASSUME NEW w \in Wfds PROVE FileAt(r, w)' = FileAt(r, w)
    OBVIOUS
  <2>1. fd_map[r][w] >= 0 => host'[fd_map[r][w]] = host[fd_map[r][w]]
    BY TouchKeeps
  <2>2. fd_map[r][w] >= 0 \/ fd_map[r][w] < 0
    BY MapType, Domains
  <2> QED BY <1>1, <2>1, <2>2 DEF FileAt
<1>3. CASE Alive(r)
  BY <1>2, <1>3 DEF View, ViewOf, Alive, FileAt
<1>4. CASE ~Alive(r)
  BY <1>4 DEF View, ViewOf, Alive
<1> QED BY <1>3, <1>4

\* A call changes the view of its caller alone.
LEMMA CallView ==
  ASSUME IInv, NEW q \in Procs, Touches(q), \A r \in Procs : r # q => (Alive(r)' <=> Alive(r))
  PROVE  View' = [View EXCEPT ![q] = View'[q]]
<1>1. \A r \in Procs : r # q => View'[r] = View[r]
  BY OtherView
<1> QED BY <1>1 DEF View

GuestStep == Guests!DescNext \/ View' = View

LEMMA GainStep ==
  ASSUME NEW p \in Procs, NEW W \in SUBSET Wfds, NEW f \in [W -> Files],
         View[p] # [w \in {} |-> None], \A w \in W : View[p][w] = None,
         View' = [View EXCEPT ![p] = [w \in Wfds |-> IF w \in W THEN f[w] ELSE View[p][w]]]
  PROVE  GuestStep
<1>1. f \in [W -> Guests!Entry \ {None}]
  <2>1. Files \subseteq Guests!Entry \ {None}
    BY FdAssumption DEF Files, Guests!Entry
  <2> QED BY <2>1
<1>2. Guests!Gain(p, W)
  BY <1>1 DEF Guests!Gain, Guests!Exists, Guests!Absent, View
<1> QED BY <1>2 DEF GuestStep, Guests!DescNext, View

LEMMA LoseStep ==
  ASSUME NEW p \in Procs, NEW W \in SUBSET Wfds, View[p] # [w \in {} |-> None],
         View' = [View EXCEPT ![p] = [w \in Wfds |-> IF w \in W THEN None ELSE View[p][w]]]
  PROVE  GuestStep
<1>1. Guests!Lose(p, W)
  BY DEF Guests!Lose, Guests!Exists, Guests!Absent, View
<1> QED BY <1>1 DEF GuestStep, Guests!DescNext, View

LEMMA CopyStep ==
  ASSUME NEW p \in Procs, NEW from \in Wfds, NEW to \in Wfds, NEW cloexec \in BOOLEAN,
         View[p] # [w \in {} |-> None], View[p][from] # None, from # to,
         View' = [View EXCEPT ![p][to] = [obj |-> View[p][from].obj, cloexec |-> cloexec]]
  PROVE  GuestStep
<1>1. Guests!Copy(p, from, to, cloexec)
  BY DEF Guests!Copy, Guests!Exists, Guests!Absent, View
<1> QED BY <1>1 DEF GuestStep, Guests!DescNext, View

LEMMA ForkStep ==
  ASSUME NEW p \in Procs, NEW c \in Procs,
         View[p] # [w \in {} |-> None], View[c] = [w \in {} |-> None],
         View' = [View EXCEPT ![c] = View[p]]
  PROVE  GuestStep
<1>1. Guests!Fork(p, c)
  BY DEF Guests!Fork, Guests!Exists, Guests!Absent, View
<1> QED BY <1>1 DEF GuestStep, Guests!DescNext, View

LEMMA ExecStep ==
  ASSUME NEW p \in Procs, View[p] # [w \in {} |-> None],
         View' = [View EXCEPT ![p] = [w \in Wfds |->
                    IF View[p][w] # None /\ View[p][w].cloexec THEN None ELSE View[p][w]]]
  PROVE  GuestStep
<1>1. Guests!Exec(p)
  BY DEF Guests!Exec, Guests!Exists, Guests!Absent, View
<1> QED BY <1>1 DEF GuestStep, Guests!DescNext, View

LEMMA ExitStep ==
  ASSUME NEW p \in Procs, View[p] # [w \in {} |-> None],
         View' = [View EXCEPT ![p] = [w \in {} |-> None]]
  PROVE  GuestStep
<1>1. Guests!Exit(p)
  BY DEF Guests!Exit, Guests!Exists, Guests!Absent, View
<1> QED BY <1>1 DEF GuestStep, Guests!DescNext, View

\* One slot after a step.
LEMMA FileKept ==
  ASSUME IInv, NEW p \in Procs, NEW w \in Wfds, fd_map'[p][w] = fd_map[p][w],
         fd_map[p][w] >= 0 => host'[fd_map[p][w]] = host[fd_map[p][w]]
  PROVE  FileAt(p, w)' = FileAt(p, w)
<1>1. fd_map[p][w] >= 0 \/ fd_map[p][w] < 0
  BY MapType, Domains
<1> QED BY <1>1 DEF FileAt

LEMMA FileNew ==
  ASSUME NEW p \in Procs, NEW w \in Wfds, NEW h \in HostFds, fd_map'[p][w] = h
  PROVE  FileAt(p, w)' = host'[h]
<1>1. ~(h < 0)
  BY Domains
<1> QED BY <1>1 DEF FileAt

LEMMA FileGone ==
  ASSUME NEW p \in Procs, NEW w \in Wfds, fd_map'[p][w] \in {FREE_SLOT, YOS_FD_FCLOSE_TOMB}
  PROVE  FileAt(p, w)' = None
<1>1. FREE_SLOT < 0 /\ YOS_FD_FCLOSE_TOMB < 0
  BY Domains
<1> QED BY <1>1 DEF FileAt

\* The view of a process that makes a call.
LEMMA CallerView ==
  ASSUME IInv, NEW p \in Procs, Touches(p), pc' = pc, Runs(p)
  PROVE  /\ View' = [View EXCEPT ![p] = [w \in Wfds |-> FileAt(p, w)']]
         /\ View[p] # [w \in {} |-> None]
         /\ \A w \in Wfds : View[p][w] = FileAt(p, w)
         /\ View[p] = [w \in Wfds |-> FileAt(p, w)]
<1>1. Alive(p) /\ \A r \in Procs : Alive(r)' <=> Alive(r)
  BY DEF Alive, Runs
<1>2. View' = [View EXCEPT ![p] = View'[p]]
  BY <1>1, CallView
<1>3. View'[p] = [w \in Wfds |-> FileAt(p, w)']
  BY <1>1 DEF View, ViewOf, Alive, FileAt
<1> QED BY <1>1, <1>2, <1>3, ViewFacts

\* Filling a free slot, for open and fopen.
LEMMA AllocFiles ==
  ASSUME IInv, NEW p \in Procs, NEW e \in Files, Runs(p), Free(p) # {}, HostFree # {},
         host' = [host EXCEPT ![Lowest] = e], fd_map' = yos_fd_alloc(p, Lowest),
         NEW s, s = Min(Free(p))
  PROVE  /\ s \in Wfds /\ fd_map[p][s] = FREE_SLOT /\ FileAt(p, s) = None /\ FileAt(p, s)' = e
         /\ \A w \in Wfds : w # s => FileAt(p, w)' = FileAt(p, w)
<1>1. Lowest \in HostFds /\ host[Lowest] = Closed /\ s \in Wfds /\ fd_map[p][s] = FREE_SLOT
  BY LowestFree, SlotFree
<1>2. fd_map' = [fd_map EXCEPT ![p][s] = Lowest]
  BY DEF yos_fd_alloc
<1>3. fd_map'[p][s] = Lowest /\ \A w \in Wfds : w # s => fd_map'[p][w] = fd_map[p][w]
  BY <1>1, <1>2, MapType
<1>4. host'[Lowest] = e /\ \A h \in HostFds : host[h] # Closed => host'[h] = host[h]
  BY <1>1, MapType
<1>5. FileAt(p, s)' = e
  BY <1>1, <1>3, <1>4, FileNew
<1>6. \A w \in Wfds : w # s => FileAt(p, w)' = FileAt(p, w)
  <2>1. \A w \in Wfds : fd_map[p][w] >= 0 => host'[fd_map[p][w]] = host[fd_map[p][w]]
    BY <1>4, MapType DEF IInv, SlotsApart
  <2> QED BY <1>3, <2>1, FileKept
<1>7. FileAt(p, s) = None
  BY <1>1, Domains DEF FileAt
<1> QED BY <1>1, <1>5, <1>6, <1>7

\* open and fopen.
LEMMA AllocGains ==
  ASSUME IInv, NEW p \in Procs, NEW e \in Files, Runs(p), Free(p) # {}, HostFree # {},
         host' = [host EXCEPT ![Lowest] = e], fd_map' = yos_fd_alloc(p, Lowest), pc' = pc
  PROVE  GuestStep
<1>0. PICK s : s = Min(Free(p))
  OBVIOUS
<1>1. /\ s \in Wfds /\ FileAt(p, s) = None /\ FileAt(p, s)' = e
      /\ \A w \in Wfds : w # s => FileAt(p, w)' = FileAt(p, w)
  BY <1>0, AllocFiles
<1>2. Touches(p)
  BY AllocCall
<1>3. /\ View' = [View EXCEPT ![p] = [w \in Wfds |-> FileAt(p, w)']]
      /\ View[p] # [w \in {} |-> None] /\ \A w \in Wfds : View[p][w] = FileAt(p, w)
  BY <1>2, CallerView
<1> DEFINE f == [w \in {s} |-> e]
<1>4. f \in [{s} -> Files] /\ f[s] = e /\ {s} \in SUBSET Wfds
  BY <1>1
<1> HIDE DEF f
<1>5. [w \in Wfds |-> FileAt(p, w)'] = [w \in Wfds |-> IF w \in {s} THEN f[w] ELSE View[p][w]]
  BY <1>1, <1>3, <1>4
<1>6. View' = [View EXCEPT ![p] = [w \in Wfds |-> IF w \in {s} THEN f[w] ELSE View[p][w]]]
  BY <1>3, <1>5
<1>7. \A w \in {s} : View[p][w] = None
  BY <1>1, <1>3
<1> QED BY <1>3, <1>4, <1>6, <1>7, GainStep

LEMMA PipeGains ==
  ASSUME IInv, NEW p \in Procs, NEW o \in Objs, yos_pipe(p, o)
  PROVE  GuestStep
<1> DEFINE r0 == Min(Free(p))
           s0 == Min(Free(p) \ {r0})
<1>0. PICK r \in Wfds, s \in Wfds :
      /\ r # s /\ fd_map[p][r] = FREE_SLOT /\ fd_map[p][s] = FREE_SLOT
      /\ Lowest \in HostFds /\ Second \in HostFds /\ Lowest # Second
      /\ host[Lowest] = Closed /\ host[Second] = Closed
      /\ host' = [host EXCEPT ![Lowest] = Open(o, FALSE), ![Second] = Open(o, FALSE)]
      /\ fd_map' = [fd_map EXCEPT ![p][r] = Lowest, ![p][s] = Second]
  <2>1. /\ r0 \in Wfds /\ s0 \in Wfds /\ r0 # s0
        /\ fd_map[p][r0] = FREE_SLOT /\ fd_map[p][s0] = FREE_SLOT
        /\ Lowest \in HostFds /\ Second \in HostFds /\ Lowest # Second
        /\ host[Lowest] = Closed /\ host[Second] = Closed
        /\ host' = [host EXCEPT ![Lowest] = Open(o, FALSE), ![Second] = Open(o, FALSE)]
        /\ fd_map' = [fd_map EXCEPT ![p][r0] = Lowest, ![p][s0] = Second]
    BY PipeSlots
  <2> HIDE DEF r0, s0
  <2> QED BY <2>1
<1> DEFINE e == Open(o, FALSE)
           f == [w \in {r, s} |-> e]
<1>1. e \in Files
  BY OpenFile
<1>2. Touches(p)
  BY <1>0, <1>1, PipeTouches
<1>3. /\ fd_map'[p][r] = Lowest /\ fd_map'[p][s] = Second
      /\ \A w \in Wfds : w # r /\ w # s => fd_map'[p][w] = fd_map[p][w]
      /\ host'[Lowest] = e /\ host'[Second] = e
      /\ \A h \in HostFds : host[h] # Closed => host'[h] = host[h]
  BY <1>0, MapType
<1> HIDE DEF e
<1>4. FileAt(p, r)' = e /\ FileAt(p, s)' = e
  BY <1>0, <1>3, FileNew
<1>5. \A w \in Wfds : w # r /\ w # s => FileAt(p, w)' = FileAt(p, w)
  <2>1. \A w \in Wfds : fd_map[p][w] >= 0 => host'[fd_map[p][w]] = host[fd_map[p][w]]
    BY <1>3, MapType DEF IInv, SlotsApart
  <2> QED BY <1>3, <2>1, FileKept
<1>6. /\ View' = [View EXCEPT ![p] = [w \in Wfds |-> FileAt(p, w)']]
      /\ View[p] # [w \in {} |-> None] /\ \A w \in Wfds : View[p][w] = FileAt(p, w)
  BY <1>2, CallerView DEF yos_pipe
<1>7. f \in [{r, s} -> Files] /\ f[r] = e /\ f[s] = e /\ {r, s} \in SUBSET Wfds
  BY <1>1
<1> HIDE DEF f
<1>8. [w \in Wfds |-> FileAt(p, w)'] = [w \in Wfds |-> IF w \in {r, s} THEN f[w] ELSE View[p][w]]
  BY <1>4, <1>5, <1>6, <1>7
<1>9. View' = [View EXCEPT ![p] = [w \in Wfds |-> IF w \in {r, s} THEN f[w] ELSE View[p][w]]]
  BY <1>6, <1>8
<1>10. \A w \in {r, s} : View[p][w] = None
  <2>1. FREE_SLOT < 0
    BY Domains
  <2> QED BY <1>0, <1>6, <2>1 DEF FileAt
<1> QED BY <1>6, <1>7, <1>9, <1>10, GainStep

\* The new slot of dup and dup2.
LEMMA CopyCall ==
  ASSUME IInv, NEW p \in Procs, Runs(p), Touches(p), pc' = pc,
         NEW from \in Wfds, NEW to \in Wfds, from # to, NEW cloexec \in BOOLEAN,
         fd_map[p][from] >= 0,
         FileAt(p, to)' = Open(host[fd_map[p][from]].obj, cloexec),
         \A w \in Wfds : w # to => FileAt(p, w)' = FileAt(p, w)
  PROVE  GuestStep
<1>1. /\ View' = [View EXCEPT ![p] = [w \in Wfds |-> FileAt(p, w)']]
      /\ View[p] # [w \in {} |-> None] /\ \A w \in Wfds : View[p][w] = FileAt(p, w)
      /\ View[p] = [w \in Wfds |-> FileAt(p, w)]
  BY CallerView
<1>2. View[p][from] = host[fd_map[p][from]] /\ View[p][from] \in Files
  BY <1>1, ViewFacts
<1>3. View[p][from] # None
  BY <1>2, FdAssumption DEF Files
<1> DEFINE e == [obj |-> View[p][from].obj, cloexec |-> cloexec]
<1>4. FileAt(p, to)' = e
  BY <1>2 DEF Open
<1> HIDE DEF e
<1>5. [w \in Wfds |-> FileAt(p, w)'] = [View[p] EXCEPT ![to] = e]
  BY <1>1, <1>4
<1>6. View' = [View EXCEPT ![p][to] = e]
  <2>1. View' = [View EXCEPT ![p] = [View[p] EXCEPT ![to] = e]]
    BY <1>1, <1>5
  <2> QED BY <2>1
<1> QED BY <1>1, <1>3, <1>6, CopyStep DEF e

LEMMA DupCopies ==
  ASSUME IInv, NEW p \in Procs, NEW w \in Wfds, NEW cloexec \in BOOLEAN, yos_dup(p, w, cloexec)
  PROVE  GuestStep
<1> DEFINE e == Open(host[fd_map[p][w]].obj, cloexec)
<1>0. /\ Runs(p) /\ Free(p) # {} /\ Duplicable(fd_map[p][w]) /\ pc' = pc
      /\ host' = [host EXCEPT ![Lowest] = e] /\ fd_map' = yos_fd_alloc(p, Lowest)
  BY DEF yos_dup
<1>1. HostFree # {} /\ e \in Files /\ fd_map[p][w] >= 0
  BY <1>0, DupEntry
<1>2. PICK s : s = Min(Free(p))
  OBVIOUS
<1> HIDE DEF e
<1>3. /\ s \in Wfds /\ fd_map[p][s] = FREE_SLOT /\ FileAt(p, s)' = e
      /\ \A v \in Wfds : v # s => FileAt(p, v)' = FileAt(p, v)
  BY <1>0, <1>1, <1>2, AllocFiles
<1>4. Touches(p)
  BY <1>0, <1>1, AllocCall
<1>5. w # s
  <2>1. ~(FREE_SLOT >= 0)
    BY Domains
  <2> QED BY <1>1, <1>3, <2>1
<1> QED BY <1>0, <1>1, <1>3, <1>4, <1>5, CopyCall DEF e

LEMMA Dup2Copies ==
  ASSUME IInv, NEW p \in Procs, NEW oldfd \in Wfds, NEW newfd \in Wfds, NEW cloexec \in BOOLEAN,
         yos_dup2(p, oldfd, newfd, cloexec)
  PROVE  GuestStep
<1> DEFINE e == Open(host[fd_map[p][oldfd]].obj, cloexec)
<1>0. /\ Runs(p) /\ Duplicable(fd_map[p][oldfd]) /\ pc' = pc /\ oldfd # newfd
      /\ host' = [g \in HostFds |-> IF g = Lowest THEN e ELSE IF g = fd_map[p][newfd] THEN Closed ELSE host[g]]
      /\ fd_map' = [fd_map EXCEPT ![p][newfd] = Lowest]
  BY DEF yos_dup2, yos_fd_assign
<1>1. HostFree # {} /\ e \in Files /\ fd_map[p][oldfd] >= 0
  BY <1>0, DupEntry
<1>2. Lowest \in HostFds /\ host[Lowest] = Closed
  BY <1>1, LowestFree
<1>3. Touches(p)
  BY Dup2Touches
<1> HIDE DEF e
<1>4. fd_map'[p][newfd] = Lowest /\ \A w \in Wfds : w # newfd => fd_map'[p][w] = fd_map[p][w]
  BY <1>0, MapType
<1>5. FileAt(p, newfd)' = e
  <2>1. host'[Lowest] = e
    BY <1>0, <1>2
  <2> QED BY <1>2, <1>4, <2>1, FileNew
<1>6. ASSUME NEW w \in Wfds, w # newfd PROVE FileAt(p, w)' = FileAt(p, w)
  <2>1. ASSUME fd_map[p][w] >= 0 PROVE host'[fd_map[p][w]] = host[fd_map[p][w]]
    <3>1. fd_map[p][w] \in HostFds /\ host[fd_map[p][w]] # Closed /\ fd_map[p][newfd] # fd_map[p][w]
      BY <1>6, <2>1, MapType DEF IInv, SlotsApart
    <3> QED BY <1>0, <1>2, <3>1
  <2> QED BY <1>4, <1>6, <2>1, FileKept
<1> QED BY <1>0, <1>1, <1>3, <1>5, <1>6, CopyCall DEF e

\* A call of p that closes the slots W and leaves the others alone.
LEMMA LoseCall ==
  ASSUME IInv, NEW p \in Procs, Runs(p), Touches(p), pc' = pc, NEW W \in SUBSET Wfds,
         \A g \in HostFds : (\A w \in W : fd_map[p][w] # g) => host'[g] = host[g],
         \A w \in W : fd_map'[p][w] \in {FREE_SLOT, YOS_FD_FCLOSE_TOMB},
         \A w \in Wfds \ W : fd_map'[p][w] = fd_map[p][w]
  PROVE  /\ \A w \in Wfds : FileAt(p, w)' = IF w \in W THEN None ELSE FileAt(p, w)
         /\ GuestStep
<1>1. \A w \in W : FileAt(p, w)' = None
  BY FileGone
<1>2. ASSUME NEW w \in Wfds, w \notin W PROVE FileAt(p, w)' = FileAt(p, w)
  <2>1. ASSUME fd_map[p][w] >= 0 PROVE host'[fd_map[p][w]] = host[fd_map[p][w]]
    <3>1. fd_map[p][w] \in HostFds /\ \A v \in W : fd_map[p][v] # fd_map[p][w]
      BY <1>2, <2>1, MapType DEF IInv, SlotsApart
    <3> QED BY <3>1
  <2> QED BY <1>2, <2>1, FileKept
<1>3. /\ View' = [View EXCEPT ![p] = [w \in Wfds |-> FileAt(p, w)']]
      /\ View[p] # [w \in {} |-> None] /\ \A w \in Wfds : View[p][w] = FileAt(p, w)
  BY CallerView
<1>4. [w \in Wfds |-> FileAt(p, w)'] = [w \in Wfds |-> IF w \in W THEN None ELSE View[p][w]]
  BY <1>1, <1>2, <1>3
<1>5. View' = [View EXCEPT ![p] = [w \in Wfds |-> IF w \in W THEN None ELSE View[p][w]]]
  BY <1>3, <1>4
<1> QED BY <1>1, <1>2, <1>3, <1>5, LoseStep

LEMMA CloseLoses ==
  ASSUME IInv, NEW p \in Procs, NEW low \in Wfds, NEW high \in Wfds, yos_close_range(p, low, high)
  PROVE  GuestStep
<1> DEFINE W == {w \in Mapped(p) : low <= w /\ w <= high}
<1>0. /\ Runs(p) /\ pc' = pc
      /\ host' = CloseAll({fd_map[p][w] : w \in W})
      /\ fd_map' = [fd_map EXCEPT ![p] = [w \in Wfds |-> IF w \in W THEN FREE_SLOT ELSE fd_map[p][w]]]
      /\ W \in SUBSET Mapped(p) /\ W \in SUBSET Wfds
  BY DEF yos_close_range, Mapped
<1> HIDE DEF W
<1>1. /\ Touches(p)
      /\ \A w \in Wfds : fd_map'[p][w] = IF w \in W THEN FREE_SLOT ELSE fd_map[p][w]
  BY <1>0, DropSlots
<1>2. \A g \in HostFds : (\A w \in W : fd_map[p][w] # g) => host'[g] = host[g]
  BY <1>0 DEF CloseAll
<1>3. /\ \A w \in W : fd_map'[p][w] \in {FREE_SLOT, YOS_FD_FCLOSE_TOMB}
      /\ \A w \in Wfds \ W : fd_map'[p][w] = fd_map[p][w]
  BY <1>0, <1>1
<1> QED BY <1>0, <1>1, <1>2, <1>3, LoseCall

\* fclose, and fdopen with no stream slot left.
LEMMA ClearLoses ==
  ASSUME IInv, NEW p \in Procs, Runs(p), pc' = pc, NEW s \in Wfds, fd_map[p][s] >= 0,
         NEW v \in {FREE_SLOT, YOS_FD_FCLOSE_TOMB},
         host' = CloseAll({fd_map[p][s]}), fd_map' = [fd_map EXCEPT ![p][s] = v]
  PROVE  GuestStep
<1>1. /\ Touches(p)
      /\ fd_map'[p][s] = v /\ \A w \in Wfds : w # s => fd_map'[p][w] = fd_map[p][w]
  BY SlotCleared
<1>2. PICK W \in SUBSET Wfds : W = {s}
  OBVIOUS
<1>3. \A g \in HostFds : (\A w \in W : fd_map[p][w] # g) => host'[g] = host[g]
  BY <1>2 DEF CloseAll
<1>4. /\ \A w \in W : fd_map'[p][w] \in {FREE_SLOT, YOS_FD_FCLOSE_TOMB}
      /\ \A w \in Wfds \ W : fd_map'[p][w] = fd_map[p][w]
  BY <1>1, <1>2
<1> QED BY <1>1, <1>3, <1>4, LoseCall

LEMMA FcloseLoses ==
  ASSUME IInv, NEW p \in Procs, NEW x \in Handles, yos_fclose(p, x)
  PROVE  GuestStep
<1>1. PICK s \in Wfds :
           /\ files[p][x] # NoFile /\ files[p][x].wfd = s /\ fd_map[p][s] >= 0
           /\ host' = CloseAll({fd_map[p][s]})
           /\ \E v \in {FREE_SLOT, YOS_FD_FCLOSE_TOMB} : fd_map' = [fd_map EXCEPT ![p][s] = v]
  BY FcloseClears
<1>2. Runs(p) /\ pc' = pc
  BY DEF yos_fclose
<1> QED BY <1>1, <1>2, ClearLoses

\* A step that changes no table and no process that a guest can see.
LEMMA Unseen ==
  ASSUME host' = host, fd_map' = fd_map, \A r \in Procs : Alive(r)' <=> Alive(r)
  PROVE  GuestStep
<1>1. \A r \in Procs : View'[r] = View[r]
  BY DEF View, ViewOf, Alive
<1> QED BY <1>1 DEF GuestStep, View

LEMMA FdopenLoses ==
  ASSUME IInv, NEW p \in Procs, NEW x \in Handles, NEW w \in Wfds, yos_fdopen(p, x, w)
  PROVE  GuestStep
<1>0. Runs(p) /\ fd_map[p][w] >= 0 /\ pc' = pc
  BY DEF yos_fdopen, Mapped
<1>1. CASE UNCHANGED <<host, fd_map>>
  BY <1>0, <1>1, Unseen DEF Alive
<1>2. CASE host' = CloseAll({fd_map[p][w]}) /\ fd_map' = [fd_map EXCEPT ![p][w] = YOS_FD_FCLOSE_TOMB]
  BY <1>0, <1>2, ClearLoses
<1> QED BY <1>1, <1>2 DEF yos_fdopen

LEMMA ExecLoses ==
  ASSUME IInv, NEW p \in Procs, yos_execve(p)
  PROVE  GuestStep
<1> DEFINE W == {w \in Mapped(p) : host[fd_map[p][w]].cloexec}
<1>0. /\ Runs(p) /\ pc' = pc
      /\ host' = CloseAll({fd_map[p][w] : w \in W})
      /\ fd_map' = [fd_map EXCEPT ![p] = [w \in Wfds |-> IF w \in W THEN FREE_SLOT ELSE fd_map[p][w]]]
      /\ W \in SUBSET Mapped(p) /\ W \in SUBSET Wfds
  BY DEF yos_execve, Mapped
<1>1. \A w \in Wfds : w \in W <=> fd_map[p][w] >= 0 /\ host[fd_map[p][w]].cloexec
  BY DEF Mapped
<1> HIDE DEF W
<1>2. /\ Touches(p)
      /\ \A w \in Wfds : fd_map'[p][w] = IF w \in W THEN FREE_SLOT ELSE fd_map[p][w]
  BY <1>0, DropSlots
<1>3. \A w \in Wfds : FileAt(p, w)' = IF w \in W THEN None ELSE FileAt(p, w)
  <2>1. \A g \in HostFds : (\A w \in W : fd_map[p][w] # g) => host'[g] = host[g]
    BY <1>0 DEF CloseAll
  <2> QED BY <1>0, <1>2, <2>1, LoseCall
<1>4. /\ View' = [View EXCEPT ![p] = [w \in Wfds |-> FileAt(p, w)']]
      /\ View[p] # [w \in {} |-> None] /\ \A w \in Wfds : View[p][w] = FileAt(p, w)
  BY <1>0, <1>2, CallerView
<1>5. ASSUME NEW w \in Wfds PROVE w \in W <=> View[p][w] # None /\ View[p][w].cloexec
  <2>1. None \notin Files
    BY FdAssumption DEF Files
  <2>2. CASE fd_map[p][w] >= 0
    <3>1. FileAt(p, w) = host[fd_map[p][w]] /\ FileAt(p, w) \in Files
      BY <2>2, ViewFacts
    <3> QED BY <1>1, <1>4, <2>1, <2>2, <3>1
  <2>3. CASE ~(fd_map[p][w] >= 0)
    <3>1. FileAt(p, w) = None
      BY <2>3, ViewFacts
    <3> QED BY <1>1, <1>4, <2>3, <3>1
  <2> QED BY <2>2, <2>3
<1>6. [w \in Wfds |-> FileAt(p, w)'] =
        [w \in Wfds |-> IF View[p][w] # None /\ View[p][w].cloexec THEN None ELSE View[p][w]]
  BY <1>3, <1>4, <1>5
<1>7. View' = [View EXCEPT ![p] = [w \in Wfds |->
                 IF View[p][w] # None /\ View[p][w].cloexec THEN None ELSE View[p][w]]]
  BY <1>4, <1>6
<1> QED BY <1>4, <1>7, ExecStep

\* A process that a guest could see ends.
LEMMA EndsStep ==
  ASSUME IInv, NEW p \in Procs, Touches(p), Alive(p), ~Alive(p)',
         \A r \in Procs : r # p => (Alive(r)' <=> Alive(r))
  PROVE  GuestStep
<1>1. View' = [View EXCEPT ![p] = View'[p]]
  BY CallView
<1>2. View'[p] = [w \in {} |-> None]
  BY DEF View, ViewOf, Alive
<1>3. View[p] # [w \in {} |-> None]
  BY ViewFacts
<1> QED BY <1>1, <1>2, <1>3, ExitStep

\* Only the tables of c change, and no guest can see c before or after.
LEMMA HiddenStep ==
  ASSUME IInv, NEW c \in Procs, Touches(c), ~Alive(c), \A r \in Procs : Alive(r)' <=> Alive(r)
  PROVE  GuestStep
<1>1. \A r \in Procs : r # c => View'[r] = View[r]
  BY OtherView
<1>2. View'[c] = View[c]
  BY DEF View, ViewOf, Alive
<1> QED BY <1>1, <1>2 DEF GuestStep, View

\* The child appears with what the parent has.
LEMMA ForkStartsForks ==
  ASSUME IInv, Roomy, NEW p \in Procs, ForkStarts(p)
  PROVE  GuestStep
<1>0. /\ pc[p] = "forking" /\ fork[p].at = FdMax
      /\ pc' = [pc EXCEPT ![p] = "running", ![fork[p].child] = "loading"]
      /\ UNCHANGED <<host, fd_map>>
  BY DEF ForkStarts, ForkDone
<1>1. PICK c \in Procs : c = fork[p].child /\ pc[c] = "starting" /\ c # p
  BY <1>0, ForkFacts
<1>2. /\ pc'[p] = "running" /\ pc'[c] = "loading" /\ \A r \in Procs : r # p /\ r # c => pc'[r] = pc[r]
  BY <1>0, <1>1 DEF IInv, TypeOK
<1>3. Alive(p) /\ Alive(p)' /\ ~Alive(c) /\ Alive(c)' /\ \A r \in Procs : r # c => (Alive(r)' <=> Alive(r))
  BY <1>0, <1>1, <1>2 DEF Alive
<1>4. \A w \in Wfds : FileAt(c, w)' = FileAt(p, w)
  <2> SUFFICES ASSUME NEW w \in Wfds PROVE FileAt(c, w) = FileAt(p, w)
    BY <1>0 DEF FileAt
  <2>1. w < fork[p].at
    BY <1>0, FdAssumption DEF Wfds
  <2>2. SameSlot(p, c, w)
    BY <1>0, <1>1, <2>1 DEF IInv, Copied
  <2>3. CASE fd_map[p][w] >= 0
    <3>1. fd_map[c][w] >= 0 /\ host[fd_map[c][w]] = host[fd_map[p][w]]
      BY <2>2, <2>3 DEF SameSlot
    <3>2. FileAt(p, w) = host[fd_map[p][w]] /\ FileAt(c, w) = host[fd_map[c][w]]
      BY <2>3, <3>1, ViewFacts
    <3> QED BY <3>1, <3>2
  <2>4. CASE ~(fd_map[p][w] >= 0)
    <3>1. fd_map[c][w] < 0
      BY <2>2, <2>4 DEF SameSlot
    <3>2. FileAt(c, w) = None
      BY <3>1 DEF FileAt
    <3>3. FileAt(p, w) = None
      BY <2>4, ViewFacts
    <3> QED BY <3>2, <3>3
  <2> QED BY <2>3, <2>4
<1>5. View'[c] = [w \in Wfds |-> FileAt(c, w)']
  BY <1>3 DEF View, ViewOf, Alive, FileAt
<1>6. View[p] = [w \in Wfds |-> FileAt(p, w)] /\ View[p] # [w \in {} |-> None]
      /\ View[c] = [w \in {} |-> None]
  BY <1>3, ViewFacts
<1>7. View'[c] = View[p]
  BY <1>4, <1>5, <1>6
<1>8. Touches(c)
  BY <1>0, SameTouches
<1>9. View' = [View EXCEPT ![c] = View[p]]
  BY <1>3, <1>7, <1>8, CallView
<1> QED BY <1>6, <1>9, ForkStep

LEMMA StepGuests ==
  ASSUME IInv, ~KeepStreams, Roomy, Next
  PROVE  GuestStep
<1>1. ASSUME NEW p \in Procs, NEW o \in Objs, NEW cloexec \in BOOLEAN, yos_open(p, o, cloexec)
      PROVE  GuestStep
  BY <1>1, AllocGains, OpenFile DEF yos_open
<1>2. ASSUME NEW p \in Procs, NEW o \in Objs, NEW x \in Handles, yos_fopen(p, x, o)
      PROVE  GuestStep
  BY <1>2, AllocGains, OpenFile DEF yos_fopen
<1>3. ASSUME NEW p \in Procs, NEW c \in Procs, yos_fork(p, c)
      PROVE  GuestStep
  <2>1. /\ pc[p] = "running" /\ pc[c] = "none" /\ UNCHANGED <<host, fd_map>>
        /\ pc' = [pc EXCEPT ![p] = "forking", ![c] = "starting"]
    BY <1>3 DEF yos_fork, Runs
  <2>2. /\ pc'[c] = "starting" /\ pc'[p] = "forking"
        /\ \A r \in Procs : r # c /\ r # p => pc'[r] = pc[r]
    BY <2>1 DEF IInv, TypeOK
  <2>3. ASSUME NEW r \in Procs PROVE Alive(r)' <=> Alive(r)
    <3>1. CASE r = c
      BY <2>1, <2>2, <3>1 DEF Alive
    <3>2. CASE r = p
      BY <2>1, <2>2, <3>2 DEF Alive
    <3>3. CASE r # c /\ r # p
      BY <2>2, <3>3 DEF Alive
    <3> QED BY <3>1, <3>2, <3>3
  <2> QED BY <2>1, <2>3, Unseen
<1>4. ASSUME NEW p \in Procs, ForkDup(p)
      PROVE  GuestStep
  <2>1. pc[p] = "forking" /\ pc' = pc
    BY <1>4 DEF ForkDup
  <2>2. PICK c \in Procs : c = fork[p].child /\ pc[c] = "starting"
    BY <2>1, ForkFacts
  <2>3. Touches(c)
    BY <1>4, <2>2, ForkDupTouches
  <2>4. ~Alive(c) /\ \A r \in Procs : Alive(r)' <=> Alive(r)
    BY <2>1, <2>2 DEF Alive
  <2> QED BY <2>3, <2>4, HiddenStep
<1>5. ASSUME NEW p \in Procs, ForkFails(p)
      PROVE  GuestStep
  <2>1. /\ pc[p] = "forking" /\ DupsReleased(fork[p].child)
        /\ pc' = [pc EXCEPT ![p] = "running", ![fork[p].child] = "none"]
    BY <1>5 DEF ForkFails, ForkDone
  <2>2. PICK c \in Procs : c = fork[p].child /\ pc[c] = "starting" /\ c # p
    BY <2>1, ForkFacts
  <2>3. Touches(c)
    BY <2>1, <2>2, ReleaseTouches
  <2>4. /\ pc'[c] = "none" /\ pc'[p] = "running"
        /\ \A r \in Procs : r # c /\ r # p => pc'[r] = pc[r]
    BY <2>1, <2>2 DEF IInv, TypeOK
  <2>5. ASSUME NEW r \in Procs PROVE Alive(r)' <=> Alive(r)
    <3>1. CASE r = c
      BY <2>2, <2>4, <3>1 DEF Alive
    <3>2. CASE r = p
      BY <2>1, <2>4, <3>2 DEF Alive
    <3>3. CASE r # c /\ r # p
      BY <2>4, <3>3 DEF Alive
    <3> QED BY <3>1, <3>2, <3>3
  <2>6. ~Alive(c)
    BY <2>2 DEF Alive
  <2> QED BY <2>3, <2>5, <2>6, HiddenStep
<1>6. ASSUME NEW c \in Procs, ChildLoads(c)
      PROVE  GuestStep
  <2>1. pc[c] = "loading" /\ pc' = [pc EXCEPT ![c] = "running"] /\ UNCHANGED <<host, fd_map>>
    BY <1>6 DEF ChildLoads
  <2>2. \A r \in Procs : pc'[r] = IF r = c THEN "running" ELSE pc[r]
    BY <2>1 DEF IInv, TypeOK
  <2>3. \A r \in Procs : Alive(r)' <=> Alive(r)
    BY <2>1, <2>2 DEF Alive
  <2> QED BY <2>1, <2>3, Unseen
<1>7. ASSUME NEW c \in Procs, LoadFails(c)
      PROVE  GuestStep
  <2>1. pc[c] = "loading" /\ pc' = [pc EXCEPT ![c] = "none"] /\ DupsReleased(c)
    BY <1>7 DEF LoadFails
  <2>2. Touches(c)
    BY <2>1, ReleaseTouches
  <2>3. \A r \in Procs : pc'[r] = IF r = c THEN "none" ELSE pc[r]
    BY <2>1 DEF IInv, TypeOK
  <2>4. Alive(c) /\ ~Alive(c)' /\ \A r \in Procs : r # c => (Alive(r)' <=> Alive(r))
    BY <2>1, <2>3 DEF Alive
  <2> QED BY <2>2, <2>4, EndsStep
<1>8. ASSUME NEW p \in Procs, yos_proc_post_exit_cleanup(p)
      PROVE  GuestStep
  <2>1. pc[p] = "running" /\ pc' = [pc EXCEPT ![p] = "exiting"]
    BY <1>8 DEF yos_proc_post_exit_cleanup, Runs
  <2>2. Touches(p)
    BY <1>8, ExitTouches
  <2>3. \A r \in Procs : pc'[r] = IF r = p THEN "exiting" ELSE pc[r]
    BY <2>1 DEF IInv, TypeOK
  <2>4. Alive(p) /\ ~Alive(p)' /\ \A r \in Procs : r # p => (Alive(r)' <=> Alive(r))
    BY <2>1, <2>3 DEF Alive
  <2> QED BY <2>2, <2>4, EndsStep
<1>9. ASSUME NEW p \in Procs, ExitDone(p)
      PROVE  GuestStep
  <2>1. pc[p] = "exiting" /\ pc' = [pc EXCEPT ![p] = "none"] /\ UNCHANGED <<host, fd_map>>
    BY <1>9 DEF ExitDone
  <2>2. \A r \in Procs : pc'[r] = IF r = p THEN "none" ELSE pc[r]
    BY <2>1 DEF IInv, TypeOK
  <2>3. \A r \in Procs : Alive(r)' <=> Alive(r)
    BY <2>1, <2>2 DEF Alive
  <2> QED BY <2>1, <2>3, Unseen
<1>10. ASSUME NEW p \in Procs, NEW w \in Wfds, DupFull(p, w)
       PROVE  GuestStep
  BY <1>10 DEF DupFull, vars, GuestStep, View, ViewOf
<1> QED BY <1>1, <1>2, <1>3, <1>4, <1>5, <1>6, <1>7, <1>8, <1>9, <1>10, PipeGains, DupCopies, Dup2Copies,
           CloseLoses, FcloseLoses, FdopenLoses, ExecLoses, ForkStartsForks DEF Next

LEMMA InitGuests ==
  ASSUME IInv
  PROVE  Guests!DescTypeOK
<1>1. ASSUME NEW p \in Procs
      PROVE  View[p] \in [Wfds -> Guests!Entry] \cup {Guests!Absent}
  <2>1. CASE ~Alive(p)
    BY <2>1, ViewFacts DEF Guests!Absent
  <2>2. CASE Alive(p)
    <3>1. \A w \in Wfds : FileAt(p, w) \in Guests!Entry
      BY ViewFacts DEF Guests!Entry, Files
    <3>2. View[p] = [w \in Wfds |-> FileAt(p, w)]
      BY <2>2, ViewFacts
    <3> QED BY <3>1, <3>2
  <2> QED BY <2>1, <2>2
<1>2. View \in [Procs -> [Wfds -> Guests!Entry] \cup {Guests!Absent}]
  <2>1. View = [p \in Procs |-> View[p]]
    BY DEF View
  <2> HIDE DEF View
  <2> QED BY <1>1, <2>1
<1> QED BY <1>2 DEF Guests!DescTypeOK, View

\* Every guest has what POSIX promises it of its descriptors: only its own
\* calls change its table, fork copies it with the flags, execve closes what
\* is marked and nothing else, however the calls of several guests interleave
\* on the descriptors of the one host process.
THEOREM GuestsHaveDescriptors ==
  ASSUME ~KeepStreams, Roomy
  PROVE  Spec => ImplementsDescriptors
<1>1. Init => Guests!DescTypeOK
  BY InitInv, InitGuests
<1>2. ASSUME IInv, [Next]_vars
      PROVE  [Guests!DescNext]_([p \in Procs |-> ViewOf(p)])
  <2>1. CASE Next
    <3>1. GuestStep
      BY <1>2, <2>1, StepGuests
    <3> QED BY <3>1 DEF GuestStep, View
  <2>2. CASE UNCHANGED vars
    BY <2>2 DEF vars, ViewOf
  <2> QED BY <1>2, <2>1, <2>2
<1> QED BY <1>1, <1>2, Invariance, PTL DEF Spec, ImplementsDescriptors, Guests!DescSpec
============================================================================
