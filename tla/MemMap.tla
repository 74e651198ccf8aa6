------------------------------- MODULE MemMap -------------------------------
(***************************************************************************)
(* The address space of one guest process, impl/mem/mem.c: brk, mmap,      *)
(* munmap and mremap over one flat linear memory, with the list of free    *)
(* holes and the list of live mappings the host keeps beside it; and what  *)
(* malloc's first call (impl/mem/alloc.c), fork and execve do to them.     *)
(*                                                                         *)
(* The process followed is the one that runs: after a fork it is the       *)
(* child.  Threads of a process share its lists.  They change them under   *)
(* ctx->mem_lock, one call at a time; a call that goes through a list does *)
(* so in steps, between which other threads may move the break, for which  *)
(* there is no lock.  What is cleared after the lock is released belongs   *)
(* to the caller by then.  Sizes and addresses count units, of which       *)
(* PageSize make a page.                                                   *)
(***************************************************************************)
EXTENDS Integers, Sequences, FiniteSetsExt

CONSTANTS
  MemSize,    \* memory_size
  PageSize,   \* 4096
  HeapBase,   \* __heap_base of the image, past its static data
  ArenaMin,   \* 1 MiB: the least malloc can start with
  MaxFree,    \* YOS_MAX_FREE_REGIONS
  MaxLive,    \* YOS_MAX_LIVE_REGIONS
  Lengths,    \* the lengths guests give to mmap, munmap and mremap
  Addrs,      \* the addresses they give to munmap and mremap
  FixedAddrs, \* and to mmap with MAP_FIXED
  BrkAddrs,   \* and to brk
  ChildExecs  \* may a forked child call execve?

ASSUME MemAssumption ==
  /\ {MemSize, PageSize, HeapBase, MaxFree, MaxLive} \subseteq Nat \ {0}
  /\ ArenaMin \in Nat
  /\ Lengths \cup Addrs \cup FixedAddrs \cup BrkAddrs \subseteq Nat
  /\ ChildExecs \in BOOLEAN

Half == MemSize \div 2

VARIABLES
  heapEnd,    \* heap_end: the break
  mmapTop,    \* mmap_top: the bump allocator's cursor, 0 before its first use
  freeList,   \* free_list: the holes
  liveList,   \* live_list: the mappings
  allocHi,    \* alloc_hi: the end of malloc's arena, 0 before the first malloc
  isChild,    \* is_child: was the process forked?
  call,       \* the call that holds mem_lock, NoCall if nobody does
  \* the memory, as the guest sees it
  held,       \* the units the guest has mapped and not unmapped
  stale,      \* the units it no longer has that may not be zero
  harm        \* history: what the first call to do wrong has done

lists   == <<freeList, liveList>>
mapVars == <<heapEnd, mmapTop, lists, allocHi, isChild, call, held, stale, harm>>

Units(r) == r.addr .. r.addr + r.len - 1
Region(lo, hi) == [addr |-> lo, len |-> IF hi > lo THEN hi - lo ELSE 0]
Overlaps(r, lo, hi) == r.addr < hi /\ lo < r.addr + r.len
PageUp(n) == ((n + PageSize - 1) \div PageSize) * PageSize

\* What the guest may use, and is taken to have written to.
InUse == held \cup 0 .. heapEnd - 1

\* A call does the wrong W; only the first is of interest.
Wrong(W) == harm' = IF harm = {} THEN W ELSE harm

\* A call that has to go through a list: where it is, whether it is a mmap with
\* MAP_FIXED or a munmap, its range lo .. hi - 1, the loop's index, and the hole
\* add_free_region is about to add.
NoCall == [at |-> "idle", fixed |-> FALSE, lo |-> 0, hi |-> 0, i |-> 1, hole |-> Region(0, 0)]

\* The call takes the lock and starts on its first list.
Enter(at, fixed, lo, hi) ==
  call' = [NoCall EXCEPT !.at = at, !.fixed = fixed, !.lo = lo, !.hi = hi]

MapInit ==
  /\ heapEnd = HeapBase /\ mmapTop = 0 /\ allocHi = 0
  /\ freeList = <<>> /\ liveList = <<>>
  /\ isChild = FALSE /\ call = NoCall
  /\ held = {} /\ stale = {} /\ harm = {}

----------------------------------------------------------------------------
(* The two lists, and the loops over them *)

\* The last element takes the place of the i-th.
SwapRemove(L, i) == [j \in 1 .. Len(L) - 1 |-> IF j = i THEN L[Len(L)] ELSE L[j]]

\* Mutant: the table is never full.
push_unbounded(F, r) == IF r.len = 0 THEN F ELSE Append(F, r)

\* A full list loses its first hole.
free_list_push_raw(F, r) ==
  IF r.len = 0 THEN F
               ELSE Append(IF Len(F) >= MaxFree THEN SwapRemove(F, 1) ELSE F, r)

\* A full list does not track the mapping.
live_add(L, r) == IF r.len = 0 \/ Len(L) >= MaxLive THEN L ELSE Append(L, r)

\* What is left of a region on either side of lo .. hi - 1.
LeftOf(r, lo)  == Region(r.addr, lo)
RightOf(r, hi) == Region(hi, r.addr + r.len)

\* The regions of L from the loop's index on that the call's range overlaps.
Hits(L) == {k \in DOMAIN L : k >= call.i /\ Overlaps(L[k], call.lo, call.hi)}

\* The loop of add_free_region: the hole is merged with the first adjacent one
\* and that one removed, or, when there is none, pushed.
add_free_region ==
  LET Adjacent == {k \in DOMAIN freeList :
                     \/ freeList[k].addr + freeList[k].len = call.hole.addr
                     \/ call.hole.addr + call.hole.len = freeList[k].addr}
      k == Min(Adjacent)
  IN  /\ call.at = "merge"
      /\ \/ /\ Adjacent # {}
            /\ call' = [call EXCEPT !.hole = [addr |-> Min({freeList[k].addr, @.addr}),
                                             len  |-> freeList[k].len + @.len]]
            /\ freeList' = SwapRemove(freeList, k)
         \/ /\ Adjacent = {}
            /\ call' = [call EXCEPT !.at = "free"]
            /\ freeList' = free_list_push_raw(freeList, call.hole)
      /\ UNCHANGED <<heapEnd, mmapTop, liveList, allocHi, isChild, held, stale, harm>>

\* The loop of live_remove: the next mapping in the range is removed and what is
\* left of it added again, at the end of the list.
live_remove ==
  LET k == Min(Hits(liveList))
  IN  /\ call.at = "unlive"
      /\ \/ /\ Hits(liveList) # {}
            /\ liveList' = live_add(live_add(SwapRemove(liveList, k), LeftOf(liveList[k], call.lo)),
                                   RightOf(liveList[k], call.hi))
            /\ call' = [call EXCEPT !.i = k]
         \/ /\ Hits(liveList) = {}
            /\ call' = IF call.fixed THEN [call EXCEPT !.at = "carve", !.i = 1] ELSE NoCall
            /\ UNCHANGED liveList
      /\ UNCHANGED <<heapEnd, mmapTop, freeList, allocHi, isChild, held, stale, harm>>

\* Mutant: the holes stay on the list.
carve_nothing ==
  /\ call.at = "carve"
  /\ call' = [call EXCEPT !.at = "own"]
  /\ UNCHANGED <<heapEnd, mmapTop, lists, allocHi, isChild, held, stale, harm>>

\* The same for the holes.
carve_free_range ==
  LET k == Min(Hits(freeList))
  IN  /\ call.at = "carve"
      /\ \/ /\ Hits(freeList) # {}
            /\ freeList' = free_list_push_raw(
                              free_list_push_raw(SwapRemove(freeList, k), LeftOf(freeList[k], call.lo)),
                              RightOf(freeList[k], call.hi))
            /\ call' = [call EXCEPT !.i = k]
         \/ /\ Hits(freeList) = {}
            /\ call' = [call EXCEPT !.at = "own"]
            /\ UNCHANGED freeList
      /\ UNCHANGED <<heapEnd, mmapTop, liveList, allocHi, isChild, held, stale, harm>>

range_overlaps_free(lo, hi) == \E i \in DOMAIN freeList : Overlaps(freeList[i], lo, hi)

----------------------------------------------------------------------------
(* brk and malloc's arena *)

\* Is unit u the mmap side's: the guest's, a hole, a mapping, or being made one?
Tracks(u) ==
  \/ u \in held
  \/ \E i \in DOMAIN freeList : u \in Units(freeList[i])
  \/ \E i \in DOMAIN liveList : u \in Units(liveList[i])
  \/ call.fixed /\ u \in call.lo .. call.hi - 1
  \/ call.at = "merge" /\ u \in Units(call.hole)

\* The heap's end moves.  It is wrong to raise it over what is the mmap side's.
SetBreak(new) ==
  /\ heapEnd' = new
  /\ stale' = (stale \cup new .. heapEnd - 1) \ 0 .. new - 1
  /\ Wrong({h \in {"overrun"} : \E u \in heapEnd .. new - 1 : Tracks(u)})

\* Mutant: brk looks at the size of the memory only.
brk_unlimited(addr) ==
  /\ addr # 0
  /\ addr <= MemSize
  /\ SetBreak(addr)
  /\ UNCHANGED <<mmapTop, lists, allocHi, isChild, call, held>>

\* The break stays under the bump allocator's cursor, or under the middle of
\* the memory when that has not started.
yos_brk(addr) ==
  /\ addr # 0
  /\ addr <= MemSize
  /\ addr <= (IF mmapTop # 0 THEN mmapTop ELSE Half)
  /\ SetBreak(addr)
  /\ UNCHANGED <<mmapTop, lists, allocHi, isChild, call, held>>

\* alloc_init_locked: malloc takes what is between the break and the middle.
ArenaInit ==
  /\ allocHi = 0
  /\ Half > heapEnd + ArenaMin
  /\ allocHi' = Half
  /\ SetBreak(Half)
  /\ UNCHANGED <<mmapTop, lists, isChild, call, held>>

----------------------------------------------------------------------------
(* mmap *)

\* The guest gets region r, after those of its units that are in zeroed have been
\* cleared, in exchange for the region src (empty but for mremap, which copies it
\* to the start of r).  It is wrong to give out what is in use, or what is not
\* zero behind the copy.
Grant(r, zeroed, src) ==
  /\ held' = (held \ Units(src)) \cup Units(r)
  /\ stale' = (stale \cup Units(src)) \ Units(r)
  /\ Wrong({h \in {"alias", "residue"} :
              \E u \in Units(r) \cap (stale \cup InUse) :
                \/ h = "alias" /\ u \in InUse
                \/ h = "residue" /\ u \notin zeroed /\ u >= r.addr + src.len})

\* The smallest hole that is large enough, the first of several; what is left of
\* it stays when it is at least a page.
find_free_region(len) ==
  LET Fits == {i \in DOMAIN freeList : freeList[i].len >= len}
  IN  {i \in Fits : \A j \in Fits : \/ freeList[i].len < freeList[j].len
                                    \/ freeList[i].len = freeList[j].len /\ i <= j}

\* Mutant: the hole is cut at the wrong end.
RestOfWrongEnd(i, len) ==
  IF freeList[i].len - len >= PageSize
    THEN [freeList EXCEPT ![i] = [@ EXCEPT !.len = @ - len]]
    ELSE SwapRemove(freeList, i)

RestOf(i, len) ==
  IF freeList[i].len - len >= PageSize
    THEN [freeList EXCEPT ![i] = [addr |-> @.addr + len, len |-> @.len - len]]
    ELSE SwapRemove(freeList, i)

\* A hole is not cleared: munmap has done that.
Reuse(len, src) ==
  \E i \in find_free_region(len) :
    LET r == [addr |-> freeList[i].addr, len |-> len]
    IN  /\ freeList' = RestOf(i, len)
        /\ liveList' = live_add(liveList, r)
        /\ Grant(r, {}, src)
        /\ UNCHANGED mmapTop

\* No hole: advance the cursor, if there is room.
Bump(len, src) ==
  LET top == IF mmapTop = 0 THEN Half ELSE mmapTop
  IN  /\ find_free_region(len) = {}
      /\ \/ /\ top >= heapEnd /\ top + len <= MemSize
            /\ mmapTop' = top + len
            /\ liveList' = live_add(liveList, Region(top, top + len))
            /\ Grant(Region(top, top + len), top .. top + len - 1, src)
         \/ /\ top < heapEnd \/ top + len > MemSize
            /\ mmapTop' = top
            /\ UNCHANGED <<liveList, held, stale, harm>>
      /\ UNCHANGED freeList

yos_mmap2(length, src) ==
  /\ call = NoCall
  /\ PageUp(length) \in 1..MemSize
  /\ Reuse(PageUp(length), src) \/ Bump(PageUp(length), src)
  /\ UNCHANGED <<heapEnd, allocHi, isChild, call>>

\* The units U are cleared and become the guest's, whatever was mapped there; it
\* is wrong to clear the heap.
Replace(U) ==
  /\ held' = held \cup U
  /\ stale' = stale \ U
  /\ Wrong({h \in {"clobber"} : U \cap 0 .. heapEnd - 1 # {}})

\* MAP_FIXED replaces what is mapped at addr, but never the heap: the range is
\* taken off both lists, then it is the caller's.
MapFixed(addr, length) ==
  LET end == addr + PageUp(length)
  IN  /\ call = NoCall
      /\ addr # 0 /\ PageUp(length) # 0 /\ end <= MemSize
      /\ addr >= heapEnd
      /\ Enter("unlive", TRUE, addr, end)
      /\ UNCHANGED <<heapEnd, mmapTop, lists, allocHi, isChild, held, stale, harm>>

MapFixedOwns ==
  LET top == IF mmapTop = 0 THEN Half ELSE mmapTop
  IN  /\ call.at = "own"
      /\ liveList' = live_add(liveList, Region(call.lo, call.hi))
      /\ mmapTop' = IF call.hi > top THEN call.hi ELSE top
      /\ Replace(call.lo .. call.hi - 1)
      /\ call' = NoCall
      /\ UNCHANGED <<heapEnd, freeList, allocHi, isChild>>

\* Growing moves the region, and the old one is not unmapped.  (A region that
\* does not grow stays where it is.)
yos_mremap(addr, oldLen, newLen) ==
  /\ newLen > oldLen
  /\ addr .. addr + oldLen - 1 \subseteq held
  /\ yos_mmap2(newLen, Region(addr, addr + oldLen))

\* Mutant: the whole range, as far as it is memory, counts as mapped.
WholeRange(r, lo, hi) == Region(lo, hi)

\* The part of mapping r in lo..hi-1.
LivePart(r, lo, hi) == Region(Max({r.addr, lo}), Min({r.addr + r.len, hi}))

\* Mutant: what is unmapped keeps its contents.
ClearNothing(r) == {}

Clear(r) == Units(r)

\* What the guest unmaps is no longer its own.  A range that is partly free
\* already is left alone.
yos_munmap(addr, length) ==
  LET end  == addr + PageUp(length)
      Gone == addr .. end - 1
  IN  /\ call = NoCall
      /\ PageUp(length) # 0 /\ end <= MemSize
      /\ held' = held \ Gone
      /\ stale' = stale \cup (Gone \cap held)
      /\ IF range_overlaps_free(addr, end) THEN UNCHANGED call ELSE Enter("free", FALSE, addr, end)
      /\ UNCHANGED <<heapEnd, mmapTop, lists, allocHi, isChild, harm>>

\* The next mapping in the range: only what is live is cleared and becomes a
\* hole.  It is wrong to clear what stays in use.
MunmapClears ==
  LET k == Min(Hits(liveList))
      part == LivePart(liveList[k], call.lo, call.hi)
  IN  /\ call.at = "free" /\ Hits(liveList) # {}
      /\ stale' = stale \ Clear(part)
      /\ Wrong({h \in {"clobber"} : Clear(part) \cap InUse # {}})
      /\ call' = [call EXCEPT !.at = "merge", !.i = k + 1, !.hole = part]
      /\ UNCHANGED <<heapEnd, mmapTop, lists, allocHi, isChild, held>>

\* There are no more; the range goes off the list of mappings.
MunmapForgets ==
  /\ call.at = "free" /\ Hits(liveList) = {}
  /\ call' = [call EXCEPT !.at = "unlive", !.i = 1]
  /\ UNCHANGED <<heapEnd, mmapTop, lists, allocHi, isChild, held, stale, harm>>

----------------------------------------------------------------------------
(* fork and execve *)

\* The snapshot the parent takes of its memory, cursors and holes, which the
\* child starts from; the mappings are not part of it.
SnapshotMemory == UNCHANGED <<held, stale, harm>>
InheritLists ==
  /\ liveList' = <<>>
  /\ UNCHANGED <<heapEnd, mmapTop, freeList, allocHi>>

Fork ==
  /\ call = NoCall /\ UNCHANGED call
  /\ isChild' = TRUE
  /\ SnapshotMemory
  /\ InheritLists

\* A new image in new memory.  The first process resets everything, a forked
\* one all but the live list.
Exec ==
  /\ call = NoCall /\ UNCHANGED call
  /\ isChild => ChildExecs
  /\ heapEnd' = HeapBase /\ mmapTop' = 0 /\ allocHi' = 0
  /\ freeList' = <<>>
  /\ liveList' = IF isChild THEN liveList ELSE <<>>
  /\ held' = {} /\ stale' = {}
  /\ UNCHANGED <<isChild, harm>>

\* The steps of a call that is under way.
Inside == MunmapClears \/ add_free_region \/ MunmapForgets \/ live_remove \/ carve_free_range \/ MapFixedOwns

MapNext ==
  \/ Inside
  \/ \E a \in BrkAddrs : yos_brk(a)
  \/ ArenaInit \/ Fork \/ Exec
  \/ \E n \in Lengths : yos_mmap2(n, Region(0, 0))
  \/ \E a \in FixedAddrs, n \in Lengths : MapFixed(a, n)
  \/ \E a \in Addrs, n \in Lengths : yos_munmap(a, n)
  \/ \E a \in Addrs, n, m \in Lengths : yos_mremap(a, n, m)

MapSpec == MapInit /\ [][MapNext]_mapVars

----------------------------------------------------------------------------
(* Properties *)

IsRegion(r) == r.addr \in 1..MemSize /\ r.len \in 1..MemSize /\ r.addr + r.len <= MemSize

\* The shape of the state; in particular the lists stay within their tables.
MapTypeOK ==
  /\ heapEnd \in 1..MemSize /\ mmapTop \in 0..MemSize /\ allocHi \in {0, Half}
  /\ Len(freeList) <= MaxFree /\ \A i \in DOMAIN freeList : IsRegion(freeList[i])
  /\ Len(liveList) <= MaxLive /\ \A i \in DOMAIN liveList : IsRegion(liveList[i])
  /\ isChild \in BOOLEAN
  /\ call.at \in {"idle", "free", "merge", "unlive", "carve", "own"}
  /\ call.at = "merge" => IsRegion(call.hole)
  /\ held \cup stale \subseteq 0 .. MemSize - 1
  /\ harm \subseteq {"alias", "residue", "clobber", "overrun"}

\* "so brk and mmap can never overlap" (yos_brk) takes two things.  This is the
\* first: the heap, every hole, every mapping and all the guest has mapped end at
\* the bump allocator's cursor, so that what lies behind it is nobody's.
BelowCursor ==
  LET cursor == IF mmapTop = 0 THEN Half ELSE mmapTop
  IN  /\ heapEnd <= cursor
      /\ \A u \in held : u < cursor
      /\ \A i \in DOMAIN freeList : freeList[i].addr + freeList[i].len <= cursor
      /\ \A i \in DOMAIN liveList : liveList[i].addr + liveList[i].len <= cursor

\* The second the code does not keep: that the two sides of the memory stay apart
\* although both may use what is below the cursor.
HeapApart == held \cap 0 .. heapEnd - 1 = {}

\* So the next three say what goes wrong first: never one of these, as long as no
\* break is raised over memory of the mmap side.

\* mmap never gives out what the guest has mapped or what is below its break,
\* unless the guest asked for that address.
NoAlias == "alias" \notin harm

\* "anonymous mmap must return zeroed memory", whether it is fresh, a hole, or the
\* part by which mremap grows a region.
MapsZeroed == "residue" \notin harm

\* No call clears memory the guest keeps: its heap, its static data, or a mapping
\* other than the one it unmaps or replaces.
NoClobber == "clobber" \notin harm

\* A hole is nobody's, and on the list once: it "can't later be handed out a
\* second time by find_free_region".
HolesFree ==
  /\ \A i \in DOMAIN freeList : Units(freeList[i]) \cap held = {}
  /\ \A i, j \in DOMAIN freeList : i # j => Units(freeList[i]) \cap Units(freeList[j]) = {}

=============================================================================
