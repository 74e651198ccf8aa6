-------------------------------- MODULE Heap --------------------------------
(***************************************************************************)
(* The guest's malloc (impl/mem/alloc.c): a first-fit free list that lives *)
(* in the guest's own memory, between the end of the heap and half of the  *)
(* memory.                                                                 *)
(*                                                                         *)
(* Only the words the allocator reads are kept.  hdr holds the block_size  *)
(* word of every block, next the link word of every free one, head is      *)
(* alloc_free_head.  Every call works under g_alloc_lock and is one step,  *)
(* except realloc, which takes the lock once to allocate and once to free: *)
(* moving[t] is thread t between the two.                                  *)
(*                                                                         *)
(* live is the guest's view: the pointers it holds, the size it asked for, *)
(* the alignment it asked for, the word back in front of a shifted pointer *)
(* and shift, how far behind the pointer the bytes it stored begin.  The   *)
(* guest uses the interface as C allows it, with one exception alloc.c     *)
(* handles: it may free what is free already.                              *)
(***************************************************************************)
EXTENDS Integers

CONSTANTS
  HeapEnd,      \* ctx->heap_end when the allocator is first called
  MemorySize,   \* ctx->memory_size
  Page,         \* 0x1000, the granularity of the upper end
  MinHeap,      \* 1 MiB: a smaller region is not used at all
  Word,         \* 2^32, the range of the guest's integers
  Sizes,        \* sizes the guest asks for
  Counts,       \* numbers of members it asks calloc for
  Aligns,       \* alignments it asks posix_memalign for
  AllocAligns,  \* alignments it asks aligned_alloc and memalign for
  Stale,        \* what a stale block_size word may hold
  Threads       \* the guest's threads

VARIABLES
  hdr, next, head,    \* the allocator's words; hdr is empty before the first call
  live, moving,       \* what the guest holds, and reallocs under way
  wrote               \* the range the last call filled (memset, memcpy, back word)

vars == <<hdr, next, head, live, moving, wrote>>

HDR_SIZE == 8
MIN_BLOCK == 32
ALIGN == 16

align_up(x, a) == LET y == (x + (a - 1)) % Word IN y - (y % a)

alloc_lo == align_up(HeapEnd, ALIGN)
alloc_hi == (MemorySize \div 2) - ((MemorySize \div 2) % Page)

\* The masks of the code work on powers of two; a word holds every address.
ASSUME HeapAssumption ==
  /\ HeapEnd \in Nat \ {0} /\ MemorySize \in Nat /\ Word \in Nat
  /\ Page \in Nat \ {0} /\ Page % ALIGN = 0 /\ Word % ALIGN = 0
  /\ MemorySize < Word /\ HeapEnd + 2 * ALIGN < Word
  /\ MinHeap \in Nat /\ MinHeap >= MIN_BLOCK
  /\ Sizes \subseteq 0 .. Word - 1 /\ Counts \subseteq 0 .. Word - 1
  /\ Stale \subseteq 0 .. Word - 1
  /\ \A a \in Aligns \cup AllocAligns : a \in Nat /\ a >= 1 /\ (ALIGN % a = 0 \/ a % ALIGN = 0)

\* No request is so large that its rounded size wraps around.
NoWrap ==
  /\ \A s \in Sizes, a \in Aligns : s + a + HDR_SIZE + ALIGN <= Word
  /\ \A s \in Sizes, n \in Counts : ((n * s) % Word) + HDR_SIZE + ALIGN <= Word
  /\ \A s \in Sizes : s + HDR_SIZE + ALIGN <= Word

Idle == [raw |-> 0, new |-> 0, size |-> 0, shift |-> 0]
NoWrite == [at |-> 0, len |-> 0]

Blocks == DOMAIN hdr
Free == DOMAIN next
Used == Blocks \ Free

\* The free block after prev in the list; 0 stands for the head's place.
Link(prev) == IF prev = 0 THEN head ELSE next[prev]

TypeOK ==
  /\ \A b \in Blocks : b \in Nat /\ hdr[b] \in Nat
  /\ Free \subseteq Blocks
  /\ head \in Free \cup {0} /\ \A b \in Free : next[b] \in Free \cup {0}
  /\ \A p \in DOMAIN live :
       p \in Nat /\ live[p] \in [size : Nat, al : Nat, shift : Nat, back : Nat]
  /\ moving \in [Threads -> [raw : Nat, new : Nat, size : Nat, shift : Nat]]
  /\ wrote \in [at : Nat, len : Nat]

Init ==
  /\ hdr = [b \in {} |-> 0] /\ next = [b \in {} |-> 0] /\ head = 0
  /\ live = [p \in {} |-> 0] /\ moving = [t \in Threads |-> Idle]
  /\ wrote = NoWrite

-----------------------------------------------------------------------------
(* Carving and returning blocks *)

\* The first call makes the region one free block and goes on like any other
\* call.  Its two halves are two steps here; the state between them is the one
\* a first call leaves that asks for more than there is.
alloc_init_locked ==
  /\ Blocks = {} /\ alloc_hi > alloc_lo + MinHeap
  /\ hdr' = [b \in {alloc_lo} |-> alloc_hi - alloc_lo]
  /\ next' = [b \in {alloc_lo} |-> 0]
  /\ head' = alloc_lo
  /\ UNCHANGED <<live, moving>> /\ wrote' = NoWrite

\* Mutant: the request is rounded before the header is added.
NeedNoHeader(size) ==
  LET need == align_up((IF size = 0 THEN 1 ELSE size) % Word, ALIGN)
  IN  IF need < MIN_BLOCK THEN MIN_BLOCK ELSE need

Need(size) ==
  LET need == align_up(((IF size = 0 THEN 1 ELSE size) + HDR_SIZE) % Word, ALIGN)
  IN  IF need < MIN_BLOCK THEN MIN_BLOCK ELSE need

\* The walk stops behind prev at the first free block that is large enough.
FirstFit(prev, need) ==
  LET cur == Link(prev)
  IN  /\ cur # 0 /\ hdr[cur] >= need
      /\ \A c \in Free : c < cur => hdr[c] < need

\* Unlinks the block behind prev, and leaves what is beyond need as a block of
\* its own when it is large enough.
do_alloc(prev, need) ==
  LET cur == Link(prev)
      split == cur + need
      splits == hdr[cur] >= (need + MIN_BLOCK) % Word
      after == IF splits THEN split ELSE next[cur]
      rest == IF splits THEN {split} ELSE {}
  IN  /\ hdr' = [b \in Blocks \cup rest |->
                   IF b \in rest THEN hdr[cur] - need
                   ELSE IF b = cur /\ splits THEN need ELSE hdr[b]]
      /\ next' = [b \in (Free \ {cur}) \cup rest |->
                    IF b \in rest THEN next[cur] ELSE IF b = prev THEN after ELSE next[b]]
      /\ head' = IF prev = 0 THEN after ELSE head

\* A pointer posix_memalign shifted is a multiple of 16, and the word in front
\* of it names the block's own pointer.
unshift_user_off(p) ==
  LET raw == live[p].back
      bo == raw - HDR_SIZE
  IN  IF /\ p % ALIGN = 0 /\ p >= alloc_lo + 2 * HDR_SIZE
         /\ raw >= alloc_lo + HDR_SIZE /\ raw < p /\ raw + HDR_SIZE <= alloc_hi
         /\ bo \in Blocks /\ hdr[bo] >= MIN_BLOCK
         /\ bo + hdr[bo] <= alloc_hi /\ p < bo + hdr[bo]
      THEN raw ELSE p

\* Mutant: only the size is checked, not whether the block is free already.
DroppedBySize(bo, sz) == sz < MIN_BLOCK \/ (bo + sz) % Word > alloc_hi

\* The guards of yos_free: a size that cannot be, or a block that is free
\* already or lies inside a free one.
Dropped(bo, sz) ==
  \/ sz < MIN_BLOCK
  \/ (bo + sz) % Word > alloc_hi
  \/ \E c \in Free : c <= bo /\ bo < c + hdr[c]

\* The walk stops behind prev, at the first free block above bo.
InsertAfter(prev, bo) ==
  /\ prev # 0 => prev < bo
  /\ Link(prev) = 0 \/ Link(prev) > bo

\* Mutant: linked in order, merged with the block below only.
InsertMergesDown(prev, bo, sz) ==
  LET cur == Link(prev)
      joinsPrev == prev # 0 /\ prev + hdr[prev] = bo
      start == IF joinsPrev THEN prev ELSE bo
      gone == IF joinsPrev THEN {bo} ELSE {}
  IN  /\ hdr' = [b \in Blocks \ gone |->
                   IF b = start THEN (IF joinsPrev THEN hdr[prev] + sz ELSE sz) ELSE hdr[b]]
      /\ next' = [b \in (Free \cup {start}) \ gone |->
                    IF b = start THEN cur ELSE IF b = prev THEN start ELSE next[b]]
      /\ head' = IF prev = 0 THEN start ELSE head

\* Links the block in address order and merges it with its neighbours.
Insert(prev, bo, sz) ==
  LET cur == Link(prev)
      joinsPrev == prev # 0 /\ prev + hdr[prev] = bo
      start == IF joinsPrev THEN prev ELSE bo
      len == IF joinsPrev THEN hdr[prev] + sz ELSE sz
      joinsCur == cur # 0 /\ start + len = cur
      gone == (IF joinsPrev THEN {bo} ELSE {}) \cup (IF joinsCur THEN {cur} ELSE {})
  IN  /\ hdr' = [b \in (Blocks \cup {start}) \ gone |->
                   IF b # start THEN hdr[b] ELSE IF joinsCur THEN len + hdr[cur] ELSE len]
      /\ next' = [b \in (Free \cup {start}) \ gone |->
                    IF b = start THEN (IF joinsCur THEN next[cur] ELSE cur)
                    ELSE IF b = prev THEN start ELSE next[b]]
      /\ head' = IF prev = 0 THEN start ELSE head

FreeBlock(bo, sz) ==
  \/ /\ Dropped(bo, sz)
     /\ UNCHANGED <<hdr, next, head>>
  \/ /\ ~Dropped(bo, sz)
     /\ \E prev \in Free \cup {0} : InsertAfter(prev, bo) /\ Insert(prev, bo, sz)

-----------------------------------------------------------------------------
(* The calls *)

Without(p) == [q \in DOMAIN live \ {p} |-> live[q]]
With(f, p, r) == [q \in DOMAIN f \cup {p} |-> IF q = p THEN r ELSE f[q]]
Fresh(size, al, back) == [size |-> size, al |-> al, shift |-> 0, back |-> back]

\* malloc; valloc, and aligned_alloc and memalign up to 16, are the same.
yos_malloc(size, al) ==
  /\ Blocks # {}
  /\ \E prev \in Free \cup {0} :
       /\ FirstFit(prev, Need(size)) /\ do_alloc(prev, Need(size))
       /\ live' = With(live, Link(prev) + HDR_SIZE, Fresh(size, al, 0))
  /\ wrote' = NoWrite /\ UNCHANGED moving

yos_aligned_alloc(al, size) == al <= ALIGN /\ yos_malloc(size, al)

\* Mutant: the header is not taken off the block's size.
CallocRangeWhole(off, total, bsz) == [at |-> off, len |-> IF bsz < total THEN total ELSE bsz]

\* calloc clears to the end of the block, or what was asked for if that is more.
CallocRange(off, total, bsz) ==
  LET usable == IF bsz > HDR_SIZE THEN bsz - HDR_SIZE ELSE total
  IN  [at |-> off, len |-> IF usable < total THEN total ELSE usable]

yos_calloc(nmemb, size) ==
  LET total == (nmemb * size) % Word
  IN  /\ Blocks # {} /\ ~(nmemb # 0 /\ size > (Word - 1) \div nmemb)
      /\ \E prev \in Free \cup {0} :
           /\ FirstFit(prev, Need(total)) /\ do_alloc(prev, Need(total))
           /\ live' = With(live, Link(prev) + HDR_SIZE, Fresh(total, 1, 0))
           /\ wrote' = CallocRange(Link(prev) + HDR_SIZE, total, hdr'[Link(prev)])
      /\ UNCHANGED moving

\* The shifted pointer: the next multiple of al, never the block's own pointer.
Shifted(raw, al) ==
  LET aligned == align_up(raw, al) IN IF aligned = raw THEN raw + al ELSE aligned

yos_posix_memalign(al, size) ==
  /\ Blocks # {} /\ al >= 4
  /\ \/ /\ al <= HDR_SIZE
        /\ yos_malloc(IF size = 0 THEN 1 ELSE size, al)
     \/ /\ al > HDR_SIZE /\ size + al < Word
        /\ \E prev \in Free \cup {0} :
             LET raw == Link(prev) + HDR_SIZE IN
             /\ FirstFit(prev, Need(size + al)) /\ do_alloc(prev, Need(size + al))
             /\ live' = With(live, Shifted(raw, al), Fresh(size, al, raw))
             /\ wrote' = [at |-> Shifted(raw, al) - 4, len |-> 4]
        /\ UNCHANGED moving

InBounds(p) == p >= alloc_lo + HDR_SIZE /\ p < alloc_hi

yos_free(p) ==
  LET bo == unshift_user_off(p) - HDR_SIZE
  IN  /\ InBounds(p)
      /\ FreeBlock(bo, hdr[bo])
      /\ live' = Without(p)
      /\ wrote' = NoWrite /\ UNCHANGED moving

\* A pointer that was freed before is freed again while its block is still
\* part of a free one.  Its size word is stale.
FreeAgain(o, sz) ==
  /\ o % ALIGN = 0 /\ \E c \in Free : c <= o /\ o < c + hdr[c]
  /\ FreeBlock(o, sz)
  /\ wrote' = NoWrite /\ UNCHANGED <<live, moving>>

\* realloc of a pointer: in place when the block is large enough, else the
\* first half of a move: a new block and a copy of the old one's payload.
yos_realloc(t, p, size) ==
  LET raw == unshift_user_off(p)
      oldsz == hdr[raw - HDR_SIZE]
      shift == live[p].shift + (p - raw)
  IN  /\ InBounds(p) /\ size # 0 /\ moving[t] = Idle
      /\ oldsz >= HDR_SIZE /\ (raw - HDR_SIZE) + oldsz <= alloc_hi
      /\ \/ /\ size <= oldsz - HDR_SIZE
            /\ live' = With(Without(p), raw, [Fresh(size, 1, 0) EXCEPT !.shift = shift])
            /\ wrote' = NoWrite /\ UNCHANGED <<hdr, next, head, moving>>
         \/ /\ size > oldsz - HDR_SIZE
            /\ \E prev \in Free \cup {0} :
                 LET new == Link(prev) + HDR_SIZE IN
                 /\ FirstFit(prev, Need(size)) /\ do_alloc(prev, Need(size))
                 /\ moving' = [moving EXCEPT ![t] =
                      [raw |-> raw, new |-> new, size |-> size, shift |-> shift]]
                 /\ wrote' = [at |-> new, len |-> oldsz - HDR_SIZE]
            /\ live' = Without(p)

\* The second half of the move.
ReallocFrees(t) ==
  LET m == moving[t]
      bo == m.raw - HDR_SIZE
  IN  /\ m # Idle
      /\ FreeBlock(bo, hdr[bo])
      /\ live' = With(live, m.new, [Fresh(m.size, 1, 0) EXCEPT !.shift = m.shift])
      /\ moving' = [moving EXCEPT ![t] = Idle]
      /\ wrote' = NoWrite

\* execve replaces the memory and forgets the heap.
Execve ==
  /\ Blocks # {} /\ \A t \in Threads : moving[t] = Idle
  /\ hdr' = [b \in {} |-> 0] /\ next' = [b \in {} |-> 0] /\ head' = 0
  /\ live' = [p \in {} |-> 0] /\ wrote' = NoWrite /\ UNCHANGED moving

Next ==
  \/ alloc_init_locked
  \/ \E size \in Sizes :
       \/ yos_malloc(size, 1)
       \/ \E al \in AllocAligns : yos_aligned_alloc(al, size)
       \/ \E al \in Aligns : yos_posix_memalign(al, size)
       \/ \E nmemb \in Counts : yos_calloc(nmemb, size)
       \/ \E p \in DOMAIN live, t \in Threads : yos_realloc(t, p, size)
  \/ \E p \in DOMAIN live : yos_free(p)
  \/ \E b \in Free : \E o \in b .. b + hdr[b] - 1, sz \in Stale : FreeAgain(o, sz)
  \/ \E t \in Threads : ReallocFrees(t)
  \/ Execve

Spec == Init /\ [][Next]_vars

-----------------------------------------------------------------------------
(* Properties *)

\* A walk from the lower end by the size words visits every block and ends at
\* the upper end: no two blocks overlap, none is lost and none reaches beyond
\* the region, however requests, merges and repeated frees follow each other.
Tiled ==
  /\ \A b \in Blocks :
       /\ b % ALIGN = 0 /\ hdr[b] % ALIGN = 0 /\ hdr[b] >= MIN_BLOCK
       /\ b >= alloc_lo /\ b + hdr[b] <= alloc_hi
       /\ b + hdr[b] = alloc_hi \/ b + hdr[b] \in Blocks
       /\ \A c \in Blocks : b < c => b + hdr[b] <= c
  /\ Blocks # {} => alloc_lo \in Blocks

\* The links visit every free block once and in address order, which is what
\* first fit, the insertion walk and its double-free guards rely on.
Linked ==
  /\ \A b \in Free : b > 0 /\ (next[b] # 0 => b < next[b])
  /\ \A prev \in Free \cup {0}, c \in Free :
       prev < c => Link(prev) # 0 /\ Link(prev) <= c

\* "Sorted insert + coalesce keeps the list to roughly the number of distinct
\* free regions": two free blocks are never neighbours.
Coalesced == \A b \in Free : b + hdr[b] \notin Free

\* The block a held pointer came from, as yos_free will find it.
Home(p) == unshift_user_off(p) - HDR_SIZE
Movers == {t \in Threads : moving[t] # Idle}

\* Every block in use belongs to exactly one pointer the guest holds or one
\* move under way, is found again from it, and has room for what was asked for
\* at the alignment that was asked for.
OneOwner ==
  /\ \A p \in DOMAIN live :
       /\ Home(p) \in Used /\ p >= Home(p) + HDR_SIZE
       /\ p + live[p].size <= Home(p) + hdr[Home(p)]
       /\ p % live[p].al = 0
       /\ \A q \in DOMAIN live : Home(p) = Home(q) => p = q
       /\ \A t \in Movers : Home(p) \notin {moving[t].raw - HDR_SIZE, moving[t].new - HDR_SIZE}
  /\ \A t \in Movers :
       /\ {moving[t].raw - HDR_SIZE, moving[t].new - HDR_SIZE} \subseteq Used
       /\ moving[t].raw # moving[t].new
       /\ moving[t].new + moving[t].size <= moving[t].new - HDR_SIZE + hdr[moving[t].new - HDR_SIZE]
       /\ \A u \in Movers \ {t} :
            {moving[t].raw, moving[t].new} \cap {moving[u].raw, moving[u].new} = {}
  /\ \A b \in Used : \/ \E p \in DOMAIN live : Home(p) = b
                     \/ \E t \in Movers : b \in {moving[t].raw - HDR_SIZE, moving[t].new - HDR_SIZE}

\* What calloc clears, realloc copies and posix_memalign notes down lies inside
\* the payload of one block in use.
WritesInside ==
  wrote.len > 0 => \E b \in Used :
    b + HDR_SIZE <= wrote.at /\ wrote.at + wrote.len <= b + hdr[b]

\* Once the guest holds nothing the whole region is one free block again: no
\* sequence of calls loses memory or leaves it in pieces.
Recovered ==
  DOMAIN live = {} /\ Movers = {} /\ Blocks # {} =>
    /\ Blocks = {alloc_lo} /\ Free = {alloc_lo}
    /\ hdr[alloc_lo] = alloc_hi - alloc_lo

\* The bytes the guest stored are found at the pointer it holds, also after it
\* reallocated: the comment in yos_realloc calls the lost alignment of its
\* result conformant, and the contents have to follow.
ContentsFollow == \A p \in DOMAIN live : live[p].shift = 0
=============================================================================
