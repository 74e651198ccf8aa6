---------------------------- MODULE MemoryProofs ----------------------------
(***************************************************************************)
(* That the memory of a guest process stays in order.  First malloc's heap *)
(* (Heap), for every size of memory and any set of requests whose rounded  *)
(* size does not wrap around; then the mappings beside it (MemMap), for    *)
(* every size of memory and of the host's two lists, as long as the guest  *)
(* keeps its break in the lower half.                                      *)
(***************************************************************************)
EXTENDS Heap, MemMap, SequenceTheorems, WellFoundedInduction, TLAPS


\* The alignments aligned_alloc and memalign really serve: malloc's pointers
\* are eight modulo sixteen, and a request for sixteen gets one of those.
Served == \A a \in AllocAligns : a <= ALIGN => HDR_SIZE % a = 0

-----------------------------------------------------------------------------
(* Arithmetic of the words *)

LEMMA Sums ==
  ASSUME NEW x \in Int, NEW y \in Int, x % 16 = 0, y % 16 = 0
  PROVE  (x + y) % 16 = 0 /\ (x - y) % 16 = 0
  OBVIOUS

LEMMA Down ==
  ASSUME NEW x \in Nat
  PROVE  /\ x - (x % 16) \in Nat /\ x - (x % 16) <= x /\ x - (x % 16) > x - 16
         /\ (x - (x % 16)) % 16 = 0
  OBVIOUS

LEMMA Small ==
  ASSUME NEW x \in Nat, NEW w \in Nat, x < w
  PROVE  x % w = x
  OBVIOUS

LEMMA Multiple ==
  ASSUME NEW a \in Nat, NEW d \in Nat, a >= 1
  PROVE  (a * d) % a = 0
<1> DEFINE x == a * d
           q == x \div a
           r == x % a
<1>1. x \in Nat
  OBVIOUS
<1>2. q \in Nat /\ r \in Nat /\ r < a /\ x = a * q + r
  BY <1>1
<1> HIDE DEF q, r
<1>3. a * (d - q) = r
  BY <1>2
<1>4. CASE d - q >= 1
  <2>1. a * (d - q) >= a
    BY <1>2, <1>4
  <2> QED  BY <2>1, <1>2, <1>3
<1>5. CASE d - q <= -1
  <2>1. a * (d - q) <= -a
    BY <1>2, <1>5
  <2> QED  BY <2>1, <1>2, <1>3
<1>6. CASE d = q
  <2>1. r = 0
     BY <1>2, <1>3, <1>6
  <2> QED  BY <2>1 DEF r
<1> QED
  BY <1>2, <1>4, <1>5, <1>6

LEMMA DownTo ==
  ASSUME NEW x \in Nat, NEW a \in Nat, a >= 1
  PROVE  /\ x - (x % a) \in Nat /\ x - (x % a) <= x /\ x - (x % a) > x - a
         /\ (x - (x % a)) % a = 0
<1>1. x % a \in 0 .. a - 1 /\ x \div a \in Nat /\ x = a * (x \div a) + (x % a)
  OBVIOUS
<1>2. x - (x % a) = a * (x \div a)
  BY <1>1
<1>3. a * (x \div a) \in Nat /\ (a * (x \div a)) % a = 0
  BY <1>1, Multiple
<1> QED
  BY <1>1, <1>2, <1>3

LEMMA Divides ==
  ASSUME NEW x \in Nat, NEW a \in Nat, a >= 1, a % 16 = 0, x % a = 0
  PROVE  x % 16 = 0
<1> DEFINE j == a \div 16
           k == x \div a
<1>1. j \in Nat /\ k \in Nat
  OBVIOUS
<1>2. a = 16 * j
  OBVIOUS
<1>3. x = a * k
  OBVIOUS
<1> HIDE DEF j, k
<1>4. x = 16 * (j * k) /\ j * k \in Nat
  BY <1>1, <1>2, <1>3
<1> QED
  BY <1>4, Multiple

\* align_up rounds up where the sum does not wrap.
LEMMA AlignUp ==
  ASSUME NEW x \in Nat, NEW a \in Nat, a >= 1, x + a - 1 < Word
  PROVE  /\ align_up(x, a) \in Nat /\ align_up(x, a) >= x /\ align_up(x, a) <= x + a - 1
         /\ align_up(x, a) % a = 0
<1> DEFINE y == x + (a - 1)
<1>1. y \in Nat /\ y < Word /\ Word \in Nat
  BY HeapAssumption
<1>2. y % Word = y
  BY <1>1, Small
<1>3. align_up(x, a) = y - (y % a)
  BY <1>2 DEF align_up
<1>4. /\ y - (y % a) \in Nat /\ y - (y % a) <= y /\ y - (y % a) > y - a
      /\ (y - (y % a)) % a = 0
  BY <1>1, DownTo
<1> QED
  BY <1>3, <1>4

\* The region begins above zero, both ends are multiples of sixteen, and twice
\* its upper end fits in a word.
LEMMA ArenaBounds ==
  /\ Word \in Nat /\ alloc_lo \in Nat /\ alloc_hi \in Nat
  /\ alloc_lo >= 16 /\ alloc_lo % 16 = 0 /\ alloc_hi % 16 = 0
  /\ 2 * alloc_hi < Word
<1>1. /\ HeapEnd \in Nat /\ HeapEnd >= 1 /\ Word \in Nat /\ HeapEnd + 32 < Word
      /\ MemorySize \in Nat /\ MemorySize < Word
      /\ Page \in Nat /\ Page >= 1 /\ Page % 16 = 0
  BY HeapAssumption DEF ALIGN
<1>2. alloc_lo \in Nat /\ alloc_lo >= HeapEnd /\ alloc_lo % 16 = 0
  BY <1>1, AlignUp DEF alloc_lo, ALIGN
<1>3. alloc_lo >= 16
  BY <1>1, <1>2
<1> DEFINE m == MemorySize \div 2
<1>4. m \in Nat /\ 2 * m <= MemorySize
  BY <1>1
<1>5. /\ m - (m % Page) \in Nat /\ m - (m % Page) <= m /\ (m - (m % Page)) % Page = 0
  BY <1>1, <1>4, DownTo
<1>6. (m - (m % Page)) % 16 = 0
  BY <1>1, <1>5, Divides
<1> QED
  BY <1>1, <1>2, <1>3, <1>4, <1>5, <1>6 DEF alloc_hi

\* What is taken for a request holds it and its header.
LEMMA NeedHolds ==
  ASSUME NEW size \in Nat, size + HDR_SIZE + ALIGN <= Word
  PROVE  /\ Need(size) \in Nat /\ Need(size) >= MIN_BLOCK /\ Need(size) % 16 = 0
         /\ Need(size) >= size + HDR_SIZE
<1> DEFINE s == (IF size = 0 THEN 1 ELSE size) + HDR_SIZE
           n == align_up(s % Word, ALIGN)
<1>1. s \in Nat /\ s >= size + 8 /\ s + 15 < Word /\ Word \in Nat
  BY HeapAssumption DEF HDR_SIZE, ALIGN
<1>2. s % Word = s
  BY <1>1, Small
<1>3. n \in Nat /\ n >= s /\ n % 16 = 0
  BY <1>1, <1>2, AlignUp DEF ALIGN
<1>4. Need(size) = IF n < MIN_BLOCK THEN MIN_BLOCK ELSE n
  BY DEF Need
<1> QED
  BY <1>1, <1>3, <1>4 DEF MIN_BLOCK, HDR_SIZE

\* A shifted pointer is a multiple of the alignment and of sixteen, and lies
\* less than the alignment behind the block's own.
LEMMA ShiftedLies ==
  ASSUME NEW raw \in Nat, NEW al \in Nat, al >= 16, al % 16 = 0, raw % 16 = 8,
         raw + al - 1 < Word
  PROVE  /\ Shifted(raw, al) \in Nat /\ Shifted(raw, al) % al = 0
         /\ Shifted(raw, al) % 16 = 0
         /\ Shifted(raw, al) >= raw + 8 /\ Shifted(raw, al) <= raw + al - 8
<1> DEFINE a == align_up(raw, al)
<1>1. a \in Nat /\ a >= raw /\ a <= raw + al - 1 /\ a % al = 0
  <2>1. al >= 1
    OBVIOUS
  <2> QED  BY <2>1, AlignUp, Zenon
<1>2. a % 16 = 0
  BY <1>1, Divides
<1> HIDE DEF a
<1>3. a # raw
  BY <1>2
<1>4. Shifted(raw, al) = a
  BY <1>3 DEF Shifted, a
<1>5. a >= raw + 8 /\ a <= raw + al - 8
  BY <1>1, <1>2
<1> QED
  BY <1>1, <1>2, <1>4, <1>5

-----------------------------------------------------------------------------
(* The invariant *)

\* The block pointer of a held pointer and its block, by what posix_memalign
\* noted down: whether unshift_user_off finds it is what has to be shown.
Base(p) == IF live[p].back = 0 THEN p ELSE live[p].back
Block(p) == Base(p) - HDR_SIZE

RawBlock(t) == moving[t].raw - HDR_SIZE
NewBlock(t) == moving[t].new - HDR_SIZE

\* Every held pointer lies in its block, and behind the block's own pointer
\* only as a multiple of sixteen.
Placed ==
  \A p \in DOMAIN live :
    /\ Block(p) \in Used /\ p >= Base(p) /\ p < Block(p) + hdr[Block(p)]
    /\ p + live[p].size <= Block(p) + hdr[Block(p)]
    /\ p % live[p].al = 0
    /\ live[p].back # 0 => p % 16 = 0 /\ p > Base(p)

\* So do the two blocks of a move.
MovesPlaced ==
  \A t \in Movers :
    /\ RawBlock(t) \in Used /\ NewBlock(t) \in Used /\ moving[t].raw # moving[t].new
    /\ moving[t].new + moving[t].size <= NewBlock(t) + hdr[NewBlock(t)]

\* No block is held twice.
HeldApart ==
  /\ \A p, q \in DOMAIN live : Block(p) = Block(q) => p = q
  /\ \A p \in DOMAIN live, t \in Movers : Block(p) # RawBlock(t) /\ Block(p) # NewBlock(t)
  /\ \A t, u \in Movers : t # u =>
       /\ RawBlock(t) # RawBlock(u) /\ NewBlock(t) # NewBlock(u)
       /\ RawBlock(t) # NewBlock(u) /\ NewBlock(t) # RawBlock(u)

\* No block in use is held by nobody.
Owned ==
  \A b \in Used : \/ \E p \in DOMAIN live : Block(p) = b
                  \/ \E t \in Movers : b = RawBlock(t) \/ b = NewBlock(t)

\* The two halves of TypeOK: the allocator's own words, and the guest's view.
Words ==
  /\ \A b \in Blocks : b \in Nat /\ hdr[b] \in Nat
  /\ Free \subseteq Blocks
  /\ head \in Free \cup {0} /\ \A b \in Free : next[b] \in Free \cup {0}
View ==
  /\ \A p \in DOMAIN live :
       p \in Nat /\ live[p] \in [size : Nat, al : Nat, shift : Nat, back : Nat]
  /\ moving \in [Threads -> [raw : Nat, new : Nat, size : Nat, shift : Nat]]
  /\ wrote \in [at : Nat, len : Nat]

Ordered == Words /\ Tiled /\ Linked /\ Coalesced

IInv == Ordered /\ View /\ Placed /\ MovesPlaced /\ HeldApart /\ Owned /\ WritesInside

-----------------------------------------------------------------------------
(* Carving and returning blocks *)

\* What do_alloc does to the words: the block found, taken whole.
LEMMA TakesWhole ==
  ASSUME Words, NEW prev \in Free \cup {0}, NEW need \in Nat, NEW cur, cur = Link(prev),
         do_alloc(prev, need), ~(hdr[cur] >= (need + MIN_BLOCK) % Word)
  PROVE  /\ Blocks' = Blocks /\ \A b \in Blocks : hdr'[b] = hdr[b]
         /\ Free' = Free \ {cur}
         /\ \A b \in Free \ {cur} : next'[b] = IF b = prev THEN next[cur] ELSE next[b]
         /\ head' = IF prev = 0 THEN next[cur] ELSE head
<1>1. hdr' = [b \in Blocks |-> hdr[b]]
  BY DEF do_alloc
<1>2. next' = [b \in Free \ {cur} |-> IF b = prev THEN next[cur] ELSE next[b]]
  BY DEF do_alloc
<1>3. head' = IF prev = 0 THEN next[cur] ELSE head
  BY DEF do_alloc
<1> QED
  BY <1>1, <1>2, <1>3 DEF Blocks, Free

\* And split.
LEMMA TakesPart ==
  ASSUME Words, NEW prev \in Free \cup {0}, NEW need \in Nat, NEW cur, cur = Link(prev),
         cur \in Free, NEW split, split = cur + need, split \notin Blocks,
         do_alloc(prev, need), hdr[cur] >= (need + MIN_BLOCK) % Word
  PROVE  /\ Blocks' = Blocks \cup {split}
         /\ hdr'[split] = hdr[cur] - need /\ hdr'[cur] = need
         /\ \A b \in Blocks \ {cur} : hdr'[b] = hdr[b]
         /\ Free' = (Free \ {cur}) \cup {split}
         /\ next'[split] = next[cur]
         /\ \A b \in Free \ {cur} : next'[b] = IF b = prev THEN split ELSE next[b]
         /\ head' = IF prev = 0 THEN split ELSE head
<1>1. hdr' = [b \in Blocks \cup {split} |->
               IF b \in {split} THEN hdr[cur] - need
               ELSE IF b = cur THEN need ELSE hdr[b]]
  BY DEF do_alloc
<1>2. next' = [b \in (Free \ {cur}) \cup {split} |->
                IF b \in {split} THEN next[cur] ELSE IF b = prev THEN split ELSE next[b]]
  BY DEF do_alloc
<1>3. head' = IF prev = 0 THEN split ELSE head
  BY DEF do_alloc
<1>4. cur \in Blocks /\ Free \subseteq Blocks
  BY DEF Words
<1> QED
  BY <1>1, <1>2, <1>3, <1>4 DEF Blocks, Free

\* What Ordered says, conjunct by conjunct.
LEMMA Laid ==
  ASSUME Ordered
  PROVE  /\ \A b \in Blocks : b \in Nat /\ hdr[b] \in Nat
         /\ Free \subseteq Blocks /\ head \in Free \cup {0} /\ head \in Nat
         /\ \A b \in Free : next[b] \in Free \cup {0} /\ next[b] \in Nat
         /\ \A b \in Free : b \in Nat /\ b > 0
         /\ \A b \in Blocks : b % 16 = 0 /\ hdr[b] % 16 = 0
         /\ \A b \in Blocks : hdr[b] >= 32 /\ b >= alloc_lo /\ b + hdr[b] <= alloc_hi
         /\ \A b \in Blocks : b + hdr[b] = alloc_hi \/ b + hdr[b] \in Blocks
         /\ \A b, c \in Blocks : b < c => b + hdr[b] <= c
         /\ Blocks # {} => alloc_lo \in Blocks
         /\ \A b \in Free : next[b] # 0 => b < next[b]
         /\ \A b, c \in Free : b < c => next[b] # 0 /\ next[b] <= c
         /\ \A c \in Free : head # 0 /\ head <= c
         /\ \A b \in Free : b + hdr[b] \notin Free
<1>1. \A b \in Blocks : b \in Nat /\ hdr[b] \in Nat
  BY DEF Ordered, Words
<1>2. /\ Free \subseteq Blocks /\ head \in Free \cup {0}
      /\ \A b \in Free : next[b] \in Free \cup {0}
      /\ \A b \in Free : b \in Nat /\ b > 0
  BY DEF Ordered, Words, Linked
<1>3. head \in Nat /\ \A b \in Free : next[b] \in Nat
  <2>1. ASSUME NEW b \in Free  PROVE next[b] \in Nat
    <3>1. next[b] \in Free \cup {0}
      BY <1>2
    <3> QED  BY <3>1, <1>2
  <2> QED  BY <2>1, <1>2
<1>4. /\ \A b \in Blocks : b % 16 = 0 /\ hdr[b] % 16 = 0
      /\ \A b \in Blocks : hdr[b] >= 32 /\ b >= alloc_lo /\ b + hdr[b] <= alloc_hi
      /\ \A b \in Blocks : b + hdr[b] = alloc_hi \/ b + hdr[b] \in Blocks
      /\ \A b, c \in Blocks : b < c => b + hdr[b] <= c
      /\ Blocks # {} => alloc_lo \in Blocks
  BY DEF Ordered, Tiled, ALIGN, MIN_BLOCK
<1>5. 0 \notin Free
  BY <1>2
<1>6. \A b, c \in Free : b < c => next[b] # 0 /\ next[b] <= c
  BY <1>5 DEF Ordered, Linked, Link
<1>7. \A c \in Free : head # 0 /\ head <= c
  BY <1>2 DEF Ordered, Linked, Link
<1>8. \A b \in Free : next[b] # 0 => b < next[b]
  BY DEF Ordered, Linked
<1>9. \A b \in Free : b + hdr[b] \notin Free
  BY DEF Ordered, Coalesced
<1> QED
  BY <1>1, <1>2, <1>3, <1>4, <1>6, <1>7, <1>8, <1>9

\* The block first fit stops at: the first free one above prev.
LEMMA Found ==
  ASSUME Ordered, NEW prev \in Free \cup {0}, NEW cur, cur = Link(prev), cur # 0
  PROVE  /\ cur \in Free /\ cur \in Blocks /\ cur \in Nat /\ prev < cur
         /\ 0 \notin Free
         /\ \A c \in Free : prev < c => cur <= c
         /\ \A c \in Free : c < cur => c <= prev
<1>1. cur \in Free
  BY DEF Ordered, Words, Link
<1>2. \A c \in Free : c \in Nat /\ c > 0 /\ c \in Blocks
  BY DEF Ordered, Words, Linked
<1>3. 0 \notin Free
  BY <1>2
<1>4. prev < cur
  <2>1. CASE prev = 0
    BY <2>1, <1>1, <1>2
  <2>2. CASE prev # 0
    <3>1. prev \in Free /\ cur = next[prev]
      BY <2>2 DEF Link
    <3> QED  BY <3>1 DEF Ordered, Linked
  <2> QED  BY <2>1, <2>2
<1>5. \A c \in Free : prev < c => cur <= c
  BY DEF Ordered, Linked
<1> QED
  BY <1>1, <1>2, <1>3, <1>4, <1>5

\* do_alloc takes one free block out of the list, splits it inside its own
\* bounds and touches no other.
LEMMA Carves ==
  ASSUME Ordered, NEW prev \in Free \cup {0}, NEW need \in Nat, NEW cur, cur = Link(prev),
         need >= MIN_BLOCK, need % 16 = 0, FirstFit(prev, need), do_alloc(prev, need)
  PROVE  /\ Ordered'
         /\ cur \in Nat /\ cur % 16 = 0 /\ cur \notin Used /\ cur >= alloc_lo
         /\ Used' = Used \cup {cur}
         /\ hdr'[cur] \in Nat /\ hdr'[cur] >= need /\ cur + hdr'[cur] <= alloc_hi
         /\ \A b \in Used : hdr'[b] = hdr[b]
<1>1. cur # 0 /\ hdr[cur] >= need
  BY DEF FirstFit
<1>2. /\ cur \in Free /\ cur \in Blocks /\ cur \in Nat /\ prev < cur
      /\ 0 \notin Free
      /\ \A c \in Free : prev < c => cur <= c
      /\ \A c \in Free : c < cur => c <= prev
  BY <1>1, Found
<1>3. \A b \in Blocks : b \in Nat /\ hdr[b] \in Nat
  BY Laid
<1>4. /\ Free \subseteq Blocks /\ head \in Free \cup {0}
      /\ \A b \in Free : next[b] \in Free \cup {0}
      /\ \A b \in Free : b \in Nat /\ b > 0
  BY Laid
<1>n. prev \in Nat /\ head \in Nat /\ \A b \in Free : next[b] \in Nat
  BY <1>4, Laid
<1>5. /\ \A b \in Blocks : b % 16 = 0 /\ hdr[b] % 16 = 0
      /\ \A b \in Blocks : hdr[b] >= 32 /\ b >= alloc_lo /\ b + hdr[b] <= alloc_hi
      /\ \A b \in Blocks : b + hdr[b] = alloc_hi \/ b + hdr[b] \in Blocks
      /\ \A b, c \in Blocks : b < c => b + hdr[b] <= c
      /\ alloc_lo \in Blocks
  BY <1>2, Laid
<1>6. /\ \A b \in Free : next[b] # 0 => b < next[b]
      /\ \A b, c \in Free : b < c => next[b] # 0 /\ next[b] <= c
      /\ \A c \in Free : head # 0 /\ head <= c
  BY Laid
<1>7. \A b \in Free : b + hdr[b] \notin Free
  BY Laid
<1>8. /\ Word \in Nat /\ alloc_lo \in Nat /\ alloc_hi \in Nat /\ alloc_lo >= 16
      /\ 2 * alloc_hi < Word
  BY ArenaBounds
<1>9. (need + MIN_BLOCK) % Word = need + 32
  <2>1. need + 32 \in Nat /\ need + 32 < Word
    <3>1. cur + hdr[cur] <= alloc_hi /\ cur >= 16 /\ hdr[cur] >= 32 /\ hdr[cur] \in Nat
      BY <1>2, <1>3, <1>5, <1>8
    <3> QED  BY <3>1, <1>1, <1>2, <1>8
  <2> QED  BY <2>1, <1>8, Small DEF MIN_BLOCK
<1>10. CASE ~(hdr[cur] >= need + 32)
  <2>1. /\ Blocks' = Blocks /\ \A b \in Blocks : hdr'[b] = hdr[b]
        /\ Free' = Free \ {cur}
        /\ \A b \in Free \ {cur} : next'[b] = IF b = prev THEN next[cur] ELSE next[b]
        /\ head' = IF prev = 0 THEN next[cur] ELSE head
    BY <1>9, <1>10, TakesWhole DEF Ordered
  <2>2. Words'
    <3>1. head' \in Free' \cup {0}
      BY <2>1, <1>2, <1>4, <1>6
    <3>2. \A b \in Free' : next'[b] \in Free' \cup {0}
      BY <2>1, <1>2, <1>4, <1>6
    <3> QED  BY <3>1, <3>2, <2>1, <1>3, <1>4 DEF Words
  <2>3. Tiled'
    BY <2>1, <1>5 DEF Tiled, ALIGN, MIN_BLOCK
  <2>4. Linked'
    <3>a. /\ next[cur] # 0 => cur < next[cur] /\ next[cur] \in Nat
          /\ \A c \in Free \ {cur} : prev < c => next[cur] # 0 /\ next[cur] <= c
      <4>1. \A c \in Free \ {cur} : prev < c => cur < c
        BY <1>2, <1>4
      <4> QED  BY <4>1, <1>2, <1>4, <1>6, <1>n
    <3>1. \A b \in Free' : b > 0 /\ (next'[b] # 0 => b < next'[b])
      <4> SUFFICES ASSUME NEW b \in Free \ {cur}
                   PROVE  b > 0 /\ (next'[b] # 0 => b < next'[b])
        BY <2>1
      <4>1. CASE b = prev
        BY <4>1, <2>1, <3>a, <1>2, <1>4
      <4>2. CASE b # prev
        BY <4>2, <2>1, <1>4, <1>6
      <4> QED  BY <4>1, <4>2
    <3>2. \A b, c \in Free' : b < c => next'[b] # 0 /\ next'[b] <= c
      BY <2>1, <1>2, <1>4, <1>6
    <3>3. \A c \in Free' : head' # 0 /\ head' <= c
      <4>1. CASE prev = 0
        BY <4>1, <2>1, <3>a, <1>4
      <4>2. CASE prev # 0
        BY <4>2, <2>1, <1>6
      <4> QED  BY <4>1, <4>2
    <3> QED  BY <3>1, <3>2, <3>3 DEF Linked, Link
  <2>5. Coalesced'
    BY <2>1, <1>4, <1>7 DEF Coalesced
  <2>6. Used' = Used \cup {cur} /\ cur \notin Used
    BY <2>1, <1>2 DEF Used
  <2>7. \A b \in Used : hdr'[b] = hdr[b]
    BY <2>1 DEF Used
  <2>8. hdr'[cur] = hdr[cur]
    BY <2>1, <1>2
  <2> QED  BY <2>2, <2>3, <2>4, <2>5, <2>6, <2>7, <2>8, <1>1, <1>2, <1>3, <1>5 DEF Ordered
<1>11. CASE hdr[cur] >= need + 32
  <2> DEFINE split == cur + need
  <2>1. /\ split \in Nat /\ split > cur /\ split < cur + hdr[cur] /\ split \notin Blocks
        /\ split + (hdr[cur] - need) = cur + hdr[cur] /\ hdr[cur] - need >= 32
        /\ hdr[cur] - need \in Nat /\ hdr[cur] \in Nat
    BY <1>1, <1>2, <1>3, <1>5, <1>11 DEF MIN_BLOCK
  <2>2. split % 16 = 0 /\ (hdr[cur] - need) % 16 = 0
    <3>1. cur % 16 = 0 /\ hdr[cur] % 16 = 0 /\ hdr[cur] \in Int /\ cur \in Int /\ need \in Int
      BY <1>2, <1>3, <1>5
    <3> QED  BY <3>1, Sums
  <2>3. /\ Blocks' = Blocks \cup {split}
        /\ hdr'[split] = hdr[cur] - need /\ hdr'[cur] = need
        /\ \A b \in Blocks \ {cur} : hdr'[b] = hdr[b]
        /\ Free' = (Free \ {cur}) \cup {split}
        /\ next'[split] = next[cur]
        /\ \A b \in Free \ {cur} : next'[b] = IF b = prev THEN split ELSE next[b]
        /\ head' = IF prev = 0 THEN split ELSE head
    BY <1>2, <1>9, <1>11, <2>1, TakesPart DEF Ordered
  <2>d. need = split - cur
    BY <1>2
  <2> HIDE DEF split
  <2>4. Words'
    <3>1. head' \in Free' \cup {0}
      BY <2>3, <1>2, <1>4, <1>6
    <3>2. \A b \in Free' : next'[b] \in Free' \cup {0}
      BY <2>3, <1>2, <1>4, <1>6
    <3>3. \A b \in Blocks' : b \in Nat /\ hdr'[b] \in Nat
      BY <2>1, <2>3, <1>3
    <3> QED  BY <3>1, <3>2, <3>3, <2>3, <1>4 DEF Words
  <2>5. Tiled'
    <3>1. \A b \in Blocks' : b % 16 = 0 /\ hdr'[b] % 16 = 0
      BY <2>2, <2>3, <1>5
    <3>2. \A b \in Blocks' : hdr'[b] >= 32 /\ b >= alloc_lo /\ b + hdr'[b] <= alloc_hi
      BY <2>1, <2>3, <2>d, <1>2, <1>3, <1>5, <1>8 DEF MIN_BLOCK
    <3>3. \A b \in Blocks' : b + hdr'[b] = alloc_hi \/ b + hdr'[b] \in Blocks'
      BY <2>1, <2>3, <2>d, <1>2, <1>3, <1>5
    <3>4. \A b, c \in Blocks' : b < c => b + hdr'[b] <= c
      BY <2>1, <2>3, <2>d, <1>2, <1>3, <1>5
    <3> QED  BY <3>1, <3>2, <3>3, <3>4, <2>3, <1>5 DEF Tiled, ALIGN, MIN_BLOCK
  <2>6. Linked'
    <3>0. \A c \in Free : cur < c => split < c
      BY <2>1, <1>2, <1>3, <1>4, <1>5
    <3>a. /\ next[cur] # 0 => split < next[cur] /\ next[cur] \in Nat
          /\ \A c \in Free \ {cur} : prev < c => split < c /\ next[cur] # 0 /\ next[cur] <= c
          /\ prev < split
      <4>1. \A c \in Free \ {cur} : prev < c => cur < c
        BY <1>2, <1>4
      <4>2. next[cur] # 0 => next[cur] \in Free /\ cur < next[cur]
        BY <1>2, <1>4, <1>6
      <4>3. \A c \in Free \ {cur} : prev < c => split < c /\ next[cur] # 0 /\ next[cur] <= c
        BY <4>1, <3>0, <1>2, <1>6
      <4> QED  BY <4>2, <4>3, <2>1, <3>0, <1>2, <1>n
    <3>1. \A b \in Free' : b > 0 /\ (next'[b] # 0 => b < next'[b])
      <4> SUFFICES ASSUME NEW b \in Free'
                   PROVE  b > 0 /\ (next'[b] # 0 => b < next'[b])
        OBVIOUS
      <4>1. CASE b = split
        BY <4>1, <2>1, <2>3, <3>a, <1>2
      <4>2. CASE b # split /\ b = prev
        BY <4>2, <2>3, <3>a, <1>2, <1>4
      <4>3. CASE b # split /\ b # prev
        BY <4>3, <2>3, <1>4, <1>6
      <4> QED  BY <4>1, <4>2, <4>3
    <3>2. \A b, c \in Free' : b < c => next'[b] # 0 /\ next'[b] <= c
      <4> SUFFICES ASSUME NEW b \in Free', NEW c \in Free', b < c
                   PROVE  next'[b] # 0 /\ next'[b] <= c
        OBVIOUS
      <4>1. CASE b = split
        <5>1. c \in Free \ {cur} /\ c \in Nat /\ prev < c
          <6>1. c # split /\ c \in Free \ {cur}
            BY <4>1, <2>1, <2>3
          <6>2. c \in Nat /\ split < c /\ prev < split
            BY <4>1, <6>1, <1>4, <3>a
          <6> QED  BY <6>1, <6>2, <2>1, <1>n
        <5> QED  BY <4>1, <5>1, <2>3, <3>a
      <4>2. CASE b # split /\ b = prev
        <5>1. next'[b] = split /\ split # 0
          BY <4>2, <2>1, <2>3, <1>2
        <5>2. c = split \/ split < c
          BY <4>2, <2>3, <3>a
        <5>3. c \in Nat
          BY <2>1, <2>3, <1>4
        <5> QED  BY <5>1, <5>2, <5>3, <2>1
      <4>3. CASE b # split /\ b # prev /\ c = split
        <5>1. b \in Free /\ b # cur /\ b \in Nat /\ next'[b] = next[b]
          BY <4>3, <2>3, <1>4
        <5>2. b < cur
          BY <4>3, <5>1, <2>1, <3>0, <1>2
        <5>3. next[b] # 0 /\ next[b] <= cur /\ next[b] \in Nat
          BY <5>1, <5>2, <1>2, <1>6, <1>n
        <5> QED  BY <4>3, <5>1, <5>3, <2>1, <1>2
      <4>4. CASE b # split /\ b # prev /\ c # split
        BY <4>4, <2>3, <1>4, <1>6
      <4> QED  BY <4>1, <4>2, <4>3, <4>4
    <3>3. \A c \in Free' : head' # 0 /\ head' <= c
      BY <2>1, <2>3, <3>0, <1>2, <1>4, <1>6
    <3> QED  BY <3>1, <3>2, <3>3 DEF Linked, Link
  <2>7. Coalesced'
    <3>1. \A b \in Free \ {cur} : b + hdr[b] # split
      BY <2>1, <1>2, <1>3, <1>4, <1>5
    <3>2. \A b \in Free' : b + hdr'[b] \notin Free'
      BY <2>1, <2>3, <3>1, <1>2, <1>3, <1>4, <1>7
    <3> QED  BY <3>2 DEF Coalesced
  <2>8. Used' = Used \cup {cur} /\ cur \notin Used
    BY <2>1, <2>3, <1>2, <1>4 DEF Used
  <2>9. \A b \in Used : hdr'[b] = hdr[b]
    BY <2>3, <1>2 DEF Used
  <2>10. hdr'[cur] = need /\ cur + need <= alloc_hi
    BY <2>1, <2>3, <2>d, <1>2, <1>3, <1>5, <1>8
  <2> QED  BY <2>4, <2>5, <2>6, <2>7, <2>8, <2>9, <2>10, <1>2, <1>5 DEF Ordered
<1> QED
  BY <1>10, <1>11

\* Where the insertion walk stops: no free block lies between prev and cur.
LEMMA Walked ==
  ASSUME Ordered, NEW bo \in Used, NEW prev \in Free \cup {0}, NEW cur, cur = Link(prev),
         InsertAfter(prev, bo)
  PROVE  /\ prev \in Nat /\ prev < bo /\ cur \in Nat /\ cur \in Free \cup {0}
         /\ cur # 0 => bo < cur /\ bo + hdr[bo] <= cur
         /\ prev # 0 => prev \in Free /\ prev + hdr[prev] <= bo
         /\ \A c \in Free : c < bo => c <= prev
         /\ \A c \in Free : c > bo => cur # 0 /\ cur <= c
<1>1. bo \in Blocks /\ bo \notin Free /\ bo \in Nat /\ bo > 0
  BY Laid, ArenaBounds DEF Used
<1>2. /\ \A b, c \in Blocks : b < c => b + hdr[b] <= c
      /\ Free \subseteq Blocks /\ \A b \in Free : b \in Nat /\ b > 0
  BY Laid
<1>3. prev \in Nat /\ prev < bo
  BY <1>1, <1>2 DEF InsertAfter
<1>4. cur \in Free \cup {0} /\ cur \in Nat
  BY Laid DEF Link
<1>5. cur # 0 => bo < cur
  BY <1>4 DEF InsertAfter
<1>6. \A c \in Free : prev < c => cur # 0 /\ cur <= c
  BY DEF Ordered, Linked
<1>7. \A c \in Free : c < bo => c <= prev
  BY <1>1, <1>2, <1>3, <1>4, <1>5, <1>6
<1>8. \A c \in Free : c > bo => cur # 0 /\ cur <= c
  BY <1>1, <1>2, <1>3, <1>6
<1>9. cur # 0 => bo + hdr[bo] <= cur
  BY <1>1, <1>2, <1>4, <1>5
<1>10. prev # 0 => prev \in Free /\ prev + hdr[prev] <= bo
  BY <1>1, <1>2, <1>3
<1> QED
  BY <1>3, <1>4, <1>5, <1>7, <1>8, <1>9, <1>10

\* What Insert does: the blocks gone are those inside the block that starts at
\* start and is len long, and succ is the free block after it.
Joined(prev, bo, start, len, succ, gone) ==
  /\ \/ start = bo /\ (prev # 0 => prev + hdr[prev] # bo)
     \/ start = prev /\ prev # 0 /\ bo \in gone
  /\ start \notin gone /\ gone \ {bo} \subseteq Free
  /\ bo \in gone \/ bo = start
  /\ len >= 32 /\ len % 16 = 0 /\ start + len <= alloc_hi
  /\ start + len = alloc_hi \/ start + len \in Blocks \ gone
  /\ start + len \notin Free
  /\ \A g \in gone : start < g /\ g < start + len
  /\ \A c \in Blocks \ gone : c <= start \/ c >= start + len
  /\ succ # 0 => succ \in Free \ gone /\ succ >= start + len
  /\ \A c \in Free \ gone : c > start => succ # 0 /\ succ <= c
  /\ Blocks' = Blocks \ gone
  /\ hdr'[start] = len /\ \A b \in Blocks \ (gone \cup {start}) : hdr'[b] = hdr[b]
  /\ Free' = (Free \cup {start}) \ gone
  /\ next'[start] = succ
  /\ \A b \in Free \ (gone \cup {start}) : next'[b] = IF b = prev THEN start ELSE next[b]
  /\ head' = IF prev = 0 THEN start ELSE head

LEMMA Joins ==
  ASSUME Ordered, NEW bo \in Used, NEW prev \in Free \cup {0},
         InsertAfter(prev, bo), Insert(prev, bo, hdr[bo])
  PROVE  \E start \in Blocks, len \in Nat, succ \in Free \cup {0}, gone \in SUBSET Blocks :
           Joined(prev, bo, start, len, succ, gone)
<1> DEFINE cur == Link(prev)
           joinsPrev == prev # 0 /\ prev + hdr[prev] = bo
           start == IF joinsPrev THEN prev ELSE bo
           len1 == IF joinsPrev THEN hdr[prev] + hdr[bo] ELSE hdr[bo]
           joinsCur == cur # 0 /\ start + len1 = cur
           gone == (IF joinsPrev THEN {bo} ELSE {}) \cup (IF joinsCur THEN {cur} ELSE {})
           len == IF joinsCur THEN len1 + hdr[cur] ELSE len1
           succ == IF joinsCur THEN next[cur] ELSE cur
<1>1. /\ hdr' = [b \in (Blocks \cup {start}) \ gone |-> IF b # start THEN hdr[b] ELSE len]
      /\ next' = [b \in (Free \cup {start}) \ gone |->
                    IF b = start THEN succ ELSE IF b = prev THEN start ELSE next[b]]
      /\ head' = IF prev = 0 THEN start ELSE head
  BY DEF Insert
<1>2. /\ bo \in Blocks /\ bo \notin Free /\ bo \in Nat /\ bo > 0
      /\ \A b \in Blocks : b \in Nat /\ hdr[b] \in Nat
      /\ Free \subseteq Blocks /\ 0 \notin Free
      /\ \A b \in Blocks : hdr[b] >= 32 /\ b + hdr[b] <= alloc_hi
      /\ \A b \in Blocks : b + hdr[b] = alloc_hi \/ b + hdr[b] \in Blocks
      /\ \A b, c \in Blocks : b < c => b + hdr[b] <= c
  BY Laid, ArenaBounds DEF Used
<1>3. \A b \in Blocks : b % 16 = 0 /\ hdr[b] % 16 = 0
  BY Laid
<1>4. /\ \A b \in Free : next[b] \in Free \cup {0} /\ next[b] \in Nat
      /\ \A b \in Free : next[b] # 0 => b < next[b]
      /\ \A b, c \in Free : b < c => next[b] # 0 /\ next[b] <= c
      /\ \A b \in Free : b + hdr[b] \notin Free
  BY Laid
<1>5. /\ prev \in Nat /\ prev < bo /\ cur \in Nat /\ cur \in Free \cup {0}
      /\ cur # 0 => bo < cur /\ bo + hdr[bo] <= cur
      /\ prev # 0 => prev \in Free /\ prev + hdr[prev] <= bo
      /\ \A c \in Free : c < bo => c <= prev
      /\ \A c \in Free : c > bo => cur # 0 /\ cur <= c
  BY Walked
<1> HIDE DEF cur
<1>6. /\ start \in Blocks /\ start \in Nat /\ start <= bo /\ start + len1 = bo + hdr[bo]
      /\ len1 \in Nat /\ len1 >= 32
      /\ \A c \in Blocks : c < bo => c <= start
      /\ joinsPrev => start < bo
      /\ ~joinsPrev => start = bo
  BY <1>2, <1>5
<1>7. len1 % 16 = 0
  <2>1. CASE joinsPrev
    <3>1. prev \in Blocks /\ hdr[prev] % 16 = 0 /\ hdr[bo] % 16 = 0 /\ hdr[prev] \in Int /\ hdr[bo] \in Int
      BY <2>1, <1>2, <1>3, <1>5
    <3> QED  BY <2>1, <3>1, Sums
  <2>2. CASE ~joinsPrev
    BY <2>2, <1>2, <1>3
  <2> QED  BY <2>1, <2>2
<1>8. /\ (start = bo /\ (prev # 0 => prev + hdr[prev] # bo)) \/ (start = prev /\ prev # 0 /\ bo \in gone)
      /\ bo \in gone \/ bo = start
  BY <1>2, <1>5
<1>9. start \notin gone /\ gone \in SUBSET Blocks /\ gone \ {bo} \subseteq Free
  BY <1>2, <1>5, <1>6
<1>10. /\ len \in Nat /\ len >= 32 /\ len % 16 = 0 /\ start + len <= alloc_hi
       /\ start + len = alloc_hi \/ start + len \in Blocks \ gone
       /\ start + len \notin Free
       /\ \A g \in gone : start < g /\ g < start + len
       /\ \A c \in Blocks \ gone : c <= start \/ c >= start + len
       /\ succ \in Free \cup {0}
       /\ succ # 0 => succ \in Free \ gone /\ succ >= start + len
       /\ \A c \in Free \ gone : c > start => succ # 0 /\ succ <= c
  <2>0. alloc_hi \in Nat
    BY ArenaBounds
  <2>1. CASE joinsCur
    <3>1. /\ cur \in Free /\ cur \in Blocks /\ cur > bo /\ start + len1 = cur
          /\ len = len1 + hdr[cur] /\ succ = next[cur] /\ gone = (IF joinsPrev THEN {bo} ELSE {}) \cup {cur}
      BY <2>1, <1>2, <1>5
    <3> HIDE DEF joinsPrev, joinsCur, start, len1, len, succ
    <3>2. /\ hdr[cur] \in Nat /\ hdr[cur] >= 32 /\ hdr[cur] % 16 = 0
          /\ start + len = cur + hdr[cur]
      BY <3>1, <1>2, <1>3, <1>6
    <3>3. len \in Nat /\ len >= 32 /\ len % 16 = 0
      BY <3>1, <3>2, <1>6, <1>7, Sums
    <3>4. /\ start + len <= alloc_hi /\ start + len \notin Free
          /\ start + len = alloc_hi \/ start + len \in Blocks
      BY <3>1, <3>2, <1>2, <1>4
    <3>5. start + len \notin gone
      BY <3>1, <3>2, <1>2, <1>5
    <3>6. \A g \in gone : start < g /\ g < start + len
      BY <3>1, <3>2, <1>2, <1>5, <1>6
    <3>7. ASSUME NEW c \in Blocks \ gone, c > start  PROVE c >= start + len
      <4>1. c \in Nat /\ c # cur /\ c # bo
        BY <3>1, <3>7, <1>2, <1>6
      <4>2. c > bo
        BY <4>1, <3>7, <1>2, <1>6
      <4>3. c >= cur
        BY <4>1, <4>2, <3>1, <1>2, <1>6
      <4> QED  BY <4>1, <4>3, <3>1, <3>2, <1>2
    <3>8. succ \in Free \cup {0} /\ (succ # 0 => succ \in Free \ gone /\ succ >= start + len)
      <4>1. succ \in Free \cup {0}
        BY <3>1, <1>4
      <4>2. succ # 0 => succ \in Free /\ succ \in Nat /\ succ > cur
        BY <4>1, <3>1, <1>4
      <4>3. succ # 0 => succ # bo /\ succ # cur /\ succ >= cur + hdr[cur]
        BY <4>2, <3>1, <1>2, <1>5
      <4> QED  BY <4>1, <4>2, <4>3, <3>1, <3>2
    <3>9. ASSUME NEW c \in Free \ gone, c > start  PROVE succ # 0 /\ succ <= c
      <4>1. c \in Blocks /\ c >= start + len /\ c \in Nat
        BY <3>7, <3>9, <1>2
      <4>2. c > cur
        BY <4>1, <3>1, <3>2, <1>2
      <4> QED  BY <4>2, <3>1, <1>4
    <3>10. \A c \in Blocks \ gone : c <= start \/ c >= start + len
      BY <3>7, <1>2, <1>6
    <3> QED  BY <3>3, <3>4, <3>5, <3>6, <3>8, <3>9, <3>10
  <2>2. CASE ~joinsCur
    <3>1. len = len1 /\ succ = cur /\ gone = (IF joinsPrev THEN {bo} ELSE {})
      BY <2>2
    <3>2. cur # 0 => cur # bo + hdr[bo]
      BY <2>2, <1>6
    <3> HIDE DEF joinsPrev, joinsCur, start, len1, len, succ
    <3>3. len \in Nat /\ len >= 32 /\ len % 16 = 0 /\ start + len = bo + hdr[bo]
      BY <3>1, <1>6, <1>7
    <3>4. /\ start + len <= alloc_hi
          /\ start + len = alloc_hi \/ start + len \in Blocks
      BY <3>3, <1>2
    <3>5. start + len \notin gone /\ \A g \in gone : start < g /\ g < start + len
      BY <3>1, <3>3, <1>2, <1>6
    <3>6. start + len \notin Free
      <4> SUFFICES ASSUME start + len \in Free  PROVE FALSE
        OBVIOUS
      <4>1. cur # 0 /\ cur <= bo + hdr[bo] /\ bo + hdr[bo] <= cur
        BY <3>3, <1>2, <1>5
      <4> QED  BY <4>1, <3>2, <1>2, <1>5
    <3>7. ASSUME NEW c \in Blocks \ gone, c > start  PROVE c >= start + len
      BY <3>1, <3>3, <3>7, <1>2, <1>6
    <3>8. succ \in Free \cup {0} /\ (succ # 0 => succ \in Free \ gone /\ succ >= start + len)
      BY <3>1, <3>3, <1>2, <1>5
    <3>9. ASSUME NEW c \in Free \ gone, c > start  PROVE succ # 0 /\ succ <= c
      <4>1. c \in Blocks /\ c >= bo + hdr[bo] /\ c \in Nat
        BY <3>3, <3>7, <3>9, <1>2
      <4> QED  BY <4>1, <3>1, <1>2, <1>5
    <3>10. \A c \in Blocks \ gone : c <= start \/ c >= start + len
      BY <3>7, <1>2, <1>6
    <3> QED  BY <3>3, <3>4, <3>5, <3>6, <3>8, <3>9, <3>10
  <2> QED  BY <2>1, <2>2
<1>11. start \in Blocks
  BY <1>6
<1> HIDE DEF joinsPrev, joinsCur, start, len1, len, succ, gone
<1>12. /\ Blocks' = Blocks \ gone
       /\ hdr'[start] = len /\ \A b \in Blocks \ (gone \cup {start}) : hdr'[b] = hdr[b]
       /\ Free' = (Free \cup {start}) \ gone
       /\ next'[start] = succ
       /\ \A b \in Free \ (gone \cup {start}) : next'[b] = IF b = prev THEN start ELSE next[b]
       /\ head' = IF prev = 0 THEN start ELSE head
  BY <1>1, <1>9, <1>11 DEF Blocks, Free
<1>13. Joined(prev, bo, start, len, succ, gone)
  BY <1>8, <1>9, <1>10, <1>12 DEF Joined
<1> QED
  BY <1>9, <1>10, <1>11, <1>13

\* yos_free puts a block in use back, merged with its free neighbours, and
\* touches no other block in use.
LEMMA Returns ==
  ASSUME Ordered, NEW bo \in Used, FreeBlock(bo, hdr[bo])
  PROVE  /\ Ordered' /\ Used' = Used \ {bo}
         /\ \A b \in Used \ {bo} : hdr'[b] = hdr[b]
<1>1. /\ \A b \in Blocks : b \in Nat /\ hdr[b] \in Nat
      /\ Free \subseteq Blocks /\ 0 \notin Free
      /\ \A b \in Blocks : hdr[b] >= 32 /\ b >= alloc_lo /\ b + hdr[b] <= alloc_hi
      /\ \A b \in Blocks : b + hdr[b] = alloc_hi \/ b + hdr[b] \in Blocks
      /\ \A b, c \in Blocks : b < c => b + hdr[b] <= c
      /\ bo \in Blocks /\ bo \notin Free /\ alloc_lo \in Blocks /\ alloc_hi \in Nat
  BY Laid, ArenaBounds DEF Used
<1>2. \A b \in Blocks : b % 16 = 0 /\ hdr[b] % 16 = 0
  BY Laid
<1>3. /\ head \in Free \cup {0} /\ head \in Nat
      /\ \A b \in Free : next[b] \in Free \cup {0} /\ next[b] \in Nat
      /\ \A b \in Free : b \in Nat /\ b > 0
      /\ \A b \in Free : next[b] # 0 => b < next[b]
      /\ \A b, c \in Free : b < c => next[b] # 0 /\ next[b] <= c
      /\ \A c \in Free : head # 0 /\ head <= c
      /\ \A b \in Free : b + hdr[b] \notin Free
  BY Laid
<1>4. ~Dropped(bo, hdr[bo])
  <2>1. (bo + hdr[bo]) % Word = bo + hdr[bo]
    <3>1. bo + hdr[bo] \in Nat /\ bo + hdr[bo] < Word /\ Word \in Nat
      BY <1>1, ArenaBounds
    <3> QED  BY <3>1, Small
  <2>2. ASSUME NEW c \in Free, c <= bo, bo < c + hdr[c]  PROVE FALSE
    BY <2>2, <1>1
  <2> QED  BY <2>1, <2>2, <1>1 DEF Dropped, MIN_BLOCK
<1>5. PICK prev \in Free \cup {0} : InsertAfter(prev, bo) /\ Insert(prev, bo, hdr[bo])
  BY <1>4 DEF FreeBlock
<1>6. /\ prev \in Nat /\ prev < bo
      /\ \A c \in Free : c < bo => c <= prev
      /\ Link(prev) # 0 => bo < Link(prev)
      /\ \A c \in Free : c > bo => Link(prev) # 0 /\ Link(prev) <= c
  BY <1>5, Walked
<1>p. PICK start \in Blocks, len \in Nat, succ \in Free \cup {0}, gone \in SUBSET Blocks :
        Joined(prev, bo, start, len, succ, gone)
  BY <1>5, Joins
<1>7. /\ \/ start = bo /\ (prev # 0 => prev + hdr[prev] # bo)
         \/ start = prev /\ prev # 0 /\ bo \in gone
      /\ start \notin gone /\ gone \ {bo} \subseteq Free
      /\ bo \in gone \/ bo = start
      /\ len >= 32 /\ len % 16 = 0 /\ start + len <= alloc_hi
      /\ start + len = alloc_hi \/ start + len \in Blocks \ gone
      /\ start + len \notin Free
      /\ \A g \in gone : start < g /\ g < start + len
      /\ \A c \in Blocks \ gone : c <= start \/ c >= start + len
      /\ succ # 0 => succ \in Free \ gone /\ succ >= start + len
      /\ \A c \in Free \ gone : c > start => succ # 0 /\ succ <= c
      /\ Blocks' = Blocks \ gone
      /\ hdr'[start] = len /\ \A b \in Blocks \ (gone \cup {start}) : hdr'[b] = hdr[b]
      /\ Free' = (Free \cup {start}) \ gone
      /\ next'[start] = succ
      /\ \A b \in Free \ (gone \cup {start}) : next'[b] = IF b = prev THEN start ELSE next[b]
      /\ head' = IF prev = 0 THEN start ELSE head
  BY <1>p DEF Joined
<1>8. Used' = Used \ {bo} /\ \A b \in Used \ {bo} : hdr'[b] = hdr[b]
  BY <1>1, <1>7 DEF Used
<1>s. start \in Nat /\ start <= bo /\ start > 0 /\ start + len \in Nat
  BY <1>1, <1>3, <1>6, <1>7, ArenaBounds
<1>9. Tiled'
  <2>1. \A b \in Blocks' : b % 16 = 0 /\ hdr'[b] % 16 = 0
    BY <1>2, <1>7
  <2>2. \A b \in Blocks' : hdr'[b] >= 32 /\ b >= alloc_lo /\ b + hdr'[b] <= alloc_hi
    BY <1>1, <1>7
  <2>3. ASSUME NEW b \in Blocks'
        PROVE  b + hdr'[b] = alloc_hi \/ b + hdr'[b] \in Blocks'
    <3>1. CASE b = start
      BY <3>1, <1>7
    <3>2. CASE b # start
      <4>1. b \in Blocks \ gone /\ hdr'[b] = hdr[b] /\ b \in Nat /\ hdr[b] \in Nat /\ hdr[b] >= 32
        BY <3>2, <1>1, <1>7
      <4>2. b + hdr[b] \notin gone
        <5>1. CASE b < start
          <6>1. b + hdr[b] <= start
            BY <5>1, <4>1, <1>1
          <6> QED  BY <6>1, <4>1, <1>7, <1>s
        <5>2. CASE b >= start + len
          BY <5>2, <4>1, <1>7, <1>s
        <5> QED  BY <5>1, <5>2, <4>1, <3>2, <1>7, <1>s
      <4> QED  BY <4>1, <4>2, <1>1, <1>7
    <3> QED  BY <3>1, <3>2
  <2>4. ASSUME NEW b \in Blocks', NEW c \in Blocks', b < c
        PROVE  b + hdr'[b] <= c
    <3>1. b \in Blocks \ gone /\ c \in Blocks \ gone /\ c \in Nat
      BY <1>1, <1>7
    <3>2. CASE b = start
      BY <2>4, <3>1, <3>2, <1>7, <1>s
    <3>3. CASE b # start
      BY <2>4, <3>1, <3>3, <1>1, <1>7
    <3> QED  BY <3>2, <3>3
  <2>5. alloc_lo \in Blocks'
    <3>1. alloc_lo \notin gone
      BY <1>1, <1>7, <1>s, ArenaBounds
    <3> QED  BY <3>1, <1>1, <1>7
  <2> QED  BY <2>1, <2>2, <2>3, <2>4, <2>5 DEF Tiled, ALIGN, MIN_BLOCK
<1>10. Coalesced'
  <2> SUFFICES ASSUME NEW b \in Free'  PROVE b + hdr'[b] \notin Free'
    BY DEF Coalesced
  <2>1. CASE b = start
    BY <2>1, <1>1, <1>7, <1>s
  <2>2. CASE b # start
    <3>1. b \in Free /\ b \in Blocks \ (gone \cup {start}) /\ hdr'[b] = hdr[b] /\ b + hdr[b] \notin Free /\ b \in Nat /\ hdr[b] \in Nat
      BY <2>2, <1>1, <1>3, <1>7
    <3>2. b + hdr[b] # start
      <4>1. CASE start = prev
        BY <4>1, <3>1, <1>1, <1>7
      <4>2. CASE start = bo
        <5> SUFFICES ASSUME b + hdr[b] = bo  PROVE FALSE
          BY <4>2
        <5>1. b < bo /\ b <= prev /\ prev \in Free /\ prev # 0
          BY <3>1, <1>1, <1>3, <1>6
        <5>2. b = prev
          BY <5>1, <3>1, <1>1, <1>6
        <5> QED  BY <5>1, <5>2, <4>2, <1>1, <1>7, <1>6
      <4> QED  BY <4>1, <4>2, <1>7
    <3> QED  BY <3>1, <3>2, <1>7
  <2> QED  BY <2>1, <2>2
<1>11. ASSUME NEW b \in Free \ (gone \cup {start}), b # prev
       PROVE  /\ next'[b] = next[b] /\ b \in Nat /\ b > 0 /\ next[b] \in Nat
              /\ next[b] \in (Free \ gone) \cup {0}
              /\ next[b] # 0 => b < next[b]
              /\ b < bo => next[b] # 0 /\ next[b] < bo
  <2>1. next'[b] = next[b] /\ b \in Nat /\ b > 0 /\ next[b] \in Nat /\ next[b] \in Free \cup {0}
        /\ (next[b] # 0 => b < next[b])
    BY <1>3, <1>7, <1>11
  <2>2. CASE b < bo
    <3>1. b < prev /\ prev \in Free
      BY <2>1, <2>2, <1>6, <1>11
    <3>2. next[b] # 0 /\ next[b] <= prev
      BY <3>1, <1>3
    <3>3. next[b] < bo /\ next[b] \notin gone
      BY <2>1, <3>2, <1>1, <1>6, <1>7, <1>s
    <3> QED  BY <2>1, <3>2, <3>3
  <2>3. CASE ~(b < bo)
    <3>1. b > bo /\ b \in Blocks \ gone
      BY <2>1, <2>3, <1>1, <1>11
    <3>2. b >= start + len
      BY <2>1, <3>1, <1>1, <1>7, <1>s
    <3>3. next[b] # 0 => next[b] \notin gone
      BY <2>1, <3>2, <1>7, <1>s
    <3> QED  BY <2>1, <2>3, <3>3
  <2> QED  BY <2>2, <2>3
<1>12. ASSUME prev # 0, start # prev
       PROVE  prev \in Free \ (gone \cup {start}) /\ next'[prev] = start /\ start = bo
  <2>1. start = bo /\ prev \in Free
    BY <1>7, <1>12
  <2>2. prev \notin gone
    BY <2>1, <1>1, <1>6, <1>7, <1>s
  <2> QED  BY <2>1, <2>2, <1>7, <1>12
<1>13. Words'
  <2>1. \A b \in Blocks' : b \in Nat /\ hdr'[b] \in Nat
    BY <1>1, <1>7
  <2>2. Free' \subseteq Blocks' /\ start \in Free'
    BY <1>1, <1>7
  <2>3. head' \in Free' \cup {0}
    <3>1. CASE prev = 0
      BY <3>1, <2>2, <1>7
    <3>2. CASE prev # 0
      <4>1. head \in Free /\ head <= prev
        BY <3>2, <1>3
      <4>2. head \notin gone
        BY <4>1, <1>1, <1>3, <1>6, <1>7, <1>s
      <4> QED  BY <3>2, <4>1, <4>2, <1>7
    <3> QED  BY <3>1, <3>2
  <2>4. ASSUME NEW b \in Free'  PROVE next'[b] \in Free' \cup {0}
    <3>1. CASE b = start
      BY <3>1, <1>7
    <3>2. CASE b # start /\ b = prev
      BY <3>2, <2>2, <1>3, <1>7, <1>12
    <3>3. CASE b # start /\ b # prev
      BY <3>3, <1>7, <1>11
    <3> QED  BY <3>1, <3>2, <3>3
  <2> QED  BY <2>1, <2>2, <2>3, <2>4 DEF Words
<1>14. Linked'
  <2>1. ASSUME NEW b \in Free'  PROVE b > 0 /\ (next'[b] # 0 => b < next'[b])
    <3>1. CASE b = start
      BY <3>1, <1>3, <1>7, <1>s
    <3>2. CASE b # start /\ b = prev
      BY <3>2, <1>3, <1>6, <1>7, <1>12
    <3>3. CASE b # start /\ b # prev
      BY <3>3, <1>7, <1>11
    <3> QED  BY <3>1, <3>2, <3>3
  <2>2. ASSUME NEW b \in Free', NEW c \in Free', b < c
        PROVE  next'[b] # 0 /\ next'[b] <= c
    <3>0. c \in Nat /\ (c # start => c \in Free \ gone)
      BY <1>1, <1>7
    <3>1. CASE b = start
      BY <3>0, <3>1, <2>2, <1>7, <1>s
    <3>2. CASE b # start /\ b = prev
      <4>1. next'[b] = start /\ start = bo
        BY <3>2, <1>3, <1>7, <1>12
      <4>2. CASE c = start
        BY <4>1, <4>2, <1>s
      <4>3. CASE c # start
        <5>1. ~(c < bo)
          BY <3>0, <3>2, <4>3, <2>2, <1>6
        <5> QED  BY <3>0, <4>1, <5>1, <1>s
      <4> QED  BY <4>2, <4>3
    <3>3. CASE b # start /\ b # prev
      <4>1. b \in Free \ (gone \cup {start})
        BY <3>3, <1>7
      <4>2. CASE c # start
        BY <3>0, <3>3, <4>1, <4>2, <2>2, <1>3, <1>11
      <4>3. CASE c = start /\ start = bo
        BY <3>0, <3>3, <4>1, <4>3, <2>2, <1>11
      <4>4. CASE c = start /\ start = prev /\ prev # 0
        BY <3>0, <3>3, <4>1, <4>4, <2>2, <1>3, <1>11
      <4> QED  BY <4>2, <4>3, <4>4, <1>7
    <3> QED  BY <3>1, <3>2, <3>3
  <2>3. ASSUME NEW c \in Free'  PROVE head' # 0 /\ head' <= c
    <3>0. c \in Nat /\ (c # start => c \in Free \ gone)
      BY <1>1, <1>7
    <3>1. CASE prev = 0
      <4>1. head' = start /\ start = bo
        BY <3>1, <1>7
      <4>2. c # start => ~(c < bo)
        BY <3>0, <3>1, <1>3, <1>6
      <4> QED  BY <3>0, <4>1, <4>2, <1>s
    <3>2. CASE prev # 0
      <4>1. head' = head /\ head # 0 /\ head <= prev /\ prev \in Free
        BY <3>2, <1>3, <1>7
      <4>2. CASE c = start
        BY <4>1, <4>2, <3>0, <1>3, <1>6, <1>7
      <4>3. CASE c # start
        BY <4>1, <4>3, <3>0, <1>3
      <4> QED  BY <4>2, <4>3
    <3> QED  BY <3>1, <3>2
  <2> QED  BY <2>1, <2>2, <2>3 DEF Linked, Link
<1> QED
  BY <1>8, <1>9, <1>10, <1>13, <1>14 DEF Ordered

-----------------------------------------------------------------------------
(* The guest's pointers *)

\* Every pointer the guest holds lies in the region, and yos_free and
\* yos_realloc find its block.
LEMMA Finds ==
  ASSUME Ordered, View, Placed, NEW p \in DOMAIN live
  PROVE  /\ p \in Nat /\ Base(p) \in Nat /\ Block(p) \in Used /\ Base(p) = Block(p) + 8
         /\ hdr[Block(p)] \in Nat /\ Block(p) \in Nat /\ Block(p) + hdr[Block(p)] <= alloc_hi
         /\ Base(p) > 0 /\ InBounds(p)
         /\ unshift_user_off(p) = Base(p) /\ Home(p) = Block(p)
<1>1. /\ p \in Nat /\ live[p] \in [size : Nat, al : Nat, shift : Nat, back : Nat]
      /\ live[p].back \in Nat
  BY DEF View
<1>2. /\ Block(p) \in Used /\ p >= Base(p) /\ p < Block(p) + hdr[Block(p)]
      /\ live[p].back # 0 => p % 16 = 0 /\ p > Base(p)
  BY DEF Placed
<1>3. Base(p) \in Nat /\ Base(p) = Block(p) + 8
  BY <1>1 DEF Base, Block, HDR_SIZE
<1>4. /\ Block(p) \in Blocks /\ Block(p) \in Nat /\ hdr[Block(p)] \in Nat
      /\ hdr[Block(p)] >= 32 /\ Block(p) >= alloc_lo
      /\ Block(p) + hdr[Block(p)] <= alloc_hi
  BY <1>2, Laid DEF Used
<1>5. /\ alloc_lo \in Nat /\ alloc_hi \in Nat /\ alloc_lo >= 16 /\ alloc_lo % 16 = 0
  BY ArenaBounds
<1>6. InBounds(p)
  BY <1>1, <1>2, <1>3, <1>4, <1>5 DEF InBounds, HDR_SIZE
<1>7. unshift_user_off(p) = Base(p)
  <2>1. CASE live[p].back = 0
    <3>1. ~(live[p].back >= alloc_lo + HDR_SIZE)
      BY <2>1, <1>5 DEF HDR_SIZE
    <3> QED  BY <2>1, <3>1 DEF unshift_user_off, Base
  <2>2. CASE live[p].back # 0
    <3>1. live[p].back = Base(p) /\ live[p].back - HDR_SIZE = Block(p)
      BY <2>2 DEF Base, Block
    <3>2. p % 16 = 0 /\ p > Base(p)
      BY <2>2, <1>2
    <3>3. p >= alloc_lo + 16
      <4>1. p > alloc_lo + 8
        BY <1>1, <1>3, <1>4, <1>5, <3>2
      <4> QED  BY <4>1, <3>2, <1>1, <1>5
    <3>4. /\ p % ALIGN = 0 /\ p >= alloc_lo + 2 * HDR_SIZE
          /\ Base(p) >= alloc_lo + HDR_SIZE /\ Base(p) < p /\ Base(p) + HDR_SIZE <= alloc_hi
          /\ Block(p) \in Blocks /\ hdr[Block(p)] >= MIN_BLOCK
          /\ Block(p) + hdr[Block(p)] <= alloc_hi /\ p < Block(p) + hdr[Block(p)]
      BY <3>2, <3>3, <1>1, <1>2, <1>3, <1>4, <1>5 DEF HDR_SIZE, MIN_BLOCK, ALIGN
    <3> QED  BY <3>1, <3>4 DEF unshift_user_off
  <2> QED  BY <2>1, <2>2
<1> QED
  BY <1>1, <1>2, <1>3, <1>4, <1>5, <1>6, <1>7 DEF Home, Block

\* Two blocks in use have nothing in common.
LEMMA Disjoint ==
  ASSUME Ordered, NEW b \in Used, NEW c \in Used, b # c, NEW x \in Int, x >= b, x < b + hdr[b]
  PROVE  ~(x >= c /\ x < c + hdr[c])
<1>1. b \in Blocks /\ c \in Blocks
  BY DEF Used
<1>2. /\ b \in Nat /\ c \in Nat /\ hdr[b] \in Nat /\ hdr[c] \in Nat
      /\ b < c => b + hdr[b] <= c
      /\ c < b => c + hdr[c] <= b
  BY <1>1, Laid
<1> QED
  BY <1>2

\* The guest's side of the invariant.
Holding == View /\ Placed /\ MovesPlaced /\ HeldApart /\ Owned

\* A step that changes neither what the guest holds nor any block in use.
LEMMA HoldingKept ==
  ASSUME Holding, Used' = Used, \A b \in Used : hdr'[b] = hdr[b],
         UNCHANGED <<live, moving>>, wrote' \in [at : Nat, len : Nat]
  PROVE  Holding'
<1>1. Movers' = Movers
  BY DEF Movers
<1>2. \A p \in DOMAIN live : Base(p)' = Base(p) /\ Block(p)' = Block(p)
  BY DEF Base, Block
<1>3. \A t \in Threads : RawBlock(t)' = RawBlock(t) /\ NewBlock(t)' = NewBlock(t)
  BY DEF RawBlock, NewBlock
<1>t. \A t \in Movers : t \in Threads
  BY DEF Movers
<1>4. View'
  BY DEF Holding, View
<1>5. Placed'
  BY <1>2 DEF Holding, Placed
<1>6. MovesPlaced'
  BY <1>1, <1>3, <1>t DEF Holding, MovesPlaced
<1>7. HeldApart'
  BY <1>1, <1>2, <1>3, <1>t DEF Holding, HeldApart
<1>8. Owned'
  BY <1>1, <1>2, <1>3, <1>t DEF Holding, Owned
<1> QED
  BY <1>4, <1>5, <1>6, <1>7, <1>8 DEF Holding

\* A record with which a pointer p holds block b.
Fits(p, r, b) ==
  /\ p \in Nat /\ r \in [size : Nat, al : Nat, shift : Nat, back : Nat]
  /\ (IF r.back = 0 THEN p ELSE r.back) = b + HDR_SIZE
  /\ p >= b + HDR_SIZE /\ p < b + hdr[b] /\ p + r.size <= b + hdr[b]
  /\ p % r.al = 0
  /\ r.back # 0 => p % 16 = 0 /\ p > b + HDR_SIZE

\* A step that gives the guest a pointer to a block it takes.
LEMMA HoldingGrows ==
  ASSUME Ordered', Holding, NEW b \in Nat, b \notin Used, Used' = Used \cup {b},
         \A c \in Used : hdr'[c] = hdr[c],
         NEW p, NEW r, Fits(p, r, b)', live' = With(live, p, r),
         moving' = moving, wrote' \in [at : Nat, len : Nat]
  PROVE  Holding'
<1>0. Movers' = Movers
  BY DEF Movers
<1>1. \A t \in Movers : t \in Threads /\ RawBlock(t)' = RawBlock(t) /\ NewBlock(t)' = NewBlock(t)
  BY DEF RawBlock, NewBlock, Movers
<1>2. DOMAIN live' = DOMAIN live \cup {p} /\ live'[p] = r
  BY DEF With
<1>3. \A q \in DOMAIN live : q # p => live'[q] = live[q]
  BY DEF With
<1>4. Base(p)' = b + 8 /\ Block(p)' = b
  <2>1. Base(p)' = IF r.back = 0 THEN p ELSE r.back
    BY <1>2 DEF Base
  <2>2. Base(p)' = b + 8
    BY <2>1 DEF Fits, HDR_SIZE
  <2>3. Block(p)' = Base(p)' - 8
    BY DEF Block, HDR_SIZE
  <2> QED  BY <2>2, <2>3
<1>5. \A q \in DOMAIN live : q # p => Base(q)' = Base(q) /\ Block(q)' = Block(q)
  BY <1>3 DEF Base, Block
<1>6. p \notin DOMAIN live
  <2> SUFFICES ASSUME p \in DOMAIN live  PROVE FALSE
    OBVIOUS
  <2>1. /\ Block(p) \in Used /\ p >= Base(p) /\ p < Block(p) + hdr[Block(p)] /\ p \in Nat
        /\ Base(p) = Block(p) + 8 /\ Block(p) \in Int
    BY DEF Holding, Placed, View, Base, Block, HDR_SIZE
  <2> DEFINE c == Block(p)
  <2>2. c \in Used' /\ b \in Used' /\ c # b /\ hdr'[c] = hdr[c]
    BY <2>1
  <2>3. p >= b /\ p < b + hdr'[b]
    BY DEF Fits, HDR_SIZE
  <2>4. p >= c /\ p < c + hdr'[c]
    BY <2>1, <2>2
  <2> HIDE DEF c
  <2>5. c \in Blocks' /\ b \in Blocks'
    BY <2>2 DEF Used
  <2>6. /\ c \in Nat /\ b \in Nat /\ hdr'[b] \in Nat /\ hdr'[c] \in Nat
        /\ b < c => b + hdr'[b] <= c
        /\ c < b => c + hdr'[c] <= b
    BY <2>5 DEF Ordered, Words, Tiled
  <2> QED  BY <2>1, <2>2, <2>3, <2>4, <2>6
<1>7. View'
  BY <1>2, <1>3 DEF Holding, View, Fits
<1>8. Placed'
  <2> SUFFICES ASSUME NEW q \in DOMAIN live'
               PROVE  /\ Block(q)' \in Used' /\ q >= Base(q)' /\ q < Block(q)' + hdr'[Block(q)']
                      /\ q + live'[q].size <= Block(q)' + hdr'[Block(q)']
                      /\ q % live'[q].al = 0
                      /\ live'[q].back # 0 => q % 16 = 0 /\ q > Base(q)'
    BY DEF Placed
  <2>1. CASE q = p
    BY <2>1, <1>2, <1>4 DEF Fits, HDR_SIZE
  <2>2. CASE q # p
    BY <2>2, <1>2, <1>3, <1>5 DEF Holding, Placed
  <2> QED  BY <2>1, <2>2
<1>9. MovesPlaced'
  BY <1>0, <1>1 DEF Holding, MovesPlaced
<1>10. HeldApart'
  <2>0. \A q \in DOMAIN live : Block(q)' = Block(q) /\ Block(q) \in Used
    BY <1>5, <1>6 DEF Holding, Placed
  <2>1. \A q, s \in DOMAIN live' : Block(q)' = Block(s)' => q = s
    BY <2>0, <1>2, <1>4 DEF Holding, HeldApart
  <2>2. \A q \in DOMAIN live', t \in Movers' : Block(q)' # RawBlock(t)' /\ Block(q)' # NewBlock(t)'
    BY <2>0, <1>0, <1>1, <1>2, <1>4 DEF Holding, HeldApart, MovesPlaced
  <2>3. \A t, u \in Movers' : t # u =>
       /\ RawBlock(t)' # RawBlock(u)' /\ NewBlock(t)' # NewBlock(u)'
       /\ RawBlock(t)' # NewBlock(u)' /\ NewBlock(t)' # RawBlock(u)'
    BY <1>0, <1>1 DEF Holding, HeldApart
  <2> QED  BY <2>1, <2>2, <2>3 DEF HeldApart
<1>11. Owned'
  BY <1>0, <1>1, <1>2, <1>4, <1>5, <1>6 DEF Holding, Owned
<1> QED
  BY <1>7, <1>8, <1>9, <1>10, <1>11 DEF Holding

\* A step that takes a pointer and its block from the guest.
LEMMA HoldingShrinks ==
  ASSUME Ordered, Holding, NEW p \in DOMAIN live, Used' = Used \ {Block(p)},
         \A c \in Used \ {Block(p)} : hdr'[c] = hdr[c],
         live' = Without(p), moving' = moving, wrote' \in [at : Nat, len : Nat]
  PROVE  Holding'
<1>0. Movers' = Movers
  BY DEF Movers
<1>1. \A t \in Movers : t \in Threads /\ RawBlock(t)' = RawBlock(t) /\ NewBlock(t)' = NewBlock(t)
  BY DEF RawBlock, NewBlock, Movers
<1>2. DOMAIN live' = DOMAIN live \ {p}
  BY DEF Without
<1>3. \A q \in DOMAIN live \ {p} : live'[q] = live[q]
  BY DEF Without
<1>4. \A q \in DOMAIN live \ {p} : Base(q)' = Base(q) /\ Block(q)' = Block(q) /\ Block(q) # Block(p)
  BY <1>3 DEF Base, Block, Holding, HeldApart
<1>5. \A t \in Movers : Block(p) # RawBlock(t) /\ Block(p) # NewBlock(t)
  BY DEF Holding, HeldApart
<1>6. View'
  BY <1>2, <1>3 DEF Holding, View
<1>7. Placed'
  BY <1>2, <1>3, <1>4 DEF Holding, Placed
<1>8. MovesPlaced'
  BY <1>0, <1>1, <1>5 DEF Holding, MovesPlaced
<1>9. HeldApart'
  BY <1>0, <1>1, <1>2, <1>4 DEF Holding, HeldApart
<1>10. Owned'
  BY <1>0, <1>1, <1>2, <1>4 DEF Holding, Owned
<1> QED
  BY <1>6, <1>7, <1>8, <1>9, <1>10 DEF Holding

\* The first byte of a block's payload is held by no pointer to another block.
LEMMA Foreign ==
  ASSUME Ordered, Holding, NEW b \in Used, NEW q \in DOMAIN live, q = b + 8
  PROVE  Block(q) = b
<1>1. /\ Block(q) \in Used /\ q >= Base(q) /\ q < Block(q) + hdr[Block(q)]
      /\ Base(q) = Block(q) + 8 /\ Block(q) \in Nat
  BY Finds DEF Holding, Placed
<1>2. b \in Nat /\ hdr[b] \in Nat /\ hdr[b] >= 32
  BY Laid DEF Used
<1>3. q \in Int /\ q >= b /\ q < b + hdr[b] /\ q >= Block(q) /\ q < Block(q) + hdr[Block(q)]
  BY <1>1, <1>2
<1> QED
  BY <1>1, <1>3, Disjoint

\* realloc in place: the pointer becomes the block's own.
LEMMA HoldingRenames ==
  ASSUME Ordered, Holding, NEW p \in DOMAIN live, NEW r, NEW raw, raw = Base(p),
         Fits(raw, r, Block(p)), r.back = 0,
         live' = With(Without(p), raw, r), UNCHANGED <<hdr, next, head, moving>>,
         wrote' \in [at : Nat, len : Nat]
  PROVE  Holding'
<1> DEFINE b == Block(p)
<1>0. Movers' = Movers /\ Used' = Used
  BY DEF Movers, Used, Blocks, Free
<1>1. \A t \in Movers : t \in Threads /\ RawBlock(t)' = RawBlock(t) /\ NewBlock(t)' = NewBlock(t)
  BY DEF RawBlock, NewBlock, Movers
<1>2. DOMAIN live' = (DOMAIN live \ {p}) \cup {raw} /\ live'[raw] = r
  BY DEF With, Without
<1>3. raw = b + 8 /\ b \in Used
  BY Finds DEF Holding
<1>4. raw \notin DOMAIN live \ {p}
  <2> SUFFICES ASSUME raw \in DOMAIN live, raw # p  PROVE FALSE
    OBVIOUS
  <2>1. Block(raw) = b
    BY <1>3, Foreign
  <2> QED  BY <2>1 DEF Holding, HeldApart
<1>5. \A q \in DOMAIN live \ {p} : live'[q] = live[q]
  BY <1>4 DEF With, Without
<1>6. \A q \in DOMAIN live \ {p} : Base(q)' = Base(q) /\ Block(q)' = Block(q) /\ Block(q) # b
  BY <1>5 DEF Base, Block, Holding, HeldApart
<1>7. Base(raw)' = raw /\ Block(raw)' = b
  <2>1. Base(raw)' = raw
    BY <1>2 DEF Base
  <2>2. Block(raw)' = Base(raw)' - 8
    BY DEF Block, HDR_SIZE
  <2>3. b \in Nat
    BY Finds DEF Holding
  <2> HIDE DEF b
  <2> QED  BY <2>1, <2>2, <2>3, <1>3
<1>8. \A t \in Movers : b # RawBlock(t) /\ b # NewBlock(t)
  BY DEF Holding, HeldApart
<1>9. View'
  BY <1>2, <1>5 DEF Holding, View, Fits
<1>b. Fits(raw, r, b)
  OBVIOUS
<1> HIDE DEF b
<1>10. Placed'
  <2> SUFFICES ASSUME NEW q \in DOMAIN live'
               PROVE  /\ Block(q)' \in Used' /\ q >= Base(q)' /\ q < Block(q)' + hdr'[Block(q)']
                      /\ q + live'[q].size <= Block(q)' + hdr'[Block(q)']
                      /\ q % live'[q].al = 0
                      /\ live'[q].back # 0 => q % 16 = 0 /\ q > Base(q)'
    BY DEF Placed
  <2>1. CASE q = raw
    BY <2>1, <1>0, <1>2, <1>3, <1>7, <1>b DEF Fits, HDR_SIZE
  <2>2. CASE q # raw
    BY <2>2, <1>0, <1>2, <1>5, <1>6 DEF Holding, Placed
  <2> QED  BY <2>1, <2>2
<1>11. MovesPlaced'
  BY <1>0, <1>1 DEF Holding, MovesPlaced
<1>12. HeldApart'
  <2>1. \A q, s \in DOMAIN live' : Block(q)' = Block(s)' => q = s
    BY <1>2, <1>6, <1>7 DEF Holding, HeldApart
  <2>2. \A q \in DOMAIN live', t \in Movers' : Block(q)' # RawBlock(t)' /\ Block(q)' # NewBlock(t)'
    BY <1>0, <1>1, <1>2, <1>6, <1>7, <1>8 DEF Holding, HeldApart
  <2>3. \A t, u \in Movers' : t # u =>
       /\ RawBlock(t)' # RawBlock(u)' /\ NewBlock(t)' # NewBlock(u)'
       /\ RawBlock(t)' # NewBlock(u)' /\ NewBlock(t)' # RawBlock(u)'
    BY <1>0, <1>1 DEF Holding, HeldApart
  <2> QED  BY <2>1, <2>2, <2>3 DEF HeldApart
<1>13. Owned'
  <2>1. \A c \in Used : c # b => \/ \E q \in DOMAIN live \ {p} : Block(q) = c
                                 \/ \E t \in Movers : c = RawBlock(t) \/ c = NewBlock(t)
    BY DEF Holding, Owned, b
  <2> QED  BY <2>1, <1>0, <1>1, <1>2, <1>6, <1>7 DEF Owned
<1> QED
  BY <1>9, <1>10, <1>11, <1>12, <1>13 DEF Holding

\* The first half of a move: the block of p and a block just taken go to the
\* move of thread t.
LEMMA HoldingMoves ==
  ASSUME Ordered, Holding, NEW p \in DOMAIN live, NEW t \in Threads, moving[t] = Idle,
         NEW b \in Nat, b \notin Used, Used' = Used \cup {b},
         \A c \in Used : hdr'[c] = hdr[c],
         NEW m \in [raw : Nat, new : Nat, size : Nat, shift : Nat],
         m.raw = Base(p), m.new = b + 8, m.new + m.size <= b + hdr'[b],
         moving' = [moving EXCEPT ![t] = m], live' = Without(p),
         wrote' \in [at : Nat, len : Nat]
  PROVE  Holding'
<1>1. DOMAIN live' = DOMAIN live \ {p} /\ \A q \in DOMAIN live \ {p} : live'[q] = live[q]
  BY DEF Without
<1>2. \A q \in DOMAIN live \ {p} : Base(q)' = Base(q) /\ Block(q)' = Block(q) /\ Block(q) # Block(p)
  BY <1>1 DEF Base, Block, Holding, HeldApart
<1>3. moving'[t] = m /\ \A u \in Threads \ {t} : moving'[u] = moving[u]
  BY DEF Holding, View
<1>4. m # Idle
  <2>1. m.raw # 0
    BY Finds DEF Holding
  <2> QED  BY <2>1 DEF Idle
<1>5. Movers' = Movers \cup {t} /\ t \notin Movers
  BY <1>3, <1>4 DEF Movers
<1>6. \A u \in Movers : u \in Threads /\ u # t /\ RawBlock(u)' = RawBlock(u) /\ NewBlock(u)' = NewBlock(u)
  BY <1>3, <1>5 DEF RawBlock, NewBlock, Movers
<1>7. RawBlock(t)' = Block(p) /\ NewBlock(t)' = b
  BY <1>3 DEF RawBlock, NewBlock, Block, HDR_SIZE
<1>8. Block(p) \in Used /\ Block(p) # b
  BY Finds DEF Holding
<1>9. \A u \in Movers : Block(p) # RawBlock(u) /\ Block(p) # NewBlock(u)
  BY DEF Holding, HeldApart
<1>10. View'
  BY <1>1 DEF Holding, View
<1>11. Placed'
  BY <1>1, <1>2 DEF Holding, Placed
<1>12. MovesPlaced'
  <2>1. \A u \in Movers : /\ RawBlock(u) \in Used /\ NewBlock(u) \in Used /\ moving[u].raw # moving[u].new
                          /\ moving[u].new + moving[u].size <= NewBlock(u) + hdr[NewBlock(u)]
    BY DEF Holding, MovesPlaced
  <2>2. m.raw # m.new
    BY <1>8, Finds DEF Holding
  <2> SUFFICES ASSUME NEW u \in Movers'
               PROVE  /\ RawBlock(u)' \in Used' /\ NewBlock(u)' \in Used' /\ moving'[u].raw # moving'[u].new
                      /\ moving'[u].new + moving'[u].size <= NewBlock(u)' + hdr'[NewBlock(u)']
    BY DEF MovesPlaced
  <2>3. CASE u = t
    BY <2>2, <2>3, <1>3, <1>7, <1>8
  <2>4. CASE u # t
    BY <2>1, <2>4, <1>3, <1>5, <1>6
  <2> QED  BY <2>3, <2>4
<1>13. HeldApart'
  <2>0. \A u \in Movers : RawBlock(u) \in Used /\ NewBlock(u) \in Used
    BY DEF Holding, MovesPlaced
  <2>a. \A q \in DOMAIN live : Block(q) \in Used
    BY DEF Holding, Placed
  <2>1. \A q, s \in DOMAIN live' : Block(q)' = Block(s)' => q = s
    BY <1>1, <1>2 DEF Holding, HeldApart
  <2>2. \A q \in DOMAIN live', u \in Movers' : Block(q)' # RawBlock(u)' /\ Block(q)' # NewBlock(u)'
    BY <2>a, <1>1, <1>2, <1>5, <1>6, <1>7 DEF Holding, HeldApart
  <2>3. \A u, v \in Movers' : u # v =>
       /\ RawBlock(u)' # RawBlock(v)' /\ NewBlock(u)' # NewBlock(v)'
       /\ RawBlock(u)' # NewBlock(v)' /\ NewBlock(u)' # RawBlock(v)'
    BY <2>0, <1>5, <1>6, <1>7, <1>9 DEF Holding, HeldApart
  <2> QED  BY <2>1, <2>2, <2>3 DEF HeldApart
<1>14. Owned'
  <2>1. \A c \in Used : c # Block(p) => \/ \E q \in DOMAIN live \ {p} : Block(q) = c
                                        \/ \E u \in Movers : c = RawBlock(u) \/ c = NewBlock(u)
    BY DEF Holding, Owned
  <2> QED  BY <2>1, <1>1, <1>2, <1>5, <1>6, <1>7 DEF Owned
<1> QED
  BY <1>10, <1>11, <1>12, <1>13, <1>14 DEF Holding

\* The second half: the old block is given back, the guest gets the new one.
LEMMA HoldingArrives ==
  ASSUME Ordered, Holding, NEW t \in Movers, NEW new, new = moving[t].new,
         Used' = Used \ {RawBlock(t)}, \A c \in Used \ {RawBlock(t)} : hdr'[c] = hdr[c],
         NEW r, Fits(new, r, NewBlock(t)), r.back = 0,
         live' = With(live, new, r), moving' = [moving EXCEPT ![t] = Idle],
         wrote' \in [at : Nat, len : Nat]
  PROVE  Holding'
<1> DEFINE b == NewBlock(t)
<1>0. t \in Threads /\ moving'[t] = Idle /\ \A u \in Threads \ {t} : moving'[u] = moving[u]
  BY DEF Holding, View, Movers
<1>1. Movers' = Movers \ {t}
  BY <1>0 DEF Movers
<1>2. \A u \in Movers \ {t} : u \in Threads /\ RawBlock(u)' = RawBlock(u) /\ NewBlock(u)' = NewBlock(u)
  BY <1>0 DEF RawBlock, NewBlock, Movers
<1>3. b \in Used /\ RawBlock(t) \in Used /\ moving[t].raw # moving[t].new
  BY DEF Holding, MovesPlaced
<1>4. new \in Nat /\ moving[t].raw \in Nat
  BY <1>0 DEF Holding, View
<1>5. new = b + 8 /\ b # RawBlock(t) /\ b \in Int
  BY <1>3, <1>4 DEF NewBlock, RawBlock, HDR_SIZE
<1>6. \A q \in DOMAIN live : Block(q) # b /\ Block(q) # RawBlock(t)
  BY DEF Holding, HeldApart
<1>7. new \notin DOMAIN live
  BY <1>3, <1>5, <1>6, Foreign
<1>8. DOMAIN live' = DOMAIN live \cup {new} /\ live'[new] = r /\ \A q \in DOMAIN live : live'[q] = live[q]
  BY <1>7 DEF With
<1>9. \A q \in DOMAIN live : Base(q)' = Base(q) /\ Block(q)' = Block(q)
  BY <1>8 DEF Base, Block
<1>10. Base(new)' = new /\ Block(new)' = b
  <2>1. Base(new)' = new
    BY <1>8 DEF Base
  <2>2. Block(new)' = Base(new)' - 8
    BY DEF Block, HDR_SIZE
  <2> HIDE DEF b
  <2> QED  BY <2>1, <2>2, <1>5
<1>b. Fits(new, r, b)
  OBVIOUS
<1>c. \A u \in Movers \ {t} : /\ RawBlock(u) # RawBlock(t) /\ NewBlock(u) # RawBlock(t)
                              /\ RawBlock(u) # b /\ NewBlock(u) # b
  BY DEF Holding, HeldApart
<1> HIDE DEF b
<1>11. View'
  <2>1. moving' \in [Threads -> [raw : Nat, new : Nat, size : Nat, shift : Nat]]
    BY DEF Holding, View, Idle
  <2> QED  BY <2>1, <1>8 DEF Holding, View, Fits
<1>12. Placed'
  <2> SUFFICES ASSUME NEW q \in DOMAIN live'
               PROVE  /\ Block(q)' \in Used' /\ q >= Base(q)' /\ q < Block(q)' + hdr'[Block(q)']
                      /\ q + live'[q].size <= Block(q)' + hdr'[Block(q)']
                      /\ q % live'[q].al = 0
                      /\ live'[q].back # 0 => q % 16 = 0 /\ q > Base(q)'
    BY DEF Placed
  <2>1. CASE q = new
    BY <2>1, <1>3, <1>5, <1>8, <1>10, <1>b DEF Fits, HDR_SIZE
  <2>2. CASE q # new
    BY <2>2, <1>6, <1>8, <1>9 DEF Holding, Placed
  <2> QED  BY <2>1, <2>2
<1>13. MovesPlaced'
  BY <1>0, <1>1, <1>2, <1>c DEF Holding, MovesPlaced
<1>14. HeldApart'
  <2>1. \A q, s \in DOMAIN live' : Block(q)' = Block(s)' => q = s
    BY <1>6, <1>8, <1>9, <1>10 DEF Holding, HeldApart
  <2>2. \A q \in DOMAIN live', u \in Movers' : Block(q)' # RawBlock(u)' /\ Block(q)' # NewBlock(u)'
    BY <1>1, <1>2, <1>8, <1>9, <1>10, <1>c DEF Holding, HeldApart
  <2>3. \A u, v \in Movers' : u # v =>
       /\ RawBlock(u)' # RawBlock(v)' /\ NewBlock(u)' # NewBlock(v)'
       /\ RawBlock(u)' # NewBlock(v)' /\ NewBlock(u)' # RawBlock(v)'
    BY <1>1, <1>2 DEF Holding, HeldApart
  <2> QED  BY <2>1, <2>2, <2>3 DEF HeldApart
<1>15. Owned'
  <2>1. \A c \in Used \ {RawBlock(t), b} : \/ \E q \in DOMAIN live : Block(q) = c
                                           \/ \E u \in Movers \ {t} : c = RawBlock(u) \/ c = NewBlock(u)
    BY DEF Holding, Owned, b
  <2> QED  BY <2>1, <1>1, <1>2, <1>8, <1>9, <1>10 DEF Owned
<1> QED
  BY <1>11, <1>12, <1>13, <1>14, <1>15 DEF Holding

-----------------------------------------------------------------------------
(* The calls *)

LEMMA Eight ==
  ASSUME NEW al \in Nat, al >= 1, 8 % al = 0
  PROVE  al \in {1, 2, 4, 8}
<1>1. al <= 8
  <2>1. al > 8 => 8 % al = 8
    BY Small
  <2> QED  BY <2>1
<1>2. al \in {1, 2, 3, 4, 5, 6, 7, 8}
  BY <1>1
<1>3. 8 % 3 = 2 /\ 8 % 5 = 3 /\ 8 % 6 = 2 /\ 8 % 7 = 1
  OBVIOUS
<1> QED
  BY <1>2, <1>3

LEMMA Aligned ==
  ASSUME NEW b \in Nat, b % 16 = 0, NEW al \in {1, 2, 4, 8}
  PROVE  (b + 8) % al = 0
<1>1. (b + 8) % 1 = 0 /\ (b + 8) % 2 = 0 /\ (b + 8) % 4 = 0 /\ (b + 8) % 8 = 0
  OBVIOUS
<1> QED
  BY <1>1

LEMMA WritesNothing ==
  ASSUME wrote' = NoWrite
  PROVE  WritesInside' /\ wrote' \in [at : Nat, len : Nat]
  BY DEF NoWrite, WritesInside

\* A request that is rounded without wrapping, served from the list.
LEMMA MallocStep ==
  ASSUME Ordered, Holding, NEW size \in Nat, size + HDR_SIZE + ALIGN <= Word,
         NEW al \in Nat, al >= 1, HDR_SIZE % al = 0, yos_malloc(size, al)
  PROVE  Ordered' /\ Holding' /\ WritesInside'
<1>1. PICK prev \in Free \cup {0} :
        /\ FirstFit(prev, Need(size)) /\ do_alloc(prev, Need(size))
        /\ live' = With(live, Link(prev) + HDR_SIZE, Fresh(size, al, 0))
  BY DEF yos_malloc
<1> DEFINE need == Need(size)
           cur == Link(prev)
           p == cur + 8
           r == Fresh(size, al, 0)
<1>2. need \in Nat /\ need >= MIN_BLOCK /\ need % 16 = 0 /\ need >= size + 8
  BY NeedHolds DEF HDR_SIZE
<1>3. /\ Ordered' /\ cur \in Nat /\ cur % 16 = 0 /\ cur \notin Used
      /\ Used' = Used \cup {cur}
      /\ \A b \in Used : hdr'[b] = hdr[b]
  BY <1>1, <1>2, Carves
<1>4. \A b : b = cur => hdr'[b] \in Nat /\ hdr'[b] >= need
  BY <1>1, <1>2, Carves
<1>5. wrote' = NoWrite /\ moving' = moving
  BY DEF yos_malloc
<1>6. \A b : b = cur => Fits(b + 8, r, b)'
  <2> SUFFICES ASSUME NEW b, b = cur  PROVE Fits(b + 8, r, b)'
    OBVIOUS
  <2>1. b \in Nat /\ b % 16 = 0 /\ hdr'[b] \in Nat /\ hdr'[b] >= need
    BY <1>3, <1>4
  <2>2. r \in [size : Nat, al : Nat, shift : Nat, back : Nat] /\ r.back = 0 /\ r.size = size /\ r.al = al
    BY DEF Fresh
  <2>3. (b + 8) % al = 0
    BY <2>1, Eight, Aligned DEF HDR_SIZE
  <2> HIDE DEF r, need, cur
  <2> QED  BY <2>1, <2>2, <2>3, <1>2 DEF Fits, HDR_SIZE, MIN_BLOCK
<1>7. ASSUME NEW b, b = cur  PROVE Holding'
  <2>1. Fits(b + 8, r, b)' /\ live' = With(live, b + 8, r)
    BY <1>1, <1>6, <1>7 DEF HDR_SIZE
  <2> HIDE DEF r, need
  <2>2. b \in Nat /\ b \notin Used /\ Used' = Used \cup {b}
    BY <1>3, <1>7
  <2> QED  BY <2>1, <2>2, <1>3, <1>5, WritesNothing, HoldingGrows
<1> QED
  BY <1>3, <1>5, <1>7, WritesNothing

LEMMA CallocStep ==
  ASSUME NoWrap, Ordered, Holding, NEW nmemb \in Counts, NEW size \in Sizes, yos_calloc(nmemb, size)
  PROVE  Ordered' /\ Holding' /\ WritesInside'
<1> DEFINE total == (nmemb * size) % Word
<1>1. total \in Nat /\ total + HDR_SIZE + ALIGN <= Word
  <2>1. nmemb \in Nat /\ size \in Nat /\ Word \in Nat /\ Word > 0
    BY HeapAssumption
  <2>2. nmemb * size \in Nat
    BY <2>1
  <2>3. total \in Nat
    BY <2>1, <2>2
  <2> QED  BY <2>3 DEF NoWrap
<1>2. PICK prev \in Free \cup {0} :
        /\ FirstFit(prev, Need(total)) /\ do_alloc(prev, Need(total))
        /\ live' = With(live, Link(prev) + HDR_SIZE, Fresh(total, 1, 0))
        /\ wrote' = CallocRange(Link(prev) + HDR_SIZE, total, hdr'[Link(prev)])
  BY DEF yos_calloc
<1>m. moving' = moving
  BY DEF yos_calloc
<1> HIDE DEF total
<1> DEFINE need == Need(total)
           cur == Link(prev)
           r == Fresh(total, 1, 0)
<1>3. need \in Nat /\ need >= MIN_BLOCK /\ need % 16 = 0 /\ need >= total + 8
  BY <1>1, NeedHolds DEF HDR_SIZE
<1>4. /\ Ordered' /\ cur \in Nat /\ cur \notin Used
      /\ Used' = Used \cup {cur}
      /\ \A b \in Used : hdr'[b] = hdr[b]
  BY <1>2, <1>3, Carves
<1>5. \A b : b = cur => hdr'[b] \in Nat /\ hdr'[b] >= need
  BY <1>2, <1>3, Carves
<1>6. ASSUME NEW b, b = cur  PROVE Holding' /\ WritesInside'
  <2>1. b \in Nat /\ hdr'[b] \in Nat /\ hdr'[b] >= need /\ b \in Used' /\ b \notin Used
    BY <1>4, <1>5, <1>6
  <2>2. /\ r \in [size : Nat, al : Nat, shift : Nat, back : Nat] /\ r.back = 0 /\ r.size = total /\ r.al = 1
        /\ live' = With(live, b + 8, r)
    BY <1>1, <1>2, <1>6 DEF Fresh, HDR_SIZE
  <2>3. wrote' = CallocRange(b + 8, total, hdr'[b])
    BY <1>2, <1>6 DEF HDR_SIZE
  <2>d. Used' = Used \cup {b}
    BY <1>4, <1>6
  <2> HIDE DEF r, need, cur
  <2>4. /\ wrote'.at = b + 8 /\ wrote'.len = hdr'[b] - 8
        /\ wrote' \in [at : Nat, len : Nat]
    <3>1. hdr'[b] > 8 /\ hdr'[b] - 8 >= total
      BY <2>1, <1>1, <1>3 DEF MIN_BLOCK
    <3>2. wrote' = [at |-> b + 8, len |-> hdr'[b] - 8]
      BY <3>1, <2>1, <2>3, <1>1 DEF CallocRange, HDR_SIZE
    <3> QED  BY <3>1, <3>2, <2>1
  <2>5. WritesInside'
    BY <2>1, <2>4 DEF WritesInside, HDR_SIZE
  <2>6. (b + 8) % 1 = 0
    BY <2>1
  <2>7. Fits(b + 8, r, b)'
    BY <2>1, <2>2, <2>6, <1>1, <1>3 DEF Fits, HDR_SIZE, MIN_BLOCK
  <2> QED  BY <2>1, <2>2, <2>d, <2>4, <2>5, <2>7, <1>4, <1>m, HoldingGrows
<1> QED
  BY <1>4, <1>6

LEMMA MemalignStep ==
  ASSUME NoWrap, Ordered, Holding, NEW al \in Aligns, NEW size \in Sizes, yos_posix_memalign(al, size)
  PROVE  Ordered' /\ Holding' /\ WritesInside'
<1>1. /\ al \in Nat /\ al >= 4 /\ size \in Nat /\ Word \in Nat
      /\ 16 % al = 0 \/ al % 16 = 0
      /\ size + al + 24 <= Word /\ size + 24 <= Word
  BY HeapAssumption DEF NoWrap, HDR_SIZE, ALIGN, yos_posix_memalign
<1>2. al \in {4, 8} \/ (al >= 16 /\ al % 16 = 0)
  <2>1. CASE al > 16
    <3>1. 16 % al = 16
      BY <1>1, <2>1, Small
    <3> QED  BY <3>1, <1>1, <2>1
  <2>2. CASE al <= 16
    <3>1. al \in {4, 5, 6, 7, 8, 9, 10, 11, 12, 13, 14, 15, 16}
      BY <1>1, <2>2
    <3>2. /\ 16 % 5 = 1 /\ 16 % 6 = 4 /\ 16 % 7 = 2 /\ 16 % 9 = 7 /\ 16 % 10 = 6 /\ 16 % 11 = 5
          /\ 16 % 12 = 4 /\ 16 % 13 = 3 /\ 16 % 14 = 2 /\ 16 % 15 = 1
      OBVIOUS
    <3> QED  BY <3>1, <3>2, <1>1
  <2> QED  BY <1>1, <2>1, <2>2
<1>3. CASE al \in {4, 8}
  <2> DEFINE s == IF size = 0 THEN 1 ELSE size
  <2>1. yos_malloc(s, al)
    BY <1>3 DEF yos_posix_memalign, HDR_SIZE
  <2>2. s \in Nat /\ s + HDR_SIZE + ALIGN <= Word
    BY <1>1 DEF HDR_SIZE, ALIGN
  <2>3. HDR_SIZE % al = 0
    BY <1>3 DEF HDR_SIZE
  <2> HIDE DEF s
  <2> QED  BY <1>1, <2>1, <2>2, <2>3, MallocStep
<1>4. CASE al >= 16 /\ al % 16 = 0
  <2>1. PICK prev \in Free \cup {0} :
          /\ FirstFit(prev, Need(size + al)) /\ do_alloc(prev, Need(size + al))
          /\ live' = With(live, Shifted(Link(prev) + HDR_SIZE, al), Fresh(size, al, Link(prev) + HDR_SIZE))
          /\ wrote' = [at |-> Shifted(Link(prev) + HDR_SIZE, al) - 4, len |-> 4]
    BY <1>1, <1>4 DEF yos_posix_memalign, HDR_SIZE
  <2>m. moving' = moving
    BY <1>4, <1>1 DEF yos_posix_memalign, HDR_SIZE
  <2> DEFINE need == Need(size + al)
             cur == Link(prev)
  <2>2. need \in Nat /\ need >= MIN_BLOCK /\ need % 16 = 0 /\ need >= size + al + 8
    <3>1. size + al \in Nat /\ (size + al) + HDR_SIZE + ALIGN <= Word
      BY <1>1 DEF HDR_SIZE, ALIGN
    <3> QED  BY <1>1, <3>1, NeedHolds DEF HDR_SIZE
  <2>3. /\ Ordered' /\ cur \in Nat /\ cur % 16 = 0 /\ cur \notin Used
        /\ Used' = Used \cup {cur}
        /\ \A b \in Used : hdr'[b] = hdr[b]
    BY <2>1, <2>2, Carves
  <2>4. \A b : b = cur => hdr'[b] \in Nat /\ hdr'[b] >= need /\ b + hdr'[b] <= alloc_hi
    BY <2>1, <2>2, Carves
  <2>5. ASSUME NEW b, b = cur, NEW p, p = Shifted(b + 8, al), NEW r, r = Fresh(size, al, b + 8)
        PROVE  Holding' /\ WritesInside'
    <3>1. b \in Nat /\ b % 16 = 0 /\ hdr'[b] \in Nat /\ hdr'[b] >= need /\ b + hdr'[b] <= alloc_hi
          /\ b \notin Used /\ Used' = Used \cup {b}
      BY <2>3, <2>4, <2>5
    <3>2. live' = With(live, p, r) /\ wrote' = [at |-> p - 4, len |-> 4]
      BY <2>1, <2>5 DEF HDR_SIZE
    <3> HIDE DEF need, cur
    <3>3. /\ p \in Nat /\ p % al = 0 /\ p % 16 = 0 /\ p >= b + 8 + 8 /\ p <= b + 8 + al - 8
      <4>1. b + 8 \in Nat /\ (b + 8) % 16 = 8
        BY <3>1
      <4>2. (b + 8) + al - 1 < Word
        BY <3>1, <2>2, <1>1, ArenaBounds
      <4> QED  BY <4>1, <4>2, <2>5, <1>1, <1>4, ShiftedLies
    <3>4. /\ r \in [size : Nat, al : Nat, shift : Nat, back : Nat]
          /\ r.back = b + 8 /\ r.size = size /\ r.al = al
      BY <3>1, <2>5, <1>1 DEF Fresh
    <3>5. Fits(p, r, b)'
      <4>1. /\ p >= b + 8 /\ p > b + 8 /\ p < b + hdr'[b] /\ p + size <= b + hdr'[b] /\ b + 8 # 0
        BY <3>1, <3>3, <2>2, <1>1
      <4>2. /\ (IF r.back = 0 THEN p ELSE r.back) = b + 8
            /\ p + r.size <= b + hdr'[b] /\ p % r.al = 0
        BY <4>1, <3>3, <3>4, Zenon
      <4> QED  BY <4>1, <4>2, <3>3, <3>4 DEF Fits, HDR_SIZE
    <3>6. wrote' \in [at : Nat, len : Nat] /\ wrote'.at = p - 4 /\ wrote'.len = 4
      BY <3>1, <3>2, <3>3
    <3>7. WritesInside'
      <4>1. b \in Used' /\ b + 8 <= p - 4 /\ (p - 4) + 4 <= b + hdr'[b]
        BY <3>1, <3>3, <2>2, <1>1
      <4> QED  BY <4>1, <3>6 DEF WritesInside, HDR_SIZE
    <3> QED  BY <3>1, <3>2, <3>5, <3>6, <3>7, <2>3, <2>m, HoldingGrows
  <2> QED  BY <2>3, <2>5
<1> QED
  BY <1>2, <1>3, <1>4

LEMMA FreeStep ==
  ASSUME Ordered, Holding, NEW p \in DOMAIN live, yos_free(p)
  PROVE  Ordered' /\ Holding' /\ WritesInside'
<1>1. Block(p) \in Used /\ unshift_user_off(p) = Base(p)
  BY Finds DEF Holding
<1>2. FreeBlock(Block(p), hdr[Block(p)])
  BY <1>1 DEF yos_free, Block
<1>3. /\ Ordered' /\ Used' = Used \ {Block(p)}
      /\ \A c \in Used \ {Block(p)} : hdr'[c] = hdr[c]
  BY <1>1, <1>2, Returns
<1>4. live' = Without(p) /\ wrote' = NoWrite /\ moving' = moving
  BY DEF yos_free
<1> QED
  BY <1>3, <1>4, WritesNothing, HoldingShrinks

\* A second free of what is free already changes nothing.
LEMMA FreeAgainStep ==
  ASSUME Ordered, Holding, NEW o, NEW sz, FreeAgain(o, sz)
  PROVE  Ordered' /\ Holding' /\ WritesInside'
<1>1. Dropped(o, sz)
  BY DEF FreeAgain, Dropped
<1>2. UNCHANGED <<hdr, next, head>>
  BY <1>1 DEF FreeAgain, FreeBlock
<1>3. wrote' = NoWrite /\ UNCHANGED <<live, moving>>
  BY DEF FreeAgain
<1>4. Ordered'
  BY <1>2 DEF Ordered, Words, Tiled, Linked, Link, Coalesced, Blocks, Free
<1>5. Used' = Used /\ \A b \in Used : hdr'[b] = hdr[b]
  BY <1>2 DEF Used, Blocks, Free
<1> QED
  BY <1>3, <1>4, <1>5, WritesNothing, HoldingKept

LEMMA ReallocStep ==
  ASSUME NoWrap, Ordered, Holding, NEW t \in Threads, NEW p \in DOMAIN live, NEW size \in Sizes,
         yos_realloc(t, p, size)
  PROVE  Ordered' /\ Holding' /\ WritesInside'
<1> DEFINE raw == Base(p)
           oldsz == hdr[Block(p)]
           shift == live[p].shift + (p - raw)
<1>1. /\ p \in Nat /\ raw \in Nat /\ Block(p) \in Used /\ raw = Block(p) + 8
      /\ oldsz \in Nat /\ Block(p) \in Nat
      /\ unshift_user_off(p) = raw /\ unshift_user_off(p) - HDR_SIZE = Block(p)
  BY Finds DEF Holding, Home
<1>2. shift \in Nat
  <2>1. live[p].shift \in Nat /\ p >= raw
    BY DEF Holding, View, Placed
  <2> QED  BY <1>1, <2>1
<1>3. size \in Nat /\ size + HDR_SIZE + ALIGN <= Word
  BY HeapAssumption DEF NoWrap
<1>4. oldsz >= 32
  BY <1>1, Laid DEF Used
<1>5. moving[t] = Idle
  BY DEF yos_realloc
<1>6. CASE size <= oldsz - HDR_SIZE
  <2> DEFINE r == [Fresh(size, 1, 0) EXCEPT !.shift = shift]
  <2>1. /\ live' = With(Without(p), raw, r)
        /\ wrote' = NoWrite /\ UNCHANGED <<hdr, next, head, moving>>
    BY <1>1, <1>3, <1>6 DEF yos_realloc, HDR_SIZE
  <2>2. /\ r \in [size : Nat, al : Nat, shift : Nat, back : Nat]
        /\ r.back = 0 /\ r.size = size /\ r.al = 1
    BY <1>2, <1>3 DEF Fresh
  <2> HIDE DEF r, shift
  <2>3. raw % 1 = 0
    BY <1>1
  <2>4. Fits(raw, r, Block(p))
    BY <1>1, <1>3, <1>4, <1>6, <2>2, <2>3 DEF Fits, HDR_SIZE
  <2>5. Ordered'
    BY <2>1 DEF Ordered, Words, Tiled, Linked, Link, Coalesced, Blocks, Free
  <2>6. \A q, s : q = raw /\ s = r => Holding'
    BY <2>1, <2>2, <2>4, WritesNothing, HoldingRenames
  <2> QED  BY <2>1, <2>5, <2>6, WritesNothing
<1>7. CASE ~(size <= oldsz - HDR_SIZE)
  <2>1. PICK prev \in Free \cup {0} :
          /\ FirstFit(prev, Need(size)) /\ do_alloc(prev, Need(size))
          /\ moving' = [moving EXCEPT ![t] =
               [raw |-> raw, new |-> Link(prev) + HDR_SIZE, size |-> size, shift |-> shift]]
          /\ wrote' = [at |-> Link(prev) + HDR_SIZE, len |-> oldsz - HDR_SIZE]
    BY <1>1, <1>7 DEF yos_realloc
  <2>2. live' = Without(p)
    BY <1>1, <1>7 DEF yos_realloc
  <2> DEFINE need == Need(size)
             cur == Link(prev)
  <2>3. need \in Nat /\ need >= MIN_BLOCK /\ need % 16 = 0 /\ need >= size + 8
    BY <1>3, NeedHolds DEF HDR_SIZE
  <2>4. /\ Ordered' /\ cur \in Nat /\ cur \notin Used
        /\ Used' = Used \cup {cur}
        /\ \A b \in Used : hdr'[b] = hdr[b]
    BY <2>1, <2>3, Carves
  <2>5. \A b : b = cur => hdr'[b] \in Nat /\ hdr'[b] >= need
    BY <2>1, <2>3, Carves
  <2> HIDE DEF shift
  <2>6. ASSUME NEW b, b = cur,
               NEW m, m = [raw |-> raw, new |-> b + 8, size |-> size, shift |-> shift]
        PROVE  Holding' /\ WritesInside'
    <3>1. b \in Nat /\ b \notin Used /\ Used' = Used \cup {b} /\ hdr'[b] \in Nat /\ hdr'[b] >= need
      BY <2>4, <2>5, <2>6
    <3>2. moving' = [moving EXCEPT ![t] = m] /\ wrote' = [at |-> b + 8, len |-> oldsz - 8]
      BY <2>1, <2>6 DEF HDR_SIZE
    <3>3. /\ m \in [raw : Nat, new : Nat, size : Nat, shift : Nat]
          /\ m.raw = raw /\ m.new = b + 8 /\ m.size = size
      BY <1>1, <1>2, <1>3, <2>6, <3>1
    <3> HIDE DEF need, cur
    <3>4. m.new + m.size <= b + hdr'[b]
      BY <1>3, <2>3, <3>1, <3>3
    <3>5. wrote' \in [at : Nat, len : Nat] /\ wrote'.at = b + 8 /\ wrote'.len = oldsz - 8
      BY <1>1, <1>4, <3>1, <3>2
    <3>6. WritesInside'
      <4>1. b \in Used' /\ (b + 8) + (oldsz - 8) <= b + hdr'[b]
        BY <1>1, <1>3, <1>7, <2>3, <3>1 DEF HDR_SIZE
      <4> QED  BY <4>1, <3>1, <3>5 DEF WritesInside, HDR_SIZE
    <3>7. Holding'
      BY <1>5, <2>2, <2>4, <3>1, <3>2, <3>3, <3>4, <3>5, HoldingMoves
    <3> QED  BY <3>6, <3>7
  <2> QED  BY <2>4, <2>6
<1> QED
  BY <1>6, <1>7

LEMMA ReallocFreesStep ==
  ASSUME Ordered, Holding, NEW t \in Threads, ReallocFrees(t)
  PROVE  Ordered' /\ Holding' /\ WritesInside'
<1> DEFINE m == moving[t]
           r == [Fresh(m.size, 1, 0) EXCEPT !.shift = m.shift]
<1>1. /\ t \in Movers /\ FreeBlock(RawBlock(t), hdr[RawBlock(t)])
      /\ live' = With(live, m.new, r) /\ moving' = [moving EXCEPT ![t] = Idle]
      /\ wrote' = NoWrite
  BY DEF ReallocFrees, Movers, RawBlock
<1>2. /\ RawBlock(t) \in Used /\ NewBlock(t) \in Used
      /\ m.new + m.size <= NewBlock(t) + hdr[NewBlock(t)]
  BY <1>1 DEF Holding, MovesPlaced
<1>3. m \in [raw : Nat, new : Nat, size : Nat, shift : Nat]
  BY DEF Holding, View
<1>4. /\ Ordered' /\ Used' = Used \ {RawBlock(t)}
      /\ \A c \in Used \ {RawBlock(t)} : hdr'[c] = hdr[c]
  BY <1>1, <1>2, Returns
<1>5. /\ r \in [size : Nat, al : Nat, shift : Nat, back : Nat]
      /\ r.back = 0 /\ r.size = m.size /\ r.al = 1
  BY <1>3 DEF Fresh
<1>6. NewBlock(t) \in Nat /\ hdr[NewBlock(t)] \in Nat /\ hdr[NewBlock(t)] >= 32
  BY <1>2, Laid DEF Used
<1>7. m.new \in Nat /\ m.size \in Nat /\ m.new = NewBlock(t) + 8
  BY <1>3 DEF NewBlock, HDR_SIZE
<1> HIDE DEF r
<1>8. m.new % 1 = 0
  BY <1>7
<1>9. Fits(m.new, r, NewBlock(t))
  BY <1>2, <1>5, <1>6, <1>7, <1>8 DEF Fits, HDR_SIZE
<1>10. \A n, s : n = m.new /\ s = r => Holding'
  BY <1>1, <1>4, <1>5, <1>9, WritesNothing, HoldingArrives
<1> QED
  BY <1>1, <1>4, <1>10, WritesNothing

\* The first call makes one free block of the region.
LEMMA InitStep ==
  ASSUME Ordered, Holding, alloc_init_locked
  PROVE  Ordered' /\ Holding' /\ WritesInside'
<1>1. /\ Blocks = {} /\ Used = {}
      /\ UNCHANGED <<live, moving>> /\ wrote' = NoWrite
  BY DEF alloc_init_locked, Used
<1>2. /\ Blocks' = {alloc_lo} /\ Free' = {alloc_lo} /\ head' = alloc_lo
      /\ hdr'[alloc_lo] = alloc_hi - alloc_lo /\ next'[alloc_lo] = 0
  BY DEF alloc_init_locked, Blocks, Free
<1>3. /\ alloc_lo \in Nat /\ alloc_hi \in Nat
      /\ alloc_lo >= 16 /\ alloc_lo % 16 = 0 /\ alloc_hi % 16 = 0
      /\ alloc_hi - alloc_lo \in Nat /\ alloc_hi - alloc_lo >= 32
  BY ArenaBounds, HeapAssumption DEF alloc_init_locked, MIN_BLOCK
<1>4. (alloc_hi - alloc_lo) % 16 = 0
  BY <1>3, Sums
<1>5. Words'
  BY <1>2, <1>3 DEF Words
<1>6. Tiled'
  BY <1>2, <1>3, <1>4 DEF Tiled, ALIGN, MIN_BLOCK
<1>7. Linked'
  BY <1>2, <1>3 DEF Linked, Link
<1>8. Coalesced'
  BY <1>2, <1>3 DEF Coalesced
<1>9. Used' = Used /\ \A b \in Used : hdr'[b] = hdr[b]
  BY <1>1, <1>2 DEF Used
<1> QED
  BY <1>1, <1>5, <1>6, <1>7, <1>8, <1>9, WritesNothing, HoldingKept DEF Ordered

\* An allocator that has not been called, with nothing held.
LEMMA Empty ==
  ASSUME hdr = [b \in {} |-> 0], next = [b \in {} |-> 0], head = 0, live = [p \in {} |-> 0],
         \A t \in Threads : moving[t] = Idle, moving \in [Threads -> {Idle}], wrote = NoWrite
  PROVE  Ordered /\ Holding /\ WritesInside
<1>1. Blocks = {} /\ Free = {} /\ Used = {} /\ DOMAIN live = {} /\ Movers = {}
  BY DEF Blocks, Free, Used, Movers
<1>2. Ordered
  BY <1>1 DEF Ordered, Words, Tiled, Linked, Coalesced
<1>3. View
  <2>1. Idle \in [raw : Nat, new : Nat, size : Nat, shift : Nat] /\ wrote \in [at : Nat, len : Nat]
    BY DEF Idle, NoWrite
  <2> QED  BY <1>1, <2>1 DEF View
<1>4. Placed /\ MovesPlaced /\ HeldApart /\ Owned
  BY <1>1 DEF Placed, MovesPlaced, HeldApart, Owned
<1>5. WritesInside
  BY DEF WritesInside, NoWrite
<1> QED
  BY <1>2, <1>3, <1>4, <1>5 DEF Holding

-----------------------------------------------------------------------------
(* The theorems *)

LEMMA InvSplit == IInv <=> Ordered /\ Holding /\ WritesInside
  BY DEF IInv, Holding

\* execve leaves nothing behind.
LEMMA ExecveStep ==
  ASSUME Holding, Execve
  PROVE  Ordered' /\ Holding' /\ WritesInside'
<1>1. /\ Blocks' = {} /\ Free' = {} /\ Used' = {} /\ DOMAIN live' = {} /\ head' = 0
      /\ wrote' = NoWrite /\ moving' = moving
  BY DEF Execve, Blocks, Free, Used
<1>2. Movers' = {}
  BY <1>1 DEF Execve, Movers
<1>3. Ordered'
  BY <1>1 DEF Ordered, Words, Tiled, Linked, Coalesced
<1>4. View'
  BY <1>1, WritesNothing DEF Holding, View
<1>5. Placed' /\ MovesPlaced' /\ HeldApart' /\ Owned'
  BY <1>1, <1>2 DEF Placed, MovesPlaced, HeldApart, Owned
<1> QED
  BY <1>1, <1>3, <1>4, <1>5, WritesNothing DEF Holding

LEMMA InitInv == Init => IInv
  BY Empty, InvSplit DEF Init

LEMMA NextInv ==
  ASSUME NoWrap, Served, IInv, [Next]_vars
  PROVE  IInv'
<1>0. Ordered /\ Holding /\ WritesInside
  BY InvSplit
<1>s. \A size \in Sizes : size \in Nat /\ size + HDR_SIZE + ALIGN <= Word
  BY HeapAssumption DEF NoWrap
<1>1. CASE alloc_init_locked
  BY <1>0, <1>1, InitStep, InvSplit DEF IInv, Holding
<1>2. ASSUME NEW size \in Sizes, yos_malloc(size, 1)  PROVE IInv'
  <2>1. HDR_SIZE % 1 = 0
    BY DEF HDR_SIZE
  <2> QED  BY <1>0, <1>s, <1>2, <2>1, MallocStep DEF IInv, Holding
<1>3. ASSUME NEW size \in Sizes, NEW al \in AllocAligns, yos_aligned_alloc(al, size)  PROVE IInv'
  <2>1. al \in Nat /\ al >= 1 /\ al <= ALIGN /\ yos_malloc(size, al)
    BY <1>3, HeapAssumption DEF yos_aligned_alloc
  <2>2. HDR_SIZE % al = 0
    BY <2>1 DEF Served
  <2> QED  BY <1>0, <1>s, <2>1, <2>2, MallocStep DEF IInv, Holding
<1>4. ASSUME NEW size \in Sizes, NEW al \in Aligns, yos_posix_memalign(al, size)  PROVE IInv'
  BY <1>0, <1>4, MemalignStep DEF IInv, Holding
<1>5. ASSUME NEW size \in Sizes, NEW nmemb \in Counts, yos_calloc(nmemb, size)  PROVE IInv'
  BY <1>0, <1>5, CallocStep DEF IInv, Holding
<1>6. ASSUME NEW size \in Sizes, NEW p \in DOMAIN live, NEW t \in Threads, yos_realloc(t, p, size)
      PROVE  IInv'
  BY <1>0, <1>6, ReallocStep DEF IInv, Holding
<1>7. ASSUME NEW p \in DOMAIN live, yos_free(p)  PROVE IInv'
  BY <1>0, <1>7, FreeStep DEF IInv, Holding
<1>8. ASSUME NEW o, NEW sz, FreeAgain(o, sz)  PROVE IInv'
  BY <1>0, <1>8, FreeAgainStep DEF IInv, Holding
<1>9. ASSUME NEW t \in Threads, ReallocFrees(t)  PROVE IInv'
  BY <1>0, <1>9, ReallocFreesStep DEF IInv, Holding
<1>10. CASE Execve
  BY <1>0, <1>10, ExecveStep DEF IInv, Holding
<1>11. CASE UNCHANGED vars
  <2>1. Ordered'
    BY <1>11, <1>0 DEF vars, Ordered, Words, Tiled, Linked, Link, Coalesced, Blocks, Free
  <2>2. Used' = Used /\ \A b \in Used : hdr'[b] = hdr[b]
    BY <1>11 DEF vars, Used, Blocks, Free
  <2>3. Holding'
    <3>1. wrote' \in [at : Nat, len : Nat] /\ UNCHANGED <<live, moving>>
      BY <1>0, <1>11 DEF vars, Holding, View
    <3> QED  BY <1>0, <2>2, <3>1, HoldingKept
  <2>4. WritesInside'
    BY <1>0, <1>11, <2>2 DEF vars, WritesInside
  <2> QED  BY <2>1, <2>3, <2>4 DEF IInv, Holding
<1> QED
  BY <1>1, <1>2, <1>3, <1>4, <1>5, <1>6, <1>7, <1>8, <1>9, <1>10, <1>11 DEF Next

\* While no rounded request wraps around and aligned_alloc is asked for no more
\* than malloc gives, every call of alloc.c leaves list, headers and the guest's
\* pointers in agreement.
THEOREM HeapInvariant ==
  ASSUME NoWrap, Served
  PROVE  Spec => []IInv
<1>1. IInv /\ [Next]_vars => IInv'
  BY NextInv
<1> QED
  BY InitInv, <1>1, PTL DEF Spec

\* The blocks of alloc.c tile the region: none is lost, none overlaps another,
\* none reaches beyond its ends, for every region, request and sequence of calls,
\* repeated frees included.
THEOREM BlocksTile ==
  ASSUME NoWrap, Served
  PROVE  Spec => []Tiled
<1>1. IInv => Tiled
  BY DEF IInv, Ordered
<1> QED
  BY HeapInvariant, <1>1, PTL

\* What calloc clears, realloc copies and posix_memalign notes down stays inside
\* one block in use.
THEOREM WritesStayInside ==
  ASSUME NoWrap, Served
  PROVE  Spec => []WritesInside
<1>1. IInv => WritesInside
  BY DEF IInv
<1> QED
  BY HeapInvariant, <1>1, PTL

\* Every block in use has one owner, from whose pointer yos_free and yos_realloc
\* find it, and room for what was asked for.
THEOREM BlocksHaveOneOwner ==
  ASSUME NoWrap, Served
  PROVE  Spec => []OneOwner
<1>1. IInv => OneOwner
  <2> SUFFICES ASSUME IInv  PROVE OneOwner
    OBVIOUS
  <2>0. Ordered /\ View /\ Placed /\ MovesPlaced /\ HeldApart /\ Owned
    BY DEF IInv
  <2>1. \A p \in DOMAIN live : Home(p) = Block(p) /\ Base(p) = Block(p) + 8 /\ Block(p) \in Nat
    BY <2>0, Finds
  <2>2. ASSUME NEW p \in DOMAIN live
        PROVE  /\ Home(p) \in Used /\ p >= Home(p) + HDR_SIZE
               /\ p + live[p].size <= Home(p) + hdr[Home(p)]
               /\ p % live[p].al = 0
               /\ \A q \in DOMAIN live : Home(p) = Home(q) => p = q
               /\ \A t \in Movers : Home(p) \notin {moving[t].raw - HDR_SIZE, moving[t].new - HDR_SIZE}
    BY <2>0, <2>1 DEF Placed, HeldApart, RawBlock, NewBlock, HDR_SIZE
  <2>3. ASSUME NEW t \in Movers
        PROVE  /\ {moving[t].raw - HDR_SIZE, moving[t].new - HDR_SIZE} \subseteq Used
               /\ moving[t].raw # moving[t].new
               /\ moving[t].new + moving[t].size <= moving[t].new - HDR_SIZE + hdr[moving[t].new - HDR_SIZE]
               /\ \A u \in Movers \ {t} :
                    {moving[t].raw, moving[t].new} \cap {moving[u].raw, moving[u].new} = {}
    <3>1. \A u \in Movers \ {t} : /\ moving[t].raw # moving[u].raw /\ moving[t].new # moving[u].new
                                  /\ moving[t].raw # moving[u].new /\ moving[t].new # moving[u].raw
      BY <2>0 DEF HeldApart, RawBlock, NewBlock
    <3> QED  BY <2>0, <3>1 DEF MovesPlaced, RawBlock, NewBlock
  <2>4. ASSUME NEW b \in Used
        PROVE  \/ \E p \in DOMAIN live : Home(p) = b
               \/ \E t \in Movers : b \in {moving[t].raw - HDR_SIZE, moving[t].new - HDR_SIZE}
    BY <2>0, <2>1 DEF Owned, RawBlock, NewBlock
  <2> QED  BY <2>2, <2>3, <2>4 DEF OneOwner
<1> QED
  BY HeapInvariant, <1>1, PTL

\* When the guest has given everything back the region is one free block again.
THEOREM AllIsRecovered ==
  ASSUME NoWrap, Served
  PROVE  Spec => []Recovered
<1>1. IInv => Recovered
  <2> SUFFICES ASSUME IInv, DOMAIN live = {}, Movers = {}, Blocks # {}
               PROVE  Blocks = {alloc_lo} /\ Free = {alloc_lo} /\ hdr[alloc_lo] = alloc_hi - alloc_lo
    BY DEF Recovered
  <2>0. Ordered /\ Owned
    BY DEF IInv
  <2>1. Used = {}
    BY <2>0 DEF Owned
  <2>2. Free = Blocks
    BY <2>0, <2>1, Laid DEF Used
  <2>3. \A b \in Blocks : b + hdr[b] = alloc_hi
    BY <2>0, <2>2, Laid
  <2>4. ASSUME NEW b \in Blocks, NEW c \in Blocks, b < c  PROVE FALSE
    <3>1. /\ b \in Nat /\ c \in Nat /\ hdr[c] \in Nat /\ hdr[c] >= 32
          /\ b + hdr[b] <= c /\ b + hdr[b] = alloc_hi /\ c + hdr[c] = alloc_hi
      BY <2>0, <2>3, <2>4, Laid
    <3> QED  BY <3>1, ArenaBounds
  <2>5. alloc_lo \in Blocks /\ \A b \in Blocks : b \in Nat /\ hdr[b] \in Nat
    BY <2>0, Laid
  <2>6. \A b \in Blocks : b = alloc_lo
    BY <2>4, <2>5
  <2>7. Blocks = {alloc_lo}
    BY <2>5, <2>6
  <2>8. hdr[alloc_lo] = alloc_hi - alloc_lo
    BY <2>3, <2>5, ArenaBounds
  <2> QED  BY <2>2, <2>7, <2>8
<1> QED
  BY HeapInvariant, <1>1, PTL

-----------------------------------------------------------------------------
(* The mappings: what the theorems suppose *)

\* The image's static data end in the lower half of the memory.
BaseLow == HeapBase <= Half

----------------------------------------------------------------------------
(* The inductive invariant *)

\* The bump allocator's cursor, in use or not.
Top == IF mmapTop = 0 THEN Half ELSE mmapTop

\* Regions mmap may have given out by the time the cursor is at t.
Spots(t) == {r \in [addr : Nat, len : Nat] : r.len >= 1 /\ 1 <= r.addr /\ r.addr + r.len <= t}

Apart(r, s) == r.addr + r.len <= s.addr \/ s.addr + s.len <= r.addr

AllApart(L) == \A j, k \in 1 .. Len(L) : j # k => Apart(L[j], L[k])

\* r is apart from all of L from index i on.
ApartFrom(r, L, i) == \A k \in 1 .. Len(L) : k >= i => Apart(r, L[k])

\* Where the two regions meet, they meet inside lo .. hi - 1.
MeetIn(r, s, lo, hi) == \A u \in Units(r) : u \in Units(s) => lo <= u /\ u < hi

\* As long as nothing has gone wrong: the heap, and all that need not be zero.
Low == IF harm = {} THEN 0 .. heapEnd - 1 ELSE {}
Dirty == IF harm = {} THEN stale \cup 0 .. heapEnd - 1 ELSE {}

\* The guest has no unit of r, and all are zero and above the heap.
Clean(r) == \A u \in Units(r) : u \notin held /\ u \notin Dirty

Bounds ==
  /\ heapEnd \in Nat /\ 1 <= heapEnd /\ heapEnd <= Top
  /\ mmapTop \in Nat /\ (mmapTop = 0 \/ Half <= mmapTop) /\ mmapTop <= MemSize
  /\ allocHi \in {0, Half} /\ isChild \in BOOLEAN
  /\ held \subseteq 1 .. Top - 1
  /\ stale \subseteq 0 .. MemSize - 1

Listed ==
  /\ freeList \in Seq(Spots(Top)) /\ Len(freeList) <= MaxFree
  /\ liveList \in Seq(Spots(Top)) /\ Len(liveList) <= MaxLive

\* Holes are nobody's, zero, and apart from each other.
Holes ==
  /\ AllApart(freeList)
  /\ \A k \in 1 .. Len(freeList) : Clean(freeList[k])

Calls ==
  [at : {"idle", "free", "merge", "unlive", "carve", "own"}, fixed : BOOLEAN,
   lo : Nat, hi : Nat, i : Nat \ {0}, hole : [addr : Nat, len : Nat]]

\* A munmap is going through the mappings, and is not past the one at call.i.
Unmapping == call.at \in {"free", "merge"}

\* Mappings and holes meet only where a call in progress will part them.
Parted ==
  \A k \in 1 .. Len(liveList), m \in 1 .. Len(freeList) :
    \/ call.at \in {"free", "merge", "unlive"} /\ MeetIn(liveList[k], freeList[m], call.lo, call.hi)
    \/ Apart(liveList[k], freeList[m])

\* What the loops have established so far.
Progress ==
  /\ call \in Calls
  /\ call.at = "idle" => call = NoCall
  /\ call.at # "idle" => call.lo < call.hi /\ call.hi <= MemSize
  /\ call.at # "idle" /\ call.fixed => call.lo >= 1
  /\ Unmapping => /\ ~call.fixed
                  /\ \A m \in 1 .. Len(freeList) : ApartFrom(freeList[m], liveList, call.i)
                  /\ \A u \in held : u < call.lo \/ call.hi <= u
  /\ call.at = "merge" =>
       /\ call.hole \in Spots(Top) /\ Clean(call.hole)
       /\ ApartFrom(call.hole, freeList, 1) /\ ApartFrom(call.hole, liveList, call.i)
       /\ \A k \in 1 .. Len(liveList) : MeetIn(liveList[k], call.hole, call.lo, call.hi)
  /\ call.at = "unlive" =>
       \A k \in 1 .. Len(liveList) : k < call.i => ~Overlaps(liveList[k], call.lo, call.hi)
  /\ call.at \in {"carve", "own"} =>
       call.fixed /\ \A k \in 1 .. Len(liveList) : ~Overlaps(liveList[k], call.lo, call.hi)
  /\ call.at = "carve" =>
       \A k \in 1 .. Len(freeList) : k < call.i => ~Overlaps(freeList[k], call.lo, call.hi)
  /\ call.at = "own" =>
       \A k \in 1 .. Len(freeList) : ~Overlaps(freeList[k], call.lo, call.hi)

\* What is the mmap side's is above the heap.
Above ==
  /\ \A u \in held : u \notin Low
  /\ \A k \in 1 .. Len(liveList) : \A u \in Units(liveList[k]) : u \notin Low
  /\ call.fixed => \A u \in call.lo .. call.hi - 1 : u \notin Low

\* Nothing but the break can be the first to go wrong.
Harmless == harm = {} \/ harm = {"overrun"}

MapInv ==
  /\ Bounds /\ Listed /\ Holes /\ AllApart(liveList) /\ Parted /\ Progress
  /\ Above /\ Harmless

----------------------------------------------------------------------------
(* Regions and lists *)

LEMMA MapConstants ==
  /\ MemSize \in Nat /\ MemSize >= 1 /\ PageSize \in Nat /\ PageSize >= 1
  /\ MaxFree \in Nat /\ MaxFree >= 1 /\ MaxLive \in Nat /\ MaxLive >= 1
  /\ HeapBase \in Nat /\ HeapBase >= 1 /\ ArenaMin \in Nat
  /\ Half \in Nat /\ Half <= MemSize
  /\ Lengths \subseteq Nat /\ Addrs \subseteq Nat /\ FixedAddrs \subseteq Nat /\ BrkAddrs \subseteq Nat
<1>1. MemSize \in Nat /\ MemSize >= 1 BY MemAssumption
<1>2. MemSize \div 2 \in Nat /\ MemSize \div 2 <= MemSize BY <1>1
<1> QED BY <1>1, <1>2, MemAssumption DEF Half

LEMMA LeastIn ==
  ASSUME NEW S \in SUBSET Nat, S # {}
  PROVE  Min(S) \in S /\ \A y \in S : Min(S) <= y
<1>1. PICK x \in S : \A y \in S : ~(<<y, x>> \in OpToRel(<, Nat))
  BY WFMin, NatLessThanWellFounded
<1>2. ASSUME NEW y \in S PROVE x =< y
  <2>1. y < x => <<y, x>> \in OpToRel(<, Nat)
    BY DEF OpToRel
  <2>2. ~(y < x)
    BY <1>1, <2>1, Zenon
  <2> QED BY <2>2
<1> QED BY <1>2 DEF Min

LEMMA MaxOfTwo ==
  ASSUME NEW a \in Nat, NEW b \in Nat
  PROVE  Max({a, b}) = IF a >= b THEN a ELSE b
BY DEF Max

LEMMA MinOfTwo ==
  ASSUME NEW a \in Nat, NEW b \in Nat
  PROVE  Min({a, b}) = IF a <= b THEN a ELSE b
BY DEF Min

LEMMA RoundedUp ==
  ASSUME NEW n \in Nat
  PROVE  PageUp(n) \in Nat
<1>1. n + PageSize - 1 \in Nat /\ PageSize \in Nat /\ PageSize >= 1 BY MapConstants
<1>2. (n + PageSize - 1) \div PageSize \in Nat BY <1>1
<1>3. \A a, b \in Nat : a * b \in Nat OBVIOUS
<1> QED BY <1>1, <1>2, <1>3 DEF PageUp

Regions == [addr : Nat, len : Nat]

LEMMA UnitsOf ==
  ASSUME NEW r \in Regions, NEW u
  PROVE  u \in Units(r) <=> u \in Nat /\ r.addr <= u /\ u < r.addr + r.len
BY DEF Units, Regions

\* A region between two addresses is what it should be, and empty when they are
\* the wrong way round.
LEMMA RegionOf ==
  ASSUME NEW lo \in Nat, NEW hi \in Nat
  PROVE  /\ Region(lo, hi) \in Regions
         /\ Region(lo, hi).addr = lo
         /\ Region(lo, hi).len = IF hi > lo THEN hi - lo ELSE 0
         /\ \A u : u \in Units(Region(lo, hi)) <=> u \in Nat /\ lo <= u /\ u < hi
<1>1. /\ Region(lo, hi) \in Regions
      /\ Region(lo, hi).addr = lo
      /\ Region(lo, hi).len = IF hi > lo THEN hi - lo ELSE 0
  BY DEF Region, Regions
<1> QED BY <1>1, UnitsOf

LEMMA SpotsAre ==
  ASSUME NEW t \in Nat
  PROVE  /\ Spots(t) \subseteq Regions
         /\ \A r \in Regions : r \in Spots(t) <=> r.len >= 1 /\ 1 <= r.addr /\ r.addr + r.len <= t
         /\ \A s \in Nat : t <= s => Spots(t) \subseteq Spots(s)
BY MapConstants DEF Spots, Regions

\* A list of spots stays one when the cursor rises.
LEMMA SpotsGrow ==
  ASSUME NEW t \in Nat, NEW s \in Nat, t <= s, NEW L \in Seq(Spots(t))
  PROVE  L \in Seq(Spots(s))
<1>1. Spots(t) \subseteq Spots(s) BY SpotsAre
<1> QED BY <1>1

LEMMA SwapRemoved ==
  ASSUME NEW S, NEW L \in Seq(S), NEW i \in 1 .. Len(L)
  PROVE  /\ SwapRemove(L, i) \in Seq(S)
         /\ Len(SwapRemove(L, i)) = Len(L) - 1
         /\ \A j \in 1 .. Len(L) - 1 : SwapRemove(L, i)[j] = IF j = i THEN L[Len(L)] ELSE L[j]
<1> DEFINE n == Len(L) - 1
           R == SwapRemove(L, i)
<1>1. n \in Nat /\ Len(L) \in Nat OBVIOUS
<1>2. R \in [1 .. n -> S] BY <1>1 DEF SwapRemove
<1>3. R \in Seq(S) BY <1>1, <1>2, SeqDef
<1>4. Len(R) \in Nat /\ DOMAIN R = 1 .. Len(R) BY <1>3, LenProperties
<1>5. DOMAIN R = 1 .. n BY <1>2
<1>6. Len(R) = n BY <1>1, <1>4, <1>5
<1>7. \A j \in 1 .. n : R[j] = IF j = i THEN L[Len(L)] ELSE L[j] BY DEF SwapRemove
<1> QED BY <1>3, <1>6, <1>7

\* Each region of the shorter list is one of the longer, a different one for a
\* different index, and none of them is the one removed.
LEMMA SwapKeeps ==
  ASSUME NEW S, NEW L \in Seq(S), NEW i \in 1 .. Len(L), NEW j \in 1 .. Len(SwapRemove(L, i))
  PROVE  \E k \in 1 .. Len(L) :
           /\ k # i /\ SwapRemove(L, i)[j] = L[k]
           /\ k = IF j = i THEN Len(L) ELSE j
<1>0. Len(L) \in Nat BY LenProperties
<1>1. /\ Len(SwapRemove(L, i)) = Len(L) - 1
      /\ \A m \in 1 .. Len(L) - 1 : SwapRemove(L, i)[m] = IF m = i THEN L[Len(L)] ELSE L[m]
  BY SwapRemoved, Zenon
<1>2. CASE j = i
  <2>1. Len(L) \in 1 .. Len(L) /\ Len(L) # i /\ SwapRemove(L, i)[j] = L[Len(L)] BY <1>0, <1>1, <1>2
  <2> QED BY <1>2, <2>1
<1>3. CASE j # i
  <2>1. j \in 1 .. Len(L) /\ SwapRemove(L, i)[j] = L[j] BY <1>0, <1>1, <1>3
  <2> QED BY <1>3, <2>1
<1> QED BY <1>2, <1>3

LEMMA SwapApart ==
  ASSUME NEW S, NEW L \in Seq(S), NEW i \in 1 .. Len(L), AllApart(L)
  PROVE  /\ AllApart(SwapRemove(L, i))
         /\ ApartFrom(L[i], SwapRemove(L, i), 1)
<1> DEFINE R == SwapRemove(L, i)
<1>1. \A j \in 1 .. Len(R) : \E k \in 1 .. Len(L) : k # i /\ R[j] = L[k] /\ k = IF j = i THEN Len(L) ELSE j
  BY SwapKeeps
<1>2. Len(R) = Len(L) - 1 /\ Len(L) \in Nat BY SwapRemoved
<1> HIDE DEF R
<1>3. ASSUME NEW j \in 1 .. Len(R), NEW m \in 1 .. Len(R), j # m PROVE Apart(R[j], R[m])
  <2>1. PICK k \in 1 .. Len(L) : k # i /\ R[j] = L[k] /\ k = IF j = i THEN Len(L) ELSE j BY <1>1
  <2>2. PICK n \in 1 .. Len(L) : n # i /\ R[m] = L[n] /\ n = IF m = i THEN Len(L) ELSE m BY <1>1
  <2>3. k # n BY <1>2, <1>3, <2>1, <2>2
  <2> QED BY <2>1, <2>2, <2>3 DEF AllApart
<1>4. ASSUME NEW j \in 1 .. Len(R) PROVE Apart(L[i], R[j])
  <2>1. PICK k \in 1 .. Len(L) : k # i /\ R[j] = L[k] BY <1>1
  <2> QED BY <2>1 DEF AllApart
<1> QED BY <1>3, <1>4 DEF AllApart, ApartFrom, R

LEMMA Appended ==
  ASSUME NEW S, NEW L \in Seq(S), NEW r \in S
  PROVE  /\ Append(L, r) \in Seq(S) /\ Len(Append(L, r)) = Len(L) + 1 /\ Len(L) \in Nat
         /\ \A k \in 1 .. Len(L) : Append(L, r)[k] = L[k]
         /\ Append(L, r)[Len(L) + 1] = r
OBVIOUS

\* A property of every region of a list and of the new one.
LEMMA AppendedEach ==
  ASSUME NEW S, NEW L \in Seq(S), NEW r \in S, NEW k \in 1 .. Len(Append(L, r))
  PROVE  \/ Append(L, r)[k] = r /\ k = Len(L) + 1
         \/ k \in 1 .. Len(L) /\ Append(L, r)[k] = L[k]
<1>1. Len(Append(L, r)) = Len(L) + 1 /\ Len(L) \in Nat OBVIOUS
<1>2. k \in 1 .. Len(L) \/ k = Len(L) + 1 BY <1>1
<1>3. CASE k \in 1 .. Len(L) BY <1>3
<1>4. CASE k = Len(L) + 1 BY <1>4
<1> QED BY <1>2, <1>3, <1>4

LEMMA AppendApart ==
  ASSUME NEW S, NEW L \in Seq(S), NEW r \in S, AllApart(L), ApartFrom(r, L, 1)
  PROVE  AllApart(Append(L, r))
<1> DEFINE A == Append(L, r)
<1>1. \A k \in 1 .. Len(A) : (A[k] = r /\ k = Len(L) + 1) \/ (k \in 1 .. Len(L) /\ A[k] = L[k])
  BY AppendedEach
<1> HIDE DEF A
<1>2. \A k \in 1 .. Len(L) : Apart(r, L[k]) /\ Apart(L[k], r) BY DEF ApartFrom, Apart
<1>3. ASSUME NEW j \in 1 .. Len(A), NEW k \in 1 .. Len(A), j # k PROVE Apart(A[j], A[k])
  BY <1>1, <1>2, <1>3 DEF AllApart
<1> QED BY <1>3 DEF AllApart, A

\* What is apart shares no unit, and what is not empty and shares none is apart.
LEMMA ApartUnits ==
  ASSUME NEW r \in Regions, NEW s \in Regions
  PROVE  /\ Apart(r, s) => \A u \in Units(r) : u \notin Units(s)
         /\ r.len >= 1 /\ s.len >= 1 /\ (\A u \in Units(r) : u \notin Units(s)) => Apart(r, s)
         /\ Apart(r, s) <=> Apart(s, r)
<1>1. r.addr \in Nat /\ r.len \in Nat /\ s.addr \in Nat /\ s.len \in Nat BY DEF Regions
<1>2. Apart(r, s) => \A u \in Units(r) : u \notin Units(s) BY <1>1, UnitsOf DEF Apart
<1>3. ASSUME r.len >= 1, s.len >= 1, ~Apart(r, s) PROVE \E u \in Units(r) : u \in Units(s)
  <2>1. CASE r.addr <= s.addr
    <3>1. s.addr \in Units(r) /\ s.addr \in Units(s) BY <1>1, <1>3, <2>1, UnitsOf DEF Apart
    <3> QED BY <3>1
  <2>2. CASE s.addr <= r.addr
    <3>1. r.addr \in Units(r) /\ r.addr \in Units(s) BY <1>1, <1>3, <2>2, UnitsOf DEF Apart
    <3> QED BY <3>1
  <2> QED BY <1>1, <2>1, <2>2
<1>4. Apart(r, s) <=> Apart(s, r) BY DEF Apart
<1> QED BY <1>2, <1>3, <1>4

\* Nor does a smaller region share what the larger one does not.
LEMMA ApartWithin ==
  ASSUME NEW r \in Regions, NEW s \in Regions, NEW q \in Regions,
         r.addr <= q.addr, q.addr + q.len <= r.addr + r.len, Apart(r, s)
  PROVE  Apart(q, s) \/ q.len = 0
BY DEF Regions, Apart

\* Pushing a hole: what the list holds afterwards, and where.  Only a full list
\* loses a hole, and then the last one is moved to the front.
LEMMA Pushed ==
  ASSUME NEW t \in Nat, NEW F \in Seq(Spots(t)), Len(F) <= MaxFree, AllApart(F),
         NEW r \in Regions, r.len = 0 \/ (r \in Spots(t) /\ ApartFrom(r, F, 1))
  PROVE  LET G == free_list_push_raw(F, r)
         IN  /\ G \in Seq(Spots(t)) /\ Len(G) <= MaxFree /\ AllApart(G)
             /\ \A k \in 1 .. Len(G) :
                  \/ G[k] = r /\ r.len >= 1
                  \/ k \in 1 .. Len(F) /\ G[k] = F[k]
                  \/ k = 1 /\ Len(F) >= MaxFree /\ G[k] = F[Len(F)]
<1> DEFINE G == free_list_push_raw(F, r)
           E == SwapRemove(F, 1)
<1>0. /\ Len(F) \in Nat /\ r.len \in Nat /\ MaxFree \in Nat /\ MaxFree >= 1
  BY LenProperties, MapConstants DEF Regions
<1>1. CASE r.len = 0
  <2>1. G = F BY <1>1 DEF free_list_push_raw
  <2> QED BY <2>1
<1>2. CASE r.len # 0 /\ ~(Len(F) >= MaxFree)
  <2>1. G = Append(F, r) BY <1>2 DEF free_list_push_raw
  <2>2. r \in Spots(t) /\ ApartFrom(r, F, 1) BY <1>2
  <2>3. G \in Seq(Spots(t)) /\ Len(G) = Len(F) + 1 BY <2>1, <2>2
  <2>4. Len(G) <= MaxFree BY <1>0, <1>2, <2>3
  <2>5. AllApart(G) BY <2>1, <2>2, AppendApart
  <2>6. \A k \in 1 .. Len(G) : G[k] = r \/ (k \in 1 .. Len(F) /\ G[k] = F[k])
    BY <2>1, <2>2, AppendedEach
  <2>7. r.len >= 1 BY <1>0, <1>2
  <2> HIDE DEF G
  <2> QED BY <2>3, <2>4, <2>5, <2>6, <2>7 DEF G
<1>3. CASE r.len # 0 /\ Len(F) >= MaxFree
  <2>1. G = Append(E, r) BY <1>3 DEF free_list_push_raw
  <2>2. r \in Spots(t) /\ ApartFrom(r, F, 1) BY <1>3
  <2>3. Len(F) = MaxFree /\ 1 \in 1 .. Len(F) BY <1>0, <1>3
  <2>4. /\ E \in Seq(Spots(t)) /\ Len(E) = Len(F) - 1
        /\ \A j \in 1 .. Len(F) - 1 : E[j] = IF j = 1 THEN F[Len(F)] ELSE F[j]
    BY <2>3, SwapRemoved
  <2>5. AllApart(E) BY <2>3, SwapApart
  <2>6. ASSUME NEW j \in 1 .. Len(E)
        PROVE  \/ j \in 1 .. Len(F) /\ E[j] = F[j]
               \/ j = 1 /\ E[j] = F[Len(F)] /\ Len(F) \in 1 .. Len(F)
    <3> HIDE DEF E
    <3> QED BY <1>0, <2>3, <2>4
  <2>7. ApartFrom(r, E, 1)
    <3>1. \A k \in 1 .. Len(F) : Apart(r, F[k]) BY <2>2 DEF ApartFrom
    <3> HIDE DEF E
    <3>2. \A j \in 1 .. Len(E) : Apart(r, E[j]) BY <3>1, <2>6
    <3> QED BY <3>2 DEF ApartFrom
  <2>8. G \in Seq(Spots(t)) /\ Len(G) = Len(E) + 1 BY <2>1, <2>2, <2>4
  <2>9. AllApart(G) BY <2>1, <2>2, <2>4, <2>5, <2>7, AppendApart
  <2>10. \A k \in 1 .. Len(G) : G[k] = r \/ (k \in 1 .. Len(E) /\ G[k] = E[k])
    BY <2>1, <2>2, <2>4, AppendedEach
  <2>11. r.len >= 1 BY <1>0, <1>3
  <2> HIDE DEF G, E
  <2>12. Len(G) <= MaxFree BY <1>0, <2>3, <2>4, <2>8
  <2>13. ASSUME NEW k \in 1 .. Len(G)
         PROVE  \/ G[k] = r /\ r.len >= 1
                \/ k \in 1 .. Len(F) /\ G[k] = F[k]
                \/ k = 1 /\ Len(F) >= MaxFree /\ G[k] = F[Len(F)]
    BY <1>3, <2>6, <2>10, <2>11
  <2> QED BY <2>8, <2>9, <2>12, <2>13 DEF G
<1> QED BY <1>1, <1>2, <1>3

\* Adding a mapping: the list holds what it held, where it held it, and perhaps
\* the new mapping behind that.
LEMMA Added ==
  ASSUME NEW t \in Nat, NEW L \in Seq(Spots(t)), Len(L) <= MaxLive, AllApart(L),
         NEW r \in Regions, r.len = 0 \/ (r \in Spots(t) /\ ApartFrom(r, L, 1))
  PROVE  LET G == live_add(L, r)
         IN  /\ G \in Seq(Spots(t)) /\ Len(G) <= MaxLive /\ AllApart(G)
             /\ \A k \in 1 .. Len(G) :
                  \/ G[k] = r /\ r.len >= 1 /\ k = Len(L) + 1
                  \/ k \in 1 .. Len(L) /\ G[k] = L[k]
<1> DEFINE G == live_add(L, r)
<1>0. Len(L) \in Nat /\ r.len \in Nat /\ MaxLive \in Nat
  BY LenProperties, MapConstants DEF Regions
<1>1. CASE r.len = 0 \/ Len(L) >= MaxLive
  <2>1. G = L BY <1>1 DEF live_add
  <2> QED BY <2>1
<1>2. CASE r.len # 0 /\ ~(Len(L) >= MaxLive)
  <2>1. G = Append(L, r) BY <1>2 DEF live_add
  <2>2. r \in Spots(t) /\ ApartFrom(r, L, 1) BY <1>2
  <2>3. G \in Seq(Spots(t)) /\ Len(G) = Len(L) + 1 BY <2>1, <2>2
  <2>4. Len(G) <= MaxLive BY <1>0, <1>2, <2>3
  <2>5. AllApart(G) BY <2>1, <2>2, AppendApart
  <2>6. \A k \in 1 .. Len(G) : (G[k] = r /\ k = Len(L) + 1) \/ (k \in 1 .. Len(L) /\ G[k] = L[k])
    BY <2>1, <2>2, AppendedEach
  <2>7. r.len >= 1 BY <1>0, <1>2
  <2> HIDE DEF G
  <2> QED BY <2>3, <2>4, <2>5, <2>6, <2>7 DEF G
<1> QED BY <1>1, <1>2

\* What a range leaves of a region it meets: two pieces inside the region, outside
\* the range, and apart from each other.
LEMMA Pieces ==
  ASSUME NEW t \in Nat, NEW r \in Spots(t), NEW lo \in Nat, NEW hi \in Nat, lo < hi,
         Overlaps(r, lo, hi)
  PROVE  /\ LeftOf(r, lo) \in Regions /\ RightOf(r, hi) \in Regions
         /\ LeftOf(r, lo).len = 0 \/ LeftOf(r, lo) \in Spots(t)
         /\ RightOf(r, hi).len = 0 \/ RightOf(r, hi) \in Spots(t)
         /\ Apart(LeftOf(r, lo), RightOf(r, hi))
         /\ LeftOf(r, lo).len = 0 \/ ~Overlaps(LeftOf(r, lo), lo, hi)
         /\ ~Overlaps(RightOf(r, hi), lo, hi)
         /\ \A u \in Units(LeftOf(r, lo)) : u \in Units(r)
         /\ \A u \in Units(RightOf(r, hi)) : u \in Units(r)
         /\ \A s \in Regions : Apart(r, s) =>
              /\ LeftOf(r, lo).len = 0 \/ Apart(LeftOf(r, lo), s)
              /\ RightOf(r, hi).len = 0 \/ Apart(RightOf(r, hi), s)
<1> DEFINE p == LeftOf(r, lo)
           q == RightOf(r, hi)
<1>1. r \in Regions /\ r.addr \in Nat /\ r.len \in Nat /\ r.len >= 1 /\ 1 <= r.addr /\ r.addr + r.len <= t
  BY DEF Spots, Regions
<1>2. /\ p \in Regions /\ p.addr = r.addr
      /\ p.len = IF lo > r.addr THEN lo - r.addr ELSE 0
  BY <1>1, RegionOf DEF LeftOf
<1>3. /\ q \in Regions /\ q.addr = hi
      /\ q.len = IF r.addr + r.len > hi THEN r.addr + r.len - hi ELSE 0
  <2>1. r.addr + r.len \in Nat BY <1>1
  <2> DEFINE e == r.addr + r.len
  <2>2. q = Region(hi, e) BY DEF RightOf
  <2> HIDE DEF e, q
  <2>3. q \in Regions /\ q.addr = hi /\ q.len = IF e > hi THEN e - hi ELSE 0
    BY <2>1, <2>2, RegionOf DEF e
  <2> QED BY <1>1, <2>3 DEF e
<1>4. r.addr < hi /\ lo < r.addr + r.len BY DEF Overlaps
<1> HIDE DEF p, q
<1>5. p.len = 0 \/ p \in Spots(t) BY <1>1, <1>2, <1>4, SpotsAre
<1>6. q.len = 0 \/ q \in Spots(t)
  <2>1. ASSUME q.len # 0 PROVE q.len >= 1 /\ 1 <= q.addr /\ q.addr + q.len <= t
    BY <1>1, <1>3, <1>4, <2>1, MapConstants
  <2> QED BY <1>3, <2>1, SpotsAre
<1>7. Apart(p, q) /\ (p.len = 0 \/ ~Overlaps(p, lo, hi)) /\ ~Overlaps(q, lo, hi)
  BY <1>1, <1>2, <1>3, <1>4 DEF Apart, Overlaps
<1>8. \A u \in Units(p) : u \in Units(r)
  BY <1>1, <1>2, <1>4, UnitsOf
<1>9. \A u \in Units(q) : u \in Units(r)
  BY <1>1, <1>3, <1>4, UnitsOf
<1>10. ASSUME NEW s \in Regions, Apart(r, s)
       PROVE  (p.len = 0 \/ Apart(p, s)) /\ (q.len = 0 \/ Apart(q, s))
  BY <1>1, <1>2, <1>3, <1>4, <1>10 DEF Apart, Regions
<1> QED BY <1>2, <1>3, <1>5, <1>6, <1>7, <1>8, <1>9, <1>10 DEF p, q

LEMMA Within ==
  ASSUME NEW r \in Regions, NEW q \in Regions,
         r.addr <= q.addr, q.addr + q.len <= r.addr + r.len
  PROVE  /\ \A u \in Units(q) : u \in Units(r)
         /\ \A s \in Regions : Apart(s, r) => Apart(s, q)
<1>1. r.addr \in Nat /\ r.len \in Nat /\ q.addr \in Nat /\ q.len \in Nat BY DEF Regions
<1>2. \A u \in Units(q) : u \in Units(r) BY <1>1, UnitsOf
<1>3. \A s \in Regions : Apart(s, r) => Apart(s, q) BY <1>1 DEF Regions, Apart
<1> QED BY <1>2, <1>3

----------------------------------------------------------------------------
(* What the invariant says of the lists *)

LEMMA TopIs ==
  ASSUME Bounds
  PROVE  Top \in Nat /\ Half <= Top /\ Top <= MemSize /\ 1 <= Top
<1>1. Top \in Nat /\ Half <= Top /\ Top <= MemSize BY MapConstants DEF Bounds, Top
<1> QED BY <1>1 DEF Bounds

LEMMA SameMemory ==
  ASSUME UNCHANGED <<heapEnd, stale, harm>>
  PROVE  Dirty' = Dirty /\ Low' = Low
BY DEF Dirty, Low

LEMMA Members ==
  ASSUME Bounds, Listed
  PROVE  /\ Len(freeList) \in Nat /\ DOMAIN freeList = 1 .. Len(freeList)
         /\ Len(liveList) \in Nat /\ DOMAIN liveList = 1 .. Len(liveList)
         /\ \A k \in 1 .. Len(freeList) : freeList[k] \in Spots(Top) /\ freeList[k] \in Regions
         /\ \A k \in 1 .. Len(liveList) : liveList[k] \in Spots(Top) /\ liveList[k] \in Regions
<1>1. Spots(Top) \subseteq Regions BY TopIs, SpotsAre
<1>2. freeList \in Seq(Spots(Top)) /\ liveList \in Seq(Spots(Top)) BY DEF Listed
<1> QED BY <1>1, <1>2, LenProperties, ElementOfSeq

LEMMA SpotIs ==
  ASSUME NEW t \in Nat, NEW r \in Spots(t)
  PROVE  /\ r \in Regions /\ r.addr \in Nat /\ r.len \in Nat /\ r.len >= 1
         /\ 1 <= r.addr /\ r.addr + r.len <= t
         /\ \A u \in Units(r) : u \in Nat /\ 1 <= u /\ u < t
<1>1. /\ r \in Regions /\ r.addr \in Nat /\ r.len \in Nat /\ r.len >= 1
      /\ 1 <= r.addr /\ r.addr + r.len <= t
  BY DEF Spots, Regions
<1> QED BY <1>1, UnitsOf, MapConstants

----------------------------------------------------------------------------
(* The steps that leave the lists alone or empty them *)

LEMMA MapInitHolds ==
  ASSUME BaseLow, MapInit
  PROVE  MapInv
<1>0. isChild \in BOOLEAN BY DEF MapInit
<1>1. Bounds
  <2>1. /\ heapEnd = HeapBase /\ mmapTop = 0 /\ allocHi = 0 /\ held = {} /\ stale = {}
    BY DEF MapInit
  <2> QED BY <1>0, <2>1, MapConstants DEF Bounds, BaseLow, Top
<1>2. Len(freeList) = 0 /\ Len(liveList) = 0 BY DEF MapInit
<1>3. Listed BY <1>2, MapConstants DEF MapInit, Listed
<1>4. Holes /\ AllApart(liveList) /\ Parted BY <1>2 DEF Holes, AllApart, Parted
<1>5. NoCall \in Calls BY RegionOf DEF NoCall, Calls, Regions
<1>6. Progress BY <1>5 DEF MapInit, Progress, NoCall, Unmapping
<1>7. Above /\ Harmless BY <1>2 DEF MapInit, Above, Harmless, NoCall
<1> QED BY <1>1, <1>3, <1>4, <1>6, <1>7 DEF MapInv

LEMMA ExecKeeps ==
  ASSUME BaseLow, ~ChildExecs, MapInv, Exec
  PROVE  MapInv'
<1>0. ~isChild BY DEF Exec
<1>1. Bounds' BY MapConstants DEF MapInv, Exec, Bounds, BaseLow, Top
<1>2. freeList' = <<>> /\ liveList' = <<>> BY <1>0 DEF Exec
<1>3. Len(freeList') = 0 /\ Len(liveList') = 0 BY <1>2
<1>4. Listed' BY <1>2, <1>3, MapConstants DEF Listed
<1>5. Holes' /\ AllApart(liveList)' /\ Parted' BY <1>3 DEF Holes, AllApart, Parted
<1>6. call' = NoCall BY DEF Exec
<1>7. NoCall \in Calls BY RegionOf DEF NoCall, Calls, Regions
<1>8. Progress' BY <1>6, <1>7 DEF Progress, NoCall, Unmapping
<1>9. Above' BY <1>3, <1>6 DEF Exec, Above, NoCall
<1>10. Harmless' BY DEF Exec, MapInv, Harmless
<1> QED BY <1>1, <1>4, <1>5, <1>8, <1>9, <1>10 DEF MapInv

LEMMA ForkKeeps ==
  ASSUME MapInv, Fork
  PROVE  MapInv'
<1> USE DEF Fork, SnapshotMemory, InheritLists
<1>1. Bounds' /\ Top' = Top BY DEF MapInv, Bounds, Top
<1>2. liveList' = <<>> /\ Len(liveList') = 0 BY Zenon, EmptySeq
<1>3. Listed'
  <2>1. liveList' \in Seq(Spots(Top)) BY <1>2
  <2> QED BY <1>1, <1>2, <2>1, MapConstants DEF MapInv, Listed, Spots
<1>4. Dirty' = Dirty /\ Low' = Low BY SameMemory
<1>5. Holes' BY <1>4 DEF MapInv, Holes, AllApart, Clean
<1>6. AllApart(liveList)' /\ Parted' BY <1>2 DEF AllApart, Parted
<1>7. Progress' BY DEF MapInv, Progress, NoCall, Unmapping
<1>8. Above' BY <1>2, <1>4 DEF MapInv, Above
<1>9. Harmless' BY DEF MapInv, Harmless
<1> QED BY <1>1, <1>3, <1>5, <1>6, <1>7, <1>8, <1>9 DEF MapInv

\* The break moves.  When it is raised over nothing of the mmap side's, all of that
\* stays above it, and no hole becomes stale; otherwise that is on record.
LEMMA BreakKeeps ==
  ASSUME MapInv, NEW new \in Nat, 1 <= new, new <= Top, SetBreak(new),
         UNCHANGED <<mmapTop, lists, isChild, call, held>>, allocHi' \in {0, Half}
  PROVE  MapInv'
<1>0. Bounds /\ Listed /\ Holes /\ AllApart(liveList) /\ Parted /\ Progress /\ Above /\ Harmless BY DEF MapInv
<1>1. /\ heapEnd' = new
      /\ stale' = (stale \cup new .. heapEnd - 1) \ 0 .. new - 1
      /\ Wrong({w \in {"overrun"} : \E u \in heapEnd .. new - 1 : Tracks(u)})
      /\ freeList' = freeList /\ liveList' = liveList
  BY DEF SetBreak, lists
<1>2. Top \in Nat /\ Top <= MemSize /\ Top' = Top /\ MemSize \in Nat BY <1>0, TopIs, MapConstants DEF Top
<1>3. heapEnd \in Nat /\ heapEnd <= Top BY <1>0 DEF Bounds
<1>4. Bounds'
  <2>1. new .. heapEnd - 1 \subseteq 0 .. MemSize - 1 BY <1>2, <1>3
  <2>2. stale \subseteq 0 .. MemSize - 1 BY <1>0 DEF Bounds
  <2>3. stale' \subseteq 0 .. MemSize - 1 BY <1>1, <2>1, <2>2, Zenon
  <2> QED BY <1>0, <1>1, <1>2, <2>3 DEF Bounds
<1>5. Listed' BY <1>0, <1>1, <1>2 DEF Listed, Spots
<1>6. AllApart(liveList)' /\ Parted' BY <1>0, <1>1 DEF AllApart, Parted
<1>7. Harmless' BY <1>0, <1>1 DEF Harmless, Wrong
<1>8. /\ DOMAIN freeList = 1 .. Len(freeList) /\ DOMAIN liveList = 1 .. Len(liveList)
  BY <1>0, Members
<1>9. ASSUME harm' = {} PROVE harm = {} /\ \A u \in heapEnd .. new - 1 : ~Tracks(u)
  <2>1. harm = {} BY <1>0, <1>1, <1>9 DEF Harmless, Wrong
  <2>2. {w \in {"overrun"} : \E u \in heapEnd .. new - 1 : Tracks(u)} = {} BY <1>1, <1>9, <2>1 DEF Wrong
  <2>3. ~\E u \in heapEnd .. new - 1 : Tracks(u) BY <2>2, Zenon
  <2> QED BY <2>1, <2>3
<1>10. ASSUME NEW u, u \notin Low, Tracks(u) PROVE u \notin Low'
  <2>1. CASE harm' = {}
    <3>1. u \notin 0 .. heapEnd - 1 /\ u \notin heapEnd .. new - 1 BY <1>9, <1>10, <2>1 DEF Low
    <3>2. u \notin 0 .. new - 1 BY <1>3, <3>1
    <3> QED BY <1>1, <2>1, <3>2 DEF Low
  <2>2. CASE harm' # {} BY <2>2 DEF Low
  <2> QED BY <2>1, <2>2
<1>11. ASSUME NEW u, u \notin Dirty, Tracks(u) PROVE u \notin Dirty'
  <2>1. CASE harm' = {}
    <3>1. harm = {} /\ u \notin stale /\ u \notin 0 .. heapEnd - 1 /\ u \notin heapEnd .. new - 1
      BY <1>9, <1>11, <2>1 DEF Dirty
    <3>2. u \notin 0 .. new - 1 /\ u \notin new .. heapEnd - 1 BY <1>3, <3>1
    <3> QED BY <1>1, <2>1, <3>1, <3>2 DEF Dirty
  <2>2. CASE harm' # {} BY <2>2 DEF Dirty
  <2> QED BY <2>1, <2>2
<1>12. Holes'
  <2>1. ASSUME NEW k \in 1 .. Len(freeList), NEW u \in Units(freeList[k])
        PROVE  u \notin held /\ u \notin Dirty'
    <3>1. u \notin held /\ u \notin Dirty BY <1>0 DEF Holes, Clean
    <3>2. Tracks(u) BY <1>8 DEF Tracks
    <3> QED BY <1>11, <3>1, <3>2
  <2> QED BY <1>0, <1>1, <2>1 DEF Holes, AllApart, Clean
<1>13. Progress'
  <2>1. ASSUME call.at = "merge", NEW u \in Units(call.hole) PROVE u \notin held /\ u \notin Dirty'
    <3>1. u \notin held /\ u \notin Dirty BY <1>0, <2>1 DEF Progress, Clean
    <3>2. Tracks(u) BY <2>1 DEF Tracks
    <3> QED BY <1>11, <3>1, <3>2
  <2>2. call.at = "merge" => Clean(call.hole)' BY <2>1 DEF Clean
  <2>3. call.at = "merge" => call.hole \in Spots(Top)' BY <1>0, <1>2 DEF Progress, Spots
  <2> QED BY <1>0, <1>1, <2>2, <2>3 DEF Progress, Unmapping, ApartFrom
<1>14. Above'
  <2>1. \A u \in held : u \notin Low' BY <1>0, <1>10 DEF Above, Tracks
  <2>2. ASSUME NEW k \in 1 .. Len(liveList), NEW u \in Units(liveList[k]) PROVE u \notin Low'
    <3>1. u \notin Low BY <1>0 DEF Above
    <3>2. Tracks(u) BY <1>8 DEF Tracks
    <3> QED BY <1>10, <3>1, <3>2
  <2>3. call.fixed => \A u \in call.lo .. call.hi - 1 : u \notin Low' BY <1>0, <1>10 DEF Above, Tracks
  <2> QED BY <1>1, <2>1, <2>2, <2>3 DEF Above
<1> QED BY <1>4, <1>5, <1>6, <1>7, <1>12, <1>13, <1>14 DEF MapInv

LEMMA BrkKeeps ==
  ASSUME MapInv, NEW a \in BrkAddrs, yos_brk(a)
  PROVE  MapInv'
<1>1. a \in Nat /\ 1 <= a BY MapConstants DEF yos_brk
<1>2. a <= Top BY DEF yos_brk, Top
<1>3. allocHi' \in {0, Half} BY DEF yos_brk, MapInv, Bounds
<1> QED BY <1>1, <1>2, <1>3, BreakKeeps DEF yos_brk

LEMMA ArenaKeeps ==
  ASSUME MapInv, ArenaInit
  PROVE  MapInv'
<1>1. heapEnd \in Nat /\ 1 <= heapEnd /\ ArenaMin \in Nat /\ Half \in Nat
  BY MapConstants DEF MapInv, Bounds
<1>2. 1 <= Half BY <1>1 DEF ArenaInit
<1>3. Half <= Top BY TopIs DEF MapInv
<1> QED BY <1>1, <1>2, <1>3, BreakKeeps DEF ArenaInit

----------------------------------------------------------------------------
(* The calls and the loop of munmap *)

LEMMA EnterIs ==
  ASSUME NEW at \in {"free", "unlive"}, NEW fixed \in BOOLEAN, NEW lo \in Nat, NEW hi \in Nat,
         Enter(at, fixed, lo, hi)
  PROVE  /\ call' \in Calls
         /\ call'.at = at /\ call'.fixed = fixed /\ call'.lo = lo /\ call'.hi = hi /\ call'.i = 1
<1>1. Region(0, 0) \in [addr : Nat, len : Nat] BY RegionOf DEF Regions
<1>2. call' = [at |-> at, fixed |-> fixed, lo |-> lo, hi |-> hi, i |-> 1, hole |-> Region(0, 0)]
  BY DEF Enter, NoCall
<1> QED BY <1>1, <1>2 DEF Calls

\* The range is not below the heap's end.
LEMMA MapFixedKeeps ==
  ASSUME MapInv, NEW addr \in FixedAddrs, NEW n \in Lengths, MapFixed(addr, n)
  PROVE  MapInv'
<1> DEFINE end == addr + PageUp(n)
<1>0. Bounds /\ Progress BY DEF MapInv
<1>1. addr \in Nat /\ PageUp(n) \in Nat BY MapConstants, RoundedUp
<1>2. /\ call = NoCall /\ PageUp(n) # 0 /\ end <= MemSize /\ addr >= heapEnd
      /\ Enter("unlive", TRUE, addr, end)
      /\ UNCHANGED <<heapEnd, mmapTop, lists, allocHi, isChild, held, stale, harm>>
  BY DEF MapFixed
<1>3. end \in Nat /\ addr < end BY <1>1, <1>2
<1>4. /\ call' \in Calls
      /\ call'.at = "unlive" /\ call'.fixed = TRUE /\ call'.lo = addr /\ call'.hi = end /\ call'.i = 1
  BY <1>1, <1>2, <1>3, EnterIs
<1>5. addr >= 1 /\ heapEnd \in Nat BY <1>0, <1>1, <1>2 DEF Bounds
<1>6. Bounds' /\ Top' = Top /\ Dirty' = Dirty /\ Low' = Low
  BY <1>0, <1>2, SameMemory DEF Bounds, Top
<1>7. Listed' /\ Holes' /\ AllApart(liveList)'
  BY <1>2, <1>6 DEF MapInv, Listed, Holes, AllApart, Clean, Spots, lists
<1>8. Parted' BY <1>2, <1>4 DEF MapInv, Parted, NoCall, lists
<1>9. Progress'
  <2>1. \A k \in 1 .. Len(liveList') : ~(k < 1) OBVIOUS
  <2> QED BY <1>2, <1>3, <1>4, <1>5, <2>1 DEF Progress, Unmapping
<1>10. Above'
  <2>1. \A u \in addr .. end - 1 : u \notin Low BY <1>1, <1>2, <1>3, <1>5 DEF Low
  <2> QED BY <1>2, <1>4, <1>6, <2>1 DEF MapInv, Above, lists
<1>11. Harmless' BY <1>2 DEF MapInv, Harmless
<1> QED BY <1>6, <1>7, <1>8, <1>9, <1>10, <1>11 DEF MapInv

\* What the guest gives up was its own, so no hole becomes stale.
LEMMA MunmapKeeps ==
  ASSUME MapInv, NEW addr \in Addrs, NEW n \in Lengths, yos_munmap(addr, n)
  PROVE  MapInv'
<1> DEFINE end  == addr + PageUp(n)
           Gone == addr .. end - 1
<1>0. Bounds /\ Listed /\ Holes /\ Progress /\ Above BY DEF MapInv
<1>1. addr \in Nat /\ PageUp(n) \in Nat BY MapConstants, RoundedUp
<1>2. /\ call = NoCall /\ PageUp(n) # 0 /\ end <= MemSize
      /\ held' = held \ Gone /\ stale' = stale \cup (Gone \cap held)
      /\ UNCHANGED call \/ Enter("free", FALSE, addr, end)
      /\ UNCHANGED <<heapEnd, mmapTop, lists, allocHi, isChild, harm>>
  BY DEF yos_munmap
<1>3. end \in Nat /\ addr < end BY <1>1, <1>2
<1> HIDE DEF Gone, end
<1>4. Bounds' /\ Top' = Top
  <2>1. Top \in Nat /\ Top <= MemSize BY <1>0, TopIs
  <2>2. Top' = Top BY <1>2 DEF Top
  <2>3. held \subseteq 1 .. Top - 1 /\ stale \subseteq 0 .. MemSize - 1 BY <1>0 DEF Bounds
  <2>4. 1 .. Top - 1 \subseteq 0 .. MemSize - 1 BY <2>1, MapConstants
  <2>5. stale' \subseteq 0 .. MemSize - 1 BY <1>2, <2>3, <2>4, Zenon
  <2> QED BY <1>0, <1>2, <2>2, <2>5 DEF Bounds
<1>5. Listed' BY <1>0, <1>2, <1>4 DEF Listed, Spots, lists
<1>6. Holes' /\ AllApart(liveList)'
  <2>1. ASSUME NEW u, u \notin held, u \notin Dirty PROVE u \notin Dirty'
    BY <1>2, <2>1 DEF Dirty
  <2>2. \A k \in 1 .. Len(freeList) : \A u \in Units(freeList[k]) : u \notin held' /\ u \notin Dirty'
    BY <1>0, <1>2, <2>1 DEF Holes, Clean
  <2> QED BY <1>0, <1>2, <2>2 DEF MapInv, Holes, AllApart, Clean, lists
<1>7. \A k \in 1 .. Len(liveList), m \in 1 .. Len(freeList) : Apart(liveList[k], freeList[m])
  BY <1>2 DEF MapInv, Parted, NoCall
<1>8. Parted' BY <1>2, <1>7 DEF Parted, lists
<1>l. Low' = Low /\ Harmless' BY <1>2 DEF Low, MapInv, Harmless
<1>9. CASE UNCHANGED call
  <2>1. call'.at = "idle" /\ call' = NoCall /\ call' \in Calls BY <1>0, <1>2, <1>9 DEF NoCall, Progress
  <2>2. Progress' BY <2>1 DEF Progress, Unmapping
  <2>3. Above' BY <1>0, <1>2, <1>9, <1>l DEF Above, lists
  <2> QED BY <1>4, <1>5, <1>6, <1>8, <1>l, <2>2, <2>3 DEF MapInv
<1>10. CASE Enter("free", FALSE, addr, end)
  <2>1. /\ call' \in Calls
        /\ call'.at = "free" /\ call'.fixed = FALSE /\ call'.lo = addr /\ call'.hi = end /\ call'.i = 1
    BY <1>1, <1>3, <1>10, EnterIs
  <2>2. \A m \in 1 .. Len(freeList') : ApartFrom(freeList'[m], liveList', 1)
    <3>1. \A k \in 1 .. Len(liveList), m \in 1 .. Len(freeList) : Apart(freeList[m], liveList[k])
      BY <1>7 DEF Apart
    <3> QED BY <1>2, <3>1 DEF ApartFrom, lists
  <2>3. \A u \in held' : u < addr \/ end <= u
    <3>1. held \subseteq 1 .. Top - 1 /\ Half \in Nat BY <1>0, MapConstants DEF Bounds
    <3>2. Top \in Nat BY <1>0, TopIs
    <3> QED BY <1>1, <1>2, <1>3, <3>1, <3>2 DEF Gone
  <2>4. Progress' BY <1>2, <1>3, <2>1, <2>2, <2>3 DEF Progress, Unmapping, end
  <2>5. Above' BY <1>0, <1>2, <1>l, <2>1 DEF Above, lists
  <2> QED BY <1>4, <1>5, <1>6, <1>8, <1>l, <2>4, <2>5 DEF MapInv
<1> QED BY <1>2, <1>9, <1>10

\* The next region of a list the range meets.
LEMMA NextHit ==
  ASSUME NEW S, NEW L \in Seq(S), call.i \in Nat, Hits(L) # {}
  PROVE  LET k == Min(Hits(L))
         IN  /\ k \in 1 .. Len(L) /\ k >= call.i /\ Overlaps(L[k], call.lo, call.hi)
             /\ \A j \in 1 .. Len(L) : call.i <= j /\ j < k => ~Overlaps(L[j], call.lo, call.hi)
<1> DEFINE k == Min(Hits(L))
<1>1. DOMAIN L = 1 .. Len(L) /\ Len(L) \in Nat BY LenProperties
<1>2. Hits(L) \in SUBSET Nat BY <1>1 DEF Hits
<1>3. k \in Hits(L) /\ \A y \in Hits(L) : k <= y BY <1>2, LeastIn
<1> HIDE DEF k
<1>4. k \in 1 .. Len(L) /\ k >= call.i /\ Overlaps(L[k], call.lo, call.hi) BY <1>1, <1>3 DEF Hits
<1>5. ASSUME NEW j \in 1 .. Len(L), call.i <= j, j < k PROVE ~Overlaps(L[j], call.lo, call.hi)
  <2>1. j \notin Hits(L) BY <1>3, <1>4, <1>5
  <2> QED BY <1>1, <1>5, <2>1 DEF Hits
<1> QED BY <1>4, <1>5 DEF k

\* No region left to meet.
LEMMA NoHit ==
  ASSUME NEW S, NEW L \in Seq(S), call.i \in Nat, Hits(L) = {},
         \A k \in 1 .. Len(L) : k < call.i => ~Overlaps(L[k], call.lo, call.hi)
  PROVE  \A k \in 1 .. Len(L) : ~Overlaps(L[k], call.lo, call.hi)
<1>1. DOMAIN L = 1 .. Len(L) BY LenProperties
<1>2. ASSUME NEW k \in 1 .. Len(L) PROVE ~Overlaps(L[k], call.lo, call.hi)
  <2>1. k < call.i \/ k >= call.i OBVIOUS
  <2> QED BY <1>1, <2>1 DEF Hits
<1> QED BY <1>2

\* The part of a mapping in the range is not empty and inside both.
LEMMA PartOf ==
  ASSUME NEW t \in Nat, NEW r \in Spots(t), NEW lo \in Nat, NEW hi \in Nat, lo < hi,
         Overlaps(r, lo, hi)
  PROVE  LET p == LivePart(r, lo, hi)
         IN  /\ p \in Spots(t)
             /\ r.addr <= p.addr /\ p.addr + p.len <= r.addr + r.len
             /\ \A u \in Units(p) : u \in Nat /\ lo <= u /\ u < hi
<1> DEFINE a == Max({r.addr, lo})
           b == Min({r.addr + r.len, hi})
           p == LivePart(r, lo, hi)
<1>1. r.addr \in Nat /\ r.len \in Nat /\ r.len >= 1 /\ 1 <= r.addr /\ r.addr + r.len <= t
  BY SpotIs
<1>2. a = IF r.addr >= lo THEN r.addr ELSE lo BY <1>1, MaxOfTwo
<1>3. b = IF r.addr + r.len <= hi THEN r.addr + r.len ELSE hi
  <2>1. r.addr + r.len \in Nat BY <1>1
  <2> QED BY <2>1, MinOfTwo
<1>4. p = Region(a, b) BY DEF LivePart
<1> HIDE DEF a, b, p
<1>5. a \in Nat /\ b \in Nat /\ a < b /\ r.addr <= a /\ lo <= a /\ b <= r.addr + r.len /\ b <= hi
  BY <1>1, <1>2, <1>3 DEF Overlaps
<1>6. p \in Regions /\ p.addr = a /\ p.len = b - a /\ \A u \in Units(p) : u \in Nat /\ a <= u /\ u < b
  BY <1>4, <1>5, RegionOf
<1>7. p \in Spots(t) BY <1>1, <1>5, <1>6, SpotsAre, MapConstants
<1> QED BY <1>5, <1>6, <1>7 DEF p

\* The range is no longer the guest's, so nothing it keeps is cleared, and the part
\* cleared is clean.
LEMMA ClearsKeeps ==
  ASSUME MapInv, MunmapClears
  PROVE  MapInv'
<1> DEFINE k == Min(Hits(liveList))
           part == LivePart(liveList[k], call.lo, call.hi)
<1>0. Bounds /\ Listed /\ Holes /\ AllApart(liveList) /\ Parted /\ Progress /\ Above /\ Harmless BY DEF MapInv
<1>1. /\ call.at = "free" /\ Hits(liveList) # {}
      /\ stale' = stale \ Units(part)
      /\ Wrong({w \in {"clobber"} : Units(part) \cap InUse # {}})
      /\ call' = [call EXCEPT !.at = "merge", !.i = k + 1, !.hole = part]
      /\ UNCHANGED <<heapEnd, mmapTop, lists, allocHi, isChild, held>>
  BY DEF MunmapClears, Clear
<1>2. /\ call \in Calls /\ call.lo < call.hi /\ call.hi <= MemSize /\ ~call.fixed
      /\ call.lo \in Nat /\ call.hi \in Nat /\ call.i \in Nat
      /\ \A m \in 1 .. Len(freeList) : ApartFrom(freeList[m], liveList, call.i)
      /\ \A u \in held : u < call.lo \/ call.hi <= u
  BY <1>0, <1>1 DEF Progress, Unmapping, Calls
<1>3. Top \in Nat /\ Half <= Top /\ Top' = Top BY <1>0, <1>1, TopIs DEF Top
<1>4. k \in 1 .. Len(liveList) /\ k >= call.i /\ Overlaps(liveList[k], call.lo, call.hi)
  BY <1>0, <1>1, <1>2, NextHit DEF Listed
<1>5. liveList[k] \in Spots(Top) BY <1>0, <1>4, Members
<1>6. /\ part \in Spots(Top)
      /\ liveList[k].addr <= part.addr /\ part.addr + part.len <= liveList[k].addr + liveList[k].len
      /\ \A u \in Units(part) : u \in Nat /\ call.lo <= u /\ u < call.hi
  BY <1>2, <1>3, <1>4, <1>5, PartOf
<1>7. part \in Regions /\ part.len \in Nat /\ part.len >= 1 /\ liveList[k] \in Regions
  BY <1>3, <1>5, <1>6, SpotIs
<1>8. /\ call' \in Calls /\ call'.at = "merge" /\ call'.i = k + 1 /\ call'.hole = part
      /\ call'.lo = call.lo /\ call'.hi = call.hi /\ call'.fixed = call.fixed
  <2>1. k + 1 \in Nat \ {0} BY <1>4
  <2> HIDE DEF k, part
  <2> QED BY <1>1, <1>2, <1>7, <2>1 DEF Calls, Regions
<1> HIDE DEF k, part
<1>u. \A u \in Units(part) : u \notin held /\ u \notin Low
  <2>1. ASSUME NEW u \in Units(part) PROVE u \notin held /\ u \notin Low
    <3>1. u \in Nat /\ call.lo <= u /\ u < call.hi BY <1>6
    <3>2. u \notin held BY <1>2, <3>1
    <3>3. u \in Units(liveList[k]) BY <1>6, <1>7, Within
    <3> QED BY <1>0, <1>4, <3>2, <3>3 DEF Above
  <2> QED BY <2>1
<1>9. harm' = harm
  <2>1. ASSUME harm = {} PROVE {w \in {"clobber"} : Units(part) \cap InUse # {}} = {}
    BY <1>u, <2>1 DEF InUse, Low
  <2> QED BY <1>1, <2>1 DEF Wrong
<1>d. Low' = Low /\ \A u : u \in Dirty' <=> u \in Dirty /\ (u \notin Units(part) \/ u \in Low)
  BY <1>1, <1>9 DEF Low, Dirty
<1>10. Bounds'
  <2>1. stale' \subseteq 0 .. MemSize - 1 BY <1>0, <1>1 DEF Bounds
  <2> QED BY <1>0, <1>1, <1>3, <2>1 DEF Bounds
<1>11. Listed' BY <1>0, <1>1, <1>3 DEF Listed, Spots, lists
<1>12. Holes' /\ AllApart(liveList)'
  <2>1. \A j \in 1 .. Len(freeList) : \A u \in Units(freeList[j]) : u \notin held /\ u \notin Dirty'
    BY <1>0, <1>d DEF Holes, Clean
  <2> QED BY <1>0, <1>1, <2>1 DEF Holes, AllApart, Clean, lists
<1>13. Parted' BY <1>0, <1>1, <1>8 DEF Parted, MeetIn, lists
<1>14. Progress'
  <2>1. Clean(call.hole)'
    <3>1. ASSUME NEW u \in Units(part) PROVE u \notin held' /\ u \notin Dirty'
      BY <1>1, <1>d, <1>u
    <3> QED BY <1>8, <3>1 DEF Clean
  <2>2. ApartFrom(part, freeList, 1)
    <3>1. ASSUME NEW m \in 1 .. Len(freeList) PROVE Apart(part, freeList[m])
      <4>1. Apart(freeList[m], liveList[k]) BY <1>2, <1>4 DEF ApartFrom
      <4>2. freeList[m] \in Regions BY <1>0, Members
      <4>3. Apart(liveList[k], freeList[m]) BY <4>1 DEF Apart
      <4> QED BY <1>6, <1>7, <4>2, <4>3, ApartWithin
    <3> QED BY <3>1 DEF ApartFrom
  <2>3. ApartFrom(part, liveList, k + 1)
    <3>1. ASSUME NEW j \in 1 .. Len(liveList), j >= k + 1 PROVE Apart(part, liveList[j])
      <4>1. j # k BY <1>4, <3>1
      <4>2. Apart(liveList[k], liveList[j]) BY <1>0, <1>4, <4>1 DEF AllApart
      <4>3. liveList[j] \in Regions BY <1>0, Members
      <4> QED BY <1>6, <1>7, <4>2, <4>3, ApartWithin
    <3> QED BY <3>1 DEF ApartFrom
  <2>4. \A j \in 1 .. Len(liveList) : MeetIn(liveList[j], part, call.lo, call.hi)
    BY <1>6 DEF MeetIn
  <2>5. \A m \in 1 .. Len(freeList) : ApartFrom(freeList[m], liveList, k + 1)
    <3>1. \A j \in 1 .. Len(liveList) : j >= k + 1 => j >= call.i BY <1>2, <1>4
    <3> QED BY <1>2, <3>1 DEF ApartFrom
  <2>6. call'.hole \in Spots(Top)' BY <1>3, <1>6, <1>8 DEF Spots
  <2>7. freeList' = freeList /\ liveList' = liveList /\ held' = held BY <1>1 DEF lists
  <2>8. /\ ApartFrom(call.hole, freeList, 1)' /\ ApartFrom(call.hole, liveList, call.i)'
        /\ (\A j \in 1 .. Len(liveList) : MeetIn(liveList[j], call.hole, call.lo, call.hi))'
        /\ (\A m \in 1 .. Len(freeList) : ApartFrom(freeList[m], liveList, call.i))'
    BY <1>8, <2>2, <2>3, <2>4, <2>5, <2>7 DEF ApartFrom, MeetIn
  <2> QED BY <1>2, <1>8, <2>1, <2>6, <2>7, <2>8 DEF Progress, Unmapping
<1>15. Above'
  <2>1. ~call'.fixed BY <1>2, <1>8
  <2> QED BY <1>0, <1>1, <1>d, <2>1 DEF Above, lists
<1>16. Harmless' BY <1>0, <1>9 DEF Harmless
<1> QED BY <1>10, <1>11, <1>12, <1>13, <1>14, <1>15, <1>16 DEF MapInv

LEMMA ForgetsKeeps ==
  ASSUME MapInv, MunmapForgets
  PROVE  MapInv'
<1> USE DEF MunmapForgets
<1>0. Bounds /\ Listed /\ Holes /\ AllApart(liveList) /\ Parted /\ Progress /\ Above /\ Harmless BY DEF MapInv
<1>1. Bounds' /\ Top' = Top /\ Dirty' = Dirty /\ Low' = Low BY <1>0, SameMemory DEF Bounds, Top
<1>2. Listed' /\ Holes' /\ AllApart(liveList)'
  BY <1>0, <1>1 DEF Listed, Holes, AllApart, Clean, Spots, lists
<1>3. call \in Calls /\ call.lo < call.hi /\ call.hi <= MemSize /\ ~call.fixed
  BY <1>0 DEF Progress, Unmapping
<1>4. /\ call' \in Calls /\ call'.at = "unlive" /\ call'.i = 1
      /\ call'.lo = call.lo /\ call'.hi = call.hi /\ call'.fixed = call.fixed
  <2>1. call' = [call EXCEPT !.at = "unlive", !.i = 1] OBVIOUS
  <2>2. 1 \in Nat \ {0} OBVIOUS
  <2> QED BY ONLY <1>3, <2>1, <2>2 DEF Calls
<1>5. Parted' BY <1>0, <1>4 DEF Parted, MeetIn, lists
<1>6. \A j \in 1 .. Len(liveList') : ~(j < 1) OBVIOUS
<1>7. Progress' BY <1>3, <1>4, <1>6 DEF Progress, Unmapping
<1>8. Above' /\ Harmless' BY <1>0, <1>1, <1>3, <1>4 DEF Above, Harmless, lists
<1> QED BY <1>1, <1>2, <1>5, <1>7, <1>8 DEF MapInv

\* Two adjacent regions make one, with the units of both.
LEMMA Merged ==
  ASSUME NEW t \in Nat, NEW r \in Spots(t), NEW s \in Spots(t),
         r.addr + r.len = s.addr \/ s.addr + s.len = r.addr
  PROVE  LET m == [addr |-> Min({r.addr, s.addr}), len |-> r.len + s.len]
         IN  /\ m \in Spots(t)
             /\ \A u \in Units(m) : u \in Units(r) \/ u \in Units(s)
             /\ \A q \in Spots(t) : Apart(r, q) /\ Apart(s, q) => Apart(m, q)
<1> DEFINE m == [addr |-> Min({r.addr, s.addr}), len |-> r.len + s.len]
<1>1. /\ r \in Regions /\ r.addr \in Nat /\ r.len \in Nat /\ r.len >= 1
      /\ 1 <= r.addr /\ r.addr + r.len <= t
  BY SpotIs
<1>2. /\ s \in Regions /\ s.addr \in Nat /\ s.len \in Nat /\ s.len >= 1
      /\ 1 <= s.addr /\ s.addr + s.len <= t
  BY SpotIs
<1>3. m.len = r.len + s.len /\ m.addr = IF r.addr <= s.addr THEN r.addr ELSE s.addr
  BY <1>1, <1>2, MinOfTwo
<1>4. m \in Regions
  <2>1. Min({r.addr, s.addr}) \in Nat BY <1>1, <1>2, MinOfTwo
  <2> QED BY <1>1, <1>2, <2>1 DEF Regions
<1> HIDE DEF m
<1>5. m \in Spots(t) BY <1>1, <1>2, <1>3, <1>4, SpotsAre
<1>6. ASSUME NEW u \in Units(m) PROVE u \in Units(r) \/ u \in Units(s)
  <2>1. u \in Nat /\ m.addr <= u /\ u < m.addr + m.len BY <1>4, UnitsOf
  <2>2. \/ r.addr <= u /\ u < r.addr + r.len
        \/ s.addr <= u /\ u < s.addr + s.len
    BY <1>1, <1>2, <1>3, <2>1
  <2> QED BY <1>1, <1>2, <2>1, <2>2, UnitsOf
<1>7. ASSUME NEW q \in Spots(t), Apart(r, q), Apart(s, q) PROVE Apart(m, q)
  <2>1. q.addr \in Nat /\ q.len \in Nat /\ q.len >= 1 BY SpotIs
  <2> QED BY <1>1, <1>2, <1>3, <1>7, <2>1 DEF Apart
<1> QED BY <1>5, <1>6, <1>7 DEF m

\* A munmap's new hole: merging it with a neighbour and putting it on the list
\* keep the holes clean and apart, from each other and from the mappings the loop
\* has not come to.
LEMMA AddFreeKeeps ==
  ASSUME MapInv, add_free_region
  PROVE  MapInv'
<1> DEFINE Adjacent == {k \in DOMAIN freeList :
                     \/ freeList[k].addr + freeList[k].len = call.hole.addr
                     \/ call.hole.addr + call.hole.len = freeList[k].addr}
           h == Min(Adjacent)
           hole == call.hole
<1>0. Bounds /\ Listed /\ Holes /\ AllApart(liveList) /\ Parted /\ Progress /\ Above /\ Harmless BY DEF MapInv
<1>1. /\ call.at = "merge"
      /\ UNCHANGED <<heapEnd, mmapTop, liveList, allocHi, isChild, held, stale, harm>>
  BY DEF add_free_region
<1>2. /\ call \in Calls /\ call.lo < call.hi /\ call.hi <= MemSize /\ ~call.fixed
      /\ \A m \in 1 .. Len(freeList) : ApartFrom(freeList[m], liveList, call.i)
      /\ \A u \in held : u < call.lo \/ call.hi <= u
      /\ hole \in Spots(Top) /\ Clean(hole)
      /\ ApartFrom(hole, freeList, 1) /\ ApartFrom(hole, liveList, call.i)
      /\ \A k \in 1 .. Len(liveList) : MeetIn(liveList[k], hole, call.lo, call.hi)
  BY <1>0, <1>1 DEF Progress, Unmapping
<1>3. Top \in Nat /\ Half <= Top /\ Top' = Top BY <1>0, <1>1, TopIs DEF Top
<1>d. Dirty' = Dirty /\ Low' = Low /\ Harmless' BY <1>0, <1>1, SameMemory DEF Harmless
<1>4. Bounds' BY <1>0, <1>1, <1>3 DEF Bounds
<1>5. AllApart(liveList)' BY <1>0, <1>1 DEF AllApart
<1>a. call'.fixed = call.fixed /\ call'.lo = call.lo /\ call'.hi = call.hi => Above'
  BY <1>0, <1>1, <1>d DEF Above
<1>6. /\ Len(freeList) \in Nat /\ DOMAIN freeList = 1 .. Len(freeList)
      /\ \A k \in 1 .. Len(freeList) : freeList[k] \in Spots(Top) /\ freeList[k] \in Regions
      /\ \A k \in 1 .. Len(liveList) : liveList[k] \in Spots(Top) /\ liveList[k] \in Regions
  BY <1>0, Members
<1>7. freeList \in Seq(Spots(Top)) /\ Len(freeList) <= MaxFree /\ MaxFree \in Nat
  BY <1>0, MapConstants DEF Listed
<1>8. \A k \in 1 .. Len(freeList) : Clean(freeList[k]) BY <1>0 DEF Holes
<1>9. ASSUME NEW k \in 1 .. Len(liveList), NEW m \in 1 .. Len(freeList)
      PROVE  MeetIn(liveList[k], freeList[m], call.lo, call.hi)
  <2>1. CASE Apart(liveList[k], freeList[m])
    BY <1>6, <2>1, ApartUnits DEF MeetIn
  <2> QED BY <1>0, <1>1, <2>1 DEF Parted
<1>10. CASE /\ Adjacent # {}
            /\ call' = [call EXCEPT !.hole = [addr |-> Min({freeList[h].addr, hole.addr}),
                                             len  |-> freeList[h].len + hole.len]]
            /\ freeList' = SwapRemove(freeList, h)
  <2> DEFINE new == [addr |-> Min({freeList[h].addr, hole.addr}), len |-> freeList[h].len + hole.len]
  <2>1. h \in Adjacent
    <3>1. Adjacent \in SUBSET Nat BY <1>6
    <3> HIDE DEF Adjacent
    <3> QED BY <1>10, <3>1, LeastIn
  <2>2. h \in 1 .. Len(freeList) /\ ( \/ freeList[h].addr + freeList[h].len = hole.addr
                                     \/ hole.addr + hole.len = freeList[h].addr)
    BY <1>6, <2>1
  <2> HIDE DEF h, Adjacent
  <2>3. freeList[h] \in Spots(Top) BY <1>6, <2>2
  <2>4. /\ new \in Spots(Top)
        /\ \A u \in Units(new) : u \in Units(freeList[h]) \/ u \in Units(hole)
        /\ \A q \in Spots(Top) : Apart(freeList[h], q) /\ Apart(hole, q) => Apart(new, q)
    BY <1>2, <1>3, <2>2, <2>3, Merged
  <2>5. call' = [call EXCEPT !.hole = new] /\ freeList' = SwapRemove(freeList, h) BY <1>10
  <2>6. new \in Regions BY <1>3, <2>4, SpotIs
  <2> HIDE DEF new
  <2>7. /\ call' \in Calls /\ call'.at = "merge" /\ call'.i = call.i /\ call'.hole = new
        /\ call'.lo = call.lo /\ call'.hi = call.hi /\ call'.fixed = call.fixed
    BY ONLY <1>1, <1>2, <2>5, <2>6 DEF Calls, Regions
  <2>8. freeList' \in Seq(Spots(Top)) /\ Len(freeList') = Len(freeList) - 1
    BY <1>7, <2>2, <2>5, SwapRemoved
  <2>9. AllApart(freeList') /\ ApartFrom(freeList[h], freeList', 1)
    BY <1>0, <1>7, <2>2, <2>5, SwapApart DEF Holes
  <2>10. ASSUME NEW j \in 1 .. Len(freeList') PROVE \E k \in 1 .. Len(freeList) : freeList'[j] = freeList[k]
    BY <1>7, <2>2, <2>5, SwapKeeps
  <2>11. Listed'
    <3>1. Len(freeList') <= MaxFree BY <1>6, <1>7, <2>8
    <3> QED BY <1>0, <1>1, <1>3, <2>8, <3>1 DEF Listed, Spots
  <2>12. Holes'
    <3>1. ASSUME NEW j \in 1 .. Len(freeList') PROVE Clean(freeList[j])'
      <4>1. PICK k \in 1 .. Len(freeList) : freeList'[j] = freeList[k] BY <2>10
      <4> QED BY <1>1, <1>d, <1>8, <4>1 DEF Clean
    <3> QED BY <2>9, <3>1 DEF Holes, AllApart
  <2>13. Parted'
    <3>1. ASSUME NEW k \in 1 .. Len(liveList'), NEW m \in 1 .. Len(freeList')
          PROVE  MeetIn(liveList'[k], freeList'[m], call'.lo, call'.hi)
      <4>1. PICK n \in 1 .. Len(freeList) : freeList'[m] = freeList[n] BY <2>10
      <4> QED BY <1>1, <1>9, <2>7, <4>1
    <3> QED BY <2>7, <3>1 DEF Parted
  <2>14. \A m \in 1 .. Len(freeList') : ApartFrom(freeList'[m], liveList, call.i)
    BY <1>2, <2>10
  <2>15. Clean(call.hole)'
    <3>1. \A u \in Units(new) : u \notin held /\ u \notin Dirty
      BY <1>2, <1>8, <2>2, <2>4 DEF Clean
    <3> QED BY <1>1, <1>d, <2>7, <3>1 DEF Clean
  <2>16. ApartFrom(new, freeList', 1)
    <3>1. ASSUME NEW j \in 1 .. Len(freeList') PROVE Apart(new, freeList'[j])
      <4>1. PICK k \in 1 .. Len(freeList) : freeList'[j] = freeList[k] BY <2>10
      <4>2. Apart(freeList[h], freeList'[j]) BY <2>9 DEF ApartFrom
      <4>3. Apart(hole, freeList'[j]) BY <1>2, <4>1 DEF ApartFrom
      <4> QED BY <1>6, <2>4, <4>1, <4>2, <4>3
    <3> QED BY <3>1 DEF ApartFrom
  <2>17. ApartFrom(new, liveList, call.i)
    <3>1. ASSUME NEW k \in 1 .. Len(liveList), k >= call.i PROVE Apart(new, liveList[k])
      <4>1. Apart(freeList[h], liveList[k]) /\ Apart(hole, liveList[k])
        BY <1>2, <2>2, <3>1 DEF ApartFrom
      <4> QED BY <1>6, <2>4, <4>1
    <3> QED BY <3>1 DEF ApartFrom
  <2>18. \A k \in 1 .. Len(liveList) : MeetIn(liveList[k], new, call.lo, call.hi)
    BY <1>2, <1>9, <2>2, <2>4 DEF MeetIn
  <2>19. call'.hole \in Spots(Top)' BY <1>3, <2>4, <2>7 DEF Spots
  <2>20. Progress'
    <3>1. /\ ApartFrom(call.hole, freeList, 1)' /\ ApartFrom(call.hole, liveList, call.i)'
          /\ (\A j \in 1 .. Len(liveList) : MeetIn(liveList[j], call.hole, call.lo, call.hi))'
          /\ (\A m \in 1 .. Len(freeList) : ApartFrom(freeList[m], liveList, call.i))'
      BY <1>1, <2>7, <2>14, <2>16, <2>17, <2>18 DEF ApartFrom, MeetIn
    <3> QED BY <1>1, <1>2, <2>7, <2>15, <2>19, <3>1 DEF Progress, Unmapping
  <2> QED BY <1>4, <1>5, <1>a, <1>d, <2>7, <2>11, <2>12, <2>13, <2>20 DEF MapInv
<1>11. CASE call' = [call EXCEPT !.at = "free"] /\ freeList' = free_list_push_raw(freeList, hole)
  <2> HIDE DEF h, Adjacent
  <2>1. hole \in Regions BY <1>2, <1>3, SpotIs
  <2>2. /\ call' \in Calls /\ call'.at = "free" /\ call'.i = call.i
        /\ call'.lo = call.lo /\ call'.hi = call.hi /\ call'.fixed = call.fixed
    BY ONLY <1>11, <1>2 DEF Calls
  <2>3. /\ freeList' \in Seq(Spots(Top)) /\ Len(freeList') <= MaxFree /\ AllApart(freeList')
        /\ \A k \in 1 .. Len(freeList') :
             \/ freeList'[k] = hole /\ hole.len >= 1
             \/ k \in 1 .. Len(freeList) /\ freeList'[k] = freeList[k]
             \/ k = 1 /\ Len(freeList) >= MaxFree /\ freeList'[k] = freeList[Len(freeList)]
    <3> HIDE DEF hole
    <3>1. freeList' = free_list_push_raw(freeList, hole) BY <1>11
    <3> QED BY <1>0, <1>2, <1>3, <1>7, <2>1, <3>1, Pushed DEF Holes
  <2>4. ASSUME NEW j \in 1 .. Len(freeList')
        PROVE  freeList'[j] = hole \/ \E k \in 1 .. Len(freeList) : freeList'[j] = freeList[k]
    <3>1. Len(freeList) >= MaxFree => Len(freeList) \in 1 .. Len(freeList) BY <1>6, MapConstants
    <3> QED BY <2>3, <3>1
  <2> HIDE DEF hole
  <2>5. Listed' BY <1>0, <1>1, <1>3, <2>3 DEF Listed, Spots
  <2>6. Holes'
    <3>1. ASSUME NEW j \in 1 .. Len(freeList') PROVE Clean(freeList[j])'
      BY <1>1, <1>d, <1>2, <1>8, <2>4 DEF Clean
    <3> QED BY <2>3, <3>1 DEF Holes, AllApart
  <2>7. Parted'
    <3>1. ASSUME NEW k \in 1 .. Len(liveList'), NEW m \in 1 .. Len(freeList')
          PROVE  MeetIn(liveList'[k], freeList'[m], call'.lo, call'.hi)
      BY <1>1, <1>2, <1>9, <2>2, <2>4
    <3> QED BY <2>2, <3>1 DEF Parted
  <2>8. \A m \in 1 .. Len(freeList') : ApartFrom(freeList'[m], liveList, call.i)
    BY <1>2, <2>4
  <2>9. Progress' BY <1>1, <1>2, <2>2, <2>8 DEF Progress, Unmapping, ApartFrom
  <2> QED BY <1>4, <1>5, <1>a, <1>d, <2>2, <2>5, <2>6, <2>7, <2>9 DEF MapInv
<1> QED BY <1>10, <1>11 DEF add_free_region

----------------------------------------------------------------------------
(* The loops that take a range off a list *)

\* What the range leaves of a mapping was part of it, so it meets no hole outside
\* the range; when nothing is left in the range, mappings and holes are apart.
LEMMA LiveRemoveKeeps ==
  ASSUME MapInv, live_remove
  PROVE  MapInv'
<1> DEFINE k == Min(Hits(liveList))
           r == liveList[k]
           R == SwapRemove(liveList, k)
           p == LeftOf(r, call.lo)
           q == RightOf(r, call.hi)
           A == live_add(R, p)
<1>0. Bounds /\ Listed /\ Holes /\ AllApart(liveList) /\ Parted /\ Progress /\ Above /\ Harmless BY DEF MapInv
<1>1. /\ call.at = "unlive"
      /\ UNCHANGED <<heapEnd, mmapTop, freeList, allocHi, isChild, held, stale, harm>>
  BY DEF live_remove
<1>2. /\ call \in Calls /\ call.lo < call.hi /\ call.hi <= MemSize /\ (call.fixed => call.lo >= 1)
      /\ call.lo \in Nat /\ call.hi \in Nat /\ call.i \in Nat /\ call.i >= 1 /\ call.fixed \in BOOLEAN
      /\ \A j \in 1 .. Len(liveList) : j < call.i => ~Overlaps(liveList[j], call.lo, call.hi)
  BY <1>0, <1>1 DEF Progress, Calls
<1>3. Top \in Nat /\ Half <= Top /\ Top' = Top BY <1>0, <1>1, TopIs DEF Top
<1>d. Dirty' = Dirty /\ Low' = Low /\ Harmless' BY <1>0, <1>1, SameMemory DEF Harmless
<1>4. Bounds' BY <1>0, <1>1, <1>3 DEF Bounds
<1>5. Holes' BY <1>0, <1>1, <1>d DEF Holes, AllApart, Clean
<1>6. /\ Len(liveList) \in Nat /\ DOMAIN liveList = 1 .. Len(liveList)
      /\ \A j \in 1 .. Len(freeList) : freeList[j] \in Spots(Top) /\ freeList[j] \in Regions
      /\ \A j \in 1 .. Len(liveList) : liveList[j] \in Spots(Top) /\ liveList[j] \in Regions
  BY <1>0, Members
<1>7. liveList \in Seq(Spots(Top)) /\ Len(liveList) <= MaxLive /\ MaxLive \in Nat
  BY <1>0, MapConstants DEF Listed
<1>8. ASSUME NEW j \in 1 .. Len(liveList), NEW m \in 1 .. Len(freeList)
      PROVE  MeetIn(liveList[j], freeList[m], call.lo, call.hi)
  <2>1. CASE Apart(liveList[j], freeList[m])
    BY <1>6, <2>1, ApartUnits DEF MeetIn
  <2> QED BY <1>0, <1>1, <2>1 DEF Parted
<1>9. CASE /\ Hits(liveList) # {}
           /\ liveList' = live_add(A, q)
           /\ call' = [call EXCEPT !.i = k]
  <2>1. /\ k \in 1 .. Len(liveList) /\ k >= call.i /\ Overlaps(r, call.lo, call.hi)
        /\ \A j \in 1 .. Len(liveList) : call.i <= j /\ j < k => ~Overlaps(liveList[j], call.lo, call.hi)
    BY <1>2, <1>7, <1>9, NextHit
  <2> HIDE DEF k
  <2>2. r \in Spots(Top) /\ r \in Regions BY <1>6, <2>1
  <2>3. /\ p \in Regions /\ q \in Regions
        /\ p.len = 0 \/ p \in Spots(Top)
        /\ q.len = 0 \/ q \in Spots(Top)
        /\ Apart(p, q)
        /\ p.len = 0 \/ ~Overlaps(p, call.lo, call.hi)
        /\ ~Overlaps(q, call.lo, call.hi)
        /\ \A u \in Units(p) : u \in Units(r)
        /\ \A u \in Units(q) : u \in Units(r)
        /\ \A s \in Regions : Apart(r, s) => (p.len = 0 \/ Apart(p, s)) /\ (q.len = 0 \/ Apart(q, s))
    BY <1>2, <1>3, <2>1, <2>2, Pieces
  <2>4. R \in Seq(Spots(Top)) /\ Len(R) = Len(liveList) - 1
    BY <1>7, <2>1, SwapRemoved
  <2>5. AllApart(R) /\ ApartFrom(r, R, 1) BY <1>0, <1>7, <2>1, SwapApart
  <2>6. ASSUME NEW j \in 1 .. Len(R)
        PROVE  \E n \in 1 .. Len(liveList) : n # k /\ R[j] = liveList[n] /\ n = IF j = k THEN Len(liveList) ELSE j
    BY <1>7, <2>1, SwapKeeps
  <2> HIDE DEF R, p, q, r
  <2>7. \A j \in 1 .. Len(R) : R[j] \in Regions BY <1>6, <2>6
  <2>8. p.len = 0 \/ (p \in Spots(Top) /\ ApartFrom(p, R, 1))
    BY <2>3, <2>5, <2>7 DEF ApartFrom
  <2>9. /\ A \in Seq(Spots(Top)) /\ Len(A) <= MaxLive /\ AllApart(A)
        /\ \A j \in 1 .. Len(A) :
             \/ A[j] = p /\ p.len >= 1 /\ j = Len(R) + 1
             \/ j \in 1 .. Len(R) /\ A[j] = R[j]
    <3>1. Len(R) <= MaxLive BY <1>6, <1>7, <2>4
    <3> QED BY <1>3, <2>3, <2>4, <2>5, <2>8, <3>1, Added
  <2> HIDE DEF A
  <2>10. q.len = 0 \/ (q \in Spots(Top) /\ ApartFrom(q, A, 1))
    <3>1. ASSUME q.len # 0, NEW j \in 1 .. Len(A) PROVE Apart(q, A[j])
      <4>1. CASE A[j] = p BY <2>3, <4>1 DEF Apart
      <4>2. CASE j \in 1 .. Len(R) /\ A[j] = R[j] BY <2>3, <2>5, <2>7, <3>1, <4>2 DEF ApartFrom
      <4> QED BY <2>9, <4>1, <4>2
    <3> QED BY <2>3, <3>1 DEF ApartFrom
  <2>11. /\ liveList' \in Seq(Spots(Top)) /\ Len(liveList') <= MaxLive /\ AllApart(liveList')
         /\ \A j \in 1 .. Len(liveList') :
             \/ liveList'[j] = q /\ q.len >= 1 /\ j = Len(A) + 1
             \/ j \in 1 .. Len(A) /\ liveList'[j] = A[j]
    <3>1. liveList' = live_add(A, q) BY <1>9 DEF A, q, R, r, p, k
    <3> QED BY <1>3, <2>3, <2>9, <2>10, <3>1, Added
  <2>12. Len(A) \in Nat /\ Len(R) \in Nat /\ Len(A) >= Len(R)
    <3>1. A = R \/ A = Append(R, p) BY DEF A, live_add
    <3>2. p.len = 0 => A = R BY DEF A, live_add
    <3>3. A = Append(R, p) => p.len = 0 \/ Len(A) = Len(R) + 1 BY <2>4, <2>8
    <3>4. Len(R) \in Nat /\ Len(A) \in Nat BY <2>4, <2>9, LenProperties
    <3> QED BY <3>1, <3>2, <3>3, <3>4
  <2>13. ASSUME NEW j \in 1 .. Len(liveList')
         PROVE  \/ liveList'[j] = q /\ q.len >= 1 /\ j > Len(R)
                \/ liveList'[j] = p /\ p.len >= 1 /\ j > Len(R)
                \/ j \in 1 .. Len(R) /\ liveList'[j] = R[j]
    BY <2>9, <2>11, <2>12
  <2>14. /\ call' \in Calls /\ call'.at = "unlive" /\ call'.i = k
         /\ call'.lo = call.lo /\ call'.hi = call.hi /\ call'.fixed = call.fixed
    <3>1. k \in Nat \ {0} BY <1>2, <2>1
    <3> QED BY ONLY <1>1, <1>2, <1>9, <3>1 DEF Calls
  <2>15. Listed' BY <1>0, <1>1, <1>3, <2>11 DEF Listed, Spots
  <2>16. Parted'
    <3>1. ASSUME NEW j \in 1 .. Len(liveList'), NEW m \in 1 .. Len(freeList)
          PROVE  MeetIn(liveList'[j], freeList[m], call.lo, call.hi)
      <4>1. CASE liveList'[j] = q \/ liveList'[j] = p
        <5>1. MeetIn(r, freeList[m], call.lo, call.hi) BY <1>8, <2>1 DEF r
        <5> QED BY <2>3, <4>1, <5>1 DEF MeetIn
      <4>2. CASE j \in 1 .. Len(R) /\ liveList'[j] = R[j]
        <5>1. PICK n \in 1 .. Len(liveList) : R[j] = liveList[n] BY <2>6, <4>2
        <5> QED BY <1>8, <4>2, <5>1
      <4> QED BY <2>13, <4>1, <4>2
    <3> QED BY <1>1, <2>14, <3>1 DEF Parted
  <2>17. ASSUME NEW j \in 1 .. Len(liveList'), j < k PROVE ~Overlaps(liveList'[j], call.lo, call.hi)
    <3>1. j \in 1 .. Len(R) /\ j \in 1 .. Len(liveList) BY <1>6, <2>1, <2>4, <2>17
    <3>2. liveList'[j] = R[j] \/ j > Len(R) BY <2>13
    <3>3. liveList'[j] = R[j] BY <2>12, <3>1, <3>2
    <3>4. j # k BY <2>1, <2>17
    <3>5. R[j] = liveList[j] BY <2>6, <3>1, <3>4
    <3>6. j < call.i \/ call.i <= j BY <1>2
    <3> QED BY <1>2, <2>1, <2>17, <3>1, <3>3, <3>5, <3>6
  <2>18. Progress' BY <1>2, <2>14, <2>17 DEF Progress, Unmapping
  <2>19. Above'
    <3>1. \A u \in Units(r) : u \notin Low BY <1>0, <2>1 DEF Above, r
    <3>2. ASSUME NEW j \in 1 .. Len(liveList'), NEW u \in Units(liveList'[j]) PROVE u \notin Low
      <4>1. CASE liveList'[j] = q \/ liveList'[j] = p BY <2>3, <3>1, <3>2, <4>1
      <4>2. CASE j \in 1 .. Len(R) /\ liveList'[j] = R[j]
        <5>1. PICK n \in 1 .. Len(liveList) : R[j] = liveList[n] BY <2>6, <4>2
        <5> QED BY <1>0, <3>2, <4>2, <5>1 DEF Above
      <4> QED BY <2>13, <4>1, <4>2
    <3> QED BY <1>0, <1>1, <1>d, <2>14, <3>2 DEF Above
  <2> QED BY <1>4, <1>5, <1>d, <2>11, <2>15, <2>16, <2>18, <2>19 DEF MapInv, AllApart
<1>10. CASE /\ Hits(liveList) = {} /\ liveList' = liveList
            /\ call' = IF call.fixed THEN [call EXCEPT !.at = "carve", !.i = 1] ELSE NoCall
  <2> HIDE DEF k, r, R, p, q, A
  <2>1. \A j \in 1 .. Len(liveList) : ~Overlaps(liveList[j], call.lo, call.hi)
    BY <1>2, <1>7, <1>10, NoHit
  <2>2. ASSUME NEW j \in 1 .. Len(liveList), NEW m \in 1 .. Len(freeList)
        PROVE  Apart(liveList[j], freeList[m])
    <3>1. liveList[j] \in Regions /\ freeList[m] \in Regions /\ liveList[j].len >= 1 /\ freeList[m].len >= 1
      BY <1>3, <1>6, SpotIs
    <3>2. ASSUME NEW u \in Units(liveList[j]), u \in Units(freeList[m]) PROVE FALSE
      <4>1. call.lo <= u /\ u < call.hi BY <1>8, <3>2 DEF MeetIn
      <4>2. u \in Nat /\ liveList[j].addr <= u /\ u < liveList[j].addr + liveList[j].len
        BY <3>1, <3>2, UnitsOf
      <4>3. liveList[j].addr \in Nat /\ liveList[j].len \in Nat BY <3>1 DEF Regions
      <4>4. call.lo \in Nat /\ call.hi \in Nat BY <1>2
      <4>5. Overlaps(liveList[j], call.lo, call.hi) BY ONLY <4>1, <4>2, <4>3, <4>4 DEF Overlaps
      <4> QED BY <2>1, <4>5
    <3> QED BY <3>1, <3>2, ApartUnits
  <2>3. Listed' /\ AllApart(liveList)' BY <1>0, <1>1, <1>3, <1>10 DEF Listed, Spots, AllApart
  <2>4. Parted' BY <1>1, <1>10, <2>2 DEF Parted
  <2>5. CASE call.fixed
    <3>1. call' = [call EXCEPT !.at = "carve", !.i = 1] BY <1>10, <2>5
    <3>2. 1 \in Nat \ {0} OBVIOUS
    <3>3. /\ call' \in Calls /\ call'.at = "carve" /\ call'.i = 1
          /\ call'.lo = call.lo /\ call'.hi = call.hi /\ call'.fixed = call.fixed
      BY ONLY <1>2, <3>1, <3>2 DEF Calls
    <3>4. \A j \in 1 .. Len(freeList') : ~(j < 1) OBVIOUS
    <3>5. Progress' BY <1>2, <1>10, <2>1, <2>5, <3>3, <3>4 DEF Progress, Unmapping
    <3>6. Above' BY <1>0, <1>1, <1>d, <1>10, <3>3 DEF Above
    <3> QED BY <1>4, <1>5, <1>d, <2>3, <2>4, <3>5, <3>6 DEF MapInv
  <2>6. CASE ~call.fixed
    <3>1. call' = NoCall BY <1>10, <2>6
    <3>2. NoCall \in Calls BY RegionOf DEF NoCall, Calls, Regions
    <3>3. Progress' BY <3>1, <3>2 DEF Progress, NoCall, Unmapping
    <3>4. ~call'.fixed BY <3>1 DEF NoCall
    <3>5. Above' BY <1>0, <1>1, <1>d, <1>10, <3>4 DEF Above
    <3> QED BY <1>4, <1>5, <1>d, <2>3, <2>4, <3>3, <3>5 DEF MapInv
  <2> QED BY <1>2, <2>5, <2>6
<1> QED BY <1>9, <1>10 DEF live_remove

\* The holes a call with MAP_FIXED reaches are cut back.  A full list loses a hole
\* only at the second push, and what moves to the front then is the first piece.
LEMMA CarveKeeps ==
  ASSUME MapInv, carve_free_range
  PROVE  MapInv'
<1> DEFINE k == Min(Hits(freeList))
           r == freeList[k]
           R == SwapRemove(freeList, k)
           p == LeftOf(r, call.lo)
           q == RightOf(r, call.hi)
           A == free_list_push_raw(R, p)
<1>0. Bounds /\ Listed /\ Holes /\ AllApart(liveList) /\ Parted /\ Progress /\ Above /\ Harmless BY DEF MapInv
<1>1. /\ call.at = "carve"
      /\ UNCHANGED <<heapEnd, mmapTop, liveList, allocHi, isChild, held, stale, harm>>
  BY DEF carve_free_range
<1>2. /\ call \in Calls /\ call.lo < call.hi /\ call.hi <= MemSize /\ call.fixed /\ call.lo >= 1
      /\ call.lo \in Nat /\ call.hi \in Nat /\ call.i \in Nat /\ call.i >= 1
      /\ \A j \in 1 .. Len(liveList) : ~Overlaps(liveList[j], call.lo, call.hi)
      /\ \A j \in 1 .. Len(freeList) : j < call.i => ~Overlaps(freeList[j], call.lo, call.hi)
  BY <1>0, <1>1 DEF Progress, Calls
<1>3. Top \in Nat /\ Half <= Top /\ Top' = Top BY <1>0, <1>1, TopIs DEF Top
<1>d. Dirty' = Dirty /\ Low' = Low /\ Harmless' BY <1>0, <1>1, SameMemory DEF Harmless
<1>4. Bounds' BY <1>0, <1>1, <1>3 DEF Bounds
<1>5. AllApart(liveList)' BY <1>0, <1>1 DEF AllApart
<1>a. call'.fixed = call.fixed /\ call'.lo = call.lo /\ call'.hi = call.hi => Above'
  BY <1>0, <1>1, <1>d DEF Above
<1>6. /\ Len(freeList) \in Nat /\ DOMAIN freeList = 1 .. Len(freeList)
      /\ \A j \in 1 .. Len(freeList) : freeList[j] \in Spots(Top) /\ freeList[j] \in Regions
      /\ \A j \in 1 .. Len(liveList) : liveList[j] \in Spots(Top) /\ liveList[j] \in Regions
  BY <1>0, Members
<1>7. freeList \in Seq(Spots(Top)) /\ Len(freeList) <= MaxFree /\ MaxFree \in Nat
  BY <1>0, MapConstants DEF Listed
<1>8. \A j \in 1 .. Len(liveList), m \in 1 .. Len(freeList) : Apart(liveList[j], freeList[m])
  BY <1>0, <1>1 DEF Parted
<1>9. CASE /\ Hits(freeList) # {}
           /\ freeList' = free_list_push_raw(A, q)
           /\ call' = [call EXCEPT !.i = k]
  <2>1. /\ k \in 1 .. Len(freeList) /\ k >= call.i /\ Overlaps(r, call.lo, call.hi)
        /\ \A j \in 1 .. Len(freeList) : call.i <= j /\ j < k => ~Overlaps(freeList[j], call.lo, call.hi)
    BY <1>2, <1>7, <1>9, NextHit
  <2> HIDE DEF k
  <2>2. r \in Spots(Top) /\ r \in Regions BY <1>6, <2>1
  <2>3. /\ p \in Regions /\ q \in Regions
        /\ p.len = 0 \/ p \in Spots(Top)
        /\ q.len = 0 \/ q \in Spots(Top)
        /\ Apart(p, q)
        /\ p.len = 0 \/ ~Overlaps(p, call.lo, call.hi)
        /\ ~Overlaps(q, call.lo, call.hi)
        /\ \A u \in Units(p) : u \in Units(r)
        /\ \A u \in Units(q) : u \in Units(r)
        /\ \A s \in Regions : Apart(r, s) => (p.len = 0 \/ Apart(p, s)) /\ (q.len = 0 \/ Apart(q, s))
    BY <1>2, <1>3, <2>1, <2>2, Pieces
  <2>4. R \in Seq(Spots(Top)) /\ Len(R) = Len(freeList) - 1
    BY <1>7, <2>1, SwapRemoved
  <2>5. AllApart(R) /\ ApartFrom(r, R, 1) BY <1>0, <1>7, <2>1, SwapApart DEF Holes
  <2>6. ASSUME NEW j \in 1 .. Len(R)
        PROVE  \E n \in 1 .. Len(freeList) : n # k /\ R[j] = freeList[n] /\ n = IF j = k THEN Len(freeList) ELSE j
    BY <1>7, <2>1, SwapKeeps
  <2> HIDE DEF R, p, q, r
  <2>7. \A j \in 1 .. Len(R) : R[j] \in Regions BY <1>6, <2>6
  <2>8. p.len = 0 \/ (p \in Spots(Top) /\ ApartFrom(p, R, 1))
    BY <2>3, <2>5, <2>7 DEF ApartFrom
  <2>9. Len(R) \in Nat /\ Len(R) < MaxFree BY <1>6, <1>7, <2>1, <2>4
  <2>10. /\ A \in Seq(Spots(Top)) /\ Len(A) <= MaxFree /\ AllApart(A)
         /\ \A j \in 1 .. Len(A) : (A[j] = p /\ p.len >= 1) \/ (j \in 1 .. Len(R) /\ A[j] = R[j])
    <3>1. Len(R) <= MaxFree /\ ~(Len(R) >= MaxFree) BY <1>7, <2>9
    <3> QED BY <1>3, <2>3, <2>4, <2>5, <2>8, <3>1, Pushed
  <2> HIDE DEF A
  <2>11. q.len = 0 \/ (q \in Spots(Top) /\ ApartFrom(q, A, 1))
    <3>1. ASSUME q.len # 0, NEW j \in 1 .. Len(A) PROVE Apart(q, A[j])
      <4>1. CASE A[j] = p BY <2>3, <4>1 DEF Apart
      <4>2. CASE j \in 1 .. Len(R) /\ A[j] = R[j] BY <2>3, <2>5, <2>7, <3>1, <4>2 DEF ApartFrom
      <4> QED BY <2>10, <4>1, <4>2
    <3> QED BY <2>3, <3>1 DEF ApartFrom
  <2>12. /\ freeList' \in Seq(Spots(Top)) /\ Len(freeList') <= MaxFree /\ AllApart(freeList')
         /\ \A j \in 1 .. Len(freeList') :
              \/ freeList'[j] = q /\ q.len >= 1
              \/ j \in 1 .. Len(A) /\ freeList'[j] = A[j]
              \/ j = 1 /\ Len(A) >= MaxFree /\ freeList'[j] = A[Len(A)]
    <3> DEFINE G == free_list_push_raw(A, q)
    <3>1. freeList' = G BY <1>9 DEF A, q, R, r, p, k
    <3>2. /\ G \in Seq(Spots(Top)) /\ Len(G) <= MaxFree /\ AllApart(G)
          /\ \A j \in 1 .. Len(G) :
               \/ G[j] = q /\ q.len >= 1
               \/ j \in 1 .. Len(A) /\ G[j] = A[j]
               \/ j = 1 /\ Len(A) >= MaxFree /\ G[j] = A[Len(A)]
      BY <1>3, <2>3, <2>10, <2>11, Pushed
    <3> HIDE DEF G
    <3> QED BY <3>1, <3>2
  <2>13. Len(A) \in Nat /\ (Len(A) >= MaxFree => A[Len(A)] = p /\ p.len >= 1)
    <3>1. Len(A) \in Nat BY <2>10, LenProperties
    <3>2. ASSUME Len(A) >= MaxFree PROVE Len(A) \in 1 .. Len(A) /\ Len(A) \notin 1 .. Len(R)
      BY <2>9, <3>1, <3>2, MapConstants
    <3> QED BY <2>10, <3>1, <3>2
  <2>14. ASSUME NEW j \in 1 .. Len(freeList')
         PROVE  \/ freeList'[j] = q /\ q.len >= 1
                \/ freeList'[j] = p /\ p.len >= 1
                \/ j \in 1 .. Len(R) /\ freeList'[j] = R[j]
    BY <2>10, <2>12, <2>13
  <2>15. /\ call' \in Calls /\ call'.at = "carve" /\ call'.i = k
         /\ call'.lo = call.lo /\ call'.hi = call.hi /\ call'.fixed = call.fixed
    <3>1. k \in Nat \ {0} BY <1>2, <2>1
    <3> QED BY ONLY <1>1, <1>2, <1>9, <3>1 DEF Calls
  <2>16. Listed' BY <1>0, <1>1, <1>3, <2>12 DEF Listed, Spots
  <2>17. Holes'
    <3>1. \A j \in 1 .. Len(freeList) : \A u \in Units(freeList[j]) : u \notin held /\ u \notin Dirty
      BY <1>0 DEF Holes, Clean
    <3>2. ASSUME NEW j \in 1 .. Len(freeList') PROVE \A u \in Units(freeList'[j]) : u \notin held /\ u \notin Dirty
      <4>1. CASE freeList'[j] = q \/ freeList'[j] = p
        <5>1. \A u \in Units(r) : u \notin held /\ u \notin Dirty BY <2>1, <3>1 DEF r
        <5> QED BY <2>3, <4>1, <5>1
      <4>2. CASE j \in 1 .. Len(R) /\ freeList'[j] = R[j] BY <2>6, <3>1, <4>2
      <4> QED BY <2>14, <4>1, <4>2
    <3>3. \A j \in 1 .. Len(freeList') : Clean(freeList[j])' BY <1>1, <1>d, <3>2 DEF Clean
    <3> QED BY <2>12, <3>3 DEF Holes, AllApart
  <2>18. Parted'
    <3>1. ASSUME NEW j \in 1 .. Len(liveList), NEW m \in 1 .. Len(freeList')
          PROVE  Apart(liveList[j], freeList'[m])
      <4>1. Apart(liveList[j], r) /\ Apart(r, liveList[j]) BY <1>8, <2>1 DEF r, Apart
      <4>2. CASE freeList'[m] = q /\ q.len >= 1
        <5>1. Apart(q, liveList[j]) BY <1>6, <2>3, <4>1, <4>2
        <5> QED BY <4>2, <5>1 DEF Apart
      <4>3. CASE freeList'[m] = p /\ p.len >= 1
        <5>1. Apart(p, liveList[j]) BY <1>6, <2>3, <4>1, <4>3
        <5> QED BY <4>3, <5>1 DEF Apart
      <4>4. CASE m \in 1 .. Len(R) /\ freeList'[m] = R[m] BY <1>8, <2>6, <4>4
      <4> QED BY <2>14, <4>2, <4>3, <4>4
    <3> QED BY <1>1, <3>1 DEF Parted
  <2>19. ASSUME NEW j \in 1 .. Len(freeList'), j < k PROVE ~Overlaps(freeList'[j], call.lo, call.hi)
    <3>1. CASE freeList'[j] = q BY <2>3, <3>1
    <3>2. CASE freeList'[j] = p /\ p.len >= 1 BY <2>3, <3>2
    <3>3. CASE j \in 1 .. Len(R) /\ freeList'[j] = R[j]
      <4>1. j # k BY <2>1, <2>19
      <4>2. R[j] = freeList[j] /\ j \in 1 .. Len(freeList) BY <2>6, <3>3, <4>1
      <4>3. j < call.i \/ call.i <= j BY <1>2
      <4> QED BY <1>2, <2>1, <2>19, <3>3, <4>2, <4>3
    <3> QED BY <2>14, <3>1, <3>2, <3>3
  <2>20. Progress' BY <1>1, <1>2, <2>15, <2>19 DEF Progress, Unmapping
  <2> QED BY <1>4, <1>5, <1>a, <1>d, <2>15, <2>16, <2>17, <2>18, <2>20 DEF MapInv
<1>10. CASE Hits(freeList) = {} /\ freeList' = freeList /\ call' = [call EXCEPT !.at = "own"]
  <2> HIDE DEF k, r, R, p, q, A
  <2>1. \A j \in 1 .. Len(freeList) : ~Overlaps(freeList[j], call.lo, call.hi)
    BY <1>2, <1>7, <1>10, NoHit
  <2>2. Listed' /\ Holes' BY <1>0, <1>1, <1>3, <1>d, <1>10 DEF Listed, Spots, Holes, AllApart, Clean
  <2>3. Parted' BY <1>1, <1>8, <1>10 DEF Parted
  <2>4. /\ call' \in Calls /\ call'.at = "own" /\ call'.i = call.i
        /\ call'.lo = call.lo /\ call'.hi = call.hi /\ call'.fixed = call.fixed
    BY ONLY <1>2, <1>10 DEF Calls
  <2>5. Progress' BY <1>1, <1>2, <1>10, <2>1, <2>4 DEF Progress, Unmapping
  <2> QED BY <1>4, <1>5, <1>a, <1>d, <2>2, <2>3, <2>4, <2>5 DEF MapInv
<1> QED BY <1>9, <1>10 DEF carve_free_range

----------------------------------------------------------------------------
(* mmap and mremap *)

\* What is left of hole i once len units are taken from its start: every hole is
\* then part of one there was, and apart from the units taken and from the others.
LEMMA RestIs ==
  ASSUME Bounds, Listed, AllApart(freeList), NEW i \in 1 .. Len(freeList), NEW len \in Nat, len >= 1,
         freeList[i].len >= len
  PROVE  LET G == RestOf(i, len)
             r == [addr |-> freeList[i].addr, len |-> len]
         IN  /\ G \in Seq(Spots(Top)) /\ Len(G) <= MaxFree /\ AllApart(G)
             /\ \A j \in 1 .. Len(G) :
                  /\ Apart(r, G[j])
                  /\ \E m \in 1 .. Len(freeList) :
                       /\ freeList[m].addr <= G[j].addr
                       /\ G[j].addr + G[j].len <= freeList[m].addr + freeList[m].len
<1> DEFINE G == RestOf(i, len)
           f == freeList[i]
           r == [addr |-> f.addr, len |-> len]
           rest == [addr |-> f.addr + len, len |-> f.len - len]
<1>0. /\ Top \in Nat /\ MaxFree \in Nat /\ PageSize \in Nat /\ PageSize >= 1 BY TopIs, MapConstants
<1>1. /\ Len(freeList) \in Nat /\ DOMAIN freeList = 1 .. Len(freeList)
      /\ freeList \in Seq(Spots(Top)) /\ Len(freeList) <= MaxFree
      /\ \A k \in 1 .. Len(freeList) : freeList[k] \in Spots(Top) /\ freeList[k] \in Regions
  BY Members DEF Listed
<1>2. /\ f \in Spots(Top) /\ f.addr \in Nat /\ f.len \in Nat /\ f.len >= 1
      /\ 1 <= f.addr /\ f.addr + f.len <= Top
  BY <1>0, <1>1, SpotIs
<1>3. r \in Regions /\ r.addr = f.addr /\ r.len = len BY <1>2 DEF Regions
<1> HIDE DEF r
<1>4. ASSUME NEW s \in Regions, Apart(f, s) PROVE Apart(r, s)
  BY <1>2, <1>3, <1>4 DEF Apart, Regions
<1>5. CASE f.len - len >= PageSize
  <2>1. G = [freeList EXCEPT ![i] = rest] BY <1>5 DEF RestOf
  <2>2. /\ rest \in Regions /\ rest.addr = f.addr + len /\ rest.len = f.len - len BY <1>2 DEF Regions
  <2>3. rest.len >= 1 BY <1>0, <1>2, <1>5, <2>2
  <2> HIDE DEF rest
  <2>4. rest \in Spots(Top) BY <1>0, <1>2, <2>2, <2>3, SpotsAre, MapConstants
  <2>5. G \in Seq(Spots(Top)) /\ Len(G) = Len(freeList)
        /\ \A j \in 1 .. Len(freeList) : G[j] = IF j = i THEN rest ELSE freeList[j]
    <3>1. G \in Seq(Spots(Top)) /\ Len(G) = Len(freeList) BY <1>1, <2>1, <2>4, ExceptSeq
    <3>2. \A j \in DOMAIN freeList : G[j] = IF j = i THEN rest ELSE freeList[j] BY <2>1
    <3> QED BY <1>1, <3>1, <3>2
  <2> HIDE DEF G
  <2>6. ASSUME NEW s \in Regions, Apart(f, s) PROVE Apart(rest, s) /\ Apart(s, rest)
    <3>1. s.addr \in Nat /\ s.len \in Nat BY DEF Regions
    <3>2. rest.addr + rest.len = f.addr + f.len /\ f.addr <= rest.addr BY <1>2, <2>2
    <3>3. f.addr \in Nat /\ f.len \in Nat /\ rest.addr \in Nat /\ rest.len \in Nat BY <1>2, <2>2
    <3> HIDE DEF f
    <3> QED BY ONLY <2>6, <3>1, <3>2, <3>3 DEF Apart
  <2>7. AllApart(G)
    <3>1. ASSUME NEW j \in 1 .. Len(freeList), NEW k \in 1 .. Len(freeList), j # k PROVE Apart(G[j], G[k])
      <4>1. Apart(freeList[j], freeList[k]) /\ Apart(freeList[k], freeList[j])
        BY <3>1 DEF AllApart
      <4>2. CASE j = i BY <1>1, <2>5, <2>6, <3>1, <4>1, <4>2
      <4>3. CASE k = i BY <1>1, <2>5, <2>6, <3>1, <4>1, <4>3
      <4>4. CASE j # i /\ k # i BY <2>5, <4>1, <4>4
      <4> QED BY <4>2, <4>3, <4>4
    <3> QED BY <2>5, <3>1 DEF AllApart
  <2>8. ASSUME NEW j \in 1 .. Len(freeList)
        PROVE  /\ Apart(r, G[j])
               /\ \E m \in 1 .. Len(freeList) :
                    /\ freeList[m].addr <= G[j].addr
                    /\ G[j].addr + G[j].len <= freeList[m].addr + freeList[m].len
    <3>1. CASE j = i
      <4>1. G[j] = rest BY <2>5, <3>1
      <4>2. Apart(r, rest) BY <1>2, <1>3, <2>2 DEF Apart
      <4>3. f.addr <= rest.addr /\ rest.addr + rest.len <= f.addr + f.len BY <1>2, <2>2
      <4> QED BY <4>1, <4>2, <4>3
    <3>2. CASE j # i
      <4>1. G[j] = freeList[j] BY <2>5, <3>2
      <4>2. Apart(f, freeList[j]) BY <3>2 DEF AllApart
      <4>3. freeList[j].addr \in Nat /\ freeList[j].len \in Nat BY <1>0, <1>1, SpotIs
      <4>4. Apart(r, freeList[j]) BY <1>1, <1>4, <4>2
      <4>5. freeList[j].addr <= freeList[j].addr
            /\ freeList[j].addr + freeList[j].len <= freeList[j].addr + freeList[j].len
        BY <4>3
      <4> QED BY <4>1, <4>4, <4>5
    <3> QED BY <3>1, <3>2
  <2> QED BY <1>1, <2>5, <2>7, <2>8 DEF G, r
<1>6. CASE ~(f.len - len >= PageSize)
  <2>1. G = SwapRemove(freeList, i) BY <1>6 DEF RestOf
  <2>2. G \in Seq(Spots(Top)) /\ Len(G) = Len(freeList) - 1 BY <1>1, <2>1, SwapRemoved
  <2>3. AllApart(G) /\ ApartFrom(f, G, 1) BY <1>1, <2>1, SwapApart
  <2>4. ASSUME NEW j \in 1 .. Len(G) PROVE \E m \in 1 .. Len(freeList) : G[j] = freeList[m]
    BY <1>1, <2>1, SwapKeeps
  <2> HIDE DEF G
  <2>5. Len(G) <= MaxFree BY <1>0, <1>1, <2>2
  <2>6. ASSUME NEW j \in 1 .. Len(G)
        PROVE  /\ Apart(r, G[j])
               /\ \E m \in 1 .. Len(freeList) :
                    /\ freeList[m].addr <= G[j].addr
                    /\ G[j].addr + G[j].len <= freeList[m].addr + freeList[m].len
    <3>1. PICK m \in 1 .. Len(freeList) : G[j] = freeList[m] BY <2>4
    <3>2. freeList[m].addr \in Nat /\ freeList[m].len \in Nat BY <1>0, <1>1, SpotIs
    <3>3. freeList[m].addr <= freeList[m].addr
          /\ freeList[m].addr + freeList[m].len <= freeList[m].addr + freeList[m].len
      BY <3>2
    <3>4. Apart(f, G[j]) BY <2>3 DEF ApartFrom
    <3>5. Apart(r, G[j]) BY <1>1, <1>4, <3>1, <3>4
    <3> QED BY <3>1, <3>3, <3>5
  <2> QED BY <2>2, <2>3, <2>5, <2>6 DEF G, r
<1> QED BY <1>5, <1>6

\* Between calls the mappings are apart from the holes.
LEMMA IdleParted ==
  ASSUME MapInv, call = NoCall
  PROVE  /\ \A k \in 1 .. Len(liveList), m \in 1 .. Len(freeList) : Apart(liveList[k], freeList[m])
         /\ call \in Calls /\ call.at = "idle"
BY DEF MapInv, Parted, Progress, NoCall

LEMMA IdleProgress ==
  ASSUME call' = NoCall
  PROVE  Progress'
<1>1. NoCall \in Calls BY RegionOf DEF NoCall, Calls, Regions
<1> QED BY <1>1 DEF Progress, NoCall, Unmapping

\* A hole is given out again: it is nobody's, zero, and apart from the heap.
LEMMA ReuseKeeps ==
  ASSUME MapInv, call = NoCall, NEW len \in Nat, len >= 1,
         NEW src \in Regions, \A u \in Units(src) : u \in held,
         Reuse(len, src), UNCHANGED <<heapEnd, allocHi, isChild, call>>
  PROVE  MapInv'
<1>0. Bounds /\ Listed /\ Holes /\ AllApart(liveList) /\ AllApart(freeList) /\ Above /\ Harmless
  BY DEF MapInv, Holes
<1>1. PICK i \in find_free_region(len) :
        LET g == [addr |-> freeList[i].addr, len |-> len]
        IN  /\ freeList' = RestOf(i, len)
            /\ liveList' = live_add(liveList, g)
            /\ Grant(g, {}, src)
            /\ UNCHANGED mmapTop
  BY DEF Reuse
<1> DEFINE r == [addr |-> freeList[i].addr, len |-> len]
           f == freeList[i]
<1>2. /\ freeList' = RestOf(i, len) /\ liveList' = live_add(liveList, r)
      /\ Grant(r, {}, src) /\ mmapTop' = mmapTop
  BY <1>1
<1>3. /\ Top \in Nat /\ Half <= Top /\ Top <= MemSize /\ Top' = Top /\ MemSize \in Nat /\ Half \in Nat
      /\ MaxLive \in Nat
  BY <1>0, <1>2, TopIs, MapConstants DEF Top
<1>4. /\ Len(freeList) \in Nat /\ DOMAIN freeList = 1 .. Len(freeList)
      /\ \A k \in 1 .. Len(freeList) : freeList[k] \in Spots(Top) /\ freeList[k] \in Regions
      /\ \A k \in 1 .. Len(liveList) : liveList[k] \in Spots(Top) /\ liveList[k] \in Regions
  BY <1>0, Members
<1>5. i \in 1 .. Len(freeList) /\ f.len >= len BY <1>4 DEF find_free_region
<1>6. /\ f \in Spots(Top) /\ f \in Regions /\ f.addr \in Nat /\ f.len \in Nat
      /\ 1 <= f.addr /\ f.addr + f.len <= Top
  BY <1>3, <1>4, <1>5, SpotIs
<1>7. r \in Regions /\ r.addr = f.addr /\ r.len = len BY <1>6 DEF Regions
<1>8. /\ freeList' \in Seq(Spots(Top)) /\ Len(freeList') <= MaxFree /\ AllApart(freeList')
      /\ \A j \in 1 .. Len(freeList') :
           /\ Apart(r, freeList'[j])
           /\ \E m \in 1 .. Len(freeList) :
                /\ freeList[m].addr <= freeList'[j].addr
                /\ freeList'[j].addr + freeList'[j].len <= freeList[m].addr + freeList[m].len
  BY <1>0, <1>2, <1>5, RestIs
<1> HIDE DEF r
<1>9. r \in Spots(Top) BY <1>3, <1>5, <1>6, <1>7, SpotsAre
<1>10. \A u \in Units(r) : u \in Units(f) /\ u \in Nat /\ 1 <= u /\ u < Top
  <2>1. \A u \in Units(r) : u \in Nat /\ 1 <= u /\ u < Top BY <1>3, <1>9, SpotIs
  <2>2. \A u \in Units(r) : u \in Units(f) BY <1>5, <1>6, <1>7, UnitsOf
  <2> QED BY <2>1, <2>2
<1>11. \A k \in 1 .. Len(freeList) : \A u \in Units(freeList[k]) : u \notin held /\ u \notin Dirty
  BY <1>0 DEF Holes, Clean
<1>12. /\ held' = (held \ Units(src)) \cup Units(r)
       /\ stale' = (stale \cup Units(src)) \ Units(r)
       /\ harm' = harm
  <2>1. ASSUME harm = {}, NEW u \in Units(r) PROVE u \notin stale \cup InUse
    <3>1. u \notin held /\ u \notin Dirty BY <1>5, <1>10, <1>11
    <3> QED BY <2>1, <3>1 DEF InUse, Dirty
  <2>2. ASSUME harm = {}
        PROVE  {w \in {"alias", "residue"} :
                  \E u \in Units(r) \cap (stale \cup InUse) :
                    \/ w = "alias" /\ u \in InUse
                    \/ w = "residue" /\ u \notin {} /\ u >= r.addr + src.len} = {}
    <3>1. Units(r) \cap (stale \cup InUse) = {} BY <2>1, <2>2
    <3> QED BY <3>1
  <2> QED BY <1>2, <2>2 DEF Grant, Wrong
<1>l. Low' = Low /\ Harmless' /\ \A u : u \in Dirty' => u \in Dirty \/ u \in held
  BY <1>0, <1>12 DEF Low, Dirty, Harmless
<1>13. Bounds'
  <2>1. held \subseteq 1 .. Top - 1 /\ stale \subseteq 0 .. MemSize - 1 BY <1>0 DEF Bounds
  <2>2. Units(r) \subseteq 1 .. Top - 1 BY <1>3, <1>10
  <2>3. 1 .. Top - 1 \subseteq 0 .. MemSize - 1 BY <1>3
  <2>4. held' \subseteq 1 .. Top - 1 BY <1>12, <2>1, <2>2, Zenon
  <2>5. Units(src) \subseteq 1 .. Top - 1 BY <2>1, Zenon
  <2>6. stale' \subseteq 0 .. MemSize - 1 BY <1>12, <2>1, <2>3, <2>5, Zenon
  <2> QED BY <1>0, <1>2, <1>3, <2>4, <2>6 DEF Bounds
<1>14. \A k \in 1 .. Len(liveList) : Apart(r, liveList[k])
  <2>1. ASSUME NEW k \in 1 .. Len(liveList) PROVE Apart(r, liveList[k])
    <3>1. Apart(f, liveList[k]) BY <1>5, IdleParted DEF Apart
    <3>2. liveList[k].addr \in Nat /\ liveList[k].len \in Nat BY <1>4 DEF Regions
    <3>3. /\ f.addr \in Nat /\ f.len \in Nat /\ len \in Nat /\ len <= f.len
          /\ r.addr = f.addr /\ r.len = len
      BY <1>5, <1>6, <1>7
    <3> HIDE DEF f
    <3> QED BY ONLY <3>1, <3>2, <3>3 DEF Apart
  <2> QED BY <2>1
<1>15. /\ liveList' \in Seq(Spots(Top)) /\ Len(liveList') <= MaxLive /\ AllApart(liveList')
       /\ \A k \in 1 .. Len(liveList') :
            \/ liveList'[k] = r
            \/ k \in 1 .. Len(liveList) /\ liveList'[k] = liveList[k]
  <2>1. liveList \in Seq(Spots(Top)) /\ Len(liveList) <= MaxLive BY <1>0 DEF Listed
  <2>2. ApartFrom(r, liveList, 1) BY <1>14 DEF ApartFrom
  <2>3. liveList' = live_add(liveList, r) BY <1>2
  <2> QED BY <1>0, <1>3, <1>7, <1>9, <2>1, <2>2, <2>3, Added
<1>16. Listed' BY <1>3, <1>8, <1>15 DEF Listed, Spots
<1>17. \A j \in 1 .. Len(freeList') : freeList'[j] \in Regions
  BY <1>3, <1>8, SpotIs, ElementOfSeq
<1>18. Holes'
  <2>1. ASSUME NEW j \in 1 .. Len(freeList'), NEW u \in Units(freeList'[j])
        PROVE  u \notin held' /\ u \notin Dirty'
    <3>1. PICK m \in 1 .. Len(freeList) :
            /\ freeList[m].addr <= freeList'[j].addr
            /\ freeList'[j].addr + freeList'[j].len <= freeList[m].addr + freeList[m].len
      BY <1>8
    <3>2. u \in Units(freeList[m]) BY <1>4, <1>17, <3>1, Within
    <3>3. u \notin held /\ u \notin Dirty BY <1>11, <3>2
    <3>4. u \notin Units(r) BY <1>7, <1>8, <1>17, ApartUnits
    <3> QED BY <1>12, <1>l, <3>3, <3>4
  <2> QED BY <1>8, <2>1 DEF Holes, AllApart, Clean
<1>19. Parted'
  <2>1. ASSUME NEW k \in 1 .. Len(liveList'), NEW j \in 1 .. Len(freeList')
        PROVE  Apart(liveList'[k], freeList'[j])
    <3>1. CASE liveList'[k] = r BY <1>8, <3>1
    <3>2. CASE k \in 1 .. Len(liveList) /\ liveList'[k] = liveList[k]
      <4>1. PICK m \in 1 .. Len(freeList) :
              /\ freeList[m].addr <= freeList'[j].addr
              /\ freeList'[j].addr + freeList'[j].len <= freeList[m].addr + freeList[m].len
        BY <1>8
      <4>2. Apart(liveList[k], freeList[m]) BY <3>2, IdleParted
      <4> QED BY <1>4, <1>17, <3>2, <4>1, <4>2, Within
    <3> QED BY <1>15, <3>1, <3>2
  <2> QED BY <2>1 DEF Parted
<1>20. Progress' BY IdleProgress
<1>21. Above'
  <2>1. \A u \in Units(r) : u \notin Low
    <3>1. \A u \in Units(r) : u \notin Dirty BY <1>5, <1>10, <1>11
    <3> QED BY <3>1 DEF Low, Dirty
  <2>2. ~call'.fixed BY DEF NoCall
  <2> QED BY <1>0, <1>12, <1>15, <1>l, <2>1, <2>2 DEF Above
<1> QED BY <1>13, <1>15, <1>16, <1>18, <1>19, <1>20, <1>21, <1>l DEF MapInv, AllApart

\* The cursor advances: what is behind it is beyond every mapping and hole.
LEMMA BumpKeeps ==
  ASSUME MapInv, call = NoCall, NEW len \in Nat, len >= 1,
         NEW src \in Regions, \A u \in Units(src) : u \in held,
         Bump(len, src), UNCHANGED <<heapEnd, allocHi, isChild, call>>
  PROVE  MapInv'
<1> DEFINE r == Region(Top, Top + len)
<1>0. Bounds /\ Listed /\ Holes /\ AllApart(liveList) /\ Parted /\ Above /\ Harmless BY DEF MapInv
<1>1. /\ Top \in Nat /\ Half <= Top /\ Top <= MemSize /\ MemSize \in Nat /\ Half \in Nat /\ Top >= 1
      /\ heapEnd \in Nat /\ heapEnd <= Top
  BY <1>0, TopIs, MapConstants DEF Bounds
<1>c. ~call'.fixed BY DEF NoCall
<1>2. Progress' BY IdleProgress
<1>3. \A k \in 1 .. Len(liveList), m \in 1 .. Len(freeList) : Apart(liveList[k], freeList[m])
  BY IdleParted
<1>4. freeList' = freeList BY DEF Bump
<1>5. CASE mmapTop' = Top /\ UNCHANGED <<liveList, held, stale, harm>>
  <2>1. Top' = Top BY <1>1, <1>5 DEF Top
  <2>2. Bounds' BY <1>0, <1>1, <1>5, <2>1 DEF Bounds
  <2>3. Dirty' = Dirty /\ Low' = Low BY <1>5, SameMemory
  <2>4. Listed' /\ Holes' /\ AllApart(liveList)' /\ Parted'
    BY <1>0, <1>3, <1>4, <1>5, <2>1, <2>3 DEF Listed, Holes, AllApart, Parted, Spots, Clean
  <2>5. Above' /\ Harmless' BY <1>0, <1>5, <1>c, <2>3 DEF Above, Harmless
  <2> QED BY <1>2, <2>2, <2>4, <2>5 DEF MapInv
<1>6. CASE /\ Top + len <= MemSize
           /\ mmapTop' = Top + len
           /\ liveList' = live_add(liveList, r)
           /\ Grant(r, Top .. Top + len - 1, src)
  <2>1. Top' = Top + len /\ Top' \in Nat /\ Top <= Top' BY <1>1, <1>6 DEF Top
  <2>2. r \in Regions /\ r.addr = Top /\ r.len = len
        /\ \A u : u \in Units(r) <=> u \in Nat /\ Top <= u /\ u < Top + len
    <3> DEFINE e == Top + len
    <3>1. e \in Nat /\ e > Top /\ e - Top = len BY <1>1
    <3>2. r = Region(Top, e) OBVIOUS
    <3> HIDE DEF r, e
    <3>3. /\ r \in Regions /\ r.addr = Top /\ r.len = IF e > Top THEN e - Top ELSE 0
          /\ \A u : u \in Units(r) <=> u \in Nat /\ Top <= u /\ u < e
      BY <1>1, <3>1, <3>2, RegionOf
    <3> QED BY <3>1, <3>3 DEF e
  <2> HIDE DEF r
  <2>3. r \in Spots(Top') BY <1>1, <2>1, <2>2, SpotsAre
  <2>4. freeList \in Seq(Spots(Top')) /\ liveList \in Seq(Spots(Top')) /\ Len(liveList) <= MaxLive
    BY <1>0, <1>1, <2>1, SpotsGrow DEF Listed
  <2>5. /\ \A k \in 1 .. Len(freeList) : Apart(r, freeList[k]) /\ \A u \in Units(freeList[k]) : u < Top
        /\ \A k \in 1 .. Len(liveList) : Apart(r, liveList[k])
    <3>1. \A s \in Spots(Top) : Apart(r, s) /\ \A u \in Units(s) : u < Top
      BY <1>1, <2>2, SpotIs DEF Apart
    <3> QED BY <1>0, <3>1, Members
  <2>6. /\ liveList' \in Seq(Spots(Top')) /\ Len(liveList') <= MaxLive /\ AllApart(liveList')
        /\ \A k \in 1 .. Len(liveList') :
             \/ liveList'[k] = r
             \/ k \in 1 .. Len(liveList) /\ liveList'[k] = liveList[k]
    <3>1. ApartFrom(r, liveList, 1) BY <2>5 DEF ApartFrom
    <3> DEFINE t == Top'
    <3>2. t \in Nat /\ liveList \in Seq(Spots(t)) /\ r \in Spots(t) BY <2>1, <2>3, <2>4
    <3> HIDE DEF t
    <3>3. liveList' \in Seq(Spots(t)) /\ Len(liveList') <= MaxLive /\ AllApart(liveList')
          /\ \A k \in 1 .. Len(liveList') :
             \/ liveList'[k] = r
             \/ k \in 1 .. Len(liveList) /\ liveList'[k] = liveList[k]
      BY <1>0, <1>6, <2>2, <2>4, <3>1, <3>2, Added
    <3> QED BY <3>3 DEF t
  <2>7. held \subseteq 1 .. Top - 1 /\ stale \subseteq 0 .. MemSize - 1 BY <1>0 DEF Bounds
  <2>8. /\ held' = (held \ Units(src)) \cup Units(r)
        /\ stale' = (stale \cup Units(src)) \ Units(r)
        /\ harm' = harm
    <3>1. ASSUME NEW u \in Units(r) PROVE u \notin InUse /\ u \in Top .. Top + len - 1
      <4>1. u \in Nat /\ Top <= u /\ u < Top + len BY <2>2
      <4>3. u \notin held BY <1>1, <2>7, <4>1
      <4>4. u \notin 0 .. heapEnd - 1 BY <1>1, <4>1
      <4>5. u \in Top .. Top + len - 1 BY <1>1, <4>1
      <4> QED BY <4>3, <4>4, <4>5 DEF InUse
    <3>2. {h \in {"alias", "residue"} :
             \E u \in Units(r) \cap (stale \cup InUse) :
               \/ h = "alias" /\ u \in InUse
               \/ h = "residue" /\ u \notin Top .. Top + len - 1 /\ u >= r.addr + src.len} = {}
      BY <3>1, Zenon
    <3> QED BY <1>6, <3>2 DEF Grant, Wrong
  <2>l. Low' = Low /\ Harmless' /\ \A u : u \in Dirty' => u \in Dirty \/ u \in held
    BY <1>0, <2>8 DEF Low, Dirty, Harmless
  <2>9. Bounds'
    <3>1. Units(r) \subseteq 1 .. Top' - 1 BY <1>1, <2>1, <2>2
    <3>2. 1 .. Top - 1 \subseteq 1 .. Top' - 1 /\ 1 .. Top - 1 \subseteq 0 .. MemSize - 1
      BY <1>1, <2>1
    <3>3. held' \subseteq 1 .. Top' - 1 BY <2>7, <2>8, <3>1, <3>2, Zenon
    <3>4. Units(src) \subseteq 1 .. Top - 1 BY <2>7, Zenon
    <3>5. stale' \subseteq 0 .. MemSize - 1 BY <2>7, <2>8, <3>2, <3>4, Zenon
    <3>6. mmapTop' \in Nat /\ Half <= mmapTop' /\ mmapTop' <= MemSize /\ heapEnd <= Top' BY <1>1, <1>6, <2>1
    <3> QED BY <1>0, <3>3, <3>5, <3>6 DEF Bounds
  <2>10. Listed' BY <1>0, <1>4, <2>4, <2>6 DEF Listed, Spots
  <2>11. Holes'
    <3>1. ASSUME NEW k \in 1 .. Len(freeList), NEW u \in Units(freeList[k])
          PROVE  u \notin held' /\ u \notin Dirty'
      <4>1. u \notin held /\ u \notin Dirty BY <1>0 DEF Holes, Clean
      <4>2. u < Top BY <2>5
      <4>3. u \notin Units(r) BY <1>1, <2>2, <4>2
      <4> QED BY <2>8, <2>l, <4>1, <4>3
    <3> QED BY <1>0, <1>4, <3>1 DEF Holes, AllApart, Clean
  <2>12. Parted' BY <1>3, <1>4, <2>5, <2>6 DEF Parted
  <2>13. Above'
    <3>1. \A u \in Units(r) : u \notin Low BY <1>1, <2>2 DEF Low
    <3> QED BY <1>0, <1>c, <2>6, <2>8, <2>l, <3>1 DEF Above
  <2> QED BY <1>2, <2>6, <2>9, <2>10, <2>11, <2>12, <2>13, <2>l DEF MapInv, AllApart
<1> QED BY <1>5, <1>6 DEF Bump, Top

LEMMA MmapKeeps ==
  ASSUME MapInv, NEW n \in Nat, NEW src \in Regions, \A u \in Units(src) : u \in held,
         yos_mmap2(n, src)
  PROVE  MapInv'
<1> DEFINE len == PageUp(n)
<1>1. len \in Nat /\ len >= 1 BY RoundedUp, MapConstants DEF yos_mmap2
<1>2. /\ call = NoCall /\ UNCHANGED <<heapEnd, allocHi, isChild, call>>
      /\ Reuse(len, src) \/ Bump(len, src)
  BY DEF yos_mmap2
<1> HIDE DEF len
<1> QED BY <1>1, <1>2, ReuseKeeps, BumpKeeps

\* mremap gives back to no list what it moves from: only its contents matter.
LEMMA MremapKeeps ==
  ASSUME MapInv, NEW addr \in Addrs, NEW old \in Lengths, NEW new \in Lengths,
         yos_mremap(addr, old, new)
  PROVE  MapInv'
<1> DEFINE src == Region(addr, addr + old)
<1>1. addr \in Nat /\ old \in Nat /\ new \in Nat /\ addr + old \in Nat BY MapConstants
<1>2. addr .. addr + old - 1 \subseteq held /\ yos_mmap2(new, src) BY DEF yos_mremap
<1>3. src \in Regions /\ \A u : u \in Units(src) <=> u \in Nat /\ addr <= u /\ u < addr + old
  BY <1>1, RegionOf
<1> HIDE DEF src
<1>4. \A u \in Units(src) : u \in held
  <2>1. \A u \in Units(src) : u \in addr .. addr + old - 1 BY <1>1, <1>3
  <2> QED BY <1>2, <2>1
<1> QED BY <1>1, <1>2, <1>3, <1>4, MmapKeeps

\* MAP_FIXED takes its range once no hole and no mapping reaches into it.
LEMMA OwnsKeeps ==
  ASSUME MapInv, MapFixedOwns
  PROVE  MapInv'
<1> DEFINE r == Region(call.lo, call.hi)
<1>0. Bounds /\ Listed /\ Holes /\ AllApart(liveList) /\ Parted /\ Progress /\ Above /\ Harmless BY DEF MapInv
<1>1. /\ call.at = "own"
      /\ liveList' = live_add(liveList, r)
      /\ mmapTop' = IF call.hi > Top THEN call.hi ELSE Top
      /\ held' = held \cup (call.lo .. call.hi - 1)
      /\ stale' = stale \ (call.lo .. call.hi - 1)
      /\ Wrong({w \in {"clobber"} : (call.lo .. call.hi - 1) \cap 0 .. heapEnd - 1 # {}})
      /\ call' = NoCall
      /\ UNCHANGED <<heapEnd, freeList, allocHi, isChild>>
  BY DEF MapFixedOwns, Replace, Top
<1>2. /\ call.lo < call.hi /\ call.hi <= MemSize /\ call.lo >= 1 /\ call.fixed
      /\ call.lo \in Nat /\ call.hi \in Nat
      /\ \A k \in 1 .. Len(liveList) : ~Overlaps(liveList[k], call.lo, call.hi)
      /\ \A k \in 1 .. Len(freeList) : ~Overlaps(freeList[k], call.lo, call.hi)
  BY <1>0, <1>1 DEF Progress, Calls
<1>3. /\ Top \in Nat /\ Half <= Top /\ Top <= MemSize /\ MemSize \in Nat /\ Half \in Nat /\ Top >= 1
      /\ heapEnd \in Nat /\ heapEnd <= Top
  BY <1>0, TopIs, MapConstants DEF Bounds
<1>4. Top' \in Nat /\ Top <= Top' /\ call.hi <= Top' /\ Top' <= MemSize /\ mmapTop' = Top'
  BY <1>1, <1>2, <1>3 DEF Top
<1>5. /\ r \in Regions /\ r.addr = call.lo /\ r.len = call.hi - call.lo
      /\ \A u : u \in Units(r) <=> u \in Nat /\ call.lo <= u /\ u < call.hi
  BY <1>2, RegionOf
<1> HIDE DEF r
<1>6. r \in Spots(Top') BY <1>2, <1>3, <1>4, <1>5, SpotsAre
<1>7. freeList \in Seq(Spots(Top')) /\ liveList \in Seq(Spots(Top')) /\ Len(liveList) <= MaxLive
  BY <1>0, <1>3, <1>4, SpotsGrow DEF Listed
<1>8. \A s \in Regions : ~Overlaps(s, call.lo, call.hi) => Apart(r, s)
  BY <1>2, <1>5 DEF Regions, Apart, Overlaps
<1>9. /\ \A k \in 1 .. Len(freeList) : freeList[k] \in Regions /\ Apart(r, freeList[k])
      /\ \A k \in 1 .. Len(liveList) : liveList[k] \in Regions /\ Apart(r, liveList[k])
  BY <1>0, <1>2, <1>8, Members
<1>10. /\ liveList' \in Seq(Spots(Top')) /\ Len(liveList') <= MaxLive /\ AllApart(liveList')
       /\ \A k \in 1 .. Len(liveList') :
            \/ liveList'[k] = r
            \/ k \in 1 .. Len(liveList) /\ liveList'[k] = liveList[k]
  <2>1. ApartFrom(r, liveList, 1) BY <1>9 DEF ApartFrom
  <2> DEFINE t == Top'
  <2>2. t \in Nat /\ liveList \in Seq(Spots(t)) /\ r \in Spots(t) BY <1>4, <1>6, <1>7
  <2> HIDE DEF t
  <2>3. liveList' \in Seq(Spots(t)) /\ Len(liveList') <= MaxLive /\ AllApart(liveList')
        /\ \A k \in 1 .. Len(liveList') :
           \/ liveList'[k] = r
           \/ k \in 1 .. Len(liveList) /\ liveList'[k] = liveList[k]
    BY <1>0, <1>1, <1>5, <1>7, <2>1, <2>2, Added
  <2> QED BY <2>3 DEF t
<1>11. harm' = harm
  <2>1. \A u \in call.lo .. call.hi - 1 : u \notin Low BY <1>0, <1>2 DEF Above
  <2>2. ASSUME harm = {} PROVE {w \in {"clobber"} : (call.lo .. call.hi - 1) \cap 0 .. heapEnd - 1 # {}} = {}
    BY <2>1, <2>2 DEF Low
  <2> QED BY <1>1, <2>2 DEF Wrong
<1>l. Low' = Low /\ Harmless' /\ \A u : u \in Dirty' => u \in Dirty \/ u \in Low
  BY <1>0, <1>1, <1>11 DEF Low, Dirty, Harmless
<1>12. Bounds'
  <2>1. held \subseteq 1 .. Top - 1 /\ stale \subseteq 0 .. MemSize - 1 BY <1>0 DEF Bounds
  <2>2. 1 .. Top - 1 \subseteq 1 .. Top' - 1 /\ call.lo .. call.hi - 1 \subseteq 1 .. Top' - 1
    <3> DEFINE t == Top'
    <3>1. /\ t \in Nat /\ Top \in Nat /\ Top <= t /\ Half \in Nat
          /\ call.lo \in Nat /\ call.hi \in Nat /\ 1 <= call.lo /\ call.hi <= t
      BY <1>2, <1>3, <1>4
    <3> HIDE DEF t
    <3>2. 1 .. Top - 1 \subseteq 1 .. t - 1 BY ONLY <3>1
    <3>3. call.lo .. call.hi - 1 \subseteq 1 .. t - 1 BY ONLY <3>1
    <3> QED BY <3>2, <3>3 DEF t
  <2>3. held' \subseteq 1 .. Top' - 1 BY <1>1, <2>1, <2>2, Zenon
  <2>4. stale' \subseteq 0 .. MemSize - 1 BY <1>1, <2>1, Zenon
  <2>5. mmapTop' \in Nat /\ Half <= mmapTop' /\ mmapTop' <= MemSize /\ heapEnd <= Top' BY <1>3, <1>4
  <2> QED BY <1>0, <1>1, <2>3, <2>4, <2>5 DEF Bounds
<1>13. Listed' BY <1>0, <1>1, <1>7, <1>10 DEF Listed, Spots
<1>14. Holes'
  <2>1. ASSUME NEW k \in 1 .. Len(freeList), NEW u \in Units(freeList[k])
        PROVE  u \notin held' /\ u \notin Dirty'
    <3>1. u \notin held /\ u \notin Dirty BY <1>0 DEF Holes, Clean
    <3>2. u \notin Units(r) BY <1>5, <1>9, ApartUnits
    <3>3. u \notin call.lo .. call.hi - 1 BY <1>2, <1>5, <3>2
    <3>4. u \notin Low BY <3>1 DEF Low, Dirty
    <3> QED BY <1>1, <1>l, <3>1, <3>3, <3>4
  <2> QED BY <1>0, <1>1, <2>1 DEF Holes, AllApart, Clean
<1>15. Parted'
  <2>1. \A k \in 1 .. Len(liveList), m \in 1 .. Len(freeList) : Apart(liveList[k], freeList[m])
    BY <1>0, <1>1 DEF Parted
  <2> QED BY <1>1, <1>9, <1>10, <2>1 DEF Parted
<1>16. Progress' BY <1>1, IdleProgress
<1>17. Above'
  <2>1. \A u \in call.lo .. call.hi - 1 : u \notin Low BY <1>0, <1>2 DEF Above
  <2>2. \A u \in Units(r) : u \notin Low BY <1>2, <1>5, <2>1
  <2>3. ~call'.fixed BY <1>1 DEF NoCall
  <2>4. \A u \in held' : u \notin Low BY <1>0, <1>1, <2>1 DEF Above
  <2>5. \A k \in 1 .. Len(liveList') : \A u \in Units(liveList'[k]) : u \notin Low
    BY <1>0, <1>10, <2>2 DEF Above
  <2> QED BY <1>l, <2>3, <2>4, <2>5 DEF Above
<1> QED BY <1>10, <1>12, <1>13, <1>14, <1>15, <1>16, <1>17, <1>l DEF MapInv, AllApart

----------------------------------------------------------------------------
(* The theorems *)

LEMMA StutterKeeps ==
  ASSUME MapInv, UNCHANGED mapVars
  PROVE  MapInv'
<1>1. UNCHANGED <<heapEnd, mmapTop, freeList, liveList, allocHi, isChild, call, held, stale, harm>>
  BY DEF mapVars, lists
<1>2. Bounds' /\ Top' = Top BY <1>1 DEF MapInv, Bounds, Top
<1>d. Dirty' = Dirty /\ Low' = Low BY <1>1, SameMemory
<1>3. Listed' /\ Holes' /\ AllApart(liveList)' /\ Parted'
  BY <1>1, <1>2, <1>d DEF MapInv, Listed, Holes, AllApart, Parted, Spots, Clean
<1>4. Progress' BY <1>1, <1>2, <1>d DEF MapInv, Progress, Unmapping, ApartFrom, MeetIn, Clean, Spots
<1>5. Above' /\ Harmless' BY <1>1, <1>d DEF MapInv, Above, Harmless
<1> QED BY <1>2, <1>3, <1>4, <1>5 DEF MapInv

\* Every step keeps the invariant: the steps of a call, and what starts or ends
\* one or does without.
LEMMA MapStep ==
  ASSUME BaseLow, ~ChildExecs, MapInv, [MapNext]_mapVars
  PROVE  MapInv'
<1>1. CASE Inside
  BY <1>1, ClearsKeeps, AddFreeKeeps, ForgetsKeeps, LiveRemoveKeeps, CarveKeeps, OwnsKeeps DEF Inside
<1>2. CASE \E a \in BrkAddrs : yos_brk(a) BY <1>2, BrkKeeps
<1>3. CASE ArenaInit \/ Fork \/ Exec BY <1>3, ArenaKeeps, ForkKeeps, ExecKeeps
<1>4. CASE \E n \in Lengths : yos_mmap2(n, Region(0, 0))
  <2>1. PICK n \in Lengths : yos_mmap2(n, Region(0, 0)) BY <1>4
  <2>2. Region(0, 0) \in Regions /\ \A u \in Units(Region(0, 0)) : u \in Nat /\ 0 <= u /\ u < 0
    BY RegionOf
  <2>3. \A u \in Units(Region(0, 0)) : u \in held BY <2>2
  <2>4. n \in Nat BY MapConstants
  <2> QED BY <2>1, <2>2, <2>3, <2>4, MmapKeeps
<1>5. CASE \E a \in FixedAddrs, n \in Lengths : MapFixed(a, n) BY <1>5, MapFixedKeeps
<1>6. CASE \E a \in Addrs, n \in Lengths : yos_munmap(a, n) BY <1>6, MunmapKeeps
<1>7. CASE \E a \in Addrs, n, m \in Lengths : yos_mremap(a, n, m) BY <1>7, MremapKeeps
<1>8. CASE UNCHANGED mapVars BY <1>8, StutterKeeps
<1> QED BY <1>1, <1>2, <1>3, <1>4, <1>5, <1>6, <1>7, <1>8 DEF MapNext

\* What the invariant is for.
LEMMA MapInvImplies ==
  ASSUME MapInv
  PROVE  MapTypeOK /\ BelowCursor /\ HolesFree /\ NoAlias /\ MapsZeroed /\ NoClobber
<1>0. Bounds /\ Listed /\ Holes /\ Progress /\ Harmless BY DEF MapInv
<1>1. /\ Top \in Nat /\ Half <= Top /\ Top <= MemSize /\ MemSize \in Nat /\ Half \in Nat
      /\ heapEnd \in Nat /\ 1 <= heapEnd /\ heapEnd <= Top
  BY <1>0, TopIs, MapConstants DEF Bounds
<1>2. held \subseteq 1 .. Top - 1 BY <1>0 DEF Bounds
<1>3. /\ DOMAIN freeList = 1 .. Len(freeList) /\ DOMAIN liveList = 1 .. Len(liveList)
      /\ \A k \in 1 .. Len(freeList) : freeList[k] \in Spots(Top) /\ freeList[k] \in Regions
      /\ \A k \in 1 .. Len(liveList) : liveList[k] \in Spots(Top)
  BY <1>0, Members
<1>4. MapTypeOK
  <2>1. ASSUME NEW r \in Spots(Top) PROVE IsRegion(r)
    <3>1. r.addr \in Nat /\ r.len \in Nat /\ r.len >= 1 /\ 1 <= r.addr /\ r.addr + r.len <= Top
      BY <1>1, SpotIs
    <3> QED BY <1>1, <3>1 DEF IsRegion
  <2>2. heapEnd \in 1 .. MemSize /\ mmapTop \in 0 .. MemSize /\ allocHi \in {0, Half} /\ isChild \in BOOLEAN
    BY <1>0, <1>1 DEF Bounds
  <2>3. Len(freeList) <= MaxFree /\ \A i \in DOMAIN freeList : IsRegion(freeList[i])
    BY <1>0, <1>3, <2>1 DEF Listed
  <2>4. Len(liveList) <= MaxLive /\ \A i \in DOMAIN liveList : IsRegion(liveList[i])
    BY <1>0, <1>3, <2>1 DEF Listed
  <2>5. call.at \in {"idle", "free", "merge", "unlive", "carve", "own"} BY <1>0 DEF Progress, Calls
  <2>6. call.at = "merge" => IsRegion(call.hole) BY <1>0, <2>1 DEF Progress
  <2>7. held \cup stale \subseteq 0 .. MemSize - 1
    <3>1. 1 .. Top - 1 \subseteq 0 .. MemSize - 1 BY <1>1
    <3>2. stale \subseteq 0 .. MemSize - 1 BY <1>0 DEF Bounds
    <3> QED BY <1>2, <3>1, <3>2, Zenon
  <2>8. harm \subseteq {"alias", "residue", "clobber", "overrun"} BY <1>0 DEF Harmless
  <2> QED BY <2>2, <2>3, <2>4, <2>5, <2>6, <2>7, <2>8 DEF MapTypeOK
<1>5. BelowCursor
  <2>1. \A u \in held : u < Top BY <1>1, <1>2
  <2>2. \A r \in Spots(Top) : r.addr + r.len <= Top BY <1>1, SpotIs
  <2> QED BY <1>1, <1>3, <2>1, <2>2 DEF BelowCursor, Top
<1>6. HolesFree
  <2>1. \A i \in DOMAIN freeList : Units(freeList[i]) \cap held = {}
    BY <1>0, <1>3 DEF Holes, Clean
  <2>2. ASSUME NEW i \in DOMAIN freeList, NEW j \in DOMAIN freeList, i # j
        PROVE  Units(freeList[i]) \cap Units(freeList[j]) = {}
    <3>1. Apart(freeList[i], freeList[j]) BY <1>0, <1>3, <2>2 DEF Holes, AllApart
    <3>2. \A u \in Units(freeList[i]) : u \notin Units(freeList[j]) BY <1>3, <3>1, ApartUnits
    <3> QED BY <3>2
  <2> QED BY <2>1, <2>2 DEF HolesFree
<1>7. NoAlias /\ MapsZeroed /\ NoClobber BY <1>0 DEF NoAlias, MapsZeroed, NoClobber, Harmless
<1> QED BY <1>4, <1>5, <1>6, <1>7

\* Whatever brk, malloc, mmap, munmap, mremap, fork and execve a process goes
\* through, and wherever in its list a call is when another thread moves the break,
\* the invariant holds; provided that the static data are low and no forked child
\* execs.
THEOREM MapInvariant ==
  ASSUME BaseLow, ~ChildExecs
  PROVE  MapSpec => []MapInv
<1>1. MapInit => MapInv BY MapInitHolds
<1>2. MapInv /\ [MapNext]_mapVars => MapInv' BY MapStep
<1> QED BY <1>1, <1>2, PTL DEF MapSpec

\* free_list and live_list stay within their tables, and every region on them
\* within the memory.
THEOREM MapTyped ==
  ASSUME BaseLow, ~ChildExecs
  PROVE  MapSpec => []MapTypeOK
<1>1. MapSpec => []MapInv BY MapInvariant
<1>2. MapInv => MapTypeOK BY MapInvImplies
<1> QED BY <1>1, <1>2, PTL

\* yos_brk's limit keeps the heap out of what mmap gives out next: the break, every
\* hole, every mapping and all that is mapped stay below the cursor, however brk,
\* malloc, MAP_FIXED and the others are interleaved.
THEOREM AllBelowCursor ==
  ASSUME BaseLow, ~ChildExecs
  PROVE  MapSpec => []BelowCursor
<1>1. MapSpec => []MapInv BY MapInvariant
<1>2. MapInv => BelowCursor BY MapInvImplies
<1> QED BY <1>1, <1>2, PTL

\* munmap and MAP_FIXED leave no hole on free_list that is mapped or on it twice,
\* even after a break has been raised over it.
THEOREM HolesAreFree ==
  ASSUME BaseLow, ~ChildExecs
  PROVE  MapSpec => []HolesFree
<1>1. MapSpec => []MapInv BY MapInvariant
<1>2. MapInv => HolesFree BY MapInvImplies
<1> QED BY <1>1, <1>2, PTL

\* yos_mmap2, with or without a hole to reuse, and mremap are never the first to go
\* wrong by giving out what is in use: that takes a brk over a hole.
THEOREM MmapNeverAliases ==
  ASSUME BaseLow, ~ChildExecs
  PROVE  MapSpec => []NoAlias
<1>1. MapSpec => []MapInv BY MapInvariant
<1>2. MapInv => NoAlias BY MapInvImplies
<1> QED BY <1>1, <1>2, PTL

\* A mapping is zero when the guest gets it, as long as no brk has gone over a hole:
\* yos_mmap2 clears only what is behind the cursor, and relies on munmap having
\* cleared every hole.
THEOREM MmapReturnsZeroes ==
  ASSUME BaseLow, ~ChildExecs
  PROVE  MapSpec => []MapsZeroed
<1>1. MapSpec => []MapInv BY MapInvariant
<1>2. MapInv => MapsZeroed BY MapInvImplies
<1> QED BY <1>1, <1>2, PTL

\* The clearing in munmap and MAP_FIXED hits nothing the guest keeps, as long as no
\* brk has gone over a mapping.
THEOREM ClearingIsSafe ==
  ASSUME BaseLow, ~ChildExecs
  PROVE  MapSpec => []NoClobber
<1>1. MapSpec => []MapInv BY MapInvariant
<1>2. MapInv => NoClobber BY MapInvImplies
<1> QED BY <1>1, <1>2, PTL
=============================================================================
