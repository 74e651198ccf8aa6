-------------------------- MODULE AudioRingsProofs --------------------------
(***************************************************************************)
(* Proofs about the audio rings: order, wake-ups and the poll descriptor,  *)
(* for every capacity and any number of guest threads.                     *)
(***************************************************************************)
EXTENDS AudioRings, FiniteSetTheorems, TLAPS

----------------------------------------------------------------------------
(* Arithmetic of indices *)

LEMMA MinOfTwo ==
  ASSUME NEW a \in Int, NEW b \in Int
  PROVE  Min({a, b}) = IF a <= b THEN a ELSE b
<1> DEFINE m == IF a <= b THEN a ELSE b
<1>1. m \in {a, b} /\ \A y \in {a, b} : m =< y
  OBVIOUS
<1>2. \A x \in {a, b} : (\A y \in {a, b} : x =< y) => x = m
  OBVIOUS
<1> QED BY <1>1, <1>2 DEF Min

LEMMA WrapOnce ==
  ASSUME NEW n \in Nat \ {0}, NEW x \in 0 .. n + n - 1
  PROVE  x % n = IF x < n THEN x ELSE x - n
OBVIOUS

LEMMA WrapBelow ==
  ASSUME NEW n \in Nat \ {0}, NEW x \in (-n) .. n - 1
  PROVE  x % n = IF x < 0 THEN x + n ELSE x
OBVIOUS

\* An index moved on by at most a whole ring.
LEMMA Moved ==
  ASSUME NEW i \in Idx, NEW k \in 0 .. Cap
  PROVE  /\ (i + k) % Cap = IF i + k < Cap THEN i + k ELSE i + k - Cap
         /\ (i + k) % Cap \in Idx
<1>1. Cap \in Nat \ {0} /\ i \in Int /\ k \in Int /\ i + k \in 0 .. Cap + Cap - 1
  BY RingsAssumption DEF Idx
<1>2. PICK x \in 0 .. Cap + Cap - 1 : x = i + k
  BY <1>1
<1>3. x % Cap = IF x < Cap THEN x ELSE x - Cap
  BY <1>1, WrapOnce
<1> QED BY <1>1, <1>2, <1>3 DEF Idx

\* How far index i lies behind index h.
LEMMA Behind ==
  ASSUME NEW i \in Idx, NEW h \in Idx
  PROVE  /\ (i - h) % Cap = IF i < h THEN i - h + Cap ELSE i - h
         /\ (i - h) % Cap \in Idx
<1>1. Cap \in Nat \ {0} /\ i - h \in (-Cap) .. Cap - 1
  BY RingsAssumption DEF Idx
<1>2. (i - h) % Cap = IF i - h < 0 THEN i - h + Cap ELSE i - h
  BY <1>1, WrapBelow
<1> QED BY <1>1, <1>2 DEF Idx

\* The j-th place of a ring with u elements from i on, seen from its head.
LEMMA PlaceBehind ==
  ASSUME NEW i \in Idx, NEW u \in 0 .. Cap, NEW j \in Idx
  PROVE  (((i + j) % Cap) - ((i + u) % Cap)) % Cap = IF j < u THEN j - u + Cap ELSE j - u
<1>1. Cap \in Nat \ {0} BY RingsAssumption
<1>2. j \in 0 .. Cap BY <1>1 DEF Idx
<1>3. /\ (i + j) % Cap = IF i + j < Cap THEN i + j ELSE i + j - Cap
      /\ (i + j) % Cap \in Idx
  BY <1>2, Moved
<1>4. /\ (i + u) % Cap = IF i + u < Cap THEN i + u ELSE i + u - Cap
      /\ (i + u) % Cap \in Idx
  BY Moved
<1> DEFINE a == (i + j) % Cap
           b == (i + u) % Cap
<1>5. (a - b) % Cap = IF a < b THEN a - b + Cap ELSE a - b
  BY <1>3, <1>4, Behind
<1> QED BY <1>1, <1>3, <1>4, <1>5 DEF Idx

\* Moving on twice.
LEMMA MovedTwice ==
  ASSUME NEW i \in Idx, NEW k \in 0 .. Cap, NEW j \in 0 .. Cap, k + j <= Cap
  PROVE  (((i + k) % Cap) + j) % Cap = (i + (k + j)) % Cap
<1>1. Cap \in Nat \ {0} BY RingsAssumption
<1>2. k + j \in 0 .. Cap BY <1>1
<1>3. /\ (i + k) % Cap = IF i + k < Cap THEN i + k ELSE i + k - Cap
      /\ (i + k) % Cap \in Idx
  BY Moved
<1>4. (i + (k + j)) % Cap = IF i + (k + j) < Cap THEN i + (k + j) ELSE i + (k + j) - Cap
  BY <1>2, Moved
<1> DEFINE a == (i + k) % Cap
<1>5. (a + j) % Cap = IF a + j < Cap THEN a + j ELSE a + j - Cap
  BY <1>3, Moved
<1> QED BY <1>1, <1>3, <1>4, <1>5 DEF Idx

----------------------------------------------------------------------------
(* Steps *)

\* The disjuncts of Next.
LEMMA NextCases ==
  ASSUME Next
  PROVE  \/ Start \/ Stop \/ ydev_vfd_push \/ KicksPipe
         \/ \E n \in Periods : out_cb(n)
         \/ \E t \in Threads :
              \/ \E n \in Requests, wait \in Waits : Call(t, n, wait)
              \/ Spurious(t) \/ ydev_vfd_pop(t) \/ PopTimesOut(t)
              \/ ydev_audio_out_write(t) \/ WriteTimesOut(t) \/ DrainsPipe(t)
BY DEF Next

\* What a callback of the output device takes out.
LEMMA Takes ==
  ASSUME TypeOK, NEW n \in Periods, out_cb(n)
  PROVE  \E k \in 0 .. used :
           /\ tail' = (tail + k) % Cap /\ used' = used - k /\ played' = played + k
           /\ pc' = Broadcast /\ cb' \in {"idle", "kick"}
<1>1. n \in Int /\ n > 0 /\ used \in Int /\ used >= 0
  BY RingsAssumption DEF TypeOK
<1>2. Min({n, used}) = IF n <= used THEN n ELSE used
  BY <1>1, MinOfTwo
<1>3. Min({n, used}) \in 0 .. used
  BY <1>1, <1>2
<1> QED BY <1>3 DEF out_cb

\* A call that is under way still has something to do.
Calling == \A t \in Threads : pc[t] \in {"call", "wait", "woken"} => call[t].left > 0

\* What a write puts in: all that is asked for or all there is room for, and
\* nothing once the ring is closed.
LEMMA Puts ==
  ASSUME TypeOK, NEW t \in Threads, ydev_audio_out_write(t)
  PROVE  \E k \in 0 .. Cap - used :
           /\ ring' = Put(ring, k)
           /\ head' = (head + k) % Cap /\ used' = used + k /\ seq' = seq + k
           /\ k <= call[t].left
           /\ \/ Finish(t, used + k)
              \/ /\ ~closed /\ k = Cap - used /\ k < call[t].left
                 /\ Goto(t, "wait") /\ call' = [call EXCEPT ![t].left = call[t].left - k]
<1>1. /\ call[t].left \in Int /\ call[t].left >= 0
      /\ used \in Int /\ Cap - used \in Int /\ Cap - used >= 0
  BY RingsAssumption DEF TypeOK
<1>2. Min({call[t].left, Cap - used}) =
        IF call[t].left <= Cap - used THEN call[t].left ELSE Cap - used
  BY <1>1, MinOfTwo
<1> DEFINE k == IF closed THEN 0 ELSE Min({call[t].left, Cap - used})
<1>3. k \in 0 .. Cap - used /\ k <= call[t].left
  BY <1>1, <1>2
<1>4. ~closed /\ call[t].left - k # 0 => k = Cap - used /\ k < call[t].left
  BY <1>1, <1>2
<1>5. /\ ring' = Put(ring, k)
      /\ head' = (head + k) % Cap /\ used' = used + k /\ seq' = seq + k
      /\ IF call[t].left - k = 0 \/ closed \/ call[t].wait = "never"
         THEN Finish(t, used + k)
         ELSE Goto(t, "wait") /\ call' = [call EXCEPT ![t].left = call[t].left - k]
  BY DEF ydev_audio_out_write
<1> HIDE DEF k
<1> QED BY <1>3, <1>4, <1>5

----------------------------------------------------------------------------
(* Types *)

LEMMA PutType ==
  ASSUME TypeOK, NEW k \in Nat
  PROVE  Put(ring, k) \in [Idx -> Nat]
<1>1. \A i \in Idx : (i - head) % Cap \in Nat
  BY Behind, RingsAssumption DEF TypeOK, Idx
<1> QED BY <1>1 DEF Put, TypeOK

Typed == TypeOK /\ Calling

LEMMA TypedInit ==
  ASSUME Init
  PROVE  Typed
<1>1. Cap \in Nat \ {0} /\ 0 \in Idx
  BY RingsAssumption DEF Idx
<1>2. pipe \in BOOLEAN /\ closed \in BOOLEAN /\ running \in BOOLEAN
  BY DEF Init
<1>3. ring \in [Idx -> Nat] /\ head \in Idx /\ tail \in Idx /\ used \in 0 .. Cap
  BY <1>1 DEF Init
<1>4. /\ pc \in [Threads -> {"idle", "call", "wait", "woken", "drain"}]
      /\ call \in [Threads -> [left : Nat, wait : Waits]] /\ Calling
  BY DEF Init, Calling, NoCall, Waits
<1>5. dev \in {"in", "out"} /\ seq \in Nat /\ played \in Nat /\ cb \in {"idle", "kick"}
  BY DEF Init
<1> QED BY <1>2, <1>3, <1>4, <1>5 DEF Typed, TypeOK

LEMMA TypedInductive ==
  ASSUME Typed, [Next]_vars
  PROVE  Typed'
<1> USE DEF Typed
<1>0. Cap \in Nat \ {0}
  BY RingsAssumption
<1>1. CASE UNCHANGED vars
  BY <1>1 DEF vars, TypeOK, Calling
<1>2. CASE Start
  BY <1>2 DEF Start, TypeOK, Calling
<1>3. CASE Stop
  BY <1>3 DEF Stop, TypeOK, Calling, Broadcast
<1>4. CASE ydev_vfd_push
  <2>1. ring' \in [Idx -> Nat]
    BY <1>4, PutType DEF ydev_vfd_push
  <2>2. head' \in Idx /\ tail' \in Idx
    BY <1>0, <1>4, Moved DEF ydev_vfd_push, TypeOK
  <2>3. used' \in 0 .. Cap /\ seq' \in Nat
    BY <1>0, <1>4 DEF ydev_vfd_push, TypeOK
  <2>4. pipe' \in BOOLEAN
    BY <1>4 DEF ydev_vfd_push, TypeOK
  <2>5. pc' \in [Threads -> {"idle", "call", "wait", "woken", "drain"}] /\ Calling'
    BY <1>4 DEF ydev_vfd_push, PushSignals, Waiting, Goto, TypeOK, Calling
  <2> QED BY <1>4, <2>1, <2>2, <2>3, <2>4, <2>5 DEF ydev_vfd_push, TypeOK
<1>5. CASE KicksPipe
  BY <1>5 DEF KicksPipe, TypeOK, Calling
<1>6. CASE \E n \in Periods : out_cb(n)
  <2>1. PICK n \in Periods : out_cb(n)
    BY <1>6
  <2>2. PICK k \in 0 .. used :
           /\ tail' = (tail + k) % Cap /\ used' = used - k /\ played' = played + k
           /\ pc' = Broadcast /\ cb' \in {"idle", "kick"}
    BY <2>1, Takes
  <2>3. tail' \in Idx
    BY <1>0, <2>2, Moved DEF TypeOK
  <2>4. used' \in 0 .. Cap /\ played' \in Nat
    BY <1>0, <2>2 DEF TypeOK
  <2>5. pc' \in [Threads -> {"idle", "call", "wait", "woken", "drain"}] /\ Calling'
    BY <2>1, <2>2 DEF out_cb, Broadcast, TypeOK, Calling
  <2> QED BY <2>1, <2>2, <2>3, <2>4, <2>5 DEF out_cb, TypeOK
<1>7. ASSUME NEW t \in Threads, NEW n \in Requests, NEW wait \in Waits, Call(t, n, wait)
      PROVE  Typed'
  <2>1. n \in Nat /\ n > 0
    BY RingsAssumption
  <2> QED BY <1>7, <2>1 DEF Call, Goto, TypeOK, Calling
<1>8. ASSUME NEW t \in Threads, Spurious(t)
      PROVE  Typed'
  BY <1>8 DEF Spurious, Goto, TypeOK, Calling
<1>9. ASSUME NEW t \in Threads, ydev_vfd_pop(t)
      PROVE  Typed'
  <2>0. (tail + 1) % Cap \in Idx
    BY <1>0, Moved DEF TypeOK
  <2>1. tail' \in Idx /\ used' \in 0 .. Cap
    BY <1>0, <1>9, <2>0 DEF ydev_vfd_pop, TypeOK
  <2>2. pipe' \in BOOLEAN
    BY <1>9 DEF ydev_vfd_pop, Drained, TypeOK
  <2>3. pc' \in [Threads -> {"idle", "call", "wait", "woken", "drain"}]
    BY <1>9 DEF ydev_vfd_pop, Return, Goto, TypeOK
  <2>4. call' \in [Threads -> [left : Nat, wait : Waits]] /\ Calling'
    BY <1>9 DEF ydev_vfd_pop, Return, Goto, NoCall, Waits, TypeOK, Calling
  <2> QED BY <1>9, <2>1, <2>2, <2>3, <2>4 DEF ydev_vfd_pop, TypeOK
<1>10. ASSUME NEW t \in Threads, PopTimesOut(t)
       PROVE  Typed'
  BY <1>10 DEF PopTimesOut, Return, Goto, NoCall, Waits, TypeOK, Calling
<1>11. ASSUME NEW t \in Threads, ydev_audio_out_write(t)
       PROVE  Typed'
  <2>1. PICK k \in 0 .. Cap - used :
           /\ ring' = Put(ring, k)
           /\ head' = (head + k) % Cap /\ used' = used + k /\ seq' = seq + k
           /\ k <= call[t].left
           /\ \/ Finish(t, used + k)
              \/ /\ ~closed /\ k = Cap - used /\ k < call[t].left
                 /\ Goto(t, "wait") /\ call' = [call EXCEPT ![t].left = call[t].left - k]
    BY <1>11, Puts
  <2>2. used \in Nat /\ k \in Nat /\ k \in 0 .. Cap
    BY <1>0 DEF TypeOK
  <2>3. ring' \in [Idx -> Nat]
    BY <2>1, <2>2, PutType
  <2>4. head' \in Idx
    BY <2>1, <2>2, Moved DEF TypeOK
  <2>5. used' \in 0 .. Cap /\ seq' \in Nat
    BY <1>0, <2>1, <2>2 DEF TypeOK
  <2>6. CASE Finish(t, used + k)
    <3>1. /\ pc' \in [Threads -> {"idle", "call", "wait", "woken", "drain"}]
          /\ call' \in [Threads -> [left : Nat, wait : Waits]] /\ Calling'
      BY <2>6 DEF Finish, Goto, NoCall, Waits, TypeOK, Calling
    <3> QED BY <1>11, <2>3, <2>4, <2>5, <3>1 DEF ydev_audio_out_write, TypeOK
  <2>7. CASE /\ ~closed /\ k = Cap - used /\ k < call[t].left
             /\ Goto(t, "wait") /\ call' = [call EXCEPT ![t].left = call[t].left - k]
    <3>1. call[t].left - k \in Nat /\ call[t].left - k > 0
      BY <2>2, <2>7 DEF TypeOK
    <3>2. /\ pc' \in [Threads -> {"idle", "call", "wait", "woken", "drain"}]
          /\ call' \in [Threads -> [left : Nat, wait : Waits]] /\ Calling'
      BY <2>7, <3>1 DEF Goto, TypeOK, Calling
    <3> QED BY <1>11, <2>3, <2>4, <2>5, <3>2 DEF ydev_audio_out_write, TypeOK
  <2> QED BY <2>1, <2>6, <2>7
<1>12. ASSUME NEW t \in Threads, WriteTimesOut(t)
       PROVE  Typed'
  BY <1>12 DEF WriteTimesOut, Finish, Goto, NoCall, Waits, TypeOK, Calling
<1>13. ASSUME NEW t \in Threads, DrainsPipe(t)
       PROVE  Typed'
  BY <1>13 DEF DrainsPipe, Goto, TypeOK, Calling
<1> QED
  BY <1>1, <1>2, <1>3, <1>4, <1>5, <1>6, <1>7, <1>8, <1>9, <1>10, <1>11, <1>12, <1>13, NextCases

----------------------------------------------------------------------------
(* Wake-ups *)

LEMMA SetsFinite ==
  ASSUME NEW S, S \subseteq Threads
  PROVE  IsFiniteSet(S) /\ Cardinality(S) \in Nat
BY RingsAssumption, FS_Subset, FS_CardinalityType

\* One more thread is awake, or one less.
LEMMA WokenCounts ==
  ASSUME NEW S, S \subseteq Threads, NEW t \in Threads
  PROVE  /\ t \notin S => Cardinality(S \cup {t}) = Cardinality(S) + 1
         /\ t \in S => Cardinality(S \ {t}) = Cardinality(S) - 1
         /\ t \notin S => S \ {t} = S
<1>1. IsFiniteSet(S)
  BY SetsFinite
<1>2. t \notin S => Cardinality(S \cup {t}) = Cardinality(S) + 1
  BY <1>1, FS_AddElement
<1>3. t \in S => Cardinality(S \ {t}) = Cardinality(S) - 1
  BY <1>1, FS_RemoveElement
<1> QED BY <1>2, <1>3

LEMMA SleepersInductive ==
  ASSUME Typed, SleepersDue, [Next]_vars
  PROVE  SleepersDue'
<1> USE DEF Typed
<1>0. /\ Cap \in Nat \ {0} /\ used \in 0 .. Cap
      /\ Woken \subseteq Threads /\ Cardinality(Woken) \in Nat
      /\ dev \in {"in", "out"}
  BY RingsAssumption, SetsFinite DEF TypeOK, Woken
<1>1. CASE UNCHANGED vars
  BY <1>1 DEF vars, SleepersDue, Waiting, Woken
<1>2. CASE Start
  BY <1>2 DEF Start, SleepersDue, Waiting, Woken
<1>3. ASSUME pc' = Broadcast
      PROVE  Waiting' = {}
  BY <1>3 DEF Broadcast, Waiting, TypeOK
<1>4. CASE Stop
  BY <1>3, <1>4 DEF Stop, SleepersDue
<1>5. CASE ydev_vfd_push
  <2>1. CASE Waiting = {}
    BY <1>5, <2>1 DEF ydev_vfd_push, PushSignals, SleepersDue, Waiting
  <2>2. CASE Waiting # {}
    <3>1. PICK t \in Waiting : Goto(t, "woken")
      BY <1>5, <2>2 DEF ydev_vfd_push, PushSignals
    <3>2. t \in Threads /\ t \notin Woken
      BY DEF Waiting, Woken
    <3>3. Woken' = Woken \cup {t}
      BY <3>1, <3>2 DEF Goto, Woken, TypeOK
    <3>4. Cardinality(Woken') = Cardinality(Woken) + 1
      BY <1>0, <3>2, <3>3, WokenCounts
    <3>5. used' <= used + 1 /\ used' \in Int /\ dev' = "in" /\ dev = "in" /\ closed' = closed
      BY <1>0, <1>5 DEF ydev_vfd_push
    <3>6. ~closed /\ used <= Cardinality(Woken)
      BY <2>2, <3>5 DEF SleepersDue
    <3> QED BY <1>0, <3>4, <3>5, <3>6 DEF SleepersDue
  <2> QED BY <2>1, <2>2
<1>6. CASE KicksPipe
  BY <1>6 DEF KicksPipe, SleepersDue, Waiting, Woken
<1>7. CASE \E n \in Periods : out_cb(n)
  BY <1>3, <1>7, Takes DEF SleepersDue
<1>8. ASSUME NEW t \in Threads, pc[t] \notin {"wait", "woken"}, NEW l \in {"idle", "call"}, Goto(t, l)
      PROVE  Waiting' = Waiting /\ Woken' = Woken
  BY <1>8 DEF Goto, Waiting, Woken, TypeOK
<1>9. ASSUME NEW t \in Threads, NEW n \in Requests, NEW wait \in Waits, Call(t, n, wait)
      PROVE  SleepersDue'
  <2>1. Waiting' = Waiting /\ Woken' = Woken
    BY <1>8, <1>9 DEF Call
  <2> QED BY <1>9, <2>1 DEF Call, SleepersDue
<1>10. ASSUME NEW t \in Threads, Spurious(t)
       PROVE  SleepersDue'
  <2>1. Waiting # {} /\ t \notin Woken /\ Woken' = Woken \cup {t}
    BY <1>10 DEF Spurious, Goto, Waiting, Woken, TypeOK
  <2>2. Cardinality(Woken') = Cardinality(Woken) + 1
    BY <1>0, <2>1, WokenCounts
  <2> QED BY <1>0, <1>10, <2>1, <2>2 DEF Spurious, SleepersDue
<1>11. ASSUME NEW t \in Threads, ydev_vfd_pop(t)
       PROVE  SleepersDue'
  <2>1. dev = "in" /\ dev' = "in" /\ closed' = closed
    BY <1>11 DEF ydev_vfd_pop
  <2>2. CASE /\ used > 0 /\ used' = used - 1
             /\ \E l \in {"idle", "call"} : Goto(t, l)
    <3>1. Waiting' = Waiting /\ Woken' = Woken \ {t}
      BY <1>11, <2>2 DEF ydev_vfd_pop, Goto, Waiting, Woken, TypeOK
    <3>2. Cardinality(Woken') >= Cardinality(Woken) - 1 /\ Cardinality(Woken') \in Int
      BY <1>0, <3>1, WokenCounts
    <3> QED BY <1>0, <2>1, <2>2, <3>1, <3>2 DEF SleepersDue
  <2>3. CASE used = 0 /\ used' = used /\ Goto(t, "idle")
    <3>1. Waiting' = Waiting /\ Woken' \subseteq Threads
      BY <1>11, <2>3 DEF ydev_vfd_pop, Goto, Waiting, Woken, TypeOK
    <3>2. Cardinality(Woken') \in Nat
      BY <3>1, SetsFinite
    <3> QED BY <2>1, <2>3, <3>1, <3>2 DEF SleepersDue
  <2>4. CASE used = 0 /\ used' = used /\ ~closed
    <3>1. Woken' \subseteq Threads
      BY DEF Woken
    <3>2. Cardinality(Woken') \in Nat
      BY <3>1, SetsFinite
    <3> QED BY <2>1, <2>4, <3>2 DEF SleepersDue
  <2> QED BY <1>11, <2>2, <2>3, <2>4 DEF ydev_vfd_pop, Return
<1>12. ASSUME NEW t \in Threads, pc[t] = "wait", NEW l \in {"idle", "drain"}, Goto(t, l)
       PROVE  Waiting # {} /\ Woken' = Woken
  BY <1>12 DEF Goto, Waiting, Woken, TypeOK
<1>13. ASSUME NEW t \in Threads, PopTimesOut(t)
       PROVE  SleepersDue'
  <2>1. Waiting # {} /\ Woken' = Woken
    BY <1>12, <1>13 DEF PopTimesOut, Return
  <2> QED BY <1>13, <2>1 DEF PopTimesOut, SleepersDue
<1>14. ASSUME NEW t \in Threads, ydev_audio_out_write(t)
       PROVE  SleepersDue'
  <2>1. PICK k \in 0 .. Cap - used :
           /\ used' = used + k
           /\ \/ Finish(t, used + k)
              \/ ~closed /\ k = Cap - used
    BY <1>14, Puts
  <2>2. dev = "out" /\ dev' = "out" /\ closed' = closed /\ pc[t] \in {"call", "woken"}
    BY <1>14 DEF ydev_audio_out_write
  <2>3. CASE ~closed /\ k = Cap - used
    <3>1. used' = Cap
      BY <1>0, <2>1, <2>3
    <3> QED BY <2>2, <2>3, <3>1 DEF SleepersDue
  <2>4. CASE Finish(t, used + k)
    <3>1. Waiting' = Waiting
      BY <2>2, <2>4 DEF Finish, Goto, Waiting, TypeOK
    <3>2. used = Cap => used' = Cap
      BY <1>0, <2>1
    <3> QED BY <2>2, <3>1, <3>2 DEF SleepersDue
  <2> QED BY <2>1, <2>3, <2>4
<1>15. ASSUME NEW t \in Threads, WriteTimesOut(t)
       PROVE  SleepersDue'
  <2>1. Waiting # {} /\ Woken' = Woken
    BY <1>12, <1>15 DEF WriteTimesOut, Finish
  <2> QED BY <1>15, <2>1 DEF WriteTimesOut, SleepersDue
<1>16. ASSUME NEW t \in Threads, DrainsPipe(t)
       PROVE  SleepersDue'
  <2>1. Waiting' = Waiting /\ Woken' = Woken
    BY <1>8, <1>16 DEF DrainsPipe
  <2> QED BY <1>16, <2>1 DEF DrainsPipe, SleepersDue
<1> QED
  BY <1>1, <1>2, <1>4, <1>5, <1>6, <1>7, <1>9, <1>10, <1>11, <1>13, <1>14, <1>15, <1>16, NextCases

----------------------------------------------------------------------------
(* The poll descriptor *)

\* The input ring has nobody outside its lock who is about to touch the pipe.
Sides == dev = "in" => cb = "idle" /\ \A t \in Threads : pc[t] # "drain"

LEMMA PollInductive ==
  ASSUME Typed, Sides, PollTells, [Next]_vars
  PROVE  Sides' /\ PollTells'
<1> USE DEF Typed
<1>0. used \in Nat /\ pipe \in BOOLEAN /\ dev \in {"in", "out"}
  BY RingsAssumption DEF TypeOK
<1>1. CASE dev = "out"
  <2>1. dev' = "out"
    BY <1>1, NextCases DEF vars, Start, Stop, ydev_vfd_push, KicksPipe, out_cb, Call, Spurious,
         ydev_vfd_pop, PopTimesOut, ydev_audio_out_write, WriteTimesOut, DrainsPipe
  <2> QED BY <2>1 DEF Sides, PollTells
<1>2. CASE dev = "in"
  <2> USE <1>2
  <2>0. cb = "idle" /\ (\A t \in Threads : pc[t] # "drain") /\ (pipe <=> used > 0)
    BY DEF Sides, PollTells
  <2>1. CASE UNCHANGED vars
    BY <2>0, <2>1 DEF vars, Sides, PollTells
  <2>2. CASE Start
    BY <2>0, <2>2 DEF Start, Sides, PollTells
  <2>3. CASE Stop
    BY <2>0, <2>3 DEF Stop, Broadcast, Sides, PollTells, TypeOK
  <2>4. CASE ydev_vfd_push
    <3>1. used' \in Nat /\ used' > 0
      BY <1>0, <2>4, RingsAssumption DEF ydev_vfd_push
    <3>2. pipe' = (pipe \/ used = 0)
      BY <2>4 DEF ydev_vfd_push
    <3>3. used > 0 \/ used = 0
      BY <1>0
    <3>4. pipe'
      BY <2>0, <3>2, <3>3, Zenon
    <3>5. Sides'
      BY <2>0, <2>4 DEF ydev_vfd_push, PushSignals, Waiting, Goto, Sides, TypeOK
    <3> QED BY <3>1, <3>4, <3>5 DEF PollTells
  <2>5. CASE KicksPipe
    BY <2>0, <2>5 DEF KicksPipe
  <2>6. CASE \E n \in Periods : out_cb(n)
    BY <2>6 DEF out_cb
  <2>7. ASSUME NEW t \in Threads, NEW n \in Requests, NEW wait \in Waits, Call(t, n, wait)
        PROVE  Sides' /\ PollTells'
    BY <2>0, <2>7 DEF Call, Goto, Sides, PollTells, TypeOK
  <2>8. ASSUME NEW t \in Threads, Spurious(t)
        PROVE  Sides' /\ PollTells'
    BY <2>0, <2>8 DEF Spurious, Goto, Sides, PollTells, TypeOK
  <2>9. ASSUME NEW t \in Threads, ydev_vfd_pop(t)
        PROVE  Sides' /\ PollTells'
    <3>1. Sides'
      BY <2>0, <2>9 DEF ydev_vfd_pop, Return, Goto, Sides, TypeOK
    <3>2. CASE used > 0 /\ used' = used - 1 /\ pipe' = Drained
      <4>1. used' > 0 <=> used # 1
        BY <1>0, <3>2
      <4>2. pipe' = (pipe /\ used # 1)
        BY <3>2 DEF Drained
      <4>3. pipe' <=> used' > 0
        BY <2>0, <3>2, <4>1, <4>2, Zenon
      <4> QED BY <3>1, <4>3 DEF PollTells
    <3>3. CASE used' = used /\ pipe' = pipe
      <4>1. pipe' <=> used' > 0
        BY <2>0, <3>3, Zenon
      <4> QED BY <3>1, <4>1 DEF PollTells
    <3> QED BY <2>9, <3>1, <3>2, <3>3 DEF ydev_vfd_pop
  <2>10. ASSUME NEW t \in Threads, PopTimesOut(t)
         PROVE  Sides' /\ PollTells'
    BY <2>0, <2>10 DEF PopTimesOut, Return, Goto, Sides, PollTells, TypeOK
  <2>11. ASSUME NEW t \in Threads, ydev_audio_out_write(t) \/ WriteTimesOut(t)
         PROVE  FALSE
    BY <2>11 DEF ydev_audio_out_write, WriteTimesOut
  <2>12. ASSUME NEW t \in Threads, DrainsPipe(t)
         PROVE  FALSE
    BY <2>0, <2>12 DEF DrainsPipe
  <2> QED
    BY <2>1, <2>2, <2>3, <2>4, <2>5, <2>6, <2>7, <2>8, <2>9, <2>10, <2>11, <2>12, NextCases
<1> QED BY <1>0, <1>1, <1>2

----------------------------------------------------------------------------
(* Order *)

\* r holds u elements from index i on, numbered from f.
InOrder(r, i, u, f) == \A j \in 0 .. u - 1 : r[(i + j) % Cap] = f + j

\* The number of the oldest element.
First == IF dev = "in" THEN seq - used + 1 ELSE played + 1

\* RingInOrder in the same words for both devices.
LEMMA OrderForms ==
  ASSUME TypeOK
  PROVE  RingInOrder <=> /\ InOrder(ring, tail, used, First)
                         /\ head = (tail + used) % Cap
                         /\ seq = First + used - 1
<1>1. seq \in Int /\ used \in Int /\ played \in Int /\ dev \in {"in", "out"}
  BY RingsAssumption DEF TypeOK
<1>2. seq = First + used - 1 <=> (dev = "out" => seq = played + used)
  BY <1>1 DEF First
<1> QED BY <1>2 DEF RingInOrder, InOrder, First

\* The oldest k are taken out.
LEMMA DropInOrder ==
  ASSUME NEW r, NEW i \in Idx, NEW u \in 0 .. Cap, NEW f \in Int, InOrder(r, i, u, f),
         NEW k \in 0 .. u
  PROVE  /\ InOrder(r, (i + k) % Cap, u - k, f + k)
         /\ (((i + k) % Cap) + (u - k)) % Cap = (i + u) % Cap
<1>0. Cap \in Nat \ {0} /\ k \in 0 .. Cap
  BY RingsAssumption
<1>1. ASSUME NEW j \in 0 .. (u - k) - 1
      PROVE  r[(((i + k) % Cap) + j) % Cap] = (f + k) + j
  <2>1. j \in 0 .. Cap /\ k + j <= Cap /\ k + j \in 0 .. u - 1
    BY <1>0
  <2>2. (((i + k) % Cap) + j) % Cap = (i + (k + j)) % Cap
    BY <1>0, <2>1, MovedTwice
  <2>3. r[(i + (k + j)) % Cap] = f + (k + j)
    BY <2>1 DEF InOrder
  <2> QED BY <1>0, <2>2, <2>3
<1>2. (((i + k) % Cap) + (u - k)) % Cap = (i + (k + (u - k))) % Cap
  <2>1. u - k \in 0 .. Cap /\ k + (u - k) <= Cap
    BY <1>0
  <2> QED BY <1>0, <2>1, MovedTwice
<1>3. k + (u - k) = u
  BY <1>0
<1> QED BY <1>1, <1>2, <1>3 DEF InOrder

\* k new ones are put in behind the newest.
LEMMA PutInOrder ==
  ASSUME TypeOK, NEW i \in Idx, NEW u \in 0 .. Cap, NEW f \in Int, InOrder(ring, i, u, f),
         head = (i + u) % Cap, seq = f + u - 1,
         NEW k \in 0 .. Cap - u
  PROVE  /\ InOrder(Put(ring, k), i, u + k, f)
         /\ (head + k) % Cap = (i + (u + k)) % Cap
<1>0. Cap \in Nat \ {0} /\ k \in 0 .. Cap /\ u + k <= Cap /\ i \in Int
  BY RingsAssumption DEF Idx
<1>1. ASSUME NEW j \in 0 .. (u + k) - 1
      PROVE  Put(ring, k)[(i + j) % Cap] = f + j
  <2>1. j \in Idx /\ j \in 0 .. Cap
    BY <1>0 DEF Idx
  <2> DEFINE x == (i + j) % Cap
  <2>2. x \in Idx
    BY <2>1, Moved
  <2>3. (x - head) % Cap = IF j < u THEN j - u + Cap ELSE j - u
    <3>1. Cap > u \/ Cap = u
      BY <1>0
    <3> QED BY <2>1, <1>0, PlaceBehind
  <2>4. Put(ring, k)[x] = IF (x - head) % Cap < k THEN seq + 1 + ((x - head) % Cap) ELSE ring[x]
    BY <2>2 DEF Put
  <2> HIDE DEF x
  <2>5. CASE j < u
    <3>1. ~((x - head) % Cap < k)
      BY <1>0, <2>3, <2>5
    <3>2. ring[x] = f + j
      BY <2>5 DEF InOrder, x
    <3> QED BY <2>4, <3>1, <3>2 DEF x
  <2>6. CASE ~(j < u)
    <3>1. (x - head) % Cap = j - u /\ j - u < k
      BY <1>0, <2>3, <2>6
    <3>2. Put(ring, k)[x] = seq + 1 + (j - u)
      BY <2>4, <3>1
    <3>3. seq + 1 + (j - u) = f + j
      BY <1>0
    <3> QED BY <3>2, <3>3 DEF x
  <2> QED BY <2>5, <2>6
<1>2. (head + k) % Cap = (i + (u + k)) % Cap
  BY <1>0, MovedTwice
<1> QED BY <1>1, <1>2 DEF InOrder

LEMMA OrderInductive ==
  ASSUME Typed, RingInOrder, [Next]_vars
  PROVE  RingInOrder'
<1> USE DEF Typed
<1>0. /\ Cap \in Nat \ {0} /\ used \in 0 .. Cap /\ tail \in Idx /\ seq \in Int /\ played \in Int
      /\ dev \in {"in", "out"}
  BY RingsAssumption DEF TypeOK
<1>1. InOrder(ring, tail, used, First) /\ head = (tail + used) % Cap /\ seq = First + used - 1
  BY OrderForms
<1>2. First \in Int
  BY <1>0 DEF First
<1>3. TypeOK'
  BY TypedInductive
<1>4. RingInOrder' <=> /\ InOrder(ring', tail', used', First')
                       /\ head' = (tail' + used') % Cap
                       /\ seq' = First' + used' - 1
  <2>1. /\ seq' \in Int /\ used' \in Int /\ played' \in Int /\ dev' \in {"in", "out"}
    BY <1>3, RingsAssumption DEF TypeOK
  <2>2. First' = IF dev' = "in" THEN seq' - used' + 1 ELSE played' + 1
    BY DEF First
  <2>3. ASSUME NEW s \in Int, NEW u \in Int, NEW p \in Int
        PROVE  /\ s = (s - u + 1) + u - 1
               /\ s = (p + 1) + u - 1 <=> s = p + u
    OBVIOUS
  <2>4. seq' = First' + used' - 1 <=> (dev' = "out" => seq' = played' + used')
    <3>1. CASE dev' = "in"
      BY <2>1, <2>2, <2>3, <3>1
    <3>2. CASE dev' = "out"
      BY <2>1, <2>2, <2>3, <3>2
    <3> QED BY <2>1, <3>1, <3>2
  <2> QED BY <2>2, <2>4 DEF RingInOrder, InOrder
<1>4a. ASSUME NEW k \in 0 .. used
       PROVE  /\ InOrder(ring, (tail + k) % Cap, used - k, First + k)
              /\ (((tail + k) % Cap) + (used - k)) % Cap = (tail + used) % Cap
  <2>0. PICK r : r = ring
    OBVIOUS
  <2>1. PICK i \in Idx, u \in 0 .. Cap, f \in Int : i = tail /\ u = used /\ f = First
    BY <1>0, <1>2, Zenon
  <2>2. InOrder(r, i, u, f) /\ k \in 0 .. u
    BY <1>1, <2>0, <2>1
  <2>3. /\ InOrder(r, (i + k) % Cap, u - k, f + k)
        /\ (((i + k) % Cap) + (u - k)) % Cap = (i + u) % Cap
    BY <2>2, DropInOrder
  <2> QED BY <2>0, <2>1, <2>3
<1>5. ASSUME UNCHANGED <<dev, ring, head, tail, used, seq, played>>
      PROVE  RingInOrder'
  BY <1>5 DEF RingInOrder
<1>6. CASE UNCHANGED vars
  BY <1>5, <1>6 DEF vars
<1>7. CASE Start \/ Stop \/ KicksPipe
  BY <1>5, <1>7 DEF Start, Stop, KicksPipe
<1>8. CASE ydev_vfd_push
  <2>1. CASE used # Cap
    <3>1. 1 \in 0 .. Cap - used
      BY <1>0, <2>1
    <3>2. InOrder(Put(ring, 1), tail, used + 1, First) /\ (head + 1) % Cap = (tail + (used + 1)) % Cap
      BY <1>0, <1>1, <1>2, <3>1, PutInOrder
    <3>3. /\ ring' = Put(ring, 1) /\ head' = (head + 1) % Cap /\ tail' = tail
          /\ used' = used + 1 /\ seq' = seq + 1
      BY <1>8, <2>1 DEF ydev_vfd_push
    <3>4. First' = First /\ seq' = First + used' - 1
      BY <1>0, <1>2, <1>1, <1>8, <3>3 DEF ydev_vfd_push, First
    <3> QED BY <1>4, <3>2, <3>3, <3>4
  <2>2. CASE used = Cap
    <3> DEFINE i == (tail + 1) % Cap
               u == Cap - 1
               f == First + 1
    <3>1. 1 \in 0 .. used /\ used - 1 = u
      BY <1>0, <2>2
    <3>2. InOrder(ring, i, u, f) /\ (i + u) % Cap = (tail + used) % Cap
      <4>1. /\ InOrder(ring, (tail + 1) % Cap, used - 1, First + 1)
            /\ (((tail + 1) % Cap) + (used - 1)) % Cap = (tail + used) % Cap
        BY <1>4a, <3>1
      <4> QED BY <3>1, <4>1
    <3>3. i \in Idx /\ u \in 0 .. Cap /\ f \in Int /\ 1 \in 0 .. Cap - u /\ u + 1 = Cap
      BY <1>0, <1>2, Moved DEF Idx
    <3>4. head = (i + u) % Cap /\ seq = f + u - 1
      BY <1>0, <1>1, <1>2, <2>2, <3>2
    <3> HIDE DEF i, u, f
    <3>5. InOrder(Put(ring, 1), i, u + 1, f) /\ (head + 1) % Cap = (i + (u + 1)) % Cap
      BY <3>2, <3>3, <3>4, PutInOrder
    <3>6. /\ ring' = Put(ring, 1) /\ head' = (head + 1) % Cap /\ tail' = i
          /\ used' = Cap /\ seq' = seq + 1
      BY <1>8, <2>2 DEF ydev_vfd_push, i
    <3>7. First' = f /\ seq' = f + used' - 1
      BY <1>0, <1>2, <1>1, <1>8, <2>2, <3>6 DEF ydev_vfd_push, First, f
    <3> QED BY <1>4, <3>3, <3>5, <3>6, <3>7
  <2> QED BY <2>1, <2>2
<1>9. ASSUME NEW k \in 0 .. used, tail' = (tail + k) % Cap, used' = used - k, First' = First + k,
             UNCHANGED <<ring, head, seq>>
      PROVE  RingInOrder'
  <2>0. /\ InOrder(ring, (tail + k) % Cap, used - k, First + k)
        /\ (((tail + k) % Cap) + (used - k)) % Cap = (tail + used) % Cap
    BY <1>4a
  <2>1. InOrder(ring, tail', used', First') /\ head = (tail' + used') % Cap
    BY <1>1, <1>9, <2>0
  <2>2. seq' = First' + used' - 1
    BY <1>0, <1>1, <1>2, <1>9
  <2> QED BY <1>4, <1>9, <2>1, <2>2
<1>10. CASE \E n \in Periods : out_cb(n)
  <2>1. PICK n \in Periods : out_cb(n)
    BY <1>10
  <2>2. PICK k \in 0 .. used : tail' = (tail + k) % Cap /\ used' = used - k /\ played' = played + k
    BY <2>1, Takes
  <2>3. First' = First + k /\ UNCHANGED <<ring, head, seq>>
    BY <1>0, <2>1, <2>2 DEF out_cb, First
  <2> QED BY <1>9, <2>2, <2>3
<1>11. ASSUME NEW t \in Threads, NEW n \in Requests, NEW wait \in Waits, Call(t, n, wait)
       PROVE  RingInOrder'
  BY <1>5, <1>11 DEF Call
<1>12. ASSUME NEW t \in Threads, Spurious(t) \/ PopTimesOut(t) \/ WriteTimesOut(t) \/ DrainsPipe(t)
       PROVE  RingInOrder'
  BY <1>5, <1>12 DEF Spurious, PopTimesOut, WriteTimesOut, DrainsPipe
<1>13. ASSUME NEW t \in Threads, ydev_vfd_pop(t)
       PROVE  RingInOrder'
  <2>1. CASE used > 0 /\ tail' = (tail + 1) % Cap /\ used' = used - 1
    <3>1. 1 \in 0 .. used
      BY <1>0, <2>1
    <3>2. First' = First + 1 /\ UNCHANGED <<ring, head, seq>>
      BY <1>0, <1>13, <2>1 DEF ydev_vfd_pop, First
    <3> QED BY <1>9, <2>1, <3>1, <3>2
  <2>2. CASE UNCHANGED <<tail, used>>
    BY <1>5, <1>13, <2>2 DEF ydev_vfd_pop
  <2> QED BY <1>13, <2>1, <2>2 DEF ydev_vfd_pop
<1>14. ASSUME NEW t \in Threads, ydev_audio_out_write(t)
       PROVE  RingInOrder'
  <2>1. PICK k \in 0 .. Cap - used :
           /\ ring' = Put(ring, k)
           /\ head' = (head + k) % Cap /\ used' = used + k /\ seq' = seq + k
    BY <1>14, Puts
  <2>2. tail' = tail /\ First' = First
    BY <1>14 DEF ydev_audio_out_write, First
  <2>3. InOrder(Put(ring, k), tail, used + k, First) /\ (head + k) % Cap = (tail + (used + k)) % Cap
    BY <1>0, <1>1, <1>2, PutInOrder
  <2>4. seq' = First + used' - 1
    BY <1>0, <1>1, <1>2, <2>1
  <2> QED BY <1>4, <2>1, <2>2, <2>3, <2>4
<1> QED
  BY <1>6, <1>7, <1>8, <1>10, <1>11, <1>12, <1>13, <1>14, NextCases

----------------------------------------------------------------------------
(* The theorems *)

LEMMA OrderInit ==
  ASSUME Init
  PROVE  Typed /\ SleepersDue /\ Sides /\ PollTells /\ RingInOrder
<1>1. Cap \in Nat \ {0}
  BY RingsAssumption
<1>2. Typed
  BY TypedInit
<1>3. SleepersDue
  BY DEF Init, SleepersDue, Waiting
<1>4. Sides
  BY DEF Init, Sides
<1>5. PollTells
  <2>1. dev = "in" => ~pipe /\ used = 0
    BY DEF Init
  <2> QED BY <2>1 DEF PollTells
<1>6. RingInOrder
  <2>1. used = 0 /\ seq = 0 /\ played = 0 /\ tail = 0 /\ head = 0
    BY DEF Init
  <2>2. 0 % Cap = 0
    BY <1>1
  <2> QED BY <1>1, <2>1, <2>2 DEF RingInOrder
<1> QED BY <1>2, <1>3, <1>4, <1>5, <1>6

\* The indices, counters and calls keep their types: no index of either ring
\* leaves its buffer.
THEOREM RingsTyped == Spec => []TypeOK
<1>1. Init => Typed
  BY TypedInit
<1>2. Typed /\ [Next]_vars => Typed'
  BY TypedInductive
<1>3. Typed => TypeOK
  BY DEF Typed
<1> QED BY <1>1, <1>2, <1>3, PTL DEF Spec

\* ydev_vfd_push, ydev_vfd_pop, ydev_audio_out_write and out_cb keep the
\* elements of their rings in order and without a gap, for every capacity and
\* however the indices wrap.
THEOREM RingsInOrder == Spec => []RingInOrder
<1> DEFINE I == Typed /\ RingInOrder
<1>1. Init => I
  BY OrderInit
<1>2. I /\ [Next]_vars => I'
  BY TypedInductive, OrderInductive
<1> QED BY <1>1, <1>2, PTL DEF Spec

\* No reader and no writer sleeps on its condition variable past what it waits
\* for, with any number of threads.
THEOREM NobodyOversleeps == Spec => []SleepersDue
<1> DEFINE I == Typed /\ SleepersDue
<1>1. Init => I
  BY OrderInit
<1>2. I /\ [Next]_vars => I'
  BY TypedInductive, SleepersInductive
<1> QED BY <1>1, <1>2, PTL DEF Spec

\* The pipe of an input device is readable exactly when its ring holds something.
THEOREM PollIsTrue == Spec => []PollTells
<1> DEFINE I == Typed /\ Sides /\ PollTells
<1>1. Init => I
  BY OrderInit
<1>2. I /\ [Next]_vars => I'
  BY TypedInductive, PollInductive
<1> QED BY <1>1, <1>2, PTL DEF Spec
=============================================================================
