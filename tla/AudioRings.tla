----------------------------- MODULE AudioRings -----------------------------
(***************************************************************************)
(* The rings between a guest and an audio device: ydev_vfd of              *)
(* impl/ydev/core.c, which carries recorded chunks from the device's       *)
(* callback to readers, and the output ring of impl/ydev/audio_miniaudio.c,*)
(* which carries bytes from writers to the callback.  dev says which of    *)
(* the two a behaviour is about.                                           *)
(*                                                                         *)
(* A guest thread waits for the device in one of two ways: on a condition  *)
(* variable inside a blocking call, or by polling a descriptor, the read   *)
(* end of a pipe that should be readable exactly when a call would not     *)
(* block.  Sections under the ring's lock are one step.  The output ring   *)
(* reads and writes its pipe after it has released the lock.               *)
(***************************************************************************)
EXTENDS Integers, FiniteSets, FiniteSetsExt

CONSTANTS
  Threads,     \* the guest's threads
  Cap,         \* record_cap or ring_cap
  Low,         \* low_watermark of the output ring
  Requests,    \* how much a call asks for, in records or bytes
  Periods,     \* how much a callback of the output device takes
  MaxSeq       \* bound on what is recorded or written

VARIABLES
  dev,                      \* "in" or "out"
  ring, head, tail, used,   \* the ring; an element is the number of its record
  seq,                      \* seq_next: records pushed, or bytes accepted
  played,                   \* bytes the output device has been given
  closed, running,
  pipe,                     \* whether a byte is in the pipe
  pc, call,                 \* each thread's place, and what is left of its call
  cb                        \* the output callback between its unlock and its write

vars == <<dev, ring, head, tail, used, seq, played, closed, running, pipe, pc, call, cb>>

Idx == 0 .. Cap - 1

ASSUME RingsAssumption ==
  /\ Cap \in Nat \ {0} /\ Low \in 0 .. Cap - 1 /\ MaxSeq \in Nat
  /\ Requests \subseteq Nat \ {0} /\ Periods \subseteq Nat \ {0} /\ IsFiniteSet(Threads)

\* A call's timeout_ms: 0, positive or negative.
Waits == {"never", "timed", "forever"}
NoCall == [left |-> 0, wait |-> "never"]

TypeOK ==
  /\ dev \in {"in", "out"}
  /\ ring \in [Idx -> Nat] /\ head \in Idx /\ tail \in Idx /\ used \in 0 .. Cap
  /\ seq \in Nat /\ played \in Nat
  /\ closed \in BOOLEAN /\ running \in BOOLEAN /\ pipe \in BOOLEAN
  /\ pc \in [Threads -> {"idle", "call", "wait", "woken", "drain"}]
  /\ call \in [Threads -> [left : Nat, wait : Waits]]
  /\ cb \in {"idle", "kick"}

\* ydev_audio_in_open and ydev_audio_out_open; the output pipe is armed.
Init ==
  /\ dev \in {"in", "out"}
  /\ ring = [i \in Idx |-> 0] /\ head = 0 /\ tail = 0 /\ used = 0
  /\ seq = 0 /\ played = 0 /\ closed = FALSE /\ running = FALSE
  /\ pipe = (dev = "out")
  /\ pc = [t \in Threads |-> "idle"] /\ call = [t \in Threads |-> NoCall]
  /\ cb = "idle"

Waiting == {t \in Threads : pc[t] = "wait"}
Woken == {t \in Threads : pc[t] = "woken"}

\* pthread_cond_broadcast.
Broadcast == [t \in Threads |-> IF pc[t] = "wait" THEN "woken" ELSE pc[t]]

Goto(t, l) == pc' = [pc EXCEPT ![t] = l]
Return(t) == Goto(t, "idle") /\ call' = [call EXCEPT ![t] = NoCall]

\* k elements numbered from seq + 1 are put in at head.
Put(r, k) ==
  [i \in Idx |-> LET o == (i - head) % Cap IN IF o < k THEN seq + 1 + o ELSE r[i]]

-----------------------------------------------------------------------------
(* Both devices *)

\* ydev_audio_in_start and ydev_audio_out_start.
Start ==
  /\ ~running /\ running' = TRUE
  /\ UNCHANGED <<dev, ring, head, tail, used, seq, played, closed, pipe, pc, call, cb>>

\* ydev_audio_in_stop and ydev_audio_out_stop: the device is stopped, which
\* waits for its callback, and the ring is closed.
Stop ==
  /\ cb = "idle"
  /\ running' = FALSE /\ closed' = TRUE
  /\ pc' = Broadcast
  /\ UNCHANGED <<dev, ring, head, tail, used, seq, played, pipe, call, cb>>

\* A guest thread calls ydev_audio_in_read or ydev_audio_out_write.
Call(t, n, wait) ==
  /\ pc[t] = "idle"
  /\ Goto(t, "call") /\ call' = [call EXCEPT ![t] = [left |-> n, wait |-> wait]]
  /\ UNCHANGED <<dev, ring, head, tail, used, seq, played, closed, running, pipe, cb>>

\* The host's condition variable returns without a signal.
Spurious(t) ==
  /\ pc[t] = "wait" /\ Goto(t, "woken")
  /\ UNCHANGED <<dev, ring, head, tail, used, seq, played, closed, running, pipe, call, cb>>

-----------------------------------------------------------------------------
(* Input *)

\* Mutant: nobody is signalled when the ring was not empty before.
PushSignalsFirst ==
  IF Waiting = {} \/ used > 0 THEN UNCHANGED pc ELSE \E t \in Waiting : Goto(t, "woken")

\* pthread_cond_signal wakes one of the waiting threads.
PushSignals == IF Waiting = {} THEN UNCHANGED pc ELSE \E t \in Waiting : Goto(t, "woken")

\* The callback pushes a record; a full ring loses its oldest.
ydev_vfd_push ==
  LET full == used = Cap
  IN  /\ dev = "in" /\ running /\ seq < MaxSeq
      /\ ring' = Put(ring, 1)
      /\ head' = (head + 1) % Cap
      /\ tail' = IF full THEN (tail + 1) % Cap ELSE tail
      /\ used' = IF full THEN used ELSE used + 1
      /\ seq' = seq + 1
      /\ PushSignals
      /\ pipe' = (pipe \/ used = 0)
      /\ UNCHANGED <<dev, played, closed, running, call, cb>>

\* Mutant: the pipe is drained by every pop.
DrainedAlways == FALSE

\* The pipe after a pop: drained when the ring is empty.
Drained == pipe /\ used # 1

\* One pop of ydev_audio_in_read.  Its second and later pops do not wait.
ydev_vfd_pop(t) ==
  /\ dev = "in" /\ pc[t] \in {"call", "woken"}
  /\ \/ /\ used > 0
        /\ tail' = (tail + 1) % Cap /\ used' = used - 1
        /\ pipe' = Drained
        /\ IF call[t].left = 1 THEN Return(t)
           ELSE Goto(t, "call") /\ call' = [call EXCEPT ![t] = [left |-> @.left - 1, wait |-> "never"]]
     \/ /\ used = 0 /\ (closed \/ call[t].wait = "never")
        /\ Return(t) /\ UNCHANGED <<tail, used, pipe>>
     \/ /\ used = 0 /\ ~closed /\ call[t].wait # "never"
        /\ Goto(t, "wait") /\ UNCHANGED <<tail, used, pipe, call>>
  /\ UNCHANGED <<dev, ring, head, seq, played, closed, running, cb>>

PopTimesOut(t) ==
  /\ dev = "in" /\ pc[t] = "wait" /\ call[t].wait = "timed" /\ Return(t)
  /\ UNCHANGED <<dev, ring, head, tail, used, seq, played, closed, running, pipe, cb>>

-----------------------------------------------------------------------------
(* Output *)

\* The end of a write: above the low watermark the pipe is drained, but only
\* after the lock is released.
Finish(t, level) ==
  /\ Goto(t, IF level > Low THEN "drain" ELSE "idle")
  /\ call' = [call EXCEPT ![t] = NoCall]

\* The loop of ydev_audio_out_write, until it ends or waits for room.
ydev_audio_out_write(t) ==
  LET k == IF closed THEN 0 ELSE Min({call[t].left, Cap - used})
      left == call[t].left - k
  IN  /\ dev = "out" /\ pc[t] \in {"call", "woken"} /\ seq + k <= MaxSeq
      /\ ring' = Put(ring, k)
      /\ head' = (head + k) % Cap /\ used' = used + k /\ seq' = seq + k
      /\ IF left = 0 \/ closed \/ call[t].wait = "never"
         THEN Finish(t, used + k)
         ELSE Goto(t, "wait") /\ call' = [call EXCEPT ![t].left = left]
      /\ UNCHANGED <<dev, tail, played, closed, running, pipe, cb>>

WriteTimesOut(t) ==
  /\ dev = "out" /\ pc[t] = "wait" /\ call[t].wait = "timed" /\ Finish(t, used)
  /\ UNCHANGED <<dev, ring, head, tail, used, seq, played, closed, running, pipe, cb>>

DrainsPipe(t) ==
  /\ pc[t] = "drain" /\ Goto(t, "idle")
  /\ pipe' = FALSE
  /\ UNCHANGED <<dev, ring, head, tail, used, seq, played, closed, running, call, cb>>

\* Mutant: the tail is not moved past what was played.
out_cb_keeps(n) ==
  LET k == Min({n, used})
  IN  /\ dev = "out" /\ running /\ cb = "idle"
      /\ UNCHANGED tail
      /\ used' = used - k /\ played' = played + k
      /\ pc' = Broadcast
      /\ cb' = IF used > Low /\ used - k <= Low THEN "kick" ELSE "idle"
      /\ UNCHANGED <<dev, ring, head, seq, closed, running, pipe, call>>

\* The device takes n bytes, silence for those that are missing, and wakes
\* every writer.
out_cb(n) ==
  LET k == Min({n, used})
  IN  /\ dev = "out" /\ running /\ cb = "idle"
      /\ tail' = (tail + k) % Cap
      /\ used' = used - k /\ played' = played + k
      /\ pc' = Broadcast
      /\ cb' = IF used > Low /\ used - k <= Low THEN "kick" ELSE "idle"
      /\ UNCHANGED <<dev, ring, head, seq, closed, running, pipe, call>>

\* The callback has crossed the low watermark and writes its byte.
KicksPipe ==
  /\ cb = "kick" /\ cb' = "idle" /\ pipe' = TRUE
  /\ UNCHANGED <<dev, ring, head, tail, used, seq, played, closed, running, pc, call>>

-----------------------------------------------------------------------------

Next ==
  \/ Start \/ Stop \/ ydev_vfd_push \/ KicksPipe
  \/ \E n \in Periods : out_cb(n)
  \/ \E t \in Threads :
       \/ \E n \in Requests, wait \in Waits : Call(t, n, wait)
       \/ Spurious(t)
       \/ ydev_vfd_pop(t) \/ PopTimesOut(t)
       \/ ydev_audio_out_write(t) \/ WriteTimesOut(t) \/ DrainsPipe(t)

Spec == Init /\ [][Next]_vars

-----------------------------------------------------------------------------
(* Properties *)

\* The ring holds the newest records, or the bytes that are not played yet, in
\* order and without a gap, however indices wrap and full rings are
\* overwritten; nothing a writer was told is accepted is lost.
RingInOrder ==
  LET first == IF dev = "in" THEN seq - used + 1 ELSE played + 1
  IN  /\ \A i \in 0 .. used - 1 : ring[(tail + i) % Cap] = first + i
      /\ head = (tail + used) % Cap
      /\ dev = "out" => seq = played + used

\* Nobody sleeps on the condition variable when what it waits for has
\* happened: every record has a reader on its way, writers sleep only on a
\* full ring, and a stopped device leaves nobody behind.
SleepersDue ==
  Waiting # {} =>
    /\ ~closed
    /\ IF dev = "in" THEN used <= Cardinality(Woken) ELSE used = Cap

\* "one byte appears whenever the ring goes empty -> non-empty, and is drained
\* when the ring goes non-empty -> empty": poll on an input device returns
\* exactly when a read would find something.
PollTells == dev = "in" => (pipe <=> used > 0)

\* "The fd becomes readable when ring occupancy drops below the low watermark":
\* with nobody between a lock and its pipe, an output ring with room is
\* readable, or the guest polls for ever.
RoomSignalled ==
  dev = "out" /\ used <= Low /\ cb = "idle" /\ (\A t \in Threads : pc[t] # "drain") => pipe
=============================================================================
