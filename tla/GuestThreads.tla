---------------------------- MODULE GuestThreads ----------------------------
(***************************************************************************)
(* Threads inside one guest process (impl/proc/pthread.c): the table of    *)
(* host_thread records, pthread_create, the clone system call,             *)
(* pthread_join and the worker.                                            *)
(*                                                                         *)
(* A guest thread is a host thread with a record, a slot in the table (its *)
(* index is the thread's id and picks its TLS arena) and a stack in guest  *)
(* memory.  Main has none of them.  Records and stacks are heap memory:    *)
(* one that was freed may be handed out again.  The guest joins a thread   *)
(* of clone through the word it named, a futex of its own, and the host    *)
(* never joins it.                                                         *)
(***************************************************************************)
EXTENDS Integers, FiniteSetsExt

CONSTANTS
  Recs, Main,     \* records, each also names the thread it describes; Main
  None,
  NSlots,         \* WASM3MT_MAX_THREADS - 1: slot 0 is the main thread's
  Stacks,         \* blocks yos_malloc can give out for stacks
  JoinsTwice      \* whether the guest joins one thread from two

VARIABLES
  threads,   \* host->threads, a record or None
  rec,       \* the records
  os,        \* each host thread: "none", "running" or "ended" (not joined yet)
  pc, loc,   \* where a guest thread is in a call, and its locals
  mem,       \* stack blocks that are allocated
  word,      \* the word clone names: "tid" or "zero"
  rights     \* ids the guest has got from pthread_create and not joined

vars == <<threads, rec, os, pc, loc, mem, word, rights>>

Slots == 1 .. NSlots
Threads == Recs \cup {Main}

ASSUME ThreadsAssumption ==
  /\ Main \notin Recs /\ None \notin Recs \cup Stacks /\ NSlots \in Nat
  /\ JoinsTwice \in BOOLEAN

NoRec == [used |-> FALSE, tid |-> 0, started |-> FALSE, joined |-> FALSE,
          cloned |-> FALSE, stack |-> None, owned |-> None]
NoLoc == [rec |-> None, tid |-> 0, stack |-> None]

TypeOK ==
  /\ threads \in [Slots -> Recs \cup {None}]
  /\ rec \in [Recs -> [used : BOOLEAN, tid : Slots \cup {0}, started : BOOLEAN, joined : BOOLEAN,
                       cloned : BOOLEAN, stack : Stacks \cup {None}, owned : Stacks \cup {None}]]
  /\ os \in [Recs -> {"none", "running", "ended"}]
  /\ pc \in [Threads -> {"guest", "spawn", "mark", "settid", "own",
                         "join", "reap", "unslot", "free"}]
  /\ loc \in [Threads -> [rec : Recs \cup {None}, tid : Slots \cup {0}, stack : Stacks \cup {None}]]
  /\ mem \subseteq Stacks /\ rights \subseteq Slots
  /\ word \in [Recs -> {"tid", "zero"}]

Init ==
  /\ threads = [i \in Slots |-> None] /\ rec = [h \in Recs |-> NoRec]
  /\ os = [h \in Recs |-> "none"]
  /\ pc = [t \in Threads |-> "guest"] /\ loc = [t \in Threads |-> NoLoc]
  /\ mem = {} /\ word = [h \in Recs |-> "zero"] /\ rights = {}

Running == {Main} \cup {h \in Recs : os[h] = "running"}
At(t, l) == t \in Running /\ pc[t] = l
Goto(t, l) == pc' = [pc EXCEPT ![t] = l]
Return(t) == Goto(t, "guest") /\ loc' = [loc EXCEPT ![t] = NoLoc]

-----------------------------------------------------------------------------
(* Creating a thread *)

\* Mutant: a slot counts as free once its thread has ended.
FreeSlotsEnded == {i \in Slots : threads[i] = None \/ os[threads[i]] = "ended"}

FreeSlots == {i \in Slots : threads[i] = None}

\* A new record h gets the first free slot.  Without one it is freed again and
\* the call fails.
host_alloc_tid(t, h, cloned, s) ==
  LET i == Min(FreeSlots)
  IN  /\ At(t, "guest") /\ ~rec[h].used /\ os[h] = "none" /\ FreeSlots # {}
      /\ threads' = [threads EXCEPT ![i] = h]
      /\ rec' = [rec EXCEPT ![h] =
           [NoRec EXCEPT !.used = TRUE, !.tid = i, !.cloned = cloned, !.stack = s]]
      /\ loc' = [loc EXCEPT ![t] = [rec |-> h, tid |-> 0, stack |-> s]]
      /\ Goto(t, "spawn")

\* pthread_create allocates a stack; if it gets none the thread runs on the one
\* the module starts with.
host_pthread_create(t, h, s) ==
  /\ s \notin mem
  /\ host_alloc_tid(t, h, FALSE, s)
  /\ mem' = mem \cup ({s} \ {None})
  /\ UNCHANGED <<os, word, rights>>

\* clone: the guest brings the stack.
yos_proc_clone(t, h) ==
  /\ host_alloc_tid(t, h, TRUE, None)
  /\ UNCHANGED <<os, mem, word, rights>>

\* pthread_create of the host, or its failure, which gives back the slot, the
\* record and the stack.
yos_clone_thread(t) ==
  LET h == loc[t].rec
  IN  /\ At(t, "spawn")
      /\ \/ /\ os' = [os EXCEPT ![h] = "running"]
            /\ Goto(t, "mark")
            /\ UNCHANGED <<threads, rec, loc, mem>>
         \/ /\ threads' = [threads EXCEPT ![rec[h].tid] = None]
            /\ rec' = [rec EXCEPT ![h] = NoRec]
            /\ mem' = mem \ {loc[t].stack}
            /\ Return(t) /\ UNCHANGED os
      /\ UNCHANGED <<word, rights>>

\* os_started is set once the thread may be running, or be over.
MarkStarted(t) ==
  LET h == loc[t].rec
  IN  /\ At(t, "mark")
      /\ rec' = [rec EXCEPT ![h].started = TRUE]
      /\ loc' = [loc EXCEPT ![t].tid = rec[h].tid]
      /\ Goto(t, IF rec[h].cloned THEN "settid" ELSE "own")
      /\ UNCHANGED <<threads, os, mem, word, rights>>

\* pthread_create looks the record up again by id, to note down whose stack it is.
NoteStack(t) ==
  LET h == threads[loc[t].tid]
  IN  /\ At(t, "own")
      /\ rec' = IF h = None THEN rec ELSE [rec EXCEPT ![h].owned = loc[t].stack]
      /\ rights' = rights \cup {loc[t].tid}
      /\ Return(t)
      /\ UNCHANGED <<threads, os, mem, word>>

\* clone stores the id in the word, after the thread has started.
SetTid(t) ==
  /\ At(t, "settid")
  /\ word' = [word EXCEPT ![loc[t].rec] = "tid"]
  /\ Return(t)
  /\ UNCHANGED <<threads, rec, os, mem, rights>>

\* Mutant: the worker needs a lock on its way out that the joiner holds.
WorkerNeedsLock(h) ==
  /\ os[h] = "running" /\ pc[h] = "guest"
  /\ \A t \in Threads : pc[t] = "join" => loc[t].rec # h
  /\ os' = [os EXCEPT ![h] = "ended"]
  /\ word' \in {word, [word EXCEPT ![h] = "zero"]}
  /\ UNCHANGED <<threads, rec, pc, loc, mem, rights>>

\* The worker's function returns, and the word is cleared; or it traps, or
\* could not be set up, and the word is left as it is.
worker_main(h) ==
  /\ os[h] = "running" /\ pc[h] = "guest"
  /\ os' = [os EXCEPT ![h] = "ended"]
  /\ word' \in {word, [word EXCEPT ![h] = "zero"]}
  /\ UNCHANGED <<threads, rec, pc, loc, mem, rights>>

-----------------------------------------------------------------------------
(* Joining one *)

\* The guest joins what it created, once; a second thread may come with the
\* same id while the first is still waiting.
MayJoin(i) ==
  \/ i \in rights
  \/ JoinsTwice /\ \E u \in Threads : pc[u] = "join" /\ loc[u].tid = i

host_pthread_join(t, i) ==
  LET h == threads[i]
  IN  /\ At(t, "guest") /\ MayJoin(i) /\ h # t
      /\ h # None /\ ~rec[h].joined /\ rec[h].started
      /\ loc' = [loc EXCEPT ![t] = [rec |-> h, tid |-> i, stack |-> None]]
      /\ rights' = rights \ {i}
      /\ Goto(t, "join")
      /\ UNCHANGED <<threads, rec, os, mem, word>>

\* Mutant: the host's pthread_join is not waited for.
JoinNoWait(t) ==
  /\ At(t, "join")
  /\ rec' = [rec EXCEPT ![loc[t].rec].joined = TRUE]
  /\ Goto(t, "reap")
  /\ UNCHANGED <<threads, os, loc, mem, word, rights>>

JoinReturns(t) ==
  /\ At(t, "join") /\ os[loc[t].rec] = "ended"
  /\ os' = [os EXCEPT ![loc[t].rec] = "none"]
  /\ rec' = [rec EXCEPT ![loc[t].rec].joined = TRUE]
  /\ Goto(t, "reap")
  /\ UNCHANGED <<threads, loc, mem, word, rights>>

\* Mutant: the stack is left allocated.
JoinKeepsStack(t) ==
  /\ At(t, "reap")
  /\ Goto(t, "unslot")
  /\ UNCHANGED <<threads, rec, os, loc, mem, word, rights>>

JoinFreesStack(t) ==
  /\ At(t, "reap")
  /\ mem' = mem \ {rec[loc[t].rec].owned}
  /\ Goto(t, "unslot")
  /\ UNCHANGED <<threads, rec, os, loc, word, rights>>

host_free_thread_slot(t) ==
  /\ At(t, "unslot")
  /\ threads' = [threads EXCEPT ![loc[t].tid] = None]
  /\ Goto(t, "free")
  /\ UNCHANGED <<rec, os, loc, mem, word, rights>>

JoinFreesRecord(t) ==
  /\ At(t, "free")
  /\ rec' = [rec EXCEPT ![loc[t].rec] = NoRec]
  /\ Return(t)
  /\ UNCHANGED <<threads, os, mem, word, rights>>

-----------------------------------------------------------------------------

\* What a thread does inside a call it has made.
Inside(t) ==
  \/ yos_clone_thread(t) \/ MarkStarted(t) \/ NoteStack(t) \/ SetTid(t)
  \/ JoinReturns(t) \/ JoinFreesStack(t) \/ host_free_thread_slot(t) \/ JoinFreesRecord(t)

Next ==
  \/ \E t \in Threads :
       \/ Inside(t)
       \/ \E h \in Recs : yos_proc_clone(t, h)
                          \/ \E s \in Stacks \cup {None} : host_pthread_create(t, h, s)
       \/ \E i \in Slots : host_pthread_join(t, i)
  \/ \E h \in Recs : worker_main(h)

\* Host threads run, and the guest's functions return.
Fairness ==
  /\ \A t \in Threads : WF_vars(Inside(t))
  /\ \A h \in Recs : SF_vars(worker_main(h))

Spec == Init /\ [][Next]_vars /\ Fairness

-----------------------------------------------------------------------------
(* Properties *)

\* The record a thread works on: its own, and the one of the call it is in.
Holds(t) == ({t} \cap {h \in Recs : os[h] # "none"}) \cup ({loc[t].rec} \ {None})

\* No thread runs on a record that was freed, is in a call with one, or finds
\* one in the table: a record outlives the thread and everyone who looked it up.
NoDangling ==
  /\ \A t \in Threads : \A h \in Holds(t) : rec[h].used
  /\ \A i \in Slots : threads[i] # None => rec[threads[i]].used /\ rec[threads[i]].tid = i

\* Two threads that may both be running have different ids, and so different
\* TLS arenas and thread-specific values, and different stacks.
OwnArena ==
  \A h, g \in Recs : h # g /\ os[h] # "none" /\ os[g] # "none" =>
    /\ rec[h].tid # rec[g].tid /\ threads[rec[h].tid] = h
    /\ rec[h].stack # None => rec[h].stack # rec[g].stack /\ rec[h].stack \in mem

\* Once every call has returned, what is in the table and in memory belongs to
\* threads the guest can still join, or that clone made.
NothingLeaks ==
  (\A t \in Threads : pc[t] = "guest") =>
    /\ \A i \in Slots : threads[i] # None => rec[threads[i]].cloned \/ i \in rights
    /\ \A h \in Recs : rec[h].used => threads[rec[h].tid] = h
    /\ mem = {rec[h].stack : h \in Recs} \ {None}

\* pthread_join returns, however the thread it waits for ended, unless that
\* thread waits in pthread_join itself: two that join each other never return.
JoinEnds ==
  \A t \in Threads : (pc[t] = "join") ~>
    (pc[t] # "join" \/ pc[loc[t].rec] = "join")

\* "the matching CLEARTID + futex-wake on exit brings it back to 0": when a
\* thread of clone has ended and clone has returned, the word is zero, or the
\* guest's join waits for ever.
TidCleared ==
  \A h \in Recs : rec[h].cloned /\ os[h] = "ended" /\ (\A t \in Threads : loc[t].rec # h)
                    => word[h] = "zero"
=============================================================================
