------------------------- MODULE GuestThreadsProofs -------------------------
(***************************************************************************)
(* What holds of the guest's threads for any number of records, slots and  *)
(* stacks, as long as the guest joins a thread once.                       *)
(***************************************************************************)
EXTENDS GuestThreads, WellFoundedInduction, TLAPS

----------------------------------------------------------------------------
(* The inductive invariant *)

Making == {"spawn", "mark", "settid", "own"}
Joining == {"join", "reap", "unslot", "free"}

\* Only a thread that runs is in a call, and a call has one record to work on,
\* which no other call has.
CallsApart ==
  /\ \A h \in Recs : os[h] # "running" => pc[h] = "guest"
  /\ \A t \in Threads : loc[t].rec = None <=> pc[t] = "guest"
  /\ \A t, u \in Threads : loc[t].rec = loc[u].rec /\ loc[t].rec # None => t = u

\* What is in the table is a record with that id, and a record is in the table
\* until its joiner has taken it out.
Tabled ==
  /\ \A i \in Slots : threads[i] # None => rec[threads[i]].used /\ rec[threads[i]].tid = i
  /\ \A h \in Recs : rec[h].used =>
       /\ rec[h].tid \in Slots
       /\ threads[rec[h].tid] = h \/ \E t \in Threads : loc[t].rec = h /\ pc[t] = "free"

\* A record nobody uses is blank, and no thread runs on it or has it in a call.
Blank ==
  \A h \in Recs : ~rec[h].used =>
    rec[h] = NoRec /\ os[h] = "none" /\ \A t \in Threads : loc[t].rec # h

\* Where a call that creates a thread has got to.
Made ==
  \A t \in Threads : pc[t] \in Making =>
    LET h == loc[t].rec
    IN  /\ rec[h].used /\ rec[h].stack = loc[t].stack /\ rec[h].owned = None
        /\ ~rec[h].joined /\ rec[h].tid \notin rights
        /\ os[h] = "none" <=> pc[t] = "spawn"
        /\ rec[h].cloned => rec[h].stack = None
        /\ pc[t] \in {"settid", "own"} => rec[h].started /\ loc[t].tid = rec[h].tid
        /\ pc[t] = "settid" => rec[h].cloned
        /\ pc[t] = "own" => ~rec[h].cloned

\* Where a call that joins a thread has got to.
Taken ==
  \A t \in Threads : pc[t] \in Joining =>
    LET h == loc[t].rec
    IN  /\ rec[h].used /\ ~rec[h].cloned /\ loc[t].tid = rec[h].tid
        /\ rec[h].owned = rec[h].stack
        /\ os[h] = "none" <=> pc[t] # "join"
        /\ pc[t] # "free" => rec[h].tid \notin rights
        /\ pc[t] = "free" => \A i \in Slots : threads[i] # h

\* A record that no call works on belongs to a thread that was started and can
\* be joined, or that clone made.
Kept ==
  \A h \in Recs : rec[h].used /\ (\A t \in Threads : loc[t].rec # h) =>
    /\ os[h] # "none" /\ rec[h].owned = rec[h].stack
    /\ rec[h].cloned => rec[h].stack = None
    /\ rec[h].cloned \/ rec[h].tid \in rights

\* An id the guest may join names a thread that pthread_create has finished with
\* and nobody joins yet.
Joinable ==
  \A i \in rights : /\ threads[i] # None /\ ~rec[threads[i]].cloned
                    /\ \A t \in Threads : loc[t].rec # threads[i]

\* The joiner of h has not come to the free of its stack.
KeepsStack(h) ==
  rec[h].used /\ \A t \in Threads : loc[t].rec = h => pc[t] \notin {"unslot", "free"}

\* Stacks are allocated to one record each.
StacksApart ==
  /\ \A h \in Recs : KeepsStack(h) /\ rec[h].stack # None => rec[h].stack \in mem
  /\ \A h, g \in Recs :
       KeepsStack(h) /\ KeepsStack(g) /\ rec[h].stack = rec[g].stack /\ rec[h].stack # None
         => h = g
  /\ \A s \in mem : \E h \in Recs : KeepsStack(h) /\ rec[h].stack = s

IInv ==
  /\ TypeOK /\ CallsApart /\ Tabled /\ Blank /\ Made /\ Taken /\ Kept /\ Joinable
  /\ StacksApart

----------------------------------------------------------------------------
(* Lemmas *)

Records == [used : BOOLEAN, tid : Slots \cup {0}, started : BOOLEAN, joined : BOOLEAN,
            cloned : BOOLEAN, stack : Stacks \cup {None}, owned : Stacks \cup {None}]

LEMMA MinIn ==
  ASSUME NEW S \in SUBSET Nat, S # {}
  PROVE  Min(S) \in S
<1>1. PICK x \in S : \A y \in S : ~(<<y, x>> \in OpToRel(<, Nat))
  BY WFMin, NatLessThanWellFounded
<1>2. ASSUME NEW y \in S PROVE x =< y
  <2>1. y < x => <<y, x>> \in OpToRel(<, Nat)
    BY DEF OpToRel
  <2>2. ~(y < x)
    BY <1>1, <2>1, Zenon
  <2> QED BY <2>2
<1> QED BY <1>2 DEF Min

LEMMA NextCases ==
  ASSUME Next
  PROVE  \/ \E t \in Threads :
              \/ yos_clone_thread(t) \/ MarkStarted(t) \/ NoteStack(t) \/ SetTid(t)
              \/ JoinReturns(t) \/ JoinFreesStack(t) \/ host_free_thread_slot(t)
              \/ JoinFreesRecord(t)
              \/ \E h \in Recs : yos_proc_clone(t, h)
              \/ \E h \in Recs, s \in Stacks \cup {None} : host_pthread_create(t, h, s)
              \/ \E i \in Slots : host_pthread_join(t, i)
         \/ \E h \in Recs : worker_main(h)
BY DEF Next, Inside

LEMMA InitInv ==
  ASSUME Init
  PROVE  IInv
BY ThreadsAssumption DEF Init, IInv, TypeOK, CallsApart, Tabled, Blank, Made, Taken, Kept, Joinable,
   StacksApart, KeepsStack, NoRec, NoLoc, Threads, Slots, Making, Joining

\* A step that leaves stacks and their records alone.
LEMMA StacksSame ==
  ASSUME StacksApart, mem' = mem,
         \A g \in Recs : rec'[g].used = rec[g].used /\ rec'[g].stack = rec[g].stack,
         \A g \in Recs : KeepsStack(g)' <=> KeepsStack(g)
  PROVE  StacksApart'
BY DEF StacksApart

LEMMA SetTidInv ==
  ASSUME IInv, NEW t \in Threads, SetTid(t)
  PROVE  IInv'
<1> USE ThreadsAssumption DEF IInv, Making, Joining
<1>1. TypeOK'
  BY DEF SetTid, Return, Goto, At, TypeOK, NoLoc, NoRec
<1>2. CallsApart'
  BY DEF SetTid, Return, Goto, At, CallsApart, TypeOK, NoLoc, Threads, Running, Made, Taken
<1>3. Tabled'
  BY DEF SetTid, Return, Goto, At, Tabled, CallsApart, Made, Taken, TypeOK, NoRec, NoLoc
<1>4. Blank'
  BY DEF SetTid, Return, Goto, At, Blank, CallsApart, Made, Taken, TypeOK, NoRec, NoLoc
<1>5. Made'
  BY DEF SetTid, Return, Goto, At, Made, CallsApart, TypeOK, NoLoc, NoRec, Tabled
<1>6. Taken'
  BY DEF SetTid, Return, Goto, At, Taken, CallsApart, TypeOK, NoLoc, NoRec, Tabled
<1>7. Kept'
  BY DEF SetTid, Return, Goto, At, Kept, CallsApart, Made, Taken, TypeOK, NoLoc, NoRec
<1>8. Joinable'
  BY DEF SetTid, Return, Goto, At, Joinable, CallsApart, Made, Taken, Tabled, TypeOK, NoLoc, NoRec
<1>9. StacksApart'
  <2>1. \A g \in Recs : rec'[g].used = rec[g].used /\ rec'[g].stack = rec[g].stack
    BY DEF SetTid
  <2>2. /\ pc[t] = "settid" /\ pc'[t] = "guest" /\ loc'[t].rec = None
        /\ \A u \in Threads : u # t => loc'[u] = loc[u] /\ pc'[u] = pc[u]
    BY DEF SetTid, Return, Goto, At, TypeOK, NoLoc
  <2>3. \A g \in Recs : KeepsStack(g)' <=> KeepsStack(g)
    BY <2>1, <2>2 DEF KeepsStack
  <2> QED BY <2>1, <2>3, StacksSame DEF SetTid
<1> QED BY <1>1, <1>2, <1>3, <1>4, <1>5, <1>6, <1>7, <1>8, <1>9

LEMMA MarkStartedInv ==
  ASSUME IInv, NEW t \in Threads, MarkStarted(t)
  PROVE  IInv'
<1> USE ThreadsAssumption DEF IInv, Making, Joining
<1> DEFINE h == loc[t].rec
<1>0. /\ pc[t] = "mark" /\ h \in Recs /\ rec[h].used /\ rec[h].tid \in Slots
      /\ \A g \in Recs : g # h => rec'[g] = rec[g]
      /\ rec'[h] = [rec[h] EXCEPT !.started = TRUE]
  <2>1. pc[t] = "mark" /\ h \in Recs
    BY DEF MarkStarted, At, CallsApart, TypeOK
  <2>2. rec[h].used /\ rec[h].tid \in Slots
    BY <2>1 DEF Made, Tabled
  <2> QED BY <2>1, <2>2 DEF MarkStarted, TypeOK
<1>0a. \A g \in Recs : /\ rec'[g].used = rec[g].used /\ rec'[g].stack = rec[g].stack
                       /\ rec'[g].owned = rec[g].owned /\ rec'[g].tid = rec[g].tid
                       /\ rec'[g].cloned = rec[g].cloned
  BY <1>0 DEF TypeOK
<1>1. TypeOK'
  <2>0. rec[h] \in Records
    BY <1>0 DEF TypeOK, Records
  <2>0a. [rec[h] EXCEPT !.started = TRUE] \in Records
    BY <2>0 DEF Records
  <2>1. rec' \in [Recs -> Records]
    BY <1>0, <2>0a DEF MarkStarted, TypeOK, Records
  <2>2. loc' \in [Threads -> [rec : Recs \cup {None}, tid : Slots \cup {0}, stack : Stacks \cup {None}]]
    <3> DEFINE L == [rec : Recs \cup {None}, tid : Slots \cup {0}, stack : Stacks \cup {None}]
    <3>1. loc[t] \in L
      BY DEF TypeOK
    <3>2. [loc[t] EXCEPT !.tid = rec[h].tid] \in L
      BY <1>0, <3>1
    <3>3. loc' = [loc EXCEPT ![t] = [loc[t] EXCEPT !.tid = rec[h].tid]]
      BY DEF MarkStarted
    <3> QED BY <3>2, <3>3 DEF TypeOK
  <2>3. pc' \in [Threads -> {"guest", "spawn", "mark", "settid", "own", "join", "reap", "unslot", "free"}]
    BY <1>0 DEF MarkStarted, Goto, TypeOK
  <2> QED BY <2>1, <2>2, <2>3 DEF MarkStarted, TypeOK, Records
<1>2. CallsApart'
  BY DEF MarkStarted, Goto, At, CallsApart, TypeOK, NoLoc, Threads, Running, Made, Taken
<1>3. Tabled'
  BY DEF MarkStarted, Goto, At, Tabled, CallsApart, Made, Taken, TypeOK, NoRec, NoLoc
<1>4. Blank'
  BY <1>0, <1>0a DEF MarkStarted, Blank, TypeOK
<1>5. Made'
  BY DEF MarkStarted, Goto, At, Made, CallsApart, TypeOK, NoLoc, NoRec, Tabled
<1>6. Taken'
  BY DEF MarkStarted, Goto, At, Taken, CallsApart, TypeOK, NoLoc, NoRec, Tabled
<1>7. Kept'
  BY DEF MarkStarted, Goto, At, Kept, CallsApart, Made, Taken, TypeOK, NoLoc, NoRec
<1>8. Joinable'
  BY DEF MarkStarted, Goto, At, Joinable, CallsApart, Made, Taken, Tabled, TypeOK, NoLoc, NoRec
<1>9. StacksApart'
  <2>1. \A g \in Recs : rec'[g].used = rec[g].used /\ rec'[g].stack = rec[g].stack
    BY <1>0a
  <2>2. \A u \in Threads : loc'[u].rec = loc[u].rec /\ (u # t => pc'[u] = pc[u])
    BY DEF MarkStarted, Goto, TypeOK
  <2>3. pc'[t] \in {"settid", "own"}
    BY DEF MarkStarted, Goto, TypeOK
  <2>4. \A g \in Recs : KeepsStack(g)' <=> KeepsStack(g)
    BY <1>0, <2>1, <2>2, <2>3 DEF KeepsStack
  <2> QED BY <2>1, <2>4, StacksSame DEF MarkStarted
<1> QED BY <1>1, <1>2, <1>3, <1>4, <1>5, <1>6, <1>7, <1>8, <1>9

LEMMA NoteStackInv ==
  ASSUME IInv, NEW t \in Threads, NoteStack(t)
  PROVE  IInv'
<1> USE ThreadsAssumption DEF IInv, Making, Joining
<1> DEFINE h == loc[t].rec
<1>0. /\ pc[t] = "own" /\ h \in Recs /\ rec[h].used /\ rec[h].tid \in Slots
      /\ threads[loc[t].tid] = h /\ loc[t].tid = rec[h].tid /\ rec[h].stack = loc[t].stack
      /\ ~rec[h].cloned /\ os[h] # "none"
  BY DEF NoteStack, At, CallsApart, Made, Tabled, TypeOK
<1>0a. /\ \A g \in Recs : g # h => rec'[g] = rec[g]
       /\ rec'[h] = [rec[h] EXCEPT !.owned = rec[h].stack]
       /\ rights' = rights \cup {rec[h].tid}
  BY <1>0 DEF NoteStack, TypeOK
<1>0b. /\ \A g \in Recs : /\ rec'[g].used = rec[g].used /\ rec'[g].stack = rec[g].stack
                           /\ rec'[g].cloned = rec[g].cloned /\ rec'[g].tid = rec[g].tid
       /\ \A g \in Recs : g # h => rec'[g].owned = rec[g].owned
       /\ rec'[h].owned = rec'[h].stack
  <2>1. /\ rec'[h].used = rec[h].used /\ rec'[h].stack = rec[h].stack
        /\ rec'[h].cloned = rec[h].cloned /\ rec'[h].tid = rec[h].tid
        /\ rec'[h].owned = rec[h].stack
    <3>1. rec[h] \in Records
      BY <1>0 DEF TypeOK, Records
    <3> QED BY <1>0, <1>0a, <3>1 DEF Records
  <2> QED BY <1>0, <1>0a, <2>1
<1>0c. /\ pc'[t] = "guest" /\ loc'[t].rec = None
       /\ \A u \in Threads : u # t => pc'[u] = pc[u] /\ loc'[u] = loc[u]
       /\ \A u \in Threads : u # t => loc[u].rec # h
       /\ UNCHANGED <<threads, os, mem>>
  BY <1>0 DEF NoteStack, Return, Goto, NoLoc, CallsApart, TypeOK
<1>1. TypeOK'
  BY <1>0, <1>0a DEF NoteStack, Return, Goto, TypeOK, NoLoc
<1>2. CallsApart'
  BY DEF NoteStack, Return, Goto, At, CallsApart, TypeOK, NoLoc, Threads, Running, Made, Taken
<1>3. Tabled'
  BY DEF NoteStack, Return, Goto, At, Tabled, CallsApart, Made, Taken, TypeOK, NoRec, NoLoc
<1>4. Blank'
  BY <1>0, <1>0a, <1>0b DEF NoteStack, Return, Goto, Blank, TypeOK, NoLoc
<1>d. \A u \in Threads : pc'[u] \in Making \cup Joining =>
        /\ u # t /\ pc'[u] = pc[u] /\ loc'[u] = loc[u] /\ loc[u].rec # h
        /\ loc[u].rec \in Recs /\ rec'[loc[u].rec] = rec[loc[u].rec]
        /\ rec[loc[u].rec].tid # rec[h].tid \/ pc[u] = "free"
  <2> SUFFICES ASSUME NEW u \in Threads, pc'[u] \in Making \cup Joining
               PROVE  /\ u # t /\ pc'[u] = pc[u] /\ loc'[u] = loc[u] /\ loc[u].rec # h
                      /\ loc[u].rec \in Recs /\ rec'[loc[u].rec] = rec[loc[u].rec]
                      /\ rec[loc[u].rec].tid # rec[h].tid \/ pc[u] = "free"
    OBVIOUS
  <2>1. u # t /\ pc'[u] = pc[u] /\ loc'[u] = loc[u] /\ loc[u].rec # h
    BY <1>0c
  <2>2. loc[u].rec \in Recs /\ rec[loc[u].rec].used
    BY <2>1 DEF CallsApart, TypeOK, Made, Taken
  <2>3. rec[loc[u].rec].tid # rec[h].tid \/ pc[u] = "free"
    BY <2>1, <2>2, <1>0 DEF Tabled, CallsApart
  <2> QED BY <2>1, <2>2, <2>3, <1>0a
<1>5. Made'
  BY <1>0a, <1>0c, <1>d DEF Made
<1>6. Taken'
  BY <1>0a, <1>0c, <1>d DEF Taken
<1>7. Kept'
  BY <1>0, <1>0a, <1>0b DEF NoteStack, Return, Goto, Kept, CallsApart, TypeOK, NoLoc
<1>8. Joinable'
  BY DEF NoteStack, Return, Goto, At, Joinable, CallsApart, Made, Taken, Tabled, TypeOK, NoLoc, NoRec
<1>9. StacksApart'
  <2>1. \A g \in Recs : rec'[g].used = rec[g].used /\ rec'[g].stack = rec[g].stack
    BY <1>0b
  <2>2. \A g \in Recs : KeepsStack(g)' <=> KeepsStack(g)
    BY <2>1, <1>0, <1>0c DEF KeepsStack
  <2> QED BY <2>1, <2>2, StacksSame DEF NoteStack
<1> QED BY <1>1, <1>2, <1>3, <1>4, <1>5, <1>6, <1>7, <1>8, <1>9

LEMMA JoinReturnsInv ==
  ASSUME IInv, NEW t \in Threads, JoinReturns(t)
  PROVE  IInv'
<1> USE ThreadsAssumption DEF IInv, Making, Joining
<1> DEFINE h == loc[t].rec
<1>0. /\ pc[t] = "join" /\ h \in Recs /\ rec[h].used
      /\ \A g \in Recs : g # h => rec'[g] = rec[g]
      /\ rec'[h] = [rec[h] EXCEPT !.joined = TRUE]
  <2>1. pc[t] = "join" /\ h \in Recs
    BY DEF JoinReturns, At, CallsApart, TypeOK
  <2>2. rec[h].used
    BY <2>1 DEF Taken
  <2> QED BY <2>1, <2>2 DEF JoinReturns, TypeOK
<1>0a. \A g \in Recs : /\ rec'[g].used = rec[g].used /\ rec'[g].stack = rec[g].stack
                       /\ rec'[g].owned = rec[g].owned /\ rec'[g].tid = rec[g].tid
                       /\ rec'[g].cloned = rec[g].cloned
  BY <1>0 DEF TypeOK
<1>1. TypeOK'
  <2>0. rec[h] \in Records
    BY <1>0 DEF TypeOK, Records
  <2>0a. [rec[h] EXCEPT !.joined = TRUE] \in Records
    BY <2>0 DEF Records
  <2>1. rec' \in [Recs -> Records]
    BY <1>0, <2>0a DEF JoinReturns, TypeOK, Records
  <2> QED BY <1>0, <2>1 DEF JoinReturns, Goto, TypeOK, Records
<1>2. CallsApart'
  BY DEF JoinReturns, Goto, At, CallsApart, TypeOK, NoLoc, Threads, Running, Made, Taken
<1>3. Tabled'
  BY DEF JoinReturns, Goto, At, Tabled, CallsApart, Made, Taken, TypeOK, NoRec, NoLoc
<1>4. Blank'
  BY <1>0, <1>0a DEF JoinReturns, Blank, TypeOK
<1>5. Made'
  BY DEF JoinReturns, Goto, At, Made, CallsApart, TypeOK, NoLoc, NoRec, Tabled
<1>6. Taken'
  BY DEF JoinReturns, Goto, At, Taken, CallsApart, TypeOK, NoLoc, NoRec, Tabled
<1>7. Kept'
  BY DEF JoinReturns, Goto, At, Kept, CallsApart, Made, Taken, TypeOK, NoLoc, NoRec
<1>8. Joinable'
  BY DEF JoinReturns, Goto, At, Joinable, CallsApart, Made, Taken, Tabled, TypeOK, NoLoc, NoRec
<1>9. StacksApart'
  <2>1. \A g \in Recs : rec'[g].used = rec[g].used /\ rec'[g].stack = rec[g].stack
    BY <1>0a
  <2>2. \A g \in Recs : KeepsStack(g)' <=> KeepsStack(g)
    BY <2>1, <1>0 DEF JoinReturns, Goto, At, KeepsStack, CallsApart, TypeOK, NoLoc
  <2> QED BY <2>1, <2>2, StacksSame DEF JoinReturns
<1> QED BY <1>1, <1>2, <1>3, <1>4, <1>5, <1>6, <1>7, <1>8, <1>9

LEMMA JoinFreesStackInv ==
  ASSUME IInv, NEW t \in Threads, JoinFreesStack(t)
  PROVE  IInv'
<1> USE ThreadsAssumption DEF IInv, Making, Joining
<1>1. TypeOK'
  BY DEF JoinFreesStack, Goto, At, TypeOK, NoLoc, NoRec
<1>2. CallsApart'
  BY DEF JoinFreesStack, Goto, At, CallsApart, TypeOK, NoLoc, Threads, Running, Made, Taken
<1>3. Tabled'
  BY DEF JoinFreesStack, Goto, At, Tabled, CallsApart, Made, Taken, TypeOK, NoRec, NoLoc
<1>4. Blank'
  BY DEF JoinFreesStack, Goto, At, Blank, CallsApart, Made, Taken, TypeOK, NoRec, NoLoc
<1>5. Made'
  BY DEF JoinFreesStack, Goto, At, Made, CallsApart, TypeOK, NoLoc, NoRec, Tabled
<1>6. Taken'
  BY DEF JoinFreesStack, Goto, At, Taken, CallsApart, TypeOK, NoLoc, NoRec, Tabled
<1>7. Kept'
  BY DEF JoinFreesStack, Goto, At, Kept, CallsApart, Made, Taken, TypeOK, NoLoc, NoRec
<1>8. Joinable'
  BY DEF JoinFreesStack, Goto, At, Joinable, CallsApart, Made, Taken, Tabled, TypeOK, NoLoc, NoRec
<1>9. StacksApart'
  BY DEF JoinFreesStack, Goto, At, StacksApart, KeepsStack, CallsApart, Made, Taken, TypeOK, NoLoc, NoRec
<1> QED BY <1>1, <1>2, <1>3, <1>4, <1>5, <1>6, <1>7, <1>8, <1>9

LEMMA FreeSlotInv ==
  ASSUME IInv, NEW t \in Threads, host_free_thread_slot(t)
  PROVE  IInv'
<1> USE ThreadsAssumption DEF IInv, Making, Joining
<1>1. TypeOK'
  BY DEF host_free_thread_slot, Goto, At, TypeOK, NoLoc, NoRec
<1>2. CallsApart'
  BY DEF host_free_thread_slot, Goto, At, CallsApart, TypeOK, NoLoc, Threads, Running, Made, Taken
<1>3. Tabled'
  <2> DEFINE h == loc[t].rec
             i == loc[t].tid
  <2>1. /\ h \in Recs /\ rec[h].used /\ i = rec[h].tid /\ i \in Slots
        /\ pc[t] = "unslot" /\ pc'[t] = "free"
    BY DEF host_free_thread_slot, Goto, At, CallsApart, Taken, Tabled, TypeOK
  <2>2. threads[i] = h
    BY <2>1 DEF Tabled, CallsApart
  <2>3. threads'[i] = None /\ \A j \in Slots : j # i => threads'[j] = threads[j]
    BY <2>1 DEF host_free_thread_slot, TypeOK
  <2>4. loc' = loc /\ rec' = rec /\ \A u \in Threads : pc[u] = "free" => pc'[u] = "free"
    BY DEF host_free_thread_slot, Goto, At, TypeOK
  <2> QED BY <2>1, <2>2, <2>3, <2>4 DEF Tabled
<1>4. Blank'
  BY DEF host_free_thread_slot, Goto, At, Blank, CallsApart, Made, Taken, TypeOK, NoRec, NoLoc
<1>5. Made'
  BY DEF host_free_thread_slot, Goto, At, Made, CallsApart, TypeOK, NoLoc, NoRec, Tabled
<1>6. Taken'
  BY DEF host_free_thread_slot, Goto, At, Taken, CallsApart, TypeOK, NoLoc, NoRec, Tabled
<1>7. Kept'
  BY DEF host_free_thread_slot, Goto, At, Kept, CallsApart, Made, Taken, TypeOK, NoLoc, NoRec
<1>8. Joinable'
  BY DEF host_free_thread_slot, Goto, At, Joinable, CallsApart, Made, Taken, Tabled, TypeOK, NoLoc, NoRec
<1>9. StacksApart'
  <2>1. \A g \in Recs : rec'[g].used = rec[g].used /\ rec'[g].stack = rec[g].stack
    BY DEF host_free_thread_slot
  <2>2. \A g \in Recs : KeepsStack(g)' <=> KeepsStack(g)
    BY <2>1 DEF host_free_thread_slot, Goto, At, KeepsStack, CallsApart, TypeOK, NoLoc
  <2> QED BY <2>1, <2>2, StacksSame DEF host_free_thread_slot
<1> QED BY <1>1, <1>2, <1>3, <1>4, <1>5, <1>6, <1>7, <1>8, <1>9

LEMMA JoinFreesRecordInv ==
  ASSUME IInv, NEW t \in Threads, JoinFreesRecord(t)
  PROVE  IInv'
<1> USE ThreadsAssumption DEF IInv, Making, Joining
<1> DEFINE h == loc[t].rec
<1>0. /\ pc[t] = "free" /\ h \in Recs /\ os[h] = "none"
      /\ \A g \in Recs : g # h => rec'[g] = rec[g]
      /\ rec'[h] = NoRec
  BY DEF JoinFreesRecord, At, CallsApart, Taken, TypeOK
<1>1. TypeOK'
  BY DEF JoinFreesRecord, Return, Goto, At, TypeOK, NoLoc, NoRec
<1>2. CallsApart'
  BY DEF JoinFreesRecord, Return, Goto, At, CallsApart, TypeOK, NoLoc, Threads, Running, Made, Taken
<1>3. Tabled'
  BY DEF JoinFreesRecord, Return, Goto, At, Tabled, CallsApart, Made, Taken, TypeOK, NoRec, NoLoc
<1>4. Blank'
  BY <1>0 DEF JoinFreesRecord, Return, Goto, Blank, CallsApart, TypeOK, NoLoc
<1>5. Made'
  BY DEF JoinFreesRecord, Return, Goto, At, Made, CallsApart, TypeOK, NoLoc, NoRec, Tabled
<1>6. Taken'
  BY DEF JoinFreesRecord, Return, Goto, At, Taken, CallsApart, TypeOK, NoLoc, NoRec, Tabled
<1>7. Kept'
  BY DEF JoinFreesRecord, Return, Goto, At, Kept, CallsApart, Made, Taken, TypeOK, NoLoc, NoRec
<1>8. Joinable'
  BY DEF JoinFreesRecord, Return, Goto, At, Joinable, CallsApart, Made, Taken, Tabled, TypeOK, NoLoc, NoRec
<1>9. StacksApart'
  <2>1. ~KeepsStack(h)
    BY <1>0 DEF KeepsStack
  <2>2. ~rec'[h].used
    BY <1>0 DEF NoRec
  <2>3. /\ pc'[t] = "guest" /\ loc'[t].rec = None
        /\ \A u \in Threads : u # t => loc'[u] = loc[u] /\ pc'[u] = pc[u]
    BY DEF JoinFreesRecord, Return, Goto, TypeOK, NoLoc
  <2>4. \A g \in Recs : KeepsStack(g)' <=> KeepsStack(g)
    BY <1>0, <2>1, <2>2, <2>3 DEF KeepsStack
  <2>5. \A g \in Recs : KeepsStack(g) => rec'[g].stack = rec[g].stack
    BY <1>0, <2>1
  <2> QED BY <2>4, <2>5 DEF JoinFreesRecord, StacksApart
<1> QED BY <1>1, <1>2, <1>3, <1>4, <1>5, <1>6, <1>7, <1>8, <1>9

LEMMA JoinInv ==
  ASSUME IInv, ~JoinsTwice, NEW t \in Threads, NEW i \in Slots, host_pthread_join(t, i)
  PROVE  IInv'
<1> USE ThreadsAssumption DEF IInv, Making, Joining
<1> DEFINE h == threads[i]
<1>0. /\ pc[t] = "guest" /\ loc[t].rec = None /\ i \in rights /\ h \in Recs /\ rec[h].used
      /\ rec[h].tid = i /\ ~rec[h].cloned /\ \A u \in Threads : loc[u].rec # h
      /\ os[h] # "none" /\ rec[h].owned = rec[h].stack /\ t \in Running
  BY DEF host_pthread_join, MayJoin, At, CallsApart, Joinable, Tabled, Kept, TypeOK
<1>0a. /\ loc'[t].rec = h /\ loc'[t].tid = i /\ pc'[t] = "join" /\ rights' = rights \ {i}
       /\ \A u \in Threads : u # t => loc'[u] = loc[u] /\ pc'[u] = pc[u]
       /\ UNCHANGED <<threads, rec, os, mem>>
  BY DEF host_pthread_join, Goto, TypeOK
<1>1. TypeOK'
  BY DEF host_pthread_join, MayJoin, Goto, At, TypeOK, NoLoc, NoRec
<1>2. CallsApart'
  BY <1>0, <1>0a DEF CallsApart, Threads, Running
<1>3. Tabled'
  BY DEF host_pthread_join, MayJoin, Goto, At, Tabled, CallsApart, Made, Taken, TypeOK, NoRec, NoLoc
<1>4. Blank'
  BY DEF host_pthread_join, MayJoin, Goto, At, Blank, CallsApart, Made, Taken, TypeOK, NoRec, NoLoc
<1>5. Made'
  BY DEF host_pthread_join, MayJoin, Goto, At, Made, CallsApart, TypeOK, NoLoc, NoRec, Tabled
<1>6. Taken'
  BY <1>0, <1>0a DEF Taken, Tabled, TypeOK
<1>7. Kept'
  BY <1>0, <1>0a DEF Kept, Tabled
<1>8. Joinable'
  BY DEF host_pthread_join, MayJoin, Goto, At, Joinable, CallsApart, Made, Taken, Tabled, TypeOK, NoLoc, NoRec
<1>9. StacksApart'
  <2>1. \A g \in Recs : KeepsStack(g)' <=> KeepsStack(g)
    BY <1>0, <1>0a DEF KeepsStack
  <2> QED BY <1>0a, <2>1, StacksSame
<1> QED BY <1>1, <1>2, <1>3, <1>4, <1>5, <1>6, <1>7, <1>8, <1>9

LEMMA WorkerInv ==
  ASSUME IInv, NEW h \in Recs, worker_main(h)
  PROVE  IInv'
<1> USE ThreadsAssumption DEF IInv, Making, Joining
<1>1. TypeOK'
  BY DEF worker_main, TypeOK, NoLoc, NoRec
<1>2. CallsApart'
  BY DEF worker_main, CallsApart, TypeOK, NoLoc, Threads, Running, Made, Taken
<1>3. Tabled'
  BY DEF worker_main, Tabled, CallsApart, Made, Taken, TypeOK, NoRec, NoLoc
<1>4. Blank'
  BY DEF worker_main, Blank, CallsApart, Made, Taken, TypeOK, NoRec, NoLoc
<1>5. Made'
  BY DEF worker_main, Made, CallsApart, TypeOK, NoLoc, NoRec, Tabled
<1>6. Taken'
  BY DEF worker_main, Taken, CallsApart, TypeOK, NoLoc, NoRec, Tabled
<1>7. Kept'
  BY DEF worker_main, Kept, CallsApart, Made, Taken, TypeOK, NoLoc, NoRec
<1>8. Joinable'
  BY DEF worker_main, Joinable, CallsApart, Made, Taken, Tabled, TypeOK, NoLoc, NoRec
<1>9. StacksApart'
  <2>1. \A g \in Recs : KeepsStack(g)' <=> KeepsStack(g)
    BY DEF worker_main, KeepsStack
  <2> QED BY <2>1, StacksSame DEF worker_main
<1> QED BY <1>1, <1>2, <1>3, <1>4, <1>5, <1>6, <1>7, <1>8, <1>9

\* pthread_create and clone put a new record into the table.
LEMMA AllocInv ==
  ASSUME IInv, NEW t \in Threads, NEW h \in Recs, NEW cloned \in BOOLEAN, NEW s \in Stacks \cup {None},
         host_alloc_tid(t, h, cloned, s), cloned => s = None, s \notin mem,
         mem' = mem \cup ({s} \ {None}), UNCHANGED <<os, word, rights>>
  PROVE  IInv'
<1> USE ThreadsAssumption DEF IInv, Making, Joining
<1> DEFINE i == Min(FreeSlots)
           new == [NoRec EXCEPT !.used = TRUE, !.tid = i, !.cloned = cloned, !.stack = s]
<1>0. i \in Slots /\ threads[i] = None
  <2>1. FreeSlots \in SUBSET Nat /\ FreeSlots # {}
    BY DEF FreeSlots, Slots, host_alloc_tid
  <2>2. i \in FreeSlots
    BY <2>1, MinIn
  <2> QED BY <2>2 DEF FreeSlots
<1> HIDE DEF i
<1>a. /\ pc[t] = "guest" /\ ~rec[h].used /\ os[h] = "none" /\ t \in Running
      /\ threads' = [threads EXCEPT ![i] = h]
      /\ rec' = [rec EXCEPT ![h] = new]
      /\ loc' = [loc EXCEPT ![t] = [rec |-> h, tid |-> 0, stack |-> s]]
      /\ pc' = [pc EXCEPT ![t] = "spawn"]
  BY DEF host_alloc_tid, At, Goto, i
<1>n. /\ new \in Records
      /\ new.used = TRUE /\ new.tid = i /\ new.joined = FALSE /\ new.cloned = cloned
      /\ new.stack = s /\ new.owned = None
  BY <1>0 DEF NoRec, Records
<1> HIDE DEF new
<1>b. /\ loc[t].rec = None /\ i \notin rights
      /\ \A u \in Threads : loc[u].rec # h
      /\ \A j \in Slots : threads[j] # h
  BY <1>0, <1>a DEF CallsApart, Joinable, Blank, Tabled
<1>c. /\ \A g \in Recs : g # h => rec'[g] = rec[g]
      /\ rec'[h] = new
      /\ rec'[h].used = TRUE /\ rec'[h].tid = i /\ rec'[h].joined = FALSE /\ rec'[h].cloned = cloned
      /\ rec'[h].stack = s /\ rec'[h].owned = None
      /\ \A u \in Threads : u # t => loc'[u] = loc[u] /\ pc'[u] = pc[u]
      /\ loc'[t].rec = h /\ loc'[t].stack = s /\ pc'[t] = "spawn"
      /\ threads'[i] = h /\ \A j \in Slots : j # i => threads'[j] = threads[j]
  BY <1>0, <1>a, <1>n DEF TypeOK
<1>1. TypeOK'
  BY <1>0, <1>a, <1>n DEF TypeOK, Records
<1>2. CallsApart'
  BY <1>a, <1>b, <1>c DEF CallsApart, Threads, Running
<1>3. Tabled'
  BY <1>0, <1>a, <1>b, <1>c DEF Tabled, TypeOK
<1>4. Blank'
  BY <1>a, <1>b, <1>c DEF Blank
<1>5. Made'
  BY <1>a, <1>b, <1>c DEF Made
<1>6. Taken'
  BY <1>0, <1>a, <1>b, <1>c DEF Taken
<1>7. Kept'
  BY <1>a, <1>b, <1>c DEF Kept
<1>8. Joinable'
  BY <1>0, <1>a, <1>b, <1>c DEF Joinable, TypeOK
<1>9. StacksApart'
  <2>1. KeepsStack(h)'
    BY <1>b, <1>c DEF KeepsStack
  <2>2. \A g \in Recs : g # h => (KeepsStack(g)' <=> KeepsStack(g))
    BY <1>b, <1>c DEF KeepsStack
  <2>3. ~KeepsStack(h) /\ rec'[h].stack = s
    BY <1>a, <1>c DEF KeepsStack
  <2>4. \A g \in Recs : KeepsStack(g)' /\ rec'[g].stack # None => rec'[g].stack \in mem'
    BY <1>c, <2>2, <2>3 DEF StacksApart
  <2>5. \A g \in Recs : g # h /\ KeepsStack(g)' /\ rec'[g].stack # None => rec'[g].stack # s
    BY <1>c, <2>2 DEF StacksApart
  <2>6. \A g, f \in Recs : KeepsStack(g)' /\ KeepsStack(f)' /\ rec'[g].stack = rec'[f].stack
          /\ rec'[g].stack # None => g = f
    BY <1>c, <2>2, <2>3, <2>5 DEF StacksApart
  <2>7. \A x \in mem' : \E g \in Recs : KeepsStack(g)' /\ rec'[g].stack = x
    BY <1>c, <2>1, <2>2, <2>3 DEF StacksApart
  <2> QED BY <2>4, <2>6, <2>7 DEF StacksApart
<1> QED BY <1>1, <1>2, <1>3, <1>4, <1>5, <1>6, <1>7, <1>8, <1>9

LEMMA CreateInv ==
  ASSUME IInv, NEW t \in Threads, NEW h \in Recs, NEW s \in Stacks \cup {None},
         host_pthread_create(t, h, s)
  PROVE  IInv'
BY AllocInv DEF host_pthread_create

LEMMA CloneInv ==
  ASSUME IInv, NEW t \in Threads, NEW h \in Recs, yos_proc_clone(t, h)
  PROVE  IInv'
<1>1. None \notin mem
  BY ThreadsAssumption DEF IInv, TypeOK
<1> QED BY <1>1, AllocInv DEF yos_proc_clone

\* The thread starts, or everything is given back.
LEMMA SpawnInv ==
  ASSUME IInv, NEW t \in Threads, yos_clone_thread(t)
  PROVE  IInv'
<1> USE ThreadsAssumption DEF IInv, Making, Joining
<1> DEFINE h == loc[t].rec
           i == rec[h].tid
<1>0. /\ pc[t] = "spawn" /\ h \in Recs /\ rec[h].used /\ os[h] = "none" /\ t \in Running
      /\ i \in Slots /\ threads[i] = h /\ i \notin rights
      /\ rec[h].stack = loc[t].stack
      /\ \A u \in Threads : u # t => loc[u].rec # h
  BY DEF yos_clone_thread, At, CallsApart, Made, Tabled, TypeOK
<1>a. CASE os' = [os EXCEPT ![h] = "running"] /\ Goto(t, "mark") /\ UNCHANGED <<threads, rec, loc, mem>>
  <2>0. UNCHANGED <<threads, rec, loc, mem, word, rights>>
    BY <1>a DEF yos_clone_thread
  <2>a. /\ pc'[t] = "mark" /\ \A u \in Threads : u # t => pc'[u] = pc[u]
        /\ os'[h] = "running" /\ \A g \in Recs : g # h => os'[g] = os[g]
    BY <1>0, <1>a DEF Goto, TypeOK
  <2>1. TypeOK'
    BY <1>0, <1>a, <2>0 DEF Goto, TypeOK
  <2>2. CallsApart'
    BY <1>0, <2>0, <2>a DEF CallsApart, Threads, Running
  <2>3. Tabled'
    BY <1>0, <2>0, <2>a DEF Tabled
  <2>4. Blank'
    BY <1>0, <2>0, <2>a DEF Blank
  <2>5. Made'
    BY <1>0, <2>0, <2>a DEF Made, CallsApart, TypeOK
  <2>6. Taken'
    BY <1>0, <2>0, <2>a DEF Taken, CallsApart, TypeOK
  <2>7. Kept'
    BY <1>0, <2>0, <2>a DEF Kept
  <2>8. Joinable'
    BY <2>0 DEF Joinable
  <2>9. StacksApart'
    <3>1. \A g \in Recs : KeepsStack(g)' <=> KeepsStack(g)
      BY <1>0, <2>0, <2>a DEF KeepsStack
    <3> QED BY <2>0, <3>1, StacksSame
  <2> QED BY <2>1, <2>2, <2>3, <2>4, <2>5, <2>6, <2>7, <2>8, <2>9
<1>b. CASE /\ threads' = [threads EXCEPT ![i] = None]
           /\ rec' = [rec EXCEPT ![h] = NoRec]
           /\ mem' = mem \ {loc[t].stack}
           /\ Return(t) /\ UNCHANGED os
  <2>0. UNCHANGED <<os, word, rights>>
    BY <1>b DEF yos_clone_thread
  <2>a. /\ pc'[t] = "guest" /\ loc'[t].rec = None
        /\ \A u \in Threads : u # t => loc'[u] = loc[u] /\ pc'[u] = pc[u]
        /\ threads'[i] = None /\ \A j \in Slots : j # i => threads'[j] = threads[j]
        /\ rec'[h] = NoRec /\ \A g \in Recs : g # h => rec'[g] = rec[g]
    BY <1>0, <1>b DEF Return, Goto, TypeOK, NoLoc
  <2>1. TypeOK'
    BY <1>0, <1>b, <2>0 DEF Return, Goto, TypeOK, NoRec, NoLoc
  <2>2. CallsApart'
    BY <1>0, <2>0, <2>a DEF CallsApart, Threads, Running
  <2>b. ~rec'[h].used /\ \A j \in Slots : threads[j] = h => j = i
    BY <1>0, <2>a DEF NoRec, Tabled, CallsApart
  <2>3. Tabled'
    <3>1. ASSUME NEW j \in Slots, threads'[j] # None
          PROVE  rec'[threads'[j]].used /\ rec'[threads'[j]].tid = j
      <4>1. j # i /\ threads'[j] = threads[j] /\ threads[j] # h /\ threads[j] \in Recs
        BY <2>a, <2>b, <3>1 DEF TypeOK
      <4> QED BY <2>a, <3>1, <4>1 DEF Tabled
    <3>2. ASSUME NEW g \in Recs, rec'[g].used
          PROVE  /\ rec'[g].tid \in Slots
                 /\ \/ threads'[rec'[g].tid] = g
                    \/ \E u \in Threads : loc'[u].rec = g /\ pc'[u] = "free"
      <4>1. g # h /\ rec'[g] = rec[g] /\ rec[g].tid \in Slots
        BY <2>a, <2>b, <3>2 DEF Tabled
      <4>2. CASE threads[rec[g].tid] = g
        BY <1>0, <2>a, <4>1, <4>2
      <4>3. CASE \E u \in Threads : loc[u].rec = g /\ pc[u] = "free"
        BY <1>0, <2>a, <4>1, <4>3
      <4> QED BY <2>a, <3>2, <4>1, <4>2, <4>3 DEF Tabled
    <3> QED BY <3>1, <3>2 DEF Tabled
  <2>4. Blank'
    BY <1>0, <2>0, <2>a, <2>b DEF Blank, CallsApart
  <2>5. Made'
    BY <1>0, <2>0, <2>a DEF Made, CallsApart, TypeOK
  <2>6. Taken'
    BY <1>0, <2>0, <2>a DEF Taken, CallsApart, TypeOK
  <2>7. Kept'
    BY <1>0, <2>0, <2>a DEF Kept, NoRec
  <2>8. Joinable'
    <3>1. ASSUME NEW j \in rights
          PROVE  /\ threads'[j] # None /\ ~rec'[threads'[j]].cloned
                 /\ \A u \in Threads : loc'[u].rec # threads'[j]
      <4>1. j \in Slots /\ j # i /\ threads[j] \in Recs /\ threads[j] # h
        BY <1>0, <2>b DEF Joinable, TypeOK
      <4>2. threads'[j] = threads[j] /\ rec'[threads[j]] = rec[threads[j]]
        BY <2>a, <4>1
      <4>3. \A u \in Threads : loc'[u].rec # threads[j]
        BY <2>a, <4>1 DEF Joinable
      <4> QED BY <4>1, <4>2, <4>3 DEF Joinable
    <3> QED BY <2>0, <3>1 DEF Joinable
  <2>9. StacksApart'
    <3>1. \A g \in Recs : g # h => (KeepsStack(g)' <=> KeepsStack(g))
      BY <1>0, <2>0, <2>a DEF KeepsStack
    <3>2. (\A g \in Recs : g = h => ~KeepsStack(g)') /\ KeepsStack(h)
      BY <1>0, <2>a, <2>b DEF KeepsStack
    <3>3. \A g \in Recs : KeepsStack(g)' => g # h /\ KeepsStack(g) /\ rec'[g].stack = rec[g].stack
      BY <2>a, <3>1, <3>2
    <3>4. \A g \in Recs : KeepsStack(g)' /\ rec'[g].stack # None => rec'[g].stack \in mem'
      BY <1>0, <1>b, <3>2, <3>3 DEF StacksApart
    <3>5. \A x \in mem' : \E g \in Recs : KeepsStack(g)' /\ rec'[g].stack = x
      BY <1>0, <1>b, <2>a, <3>1 DEF StacksApart
    <3> QED BY <3>3, <3>4, <3>5 DEF StacksApart
  <2> QED BY <2>1, <2>2, <2>3, <2>4, <2>5, <2>6, <2>7, <2>8, <2>9
<1> QED BY <1>a, <1>b DEF yos_clone_thread

LEMMA StepInv == IInv /\ ~JoinsTwice /\ [Next]_vars => IInv'
<1> SUFFICES ASSUME IInv, ~JoinsTwice, [Next]_vars PROVE IInv'
  OBVIOUS
<1>1. CASE UNCHANGED vars
  BY <1>1 DEF vars, IInv, TypeOK, CallsApart, Tabled, Blank, Made, Taken, Kept, Joinable,
              StacksApart, KeepsStack
<1>2. CASE Next
  BY <1>2, NextCases, SpawnInv, MarkStartedInv, NoteStackInv, SetTidInv, JoinReturnsInv,
     JoinFreesStackInv, FreeSlotInv, JoinFreesRecordInv, CloneInv, CreateInv, JoinInv, WorkerInv
<1> QED BY <1>1, <1>2

----------------------------------------------------------------------------
(* Theorems *)

LEMMA Implied ==
  ASSUME IInv
  PROVE  NoDangling /\ OwnArena /\ NothingLeaks
<1> USE ThreadsAssumption DEF IInv, Making, Joining
<1>1. NoDangling
  <2>1. ASSUME NEW t \in Threads, NEW h \in Holds(t)
        PROVE  rec[h].used
    <3>1. CASE h \in Recs /\ os[h] # "none"
      BY <3>1 DEF Blank
    <3>2. CASE h = loc[t].rec /\ h # None
      BY <3>2 DEF CallsApart, Made, Taken, TypeOK
    <3> QED BY <2>1, <3>1, <3>2 DEF Holds
  <2> QED BY <2>1 DEF NoDangling, Tabled
<1>2. ASSUME NEW h \in Recs, os[h] # "none"
      PROVE  rec[h].used /\ threads[rec[h].tid] = h /\ KeepsStack(h)
  BY <1>2 DEF Blank, Tabled, Taken, KeepsStack
<1>3. OwnArena
  BY <1>2 DEF OwnArena, StacksApart
<1>4. NothingLeaks
  <2> SUFFICES ASSUME \A t \in Threads : pc[t] = "guest"
               PROVE  /\ \A i \in Slots : threads[i] # None => rec[threads[i]].cloned \/ i \in rights
                      /\ \A h \in Recs : rec[h].used => threads[rec[h].tid] = h
                      /\ mem = {rec[h].stack : h \in Recs} \ {None}
    BY DEF NothingLeaks
  <2>1. \A t \in Threads : loc[t].rec = None
    BY DEF CallsApart
  <2>2. \A h \in Recs : \A t \in Threads : loc[t].rec # h
    BY <2>1
  <2>3. \A i \in Slots : threads[i] # None => rec[threads[i]].cloned \/ i \in rights
    BY <2>2 DEF Tabled, Kept, TypeOK
  <2>4. \A h \in Recs : rec[h].used => threads[rec[h].tid] = h
    BY <2>2 DEF Tabled
  <2>5. \A h \in Recs : KeepsStack(h) <=> rec[h].used
    BY <2>2 DEF KeepsStack
  <2>6. \A h \in Recs : rec[h].stack # None => rec[h].used
    BY DEF Blank, NoRec
  <2>7. mem = {rec[h].stack : h \in Recs} \ {None}
    BY <2>5, <2>6 DEF StacksApart, TypeOK
  <2> QED BY <2>3, <2>4, <2>7
<1> QED BY <1>1, <1>3, <1>4

LEMMA Invariant ==
  ASSUME ~JoinsTwice
  PROVE  Spec => []IInv
<1>1. Init => IInv
  BY InitInv
<1>2. IInv /\ [Next]_vars => IInv'
  BY StepInv
<1> QED BY <1>1, <1>2, PTL DEF Spec

\* A record outlives its thread and everyone who looked it up in the table:
\* host_pthread_join frees it last, and nobody else is in a call with it.
THEOREM RecordsOutlive ==
  ASSUME ~JoinsTwice
  PROVE  Spec => []NoDangling
<1>1. Spec => []IInv
  BY Invariant
<1>2. IInv => NoDangling
  BY Implied
<1> QED BY <1>1, <1>2, PTL

\* Threads that run have slots, and so TLS arenas, and stacks of their own:
\* host_alloc_tid and yos_malloc never hand out what is still in use.
THEOREM ArenasApart ==
  ASSUME ~JoinsTwice
  PROVE  Spec => []OwnArena
<1>1. Spec => []IInv
  BY Invariant
<1>2. IInv => OwnArena
  BY Implied
<1> QED BY <1>1, <1>2, PTL

\* Neither a failing pthread_create of the host nor a join leaves a slot, a
\* record or a stack behind.
THEOREM ThreadsLeakNothing ==
  ASSUME ~JoinsTwice
  PROVE  Spec => []NothingLeaks
<1>1. Spec => []IInv
  BY Invariant
<1>2. IInv => NothingLeaks
  BY Implied
<1> QED BY <1>1, <1>2, PTL
=============================================================================
