--------------------------- MODULE SignalsProofs ---------------------------
(***************************************************************************)
(* What holds of the signals for any number of processes and signals and   *)
(* any depth of handlers inside handlers.                                  *)
(***************************************************************************)
EXTENDS Signals, WellFoundedInduction, SequenceTheorems, TLAPS

\* The sets given to sigsuspend are such that the word, installed with every
\* signal one position too low, still blocks all the guest asked for: the empty
\* set, the full one, or any set with the signal above each of its members.
SuspendSetsAgree ==
  \A S \in SuspendSets : Maskable(S) \subseteq Maskable(read_fbsd_sigset_lo(S))

----------------------------------------------------------------------------
(* The inductive invariant *)

\* A mask m blocks what the guest asked for, b, and never SIGKILL.
Covers(m, b) ==
  /\ m \subseteq Sigs /\ b \subseteq Sigs
  /\ SIGKILL \notin m
  /\ SuspendSetsAgree => b \subseteq m

Frames == [at : Places, saved : SUBSET Sigs, was : SUBSET Sigs, n : 0 .. Polls, arg : SUBSET Sigs]

\* A mask to be restored is as good as the one in force.
GoodFrames == {f \in Frames : Covers(f.saved, f.was)}

NoSynth(st) == \A i \in 1 .. Len(st) : st[i].at # "synth"

\* A sigsuspend between the read and the write of the pending word d is what
\* the thread is doing, and only kill may have added to the word since.
SynthOK(p, st, d) ==
  \A i \in 1 .. Len(st) : st[i].at = "synth" =>
    /\ i = Len(st) /\ p \in Parents
    /\ st[i].arg \subseteq d
    /\ p \notin Targets => st[i].arg = d

Typed ==
  /\ host \subseteq HostSigs
  /\ pending \in [Procs -> SUBSET Sigs]
  /\ disp \in [Procs -> [Sigs -> {"dfl", "ign", "fn"}]]
  /\ stack \in [Procs -> Seq(GoodFrames)]
  /\ mask \in [Procs -> SUBSET Sigs] /\ blocked \in [Procs -> SUBSET Sigs]

IInv ==
  /\ Typed
  /\ \A p \in Procs : Covers(mask[p], blocked[p])
  /\ \A p \in Procs : SynthOK(p, stack[p], pending[p])

----------------------------------------------------------------------------
(* Frames and stacks *)

LEMMA MinIn ==
  ASSUME NEW S \in SUBSET Nat, S # {}
  PROVE  Min(S) \in S
<1>1. PICK x \in S : \A y \in S : ~(<<y, x>> \in OpToRel(<, Nat))
  BY WFMin, NatLessThanWellFounded
<1>2. ASSUME NEW y \in S PROVE x =< y
  <2>1. y < x => <<y, x>> \in OpToRel(<, Nat)
    BY DEF OpToRel
  <2>2. ~(y < x)
    BY <1>1, <2>1, Zenon
  <2> QED BY <2>2
<1> QED BY <1>2 DEF Min

LEMMA NothingBlocked == Covers({}, {})
BY SignalsAssumption DEF Covers

\* A fresh frame has no mask to restore.
LEMMA FreshFrame ==
  ASSUME NEW at \in Places
  PROVE  Frame(at) \in GoodFrames /\ Frame(at).at = at
<1>1. 0 \in 0 .. Polls BY SignalsAssumption
<1>2. Frame(at) \in Frames BY <1>1 DEF Frame, Frames
<1>3. Frame(at).saved = {} /\ Frame(at).was = {} /\ Frame(at).at = at BY DEF Frame
<1> QED BY <1>2, <1>3, NothingBlocked DEF GoodFrames

\* A frame keeps its masks wherever it goes on, however often it has polled
\* and whatever it has read.
LEMMA MovedFrame ==
  ASSUME NEW f \in GoodFrames, NEW at \in Places
  PROVE  [f EXCEPT !.at = at] \in GoodFrames /\ [f EXCEPT !.at = at].at = at
<1>1. f \in Frames /\ Covers(f.saved, f.was) BY DEF GoodFrames
<1> DEFINE g == [f EXCEPT !.at = at]
<1>2. g \in Frames /\ g.at = at /\ g.saved = f.saved /\ g.was = f.was BY <1>1 DEF Frames
<1> QED BY <1>1, <1>2 DEF GoodFrames

LEMMA CountedFrame ==
  ASSUME NEW f \in GoodFrames, NEW k \in 0 .. Polls
  PROVE  [f EXCEPT !.n = k] \in GoodFrames /\ [f EXCEPT !.n = k].at = f.at
<1>1. f \in Frames /\ Covers(f.saved, f.was) BY DEF GoodFrames
<1> DEFINE g == [f EXCEPT !.n = k]
<1>2. g \in Frames /\ g.at = f.at /\ g.saved = f.saved /\ g.was = f.was BY <1>1 DEF Frames
<1> QED BY <1>1, <1>2 DEF GoodFrames

LEMMA ReadFrame ==
  ASSUME NEW f \in GoodFrames, NEW d \in SUBSET Sigs
  PROVE  [f EXCEPT !.arg = d] \in GoodFrames /\ [f EXCEPT !.arg = d].at = f.at
         /\ [f EXCEPT !.arg = d].arg = d
<1>1. f \in Frames /\ Covers(f.saved, f.was) BY DEF GoodFrames
<1> DEFINE g == [f EXCEPT !.arg = d]
<1>2. g \in Frames /\ g.at = f.at /\ g.saved = f.saved /\ g.was = f.was /\ g.arg = d
  BY <1>1 DEF Frames
<1> QED BY <1>1, <1>2 DEF GoodFrames

\* The frame of a sigsuspend keeps the masks that were in force.
LEMMA SavingFrame ==
  ASSUME NEW m, NEW b, Covers(m, b)
  PROVE  /\ [Frame("poll") EXCEPT !.saved = m, !.was = b] \in GoodFrames
         /\ [Frame("poll") EXCEPT !.saved = m, !.was = b].at = "poll"
<1>1. Frame("poll") \in Frames /\ Frame("poll").at = "poll"
  BY FreshFrame DEF GoodFrames, Places
<1>2. m \in SUBSET Sigs /\ b \in SUBSET Sigs BY DEF Covers
<1>3. ASSUME NEW f \in Frames, NEW g, g = [f EXCEPT !.saved = m, !.was = b]
      PROVE  g \in GoodFrames /\ g.at = f.at
  <2>1. g \in Frames /\ g.at = f.at /\ g.saved = m /\ g.was = b BY <1>2, <1>3 DEF Frames
  <2> QED BY <2>1 DEF GoodFrames
<1> QED BY <1>1, <1>3

\* The frames below the top one are frames of the stack, and none is between
\* the read and the write of the pending word.
LEMMA Unstacked ==
  ASSUME IInv, NEW p \in Procs, Alive(p)
  PROVE  /\ Below(p) \in Seq(GoodFrames) /\ Len(stack[p]) \in Nat \ {0}
         /\ Len(Below(p)) = Len(stack[p]) - 1
         /\ \A i \in 1 .. Len(Below(p)) : Below(p)[i] = stack[p][i]
         /\ Top(p) \in GoodFrames
         /\ NoSynth(Below(p))
         /\ Top(p).at # "synth" => NoSynth(stack[p])
<1>1. stack[p] \in Seq(GoodFrames) /\ stack[p] # <<>> BY DEF IInv, Typed, Alive
<1>2. Len(stack[p]) \in Nat \ {0} BY <1>1, EmptySeq
<1>3. /\ Below(p) \in Seq(GoodFrames)
      /\ Len(Below(p)) = Len(stack[p]) - 1
      /\ \A i \in 1 .. Len(Below(p)) : Below(p)[i] = stack[p][i]
  BY <1>1, <1>2 DEF Below
<1>4. Top(p) \in GoodFrames BY <1>1, <1>2 DEF Top
<1>5. \A i \in 1 .. Len(stack[p]) : stack[p][i].at = "synth" => i = Len(stack[p])
  BY DEF IInv, SynthOK
<1>6. NoSynth(Below(p)) BY <1>2, <1>3, <1>5 DEF NoSynth
<1>7. Top(p).at # "synth" => NoSynth(stack[p]) BY <1>2, <1>5 DEF NoSynth, Top
<1> QED BY <1>2, <1>3, <1>4, <1>6, <1>7

LEMMA Pushed ==
  ASSUME NEW st \in Seq(GoodFrames), NEW f \in GoodFrames, NoSynth(st)
  PROVE  /\ Append(st, f) \in Seq(GoodFrames)
         /\ f.at # "synth" => NoSynth(Append(st, f))
         /\ \A i \in 1 .. Len(Append(st, f)) :
              Append(st, f)[i].at = "synth" => i = Len(Append(st, f)) /\ Append(st, f)[i] = f
<1> DEFINE a == Append(st, f)
<1>1. /\ a \in Seq(GoodFrames) /\ Len(a) = Len(st) + 1 /\ Len(st) \in Nat
      /\ \A i \in 1 .. Len(st) : a[i] = st[i]
      /\ a[Len(st) + 1] = f
  OBVIOUS
<1> HIDE DEF a
<1>2. \A i \in 1 .. Len(a) : i \in 1 .. Len(st) \/ i = Len(a) BY <1>1
<1>3. \A i \in 1 .. Len(a) : a[i].at = "synth" => i = Len(a) /\ a[i] = f BY <1>1, <1>2 DEF NoSynth
<1>4. f.at # "synth" => NoSynth(a) BY <1>3 DEF NoSynth
<1> QED BY <1>1, <1>3, <1>4 DEF a

LEMMA NotReading ==
  ASSUME NEW p, NEW st, NEW d, NoSynth(st)
  PROVE  SynthOK(p, st, d)
BY DEF NoSynth, SynthOK

----------------------------------------------------------------------------
(* The steps *)

\* A step of one process changes its own words and its own stack.
OneProc(p, st) ==
  /\ host' \subseteq HostSigs
  /\ disp' \in [Procs -> [Sigs -> {"dfl", "ign", "fn"}]]
  /\ pending' \in [Procs -> SUBSET Sigs]
  /\ \A q \in Procs : q # p => pending'[q] = pending[q]
  /\ mask' \in [Procs -> SUBSET Sigs] /\ blocked' \in [Procs -> SUBSET Sigs]
  /\ \A q \in Procs : q # p => mask'[q] = mask[q] /\ blocked'[q] = blocked[q]
  /\ stack' = [stack EXCEPT ![p] = st]

LEMMA OneProcInv ==
  ASSUME IInv, NEW p \in Procs, NEW st \in Seq(GoodFrames), OneProc(p, st),
         Covers(mask'[p], blocked'[p]), SynthOK(p, st, pending'[p])
  PROVE  IInv'
<1>1. Typed' BY DEF OneProc, IInv, Typed
<1>2. \A q \in Procs : stack'[q] = IF q = p THEN st ELSE stack[q] BY DEF OneProc, IInv, Typed
<1>3. \A q \in Procs : Covers(mask'[q], blocked'[q]) BY DEF OneProc, IInv
<1>4. ASSUME NEW q \in Procs PROVE SynthOK(q, stack'[q], pending'[q])
  <2>1. CASE q = p BY <1>2, <2>1
  <2>2. CASE q # p
    <3>1. stack'[q] = stack[q] /\ pending'[q] = pending[q] BY <1>2, <2>2 DEF OneProc
    <3> QED BY <3>1 DEF IInv
  <2> QED BY <2>1, <2>2
<1> QED BY <1>1, <1>3, <1>4 DEF IInv, Covers, SynthOK

\* ... as most of them do without touching the masks, and not between the read
\* and the write of the pending word.
Plain(p, st) ==
  /\ host' \subseteq HostSigs
  /\ disp' \in [Procs -> [Sigs -> {"dfl", "ign", "fn"}]]
  /\ pending' \in [Procs -> SUBSET Sigs]
  /\ \A q \in Procs : q # p => pending'[q] = pending[q]
  /\ UNCHANGED <<mask, blocked>>
  /\ stack' = [stack EXCEPT ![p] = st]

LEMMA PlainInv ==
  ASSUME IInv, NEW p \in Procs, NEW st \in Seq(GoodFrames), Plain(p, st), NoSynth(st)
  PROVE  IInv'
<1>1. OneProc(p, st) BY DEF Plain, OneProc, IInv, Typed
<1>2. Covers(mask'[p], blocked'[p]) BY DEF Plain, IInv
<1>3. SynthOK(p, st, pending'[p]) BY NotReading
<1> QED BY <1>1, <1>2, <1>3, OneProcInv

\* The end of a process, or of all with pid 1.
LEMMA EndsInv ==
  ASSUME IInv, NEW p \in Procs, Ends(p), pending' \in [Procs -> SUBSET Sigs],
         \A q \in Procs : q # p => pending'[q] = pending[q],
         UNCHANGED <<host, mask, disp, blocked>>
  PROVE  IInv'
<1>1. <<>> \in Seq(GoodFrames) OBVIOUS
<1>2. stack' \in [Procs -> Seq(GoodFrames)] BY <1>1 DEF Ends, IInv, Typed
<1>3. \A q \in Procs : stack'[q] = IF q = p \/ p = Root THEN <<>> ELSE stack[q] BY DEF Ends
<1>4. ASSUME NEW q \in Procs PROVE SynthOK(q, stack'[q], pending'[q])
  <2>1. CASE stack'[q] = <<>>
    <3>1. NoSynth(<<>>) BY DEF NoSynth
    <3> QED BY <2>1, <3>1, NotReading
  <2>2. CASE stack'[q] # <<>>
    <3>1. stack'[q] = stack[q] /\ pending'[q] = pending[q] BY <1>3, <2>2
    <3> QED BY <3>1 DEF IInv
  <2> QED BY <2>1, <2>2
<1>5. Typed' BY <1>2 DEF IInv, Typed
<1>6. \A q \in Procs : Covers(mask'[q], blocked'[q]) BY DEF IInv
<1> QED BY <1>4, <1>5, <1>6 DEF IInv, Covers, SynthOK

LEMMA PlacesHave ==
  /\ "guest" \in Places /\ "take" \in Places /\ "kill" \in Places /\ "loop" \in Places
  /\ "poll" \in Places /\ "synth" \in Places /\ "restore" \in Places /\ "wait" \in Places
BY DEF Places

\* A thread goes on in its top frame, or in one frame more or less.
LEMMA MovedStack ==
  ASSUME IInv, NEW p \in Procs, Alive(p), NEW at \in Places, at # "synth"
  PROVE  Moved(p, at) \in Seq(GoodFrames) /\ NoSynth(Moved(p, at))
<1>1. [Top(p) EXCEPT !.at = at] \in GoodFrames /\ [Top(p) EXCEPT !.at = at].at = at
  BY Unstacked, MovedFrame
<1> QED BY <1>1, Unstacked, Pushed DEF Moved

LEMMA PushedStack ==
  ASSUME IInv, NEW p \in Procs, Alive(p), Top(p).at # "synth", NEW f \in GoodFrames, f.at # "synth"
  PROVE  Push(p, f) \in Seq(GoodFrames) /\ NoSynth(Push(p, f))
<1>1. stack[p] \in Seq(GoodFrames) BY DEF IInv, Typed
<1> QED BY <1>1, Unstacked, Pushed DEF Push

LEMMA SameStack ==
  ASSUME IInv, NEW p \in Procs, Alive(p), Top(p).at # "synth"
  PROVE  /\ stack[p] \in Seq(GoodFrames) /\ NoSynth(stack[p])
         /\ UNCHANGED stack => stack' = [stack EXCEPT ![p] = stack[p]]
<1>1. stack \in [Procs -> Seq(GoodFrames)] BY DEF IInv, Typed
<1> QED BY <1>1, Unstacked

\* The pump.
LEMMA PumpInv ==
  ASSUME IInv, NEW p \in Procs,
         yos_signal_pump(p) \/ PumpChecksKill(p) \/ PumpDelivers(p) \/ PumpReturns(p)
  PROVE  IInv'
<1>0. Typed BY DEF IInv
<1>1. CASE yos_signal_pump(p)
  <2>1. host \subseteq Sigs BY <1>0, SignalsAssumption DEF Typed
  <2>2. Plain(p, Moved(p, "kill")) BY <1>0, <1>1, <2>1 DEF yos_signal_pump, Plain, Typed, Set
  <2>3. Moved(p, "kill") \in Seq(GoodFrames) /\ NoSynth(Moved(p, "kill"))
    BY <1>1, MovedStack, PlacesHave DEF yos_signal_pump, At
  <2> QED BY <2>2, <2>3, PlainInv
<1>2. CASE PumpChecksKill(p)
  <2>1. CASE Ends(p) BY <1>0, <1>2, <2>1, EndsInv DEF PumpChecksKill, Typed
  <2>2. CASE Set(p, Moved(p, "loop"))
    <3>1. Plain(p, Moved(p, "loop")) BY <1>0, <1>2, <2>2 DEF PumpChecksKill, Plain, Typed, Set
    <3>2. Moved(p, "loop") \in Seq(GoodFrames) /\ NoSynth(Moved(p, "loop"))
      BY <1>2, MovedStack, PlacesHave DEF PumpChecksKill, At
    <3> QED BY <3>1, <3>2, PlainInv
  <2> QED BY <1>2, <2>1, <2>2 DEF PumpChecksKill
<1>3. CASE PumpDelivers(p)
  <2> DEFINE s == Min(Deliverable(p))
  <2>1. /\ pending' = [pending EXCEPT ![p] = @ \ {s}] /\ invoke_signal_handler(p, s)
        /\ UNCHANGED <<host, mask, disp, blocked>> /\ Alive(p) /\ Top(p).at = "loop"
    BY <1>3 DEF PumpDelivers, At
  <2> HIDE DEF s
  <2>2. /\ pending' \in [Procs -> SUBSET Sigs]
        /\ \A q \in Procs : q # p => pending'[q] = pending[q]
    BY <1>0, <2>1 DEF Typed
  <2>3. CASE Ends(p) BY <2>1, <2>2, <2>3, EndsInv
  <2>4. CASE UNCHANGED stack
    <3>1. stack[p] \in Seq(GoodFrames) /\ NoSynth(stack[p]) /\ stack' = [stack EXCEPT ![p] = stack[p]]
      BY <2>1, <2>4, SameStack
    <3>2. Plain(p, stack[p]) BY <1>0, <2>1, <2>2, <3>1 DEF Plain, Typed
    <3> QED BY <3>1, <3>2, PlainInv
  <2>5. CASE Set(p, Push(p, Frame("guest")))
    <3>1. Push(p, Frame("guest")) \in Seq(GoodFrames) /\ NoSynth(Push(p, Frame("guest")))
      BY <2>1, FreshFrame, PushedStack, PlacesHave
    <3>2. Plain(p, Push(p, Frame("guest"))) BY <1>0, <2>1, <2>2, <2>5 DEF Plain, Typed, Set
    <3> QED BY <3>1, <3>2, PlainInv
  <2> QED BY <2>1, <2>3, <2>4, <2>5 DEF invoke_signal_handler
<1>4. CASE PumpReturns(p)
  <2>1. Plain(p, Below(p)) BY <1>0, <1>4 DEF PumpReturns, Plain, Typed, Set
  <2> QED BY <1>4, <2>1, Unstacked, PlainInv DEF PumpReturns, At
<1> QED BY <1>1, <1>2, <1>3, <1>4

\* What the guest's word says of the signals, shifted to their positions.
LEMMA ShiftedBack ==
  ASSUME NEW S \in SUBSET (1 .. NSig + 1)
  PROVE  Maskable(Shifted(read_fbsd_sigset_lo(S))) = Maskable(S)
<1>1. NSig \in Nat BY SignalsAssumption
<1>2. ASSUME NEW x \in Sigs PROVE x \in Shifted(read_fbsd_sigset_lo(S)) <=> x \in S
  <2>1. x \in Nat /\ x >= 1 /\ x <= NSig BY <1>1 DEF Sigs
  <2>2. ASSUME x \in S PROVE x \in Shifted(read_fbsd_sigset_lo(S))
    <3>1. x - 1 \in read_fbsd_sigset_lo(S) BY <1>1, <2>1, <2>2 DEF read_fbsd_sigset_lo
    <3>2. x = (x - 1) + 1 BY <2>1
    <3> QED BY <3>1, <3>2 DEF Shifted
  <2>3. ASSUME x \in Shifted(read_fbsd_sigset_lo(S)) PROVE x \in S
    <3>1. PICK b \in read_fbsd_sigset_lo(S) : x = b + 1 BY <2>3 DEF Shifted
    <3>2. PICK y \in S : b = y - 1 BY <3>1 DEF read_fbsd_sigset_lo
    <3>3. y \in Int BY <1>1
    <3>4. x = y BY <2>1, <3>1, <3>2, <3>3
    <3> QED BY <3>2, <3>4
  <2> QED BY <2>2, <2>3
<1> QED BY <1>2 DEF Maskable

\* The masks the calls set.
LEMMA MasksCover ==
  /\ \A m, b : \A how \in How, S \in MaskSets : Covers(m, b) =>
       Covers(NewMask(how, m, Maskable(Shifted(read_fbsd_sigset_lo(S)))), NewMask(how, b, Maskable(S)))
  /\ \A S \in SuspendSets : Covers(Maskable(read_fbsd_sigset_lo(S)), Maskable(S))
<1>1. ASSUME NEW how \in How, NEW m, NEW b, NEW S \in MaskSets, Covers(m, b)
      PROVE  Covers(NewMask(how, m, Maskable(Shifted(read_fbsd_sigset_lo(S)))),
                    NewMask(how, b, Maskable(S)))
  <2> DEFINE w == Maskable(S)
  <2>1. S \in SUBSET (1 .. NSig + 1) BY SignalsAssumption
  <2>2. Maskable(Shifted(read_fbsd_sigset_lo(S))) = w BY <2>1, ShiftedBack
  <2>3. w \subseteq Sigs /\ SIGKILL \notin w BY DEF Maskable
  <2> HIDE DEF w
  <2>4. Covers(NewMask(how, m, w), NewMask(how, b, w))
    <3>1. CASE how = "block" BY <1>1, <2>3, <3>1 DEF NewMask, Covers
    <3>2. CASE how = "unblock" BY <1>1, <2>3, <3>2 DEF NewMask, Covers
    <3>3. CASE how = "set" BY <1>1, <2>3, <3>3 DEF NewMask, Covers
    <3> QED BY <3>1, <3>2, <3>3 DEF How
  <2> QED BY <2>2, <2>4 DEF w
<1>2. ASSUME NEW S \in SuspendSets PROVE Covers(Maskable(read_fbsd_sigset_lo(S)), Maskable(S))
  <2>1. \A W : Maskable(W) \subseteq Sigs /\ SIGKILL \notin Maskable(W) BY DEF Maskable
  <2> QED BY <2>1 DEF Covers, SuspendSetsAgree
<1> QED BY <1>1, <1>2

\* sigsuspend.
LEMMA SuspendInv ==
  ASSUME IInv, NEW p \in Procs, NEW S \in SuspendSets, yos_sigsuspend(p, S)
  PROVE  IInv'
<1>0. Typed BY DEF IInv
<1> DEFINE f == [Frame("poll") EXCEPT !.saved = mask[p], !.was = blocked[p]]
           g == Append(stack[p], f)
           st == Append(g, Frame("take"))
<1>1. Alive(p) /\ Top(p).at = "guest" BY DEF yos_sigsuspend, Shallow, Guest, At
<1>2. f \in GoodFrames /\ f.at = "poll" BY SavingFrame DEF IInv
<1>3. stack[p] \in Seq(GoodFrames) /\ NoSynth(stack[p]) BY <1>1, SameStack
<1>f. Frame("take") \in GoodFrames /\ Frame("take").at = "take" BY FreshFrame, PlacesHave
<1>4. stack' = [stack EXCEPT ![p] = stack[p] \o <<f, Frame("take")>>] BY DEF yos_sigsuspend, Set
<1> HIDE DEF f
<1>5. g \in Seq(GoodFrames) /\ NoSynth(g) BY <1>2, <1>3, Pushed
<1>6. stack[p] \o <<f, Frame("take")>> = st
  <2>1. \A h \in GoodFrames : stack[p] \o <<f, h>> = Append(Append(stack[p], f), h)
    BY <1>2, <1>3
  <2> QED BY <1>f, <2>1
<1> HIDE DEF g
<1>7. st \in Seq(GoodFrames) /\ NoSynth(st) BY <1>5, <1>f, Pushed
<1>8. stack' = [stack EXCEPT ![p] = st] BY <1>4, <1>6
<1>9. /\ mask' = [mask EXCEPT ![p] = Maskable(read_fbsd_sigset_lo(S))]
      /\ blocked' = [blocked EXCEPT ![p] = Maskable(S)]
      /\ UNCHANGED <<host, pending, disp>>
  BY DEF yos_sigsuspend
<1>10. Covers(Maskable(read_fbsd_sigset_lo(S)), Maskable(S)) BY MasksCover
<1>11. OneProc(p, st) BY <1>0, <1>8, <1>9, <1>10 DEF OneProc, Typed, Covers
<1>12. Covers(mask'[p], blocked'[p]) BY <1>0, <1>9, <1>10 DEF Typed
<1>13. SynthOK(p, st, pending'[p]) BY <1>7, NotReading
<1> HIDE DEF st
<1> QED BY <1>7, <1>11, <1>12, <1>13, OneProcInv

\* The end of a wait, which brings the caller's mask back.
LEMMA RestoredInv ==
  ASSUME IInv, NEW p \in Procs, Alive(p), Restored(p), UNCHANGED <<host, pending, disp>>
  PROVE  IInv'
<1>0. Typed BY DEF IInv
<1>1. Below(p) \in Seq(GoodFrames) /\ NoSynth(Below(p)) /\ Top(p) \in GoodFrames BY Unstacked
<1>2. Covers(Top(p).saved, Top(p).was) BY <1>1 DEF GoodFrames
<1>3. OneProc(p, Below(p)) BY <1>0, <1>2 DEF OneProc, Typed, Covers, Restored, Set
<1>4. Covers(mask'[p], blocked'[p]) BY <1>0, <1>2 DEF Typed, Restored
<1> QED BY <1>1, <1>3, <1>4, NotReading, OneProcInv

LEMMA PollInv ==
  ASSUME IInv, NEW p \in Procs,
         SuspendSeesZombie(p) \/ SuspendAddsSigchld(p) \/ SuspendPolls(p) \/ SuspendReturns(p)
  PROVE  IInv'
<1>0. Typed BY DEF IInv
<1>a. Alive(p)
  BY DEF SuspendSeesZombie, SuspendAddsSigchld, SuspendPolls, SuspendReturns, At
<1>b. /\ Below(p) \in Seq(GoodFrames) /\ NoSynth(Below(p)) /\ Top(p) \in GoodFrames
      /\ Top(p) \in Frames
  BY <1>a, Unstacked DEF GoodFrames
<1>1. CASE SuspendSeesZombie(p)
  <2> DEFINE f == [Top(p) EXCEPT !.at = "synth", !.arg = pending[p]]
             g == [Top(p) EXCEPT !.at = "synth"]
             st == Append(Below(p), f)
  <2>1. g \in GoodFrames /\ g.at = "synth" BY <1>b, MovedFrame, PlacesHave
  <2>2. pending[p] \in SUBSET Sigs BY <1>0 DEF Typed
  <2>3. f = [g EXCEPT !.arg = pending[p]] OBVIOUS
  <2>4. f \in GoodFrames /\ f.arg = pending[p]
    <3> HIDE DEF g, f
    <3> QED BY <2>1, <2>2, <2>3, ReadFrame
  <2>5. p \in Parents /\ stack' = [stack EXCEPT ![p] = st]
        /\ UNCHANGED <<host, pending, mask, disp, blocked>>
    BY <1>1 DEF SuspendSeesZombie, Set
  <2> HIDE DEF f, g
  <2>6. st \in Seq(GoodFrames)
        /\ \A i \in 1 .. Len(st) : st[i].at = "synth" => i = Len(st) /\ st[i] = f
    BY <1>b, <2>4, Pushed
  <2> HIDE DEF st
  <2>7. SynthOK(p, st, pending'[p]) BY <2>4, <2>5, <2>6 DEF SynthOK
  <2>8. OneProc(p, st) BY <1>0, <2>5 DEF OneProc, Typed
  <2>9. Covers(mask'[p], blocked'[p]) BY <2>5 DEF IInv
  <2> QED BY <2>6, <2>7, <2>8, <2>9, OneProcInv
<1>2. CASE SuspendAddsSigchld(p)
  <2> DEFINE st == Append(Moved(p, "restore"), Frame("take"))
  <2>1. Moved(p, "restore") \in Seq(GoodFrames) /\ NoSynth(Moved(p, "restore"))
    BY <1>a, MovedStack, PlacesHave
  <2>2. Frame("take") \in GoodFrames /\ Frame("take").at = "take" BY FreshFrame, PlacesHave
  <2>3. st \in Seq(GoodFrames) /\ NoSynth(st) BY <2>1, <2>2, Pushed
  <2>4. Top(p).arg \cup {SIGCHLD} \in SUBSET Sigs BY <1>b, SignalsAssumption DEF Frames
  <2>5. Plain(p, st) BY <1>0, <1>2, <2>4 DEF SuspendAddsSigchld, Plain, Typed, Set
  <2> HIDE DEF st
  <2> QED BY <2>3, <2>5, PlainInv
<1>3. CASE SuspendPolls(p)
  <2>1. CASE Restored(p) BY <1>3, <1>a, <2>1, RestoredInv DEF SuspendPolls
  <2>2. CASE /\ Top(p).n + 1 < Polls
             /\ Set(p, Append(Below(p), [Top(p) EXCEPT !.n = @ + 1]))
             /\ UNCHANGED <<mask, blocked>>
    <3> DEFINE f == [Top(p) EXCEPT !.n = Top(p).n + 1]
               st == Append(Below(p), f)
    <3>1. Top(p).n + 1 \in 0 .. Polls BY <1>b, <2>2, SignalsAssumption DEF Frames
    <3>2. f \in GoodFrames /\ f.at = Top(p).at BY <1>b, <3>1, CountedFrame
    <3>3. Top(p).at = "poll" BY <1>3 DEF SuspendPolls, At
    <3>4. stack' = [stack EXCEPT ![p] = st] BY <2>2 DEF Set
    <3> HIDE DEF f
    <3>5. st \in Seq(GoodFrames) /\ NoSynth(st) BY <1>b, <3>2, <3>3, Pushed
    <3> HIDE DEF st
    <3>6. Plain(p, st) BY <1>0, <1>3, <2>2, <3>4 DEF SuspendPolls, Plain, Typed
    <3> QED BY <3>5, <3>6, PlainInv
  <2> QED BY <1>3, <2>1, <2>2 DEF SuspendPolls
<1>4. CASE SuspendReturns(p) BY <1>4, <1>a, RestoredInv DEF SuspendReturns
<1> QED BY <1>1, <1>2, <1>3, <1>4

\* sigwait.
LEMMA WaitsInv ==
  ASSUME IInv, NEW p \in Procs, Waits(p)
  PROVE  IInv'
<1>0. Typed BY DEF IInv
<1>1. Alive(p) BY DEF Waits, At
<1>2. Below(p) \in Seq(GoodFrames) /\ NoSynth(Below(p)) BY <1>1, Unstacked
<1>3. Frame("take") \in GoodFrames /\ Frame("take").at = "take" BY FreshFrame, PlacesHave
<1>4. CASE \E x : pending' = [pending EXCEPT ![p] = @ \ {x}] /\ Set(p, Below(p))
  <2>1. Plain(p, Below(p)) BY <1>0, <1>4 DEF Waits, Plain, Typed, Set
  <2> QED BY <1>2, <2>1, PlainInv
<1>5. CASE Set(p, Append(Below(p), Frame("take"))) /\ UNCHANGED pending
  <2> DEFINE st == Append(Below(p), Frame("take"))
  <2>1. st \in Seq(GoodFrames) /\ NoSynth(st) BY <1>2, <1>3, Pushed
  <2>2. Plain(p, st) BY <1>0, <1>5 DEF Waits, Plain, Typed, Set
  <2> HIDE DEF st
  <2> QED BY <2>1, <2>2, PlainInv
<1> QED BY <1>4, <1>5 DEF Waits

LEMMA MaskInv ==
  ASSUME IInv, NEW p \in Procs, NEW how \in How, NEW S \in MaskSets, sigmask_apply(p, how, S)
  PROVE  IInv'
<1>0. Typed BY DEF IInv
<1>1. Alive(p) /\ Top(p).at = "guest" BY DEF sigmask_apply, Calls, Shallow, Guest, At
<1> DEFINE m == NewMask(how, mask[p], Maskable(Shifted(read_fbsd_sigset_lo(S))))
           b == NewMask(how, blocked[p], Maskable(S))
           st == IF pending[p] \subseteq mask'[p] THEN stack[p] ELSE Push(p, Frame("take"))
<1>2. Covers(m, b) BY MasksCover DEF IInv
<1>3. /\ mask' = [mask EXCEPT ![p] = m] /\ blocked' = [blocked EXCEPT ![p] = b]
      /\ stack' = [stack EXCEPT ![p] = st] /\ UNCHANGED <<host, pending, disp>>
  BY DEF sigmask_apply, Set
<1>4. st \in Seq(GoodFrames) /\ NoSynth(st)
  BY <1>1, SameStack, PushedStack, FreshFrame, PlacesHave
<1> HIDE DEF m, b, st
<1>5. OneProc(p, st) BY <1>0, <1>2, <1>3 DEF OneProc, Typed, Covers
<1>6. Covers(mask'[p], blocked'[p]) BY <1>0, <1>2, <1>3 DEF Typed
<1> QED BY <1>4, <1>5, <1>6, NotReading, OneProcInv

\* The guest's other calls, and its handlers' returns.
LEMMA CallsInv ==
  ASSUME IInv, NEW p \in Procs,
         \/ BlockingCall(p) \/ HandlerReturns(p) \/ yos_execve(p)
         \/ \E s \in Catchable : yos_raise(p, s) \/ \E d \in {"dfl", "ign", "fn"} : record_handler(p, s, d)
         \/ \E S \in WaitSets : yos_sigwait(p, S)
  PROVE  IInv'
<1>0. Typed BY DEF IInv
<1>1. Alive(p) /\ Top(p).at = "guest"
  BY DEF BlockingCall, HandlerReturns, yos_execve, yos_raise, record_handler, yos_sigwait, Calls, Shallow,
         Guest, At
<1>2. /\ stack[p] \in Seq(GoodFrames) /\ NoSynth(stack[p])
      /\ UNCHANGED stack => stack' = [stack EXCEPT ![p] = stack[p]]
  BY <1>1, SameStack
<1> DEFINE st == Push(p, Frame("take"))
<1>3. st \in Seq(GoodFrames) /\ NoSynth(st)
  BY <1>1, PushedStack, FreshFrame, PlacesHave
<1>4. CASE BlockingCall(p)
  <2>1. Plain(p, st) BY <1>0, <1>4 DEF BlockingCall, Plain, Typed, Set
  <2> HIDE DEF st
  <2> QED BY <1>3, <2>1, PlainInv
<1>5. CASE HandlerReturns(p)
  <2>1. Plain(p, Below(p)) BY <1>0, <1>5 DEF HandlerReturns, Plain, Typed, Set
  <2> QED BY <1>1, <2>1, Unstacked, PlainInv
<1>6. CASE yos_execve(p)
  <2>1. disp[p] \in [Sigs -> {"dfl", "ign", "fn"}] BY <1>0 DEF Typed
  <2>2. [s \in Sigs |-> IF disp[p][s] = "ign" THEN "ign" ELSE "dfl"] \in [Sigs -> {"dfl", "ign", "fn"}]
    OBVIOUS
  <2>3. disp' \in [Procs -> [Sigs -> {"dfl", "ign", "fn"}]]
    BY <1>0, <1>6, <2>2 DEF yos_execve, Typed
  <2>4. Plain(p, stack[p]) BY <1>0, <1>2, <1>6, <2>3 DEF yos_execve, Plain, Typed
  <2> QED BY <1>2, <2>4, PlainInv
<1>7. ASSUME NEW s \in Catchable, yos_raise(p, s) PROVE IInv'
  <2>1. s \in Sigs BY SignalsAssumption
  <2>2. Plain(p, st) BY <1>0, <1>7, <2>1 DEF yos_raise, Plain, Typed, Set
  <2> HIDE DEF st
  <2> QED BY <1>3, <2>2, PlainInv
<1>8. ASSUME NEW s \in Catchable, NEW d \in {"dfl", "ign", "fn"}, record_handler(p, s, d) PROVE IInv'
  <2>1. disp[p] \in [Sigs -> {"dfl", "ign", "fn"}] BY <1>0 DEF Typed
  <2>2. [disp[p] EXCEPT ![s] = d] \in [Sigs -> {"dfl", "ign", "fn"}] BY <2>1
  <2>3. disp' \in [Procs -> [Sigs -> {"dfl", "ign", "fn"}]]
    BY <1>0, <1>8, <2>2 DEF record_handler, Typed
  <2>4. Plain(p, stack[p]) BY <1>0, <1>2, <1>8, <2>3 DEF record_handler, Plain, Typed
  <2> QED BY <1>2, <2>4, PlainInv
<1>9. ASSUME NEW S \in WaitSets, yos_sigwait(p, S) PROVE IInv'
  <2> DEFINE f == [Frame("wait") EXCEPT !.arg = Shifted(read_fbsd_sigset_lo(S))]
  <2>1. Shifted(read_fbsd_sigset_lo(S)) \in SUBSET Sigs BY DEF Shifted
  <2>2. f \in GoodFrames /\ f.at # "synth" BY <2>1, FreshFrame, ReadFrame, PlacesHave
  <2>3. stack' = [stack EXCEPT ![p] = Push(p, f)] /\ UNCHANGED <<host, pending, mask, disp, blocked>>
    BY <1>9 DEF yos_sigwait, Set
  <2> HIDE DEF f
  <2>4. Push(p, f) \in Seq(GoodFrames) /\ NoSynth(Push(p, f)) BY <1>1, <2>2, PushedStack
  <2>5. Plain(p, Push(p, f)) BY <1>0, <2>3 DEF Plain, Typed
  <2> QED BY <2>4, <2>5, PlainInv
<1> QED BY <1>4, <1>5, <1>6, <1>7, <1>8, <1>9

\* The senders: kill may add to the word a sigsuspend of its target has read.
LEMMA SendersInv ==
  ASSUME IInv,
         \/ \E p \in Procs, s \in KillSigs : deliver_to_proc(p, s)
         \/ \E s \in HostSigs : yos_signal_set_pending(s)
  PROVE  IInv'
<1>0. Typed BY DEF IInv
<1>1. ASSUME NEW p \in Procs, NEW s \in KillSigs, deliver_to_proc(p, s) PROVE IInv'
  <2>1. s \in Sigs BY SignalsAssumption
  <2>2. /\ p \in Targets /\ pending' = [pending EXCEPT ![p] = pending[p] \cup {s}]
        /\ UNCHANGED <<host, mask, disp, stack, blocked>>
    BY <1>1 DEF deliver_to_proc
  <2>3. stack[p] \in Seq(GoodFrames) /\ stack' = [stack EXCEPT ![p] = stack[p]]
    BY <1>0, <2>2 DEF Typed
  <2>4. SynthOK(p, stack[p], pending[p]) BY DEF IInv
  <2>5. pending'[p] = pending[p] \cup {s} BY <1>0, <2>2 DEF Typed
  <2>6. SynthOK(p, stack[p], pending'[p]) BY <2>2, <2>4, <2>5 DEF SynthOK
  <2>7. OneProc(p, stack[p]) BY <1>0, <2>1, <2>2, <2>3 DEF OneProc, Typed
  <2>8. Covers(mask'[p], blocked'[p]) BY <2>2 DEF IInv
  <2> QED BY <2>3, <2>6, <2>7, <2>8, OneProcInv
<1>2. ASSUME NEW s \in HostSigs, yos_signal_set_pending(s) PROVE IInv'
  <2>1. host' \subseteq HostSigs /\ UNCHANGED <<pending, mask, disp, stack, blocked>>
    BY <1>0, <1>2 DEF yos_signal_set_pending, Typed
  <2> QED BY <2>1 DEF IInv, Typed, Covers, SynthOK
<1> QED BY <1>1, <1>2

LEMMA InitInv == Init => IInv
<1> SUFFICES ASSUME Init PROVE IInv OBVIOUS
<1>1. Frame("guest") \in GoodFrames /\ Frame("guest").at = "guest" BY FreshFrame, PlacesHave
<1>2. <<Frame("guest")>> \in Seq(GoodFrames) /\ NoSynth(<<Frame("guest")>>) BY <1>1 DEF NoSynth
<1>3. Typed BY <1>2 DEF Init, Typed
<1>4. \A p \in Procs : Covers(mask[p], blocked[p]) BY NothingBlocked DEF Init
<1>5. \A p \in Procs : SynthOK(p, stack[p], pending[p]) BY <1>2, NotReading DEF Init
<1> QED BY <1>3, <1>4, <1>5 DEF IInv

LEMMA NextInv == IInv /\ [Next]_vars => IInv'
<1> SUFFICES ASSUME IInv, [Next]_vars PROVE IInv' OBVIOUS
<1>1. ASSUME NEW p \in Procs, Inside(p) PROVE IInv'
  BY <1>1, PumpInv, PollInv, WaitsInv DEF Inside
<1>2. ASSUME NEW p \in Procs, GuestStep(p) PROVE IInv'
  BY <1>2, MaskInv, SuspendInv, CallsInv DEF GuestStep
<1>3. CASE UNCHANGED vars BY <1>3 DEF vars, IInv, Typed, Covers, SynthOK
<1> QED BY <1>1, <1>2, <1>3, SendersInv DEF Next

\* The strengthening is an invariant, whatever the sets and however deep
\* handlers, pumps and waits are nested.
THEOREM SignalsInvariant == Spec => []IInv
BY InitInv, NextInv, PTL DEF Spec

\* SIGKILL is in no mask, neither in force nor to be restored by a sigsuspend.
KillOpen ==
  \A p \in Procs : SIGKILL \notin mask[p] /\ \A i \in 1 .. Len(stack[p]) : SIGKILL \notin stack[p][i].saved

\* No sequence of masks, waits and handlers gets SIGKILL past the filters of
\* sigmask_apply and sigsuspend.
THEOREM KillUnmaskable == Spec => []KillOpen
<1>1. IInv => KillOpen
  <2> SUFFICES ASSUME IInv, NEW p \in Procs
               PROVE  SIGKILL \notin mask[p] /\ \A i \in 1 .. Len(stack[p]) : SIGKILL \notin stack[p][i].saved
    BY DEF KillOpen
  <2>1. SIGKILL \notin mask[p] BY DEF IInv, Covers
  <2>2. stack[p] \in Seq(GoodFrames) BY DEF IInv, Typed
  <2>3. \A f \in GoodFrames : SIGKILL \notin f.saved BY DEF GoodFrames, Covers
  <2> QED BY <2>1, <2>2, <2>3
<1> QED BY <1>1, SignalsInvariant, PTL

----------------------------------------------------------------------------
(* What may happen to a pending signal *)

\* Signals leave the pending word of p only by what takes them out ...
Leaves(p) ==
  \A s \in pending[p] \ pending'[p] :
    \/ PumpDelivers(p) /\ s = Min(Deliverable(p))
    \/ Waits(p) /\ s = Min(pending[p] \cap Top(p).arg)
    \/ yos_execve(p)

\* ... and enter it only because they were sent.
Enters(p) ==
  \A s \in pending'[p] \ pending[p] :
    \/ s \in host \ host'
    \/ s = SIGCHLD /\ SuspendAddsSigchld(p)
    \/ deliver_to_proc(p, s) \/ yos_raise(p, s)

\* The store of a sigsuspend that saw a zombie child: what it writes is what it
\* read, and that is the word itself but for what kill has added since.
LEMMA SigchldAdded ==
  ASSUME IInv, NEW p \in Procs, SuspendAddsSigchld(p)
  PROVE  /\ Enters(p)
         /\ p \notin Targets \cap Parents => Leaves(p)
<1>1. Alive(p) /\ Top(p).at = "synth" BY DEF SuspendAddsSigchld, At
<1>2. Len(stack[p]) \in 1 .. Len(stack[p]) BY <1>1, Unstacked
<1>3. /\ p \in Parents /\ Top(p).arg \subseteq pending[p]
      /\ p \notin Targets => Top(p).arg = pending[p]
  BY <1>1, <1>2 DEF IInv, SynthOK, Top
<1>4. pending'[p] = Top(p).arg \cup {SIGCHLD} BY DEF SuspendAddsSigchld, IInv, Typed
<1>5. Enters(p) BY <1>3, <1>4 DEF Enters
<1>6. p \notin Targets => pending[p] \subseteq pending'[p] BY <1>3, <1>4
<1> QED BY <1>3, <1>5, <1>6 DEF Leaves

LEMMA StepConserves ==
  ASSUME IInv, Next, NEW p \in Procs
  PROVE  Enters(p) /\ (p \notin Targets \cap Parents => Leaves(p))
<1>0. pending \in [Procs -> SUBSET Sigs] BY DEF IInv, Typed
<1>1. ASSUME pending'[p] = pending[p] PROVE Enters(p) /\ Leaves(p)
  BY <1>1 DEF Enters, Leaves
<1>2. ASSUME NEW q \in Procs, Inside(q) PROVE Enters(p) /\ (p \notin Targets \cap Parents => Leaves(p))
  <2>1. CASE q # p
    <3>1. pending'[p] = pending[p]
      BY <1>0, <1>2, <2>1
      DEF Inside, yos_signal_pump, PumpChecksKill, PumpDelivers, PumpReturns, SuspendSeesZombie,
          SuspendAddsSigchld, SuspendPolls, SuspendReturns, Waits
    <3> QED BY <1>1, <3>1
  <2>2. CASE q = p
    <3>1. CASE PumpChecksKill(p) \/ PumpReturns(p) \/ SuspendSeesZombie(p) \/ SuspendPolls(p)
               \/ SuspendReturns(p)
      BY <1>1, <3>1
      DEF PumpChecksKill, PumpReturns, SuspendSeesZombie, SuspendPolls, SuspendReturns
    <3>2. CASE yos_signal_pump(p)
      <4>1. pending'[p] = pending[p] \cup host /\ host' = {} BY <1>0, <3>2 DEF yos_signal_pump
      <4> QED BY <4>1 DEF Enters, Leaves
    <3>3. CASE PumpDelivers(p)
      <4>1. pending'[p] = pending[p] \ {Min(Deliverable(p))} BY <1>0, <3>3 DEF PumpDelivers
      <4> QED BY <3>3, <4>1 DEF Enters, Leaves
    <3>4. CASE SuspendAddsSigchld(p) BY <3>4, SigchldAdded
    <3>5. CASE Waits(p)
      <4>1. \/ pending'[p] = pending[p] \ {Min(pending[p] \cap Top(p).arg)}
            \/ pending'[p] = pending[p]
        BY <1>0, <3>5 DEF Waits
      <4> QED BY <1>1, <3>5, <4>1 DEF Enters, Leaves
    <3> QED BY <1>2, <2>2, <3>1, <3>2, <3>3, <3>4, <3>5 DEF Inside
  <2> QED BY <2>1, <2>2
<1>3. ASSUME NEW q \in Procs, GuestStep(q) PROVE Enters(p) /\ Leaves(p)
  <2>1. CASE yos_execve(q)
    <3>1. pending'[q] = {} /\ \A r \in Procs : r # q => pending'[r] = pending[r]
      BY <1>0, <2>1 DEF yos_execve
    <3>2. CASE q = p BY <2>1, <3>1, <3>2 DEF Enters, Leaves
    <3>3. CASE q # p BY <1>1, <3>1, <3>3
    <3> QED BY <3>2, <3>3
  <2>2. ASSUME NEW s \in Catchable, yos_raise(q, s) PROVE Enters(p) /\ Leaves(p)
    <3>1. pending'[q] = pending[q] \cup {s} /\ \A r \in Procs : r # q => pending'[r] = pending[r]
      BY <1>0, <2>2 DEF yos_raise
    <3>2. CASE q = p BY <2>2, <3>1, <3>2 DEF Enters, Leaves
    <3>3. CASE q # p BY <1>1, <3>1, <3>3
    <3> QED BY <3>2, <3>3
  <2>3. CASE UNCHANGED pending BY <1>1, <2>3
  <2>4. ASSUME ~UNCHANGED pending
        PROVE  yos_execve(q) \/ \E s \in Catchable : yos_raise(q, s)
    BY <1>3, <2>4
    DEF GuestStep, BlockingCall, HandlerReturns, record_handler, sigmask_apply, yos_sigsuspend, yos_sigwait
  <2> QED BY <2>1, <2>2, <2>3, <2>4
<1>4. ASSUME NEW q \in Procs, NEW s \in KillSigs, deliver_to_proc(q, s) PROVE Enters(p) /\ Leaves(p)
  <2>1. pending'[q] = pending[q] \cup {s} /\ \A r \in Procs : r # q => pending'[r] = pending[r]
    BY <1>0, <1>4 DEF deliver_to_proc
  <2>2. CASE q = p BY <1>4, <2>1, <2>2 DEF Enters, Leaves
  <2>3. CASE q # p BY <1>1, <2>1, <2>3
  <2> QED BY <2>2, <2>3
<1>5. ASSUME NEW s \in HostSigs, yos_signal_set_pending(s) PROVE Enters(p) /\ Leaves(p)
  BY <1>1, <1>5 DEF yos_signal_set_pending
<1> QED BY <1>2, <1>3, <1>4, <1>5 DEF Next

\* No step invents a signal, and none loses one of a process that is not both
\* sent signals by kill and waiting in sigsuspend for its children: the race of
\* kill with sigsuspend's read and write of the word is the only one that does.
THEOREM OnlySigchldRaces ==
  Spec => [][\A p \in Procs : Enters(p) /\ (p \notin Targets \cap Parents => Leaves(p))]_vars
<1>1. ASSUME IInv, [Next]_vars
      PROVE  [\A p \in Procs : Enters(p) /\ (p \notin Targets \cap Parents => Leaves(p))]_vars
  BY <1>1, StepConserves
<1> QED BY <1>1, SignalsInvariant, PTL DEF Spec

\* Where no process is both, a signal leaves the pending word only when it is
\* delivered or waited for, or its process ends or executes another program.
THEOREM PendingConserved ==
  ASSUME Targets \cap Parents = {}
  PROVE  Spec => SignalsConserved
<1>1. ASSUME IInv, [Next]_vars
      PROVE  [\A p \in Procs : stack'[p] # <<>> => Leaves(p) /\ Enters(p)]_vars
  BY <1>1, StepConserves
<1>2. ASSUME IInv, [Next]_vars
      PROVE  [\A p \in Procs : stack'[p] # <<>> =>
                /\ \A s \in pending[p] \ pending'[p] :
                     \/ PumpDelivers(p) /\ s = Min(Deliverable(p))
                     \/ Waits(p) /\ s = Min(pending[p] \cap Top(p).arg)
                     \/ yos_execve(p)
                /\ \A s \in pending'[p] \ pending[p] :
                     \/ s \in host \ host'
                     \/ s = SIGCHLD /\ SuspendAddsSigchld(p)
                     \/ deliver_to_proc(p, s) \/ yos_raise(p, s)]_vars
  BY <1>1, <1>2 DEF Leaves, Enters
<1> QED BY <1>2, SignalsInvariant, PTL DEF Spec, SignalsConserved

\* As long as the sets given to sigsuspend survive its missing shift, no signal
\* is handled, and none ends a process, while the guest has it blocked: not in
\* handlers inside waits inside handlers, nor after the masks come back.
THEOREM BlockedAreHeld ==
  ASSUME SuspendSetsAgree
  PROVE  Spec => BlockedHeld
<1>1. ASSUME IInv, NEW p \in Procs, NEW s \in pending[p] \ pending'[p], PumpDelivers(p)
      PROVE  s \notin blocked[p]
  <2>1. pending \in [Procs -> SUBSET Sigs] BY <1>1 DEF IInv, Typed
  <2>2. s = Min(Deliverable(p)) /\ Deliverable(p) # {} BY <1>1, <2>1 DEF PumpDelivers
  <2>3. Deliverable(p) \in SUBSET Nat
    <3>1. Sigs \subseteq Nat BY SignalsAssumption DEF Sigs
    <3> QED BY <2>1, <3>1 DEF Deliverable
  <2>4. s \notin mask[p] BY <2>2, <2>3, MinIn DEF Deliverable
  <2> QED BY <1>1, <2>4 DEF IInv, Covers
<1>2. ASSUME IInv, [Next]_vars
      PROVE  [\A p \in Procs : \A s \in pending[p] \ pending'[p] :
                PumpDelivers(p) => s \notin blocked[p]]_vars
  BY <1>1, <1>2
<1> QED BY <1>2, SignalsInvariant, PTL DEF Spec, BlockedHeld
=============================================================================
