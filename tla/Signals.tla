------------------------------ MODULE Signals ------------------------------
(***************************************************************************)
(* Signals as the guests see them (impl/proc/sig.c, deliver_to_proc and    *)
(* yos_kill of impl/proc/proc.c, the host's handlers of main.c).           *)
(*                                                                         *)
(* A signal is a bit of sig_pending until the target itself, in the pump   *)
(* that every blocking call runs, takes it out and calls the handler.  The *)
(* handler is guest code and makes calls of its own, so the thread of a    *)
(* process is a stack of frames: guest code, a pump, a sigsuspend or a     *)
(* sigwait, whichever it is in, on top.                                    *)
(*                                                                         *)
(* Signals here are the numbers the internal words use as bit positions.   *)
(* A sigset_t of the guest has signal s at bit s - 1; the conversions      *)
(* between the two are in sigmask_apply, sigwait and sigsuspend.           *)
(***************************************************************************)
EXTENDS Integers, Sequences, FiniteSetsExt

CONSTANTS
  Procs, Root,         \* running processes; Root is pid 1
  NSig,                \* signals are 1 .. NSig
  SIGKILL, SIGCHLD,
  Terminating,         \* default_action_is_terminate
  HostSigs,            \* signals the host's handlers forward
  Targets, KillSigs,   \* processes that are sent signals with kill, and which
  Parents,             \* processes that may have a zombie child
  Catchable,           \* signals the guests set dispositions for
  MaskSets,            \* the sets guests give to sigprocmask
  SuspendSets,         \* the sets they give to sigsuspend
  WaitSets,            \* the sets they give to sigwait
  Handling,            \* processes that call more than sigsuspend and what pumps
  Execs,               \* processes that execute another program
  Polls,               \* 200, the iterations of sigsuspend
  MaxNest              \* bound on the frames below which guest code makes calls

VARIABLES
  host,       \* g_host_pending_signals
  pending, mask, disp,
  stack,      \* the thread of each process; empty once it has ended
  blocked     \* the mask as the guest set it, in signal numbers

vars == <<host, pending, mask, disp, stack, blocked>>

Sigs == 1 .. NSig

\* The words have 32 bits: signal NSig + 1 stands for those beyond them.
ASSUME SignalsAssumption ==
  /\ Root \in Procs /\ NSig \in Nat /\ {SIGKILL, SIGCHLD} \subseteq Sigs
  /\ SIGKILL \in Terminating /\ Terminating \subseteq Sigs /\ HostSigs \subseteq Sigs /\ KillSigs \subseteq Sigs
  /\ Targets \subseteq Procs /\ Parents \subseteq Procs /\ Handling \subseteq Procs
  /\ Execs \subseteq Procs
  /\ Catchable \subseteq Sigs
  /\ \A S \in MaskSets \cup SuspendSets \cup WaitSets : S \subseteq 1 .. NSig + 1
  /\ Polls \in Nat \ {0} /\ MaxNest \in Nat

Places == {"guest", "take", "kill", "loop", "poll", "synth", "restore", "wait"}

\* saved and was: the mask to restore; n: iterations; arg: sigwait's set, or
\* the pending word sigsuspend has read.
Frame(at) == [at |-> at, saved |-> {}, was |-> {}, n |-> 0, arg |-> {}]

TypeOK ==
  /\ host \subseteq HostSigs
  /\ pending \in [Procs -> SUBSET Sigs] /\ mask \in [Procs -> SUBSET Sigs]
  /\ disp \in [Procs -> [Sigs -> {"dfl", "ign", "fn"}]]
  /\ blocked \in [Procs -> SUBSET Sigs]
  /\ \A p \in Procs : \A i \in DOMAIN stack[p] :
       stack[p][i] \in [at : Places, saved : SUBSET Sigs, was : SUBSET Sigs,
                        n : 0 .. Polls, arg : SUBSET Sigs]

Init ==
  /\ host = {}
  /\ pending = [p \in Procs |-> {}] /\ mask = [p \in Procs |-> {}]
  /\ disp = [p \in Procs |-> [s \in Sigs |-> "dfl"]]
  /\ stack = [p \in Procs |-> <<Frame("guest")>>]
  /\ blocked = [p \in Procs |-> {}]

-----------------------------------------------------------------------------
(* The stack *)

Alive(p) == stack[p] # <<>>
Top(p) == stack[p][Len(stack[p])]
Below(p) == SubSeq(stack[p], 1, Len(stack[p]) - 1)
At(p, at) == Alive(p) /\ Top(p).at = at

Push(p, f) == Append(stack[p], f)
Moved(p, at) == Append(Below(p), [Top(p) EXCEPT !.at = at])
Set(p, st) == stack' = [stack EXCEPT ![p] = st]

\* Guest code runs: the program itself, or a handler in which it may still
\* make calls.
Guest(p) == At(p, "guest")
Shallow(p) == Guest(p) /\ Len(stack[p]) < MaxNest
Calls(p) == Shallow(p) /\ p \in Handling

-----------------------------------------------------------------------------
(* The pump *)

\* The process has ended; pid 1 takes the host process with it.
Ends(p) == stack' = [q \in Procs |-> IF q = p \/ p = Root THEN <<>> ELSE stack[q]]

\* Mutant: the pump looks at the process's own word only.
PumpOwnOnly(p) ==
  /\ At(p, "take")
  /\ Set(p, Moved(p, "kill"))
  /\ UNCHANGED <<host, pending, mask, disp, blocked>>

\* A call of yos_signal_pump starts: the host's signals become the caller's.
yos_signal_pump(p) ==
  /\ At(p, "take")
  /\ pending' = [pending EXCEPT ![p] = @ \cup host]
  /\ host' = {}
  /\ Set(p, Moved(p, "kill"))
  /\ UNCHANGED <<mask, disp, blocked>>

\* SIGKILL is looked for once, before the loop, whatever the mask.
PumpChecksKill(p) ==
  /\ At(p, "kill")
  /\ IF SIGKILL \in pending[p] THEN Ends(p) ELSE Set(p, Moved(p, "loop"))
  /\ UNCHANGED <<host, pending, mask, disp, blocked>>

Deliverable(p) == pending[p] \ mask[p]

\* What delivering s does, and where the thread goes on.  The handler of a
\* thread that is nested too deep makes no calls and is over at once.
invoke_signal_handler(p, s) ==
  \/ /\ disp[p][s] = "dfl" /\ s \in Terminating
     /\ Ends(p)
  \/ /\ disp[p][s] = "ign" \/ (disp[p][s] = "dfl" /\ s \notin Terminating)
     /\ UNCHANGED stack
  \/ /\ disp[p][s] = "fn"
     /\ IF Len(stack[p]) < MaxNest THEN Set(p, Push(p, Frame("guest"))) ELSE UNCHANGED stack

\* Mutant: every deliverable signal is taken out and one of them handled.
PumpTakesAll(p) ==
  /\ At(p, "loop") /\ Deliverable(p) # {}
  /\ pending' = [pending EXCEPT ![p] = @ \cap mask[p]]
  /\ invoke_signal_handler(p, Min(Deliverable(p)))
  /\ UNCHANGED <<host, mask, disp, blocked>>

\* The lowest deliverable signal is taken out and handled.
PumpDelivers(p) ==
  /\ At(p, "loop") /\ Deliverable(p) # {}
  /\ LET s == Min(Deliverable(p)) IN
     /\ pending' = [pending EXCEPT ![p] = @ \ {s}]
     /\ invoke_signal_handler(p, s)
  /\ UNCHANGED <<host, mask, disp, blocked>>

PumpReturns(p) ==
  /\ At(p, "loop") /\ Deliverable(p) = {}
  /\ Set(p, Below(p))
  /\ UNCHANGED <<host, pending, mask, disp, blocked>>

\* A handler returns into the pump that called it.
HandlerReturns(p) ==
  /\ Guest(p) /\ Len(stack[p]) > 1
  /\ Set(p, Below(p))
  /\ UNCHANGED <<host, pending, mask, disp, blocked>>

-----------------------------------------------------------------------------
(* Senders *)

\* The host's handler, in whatever thread the kernel picked; also what kill of
\* a process group does, which signals the host threads themselves.
yos_signal_set_pending(s) ==
  /\ host' = host \cup {s}
  /\ UNCHANGED <<pending, mask, disp, stack, blocked>>

\* kill by another process, or by the control daemon.
deliver_to_proc(p, s) ==
  /\ Alive(p) /\ p \in Targets
  /\ pending' = [pending EXCEPT ![p] = @ \cup {s}]
  /\ UNCHANGED <<host, mask, disp, stack, blocked>>

\* kill of oneself, and raise: delivered before the call returns.
yos_raise(p, s) ==
  /\ Calls(p)
  /\ pending' = [pending EXCEPT ![p] = @ \cup {s}]
  /\ Set(p, Push(p, Frame("take")))
  /\ UNCHANGED <<host, mask, disp, blocked>>

-----------------------------------------------------------------------------
(* The guest's calls *)

\* read, select, poll and whatever else pumps before or after it blocks.
BlockingCall(p) ==
  /\ Guest(p)
  /\ Set(p, Push(p, Frame("take")))
  /\ UNCHANGED <<host, pending, mask, disp, blocked>>

\* sigaction and signal.
record_handler(p, s, d) ==
  /\ Calls(p) /\ disp[p][s] # d
  /\ disp' = [disp EXCEPT ![p][s] = d]
  /\ UNCHANGED <<host, pending, mask, stack, blocked>>

\* The word of a guest's set, its bit positions taken as they are.
read_fbsd_sigset_lo(S) == {s - 1 : s \in S} \cap (0 .. NSig)

Shifted(W) == {b + 1 : b \in W} \cap Sigs

Maskable(W) == (W \cap Sigs) \ {SIGKILL}

How == {"block", "unblock", "set"}

NewMask(how, old, s) ==
  CASE how = "block" -> old \cup s [] how = "unblock" -> old \ s [] how = "set" -> s

\* Mutant: the word is used unshifted.
sigmask_apply_raw(p, how, S) ==
  /\ Calls(p)
  /\ mask' = [mask EXCEPT ![p] = NewMask(how, @, Maskable(read_fbsd_sigset_lo(S)))]
  /\ blocked' = [blocked EXCEPT ![p] = NewMask(how, @, Maskable(S))]
  /\ Set(p, IF pending[p] \subseteq mask'[p] THEN stack[p] ELSE Push(p, Frame("take")))
  /\ UNCHANGED <<host, pending, disp>>

\* sigprocmask and pthread_sigmask; what became deliverable is delivered.
sigmask_apply(p, how, S) ==
  /\ Calls(p)
  /\ mask' = [mask EXCEPT ![p] = NewMask(how, @, Maskable(Shifted(read_fbsd_sigset_lo(S))))]
  /\ blocked' = [blocked EXCEPT ![p] = NewMask(how, @, Maskable(S))]
  /\ Set(p, IF pending[p] \subseteq mask'[p] THEN stack[p] ELSE Push(p, Frame("take")))
  /\ UNCHANGED <<host, pending, disp>>

\* sigsuspend installs the word as it is and pumps once; then it polls.
yos_sigsuspend(p, S) ==
  /\ Shallow(p)
  /\ mask' = [mask EXCEPT ![p] = Maskable(read_fbsd_sigset_lo(S))]
  /\ blocked' = [blocked EXCEPT ![p] = Maskable(S)]
  /\ Set(p, stack[p] \o <<[Frame("poll") EXCEPT !.saved = mask[p], !.was = blocked[p]],
                          Frame("take")>>)
  /\ UNCHANGED <<host, pending, disp>>

\* The caller's mask comes back.
Restored(p) ==
  /\ mask' = [mask EXCEPT ![p] = Top(p).saved]
  /\ blocked' = [blocked EXCEPT ![p] = Top(p).was]
  /\ Set(p, Below(p))

\* An iteration that finds a zombie child reads the pending word, to add SIGCHLD.
SuspendSeesZombie(p) ==
  /\ At(p, "poll") /\ p \in Parents
  /\ Set(p, Append(Below(p), [Top(p) EXCEPT !.at = "synth", !.arg = pending[p]]))
  /\ UNCHANGED <<host, pending, mask, disp, blocked>>

\* ... and stores it; the pump delivers before the mask is restored.
SuspendAddsSigchld(p) ==
  /\ At(p, "synth")
  /\ pending' = [pending EXCEPT ![p] = Top(p).arg \cup {SIGCHLD}]
  /\ Set(p, Append(Moved(p, "restore"), Frame("take")))
  /\ UNCHANGED <<host, mask, disp, blocked>>

\* Without a zombie: a deliverable signal ends the wait, and so does the last
\* iteration.
SuspendPolls(p) ==
  /\ At(p, "poll")
  /\ \/ /\ Deliverable(p) # {} \/ Top(p).n + 1 = Polls
        /\ Restored(p)
     \/ /\ Deliverable(p) = {} /\ Top(p).n + 1 < Polls
        /\ Set(p, Append(Below(p), [Top(p) EXCEPT !.n = @ + 1]))
        /\ UNCHANGED <<mask, blocked>>
  /\ UNCHANGED <<host, pending, disp>>

SuspendReturns(p) ==
  /\ At(p, "restore") /\ Restored(p)
  /\ UNCHANGED <<host, pending, disp>>

yos_sigwait(p, S) ==
  /\ Calls(p) /\ read_fbsd_sigset_lo(S) # {}
  /\ Set(p, Push(p, [Frame("wait") EXCEPT !.arg = Shifted(read_fbsd_sigset_lo(S))]))
  /\ UNCHANGED <<host, pending, mask, disp, blocked>>

\* Mutant: only the signals asked for end the wait.
WaitsForSet(p) ==
  LET hit == pending[p] \cap Top(p).arg
  IN  /\ At(p, "wait") /\ hit # {}
      /\ pending' = [pending EXCEPT ![p] = @ \ {Min(hit)}]
      /\ Set(p, Below(p))
      /\ UNCHANGED <<host, mask, disp, blocked>>

\* sigwait takes the lowest signal asked for; SIGKILL goes to the pump.
Waits(p) ==
  LET hit == pending[p] \cap Top(p).arg
  IN  /\ At(p, "wait")
      /\ \/ /\ hit # {}
            /\ pending' = [pending EXCEPT ![p] = @ \ {Min(hit)}]
            /\ Set(p, Below(p))
         \/ /\ hit = {} /\ SIGKILL \in pending[p]
            /\ Set(p, Append(Below(p), Frame("take")))
            /\ UNCHANGED pending
      /\ UNCHANGED <<host, mask, disp, blocked>>

\* execve by the program itself: mask and ignored signals stay, the rest is
\* reset.
yos_execve(p) ==
  /\ Guest(p) /\ p \in Execs /\ Len(stack[p]) = 1
  /\ disp' = [disp EXCEPT ![p] = [s \in Sigs |-> IF @[s] = "ign" THEN "ign" ELSE "dfl"]]
  /\ pending' = [pending EXCEPT ![p] = {}]
  /\ UNCHANGED <<host, mask, stack, blocked>>

-----------------------------------------------------------------------------

\* What a thread does inside the calls it has made.
Inside(p) ==
  \/ yos_signal_pump(p) \/ PumpChecksKill(p) \/ PumpDelivers(p) \/ PumpReturns(p)
  \/ SuspendSeesZombie(p) \/ SuspendAddsSigchld(p) \/ SuspendPolls(p) \/ SuspendReturns(p)
  \/ Waits(p)

GuestStep(p) ==
  \/ BlockingCall(p) \/ HandlerReturns(p) \/ yos_execve(p)
  \/ \E s \in Catchable : \/ yos_raise(p, s)
                          \/ \E d \in {"dfl", "ign", "fn"} : record_handler(p, s, d)
  \/ \E S \in MaskSets, how \in How : sigmask_apply(p, how, S)
  \/ \E S \in SuspendSets : yos_sigsuspend(p, S)
  \/ \E S \in WaitSets : yos_sigwait(p, S)

\* The host process is gone once pid 1 has ended.
Next ==
  \/ \E p \in Procs : Inside(p) \/ GuestStep(p)
  \/ \E p \in Procs, s \in KillSigs : deliver_to_proc(p, s)
  \/ \E s \in HostSigs : Alive(Root) /\ yos_signal_set_pending(s)

\* Threads run, and a guest keeps making calls that pump: a signal waits for
\* as long as its target only computes.
Fairness == \A p \in Procs : WF_vars(Inside(p)) /\ SF_vars(BlockingCall(p))

Spec == Init /\ [][Next]_vars /\ Fairness

-----------------------------------------------------------------------------
(* Properties *)

\* A signal leaves the pending set only when it is delivered or waited for,
\* or the process ends or executes another program; it enters it only
\* because it was sent.  kill and the host set bits while the pump clears
\* others.
SignalsConserved == [][\A p \in Procs : stack'[p] # <<>> =>
  /\ \A s \in pending[p] \ pending'[p] :
       \/ PumpDelivers(p) /\ s = Min(Deliverable(p))
       \/ Waits(p) /\ s = Min(pending[p] \cap Top(p).arg)
       \/ yos_execve(p)
  /\ \A s \in pending'[p] \ pending[p] :
       \/ s \in host \ host'
       \/ s = SIGCHLD /\ SuspendAddsSigchld(p)
       \/ deliver_to_proc(p, s) \/ yos_raise(p, s)]_vars

\* "The temp mask is enforced via signal_pump's blocked-bit filter": no signal
\* is handled, and none ends the process, while the guest has it blocked.
BlockedHeld == [][\A p \in Procs : \A s \in pending[p] \ pending'[p] :
  PumpDelivers(p) => s \notin blocked[p]]_vars

\* Nobody sends any more signals.  The pump looks for SIGKILL once and then
\* takes the lowest signal first: one that never stops coming holds back those
\* above it.
SendersStop == <>[][\A s \in Sigs :
  ~yos_signal_set_pending(s) /\ \A p \in Procs : ~deliver_to_proc(p, s)]_vars

\* "SIGKILL is uncatchable AND unmaskable": once sent, it ends the process,
\* whatever is blocked and whichever call or handler the target is in.
KillEnds == SendersStop => \A p \in Targets : (SIGKILL \in pending[p]) ~> ~Alive(p)

\* A pending signal that stays unblocked is delivered, and one the host has
\* latched reaches some process; only a thread in sigwait does not look.
Delivered == SendersStop =>
  /\ \A p \in Targets, s \in KillSigs \ {SIGKILL} :
       (s \in pending[p]) ~> (s \notin Deliverable(p) \/ ~Alive(p) \/ At(p, "wait"))
  /\ \A s \in HostSigs :
       (s \in host) ~> (s \notin host \/ \A p \in Procs : ~Alive(p) \/ At(p, "wait"))

\* "any unblocked pending bit set during the wait (from kill() or the host
\* signal handler) gets delivered": a wait that ends before its last iteration
\* leaves no signal undelivered behind.
SuspendDelivers == [][\A p \in Procs :
  At(p, "poll") /\ Len(stack'[p]) < Len(stack[p]) => Deliverable(p) = {}]_vars
=============================================================================
