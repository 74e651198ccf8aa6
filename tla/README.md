# A TLA+ model of the yos process runtime

yos runs FreeBSD programs compiled to wasm32. One host process plays the
kernel: each guest process is a host pthread that interprets a wasm module in a
`struct yos_exec_ctx` of its own, points at one slot of the shared process
table, and calls host functions instead of system calls. Fork, signals, wait,
threads, memory, descriptors and event queues are therefore not the host's but
yos's own code, and that code is what these modules are about.

The modules follow the native runtime under `src/yos` of the repository.
Paths below are relative to `src/yos`; paths in `PROJECT.json` start at
the working tree's root, where the repository is checked out as `src/`.

## Inventory

| Part | State it keeps | Operations | Meets the others through | Hard behaviour | What makes it correct |
|---|---|---|---|---|---|
| Process table, `impl/proc/proc.c` | 256 slots (state, pid, ppid, exit status, context pointer), `next_pid` | fork, exit, trap, execve, waitpid, kill, clean-up after exit | `rt->proc_lock`, `ctx->proc`, slot reuse, `any_exit_cond` | threads keep using a slot after it may have been reaped and reused; status stored outside the lock that waitpid takes | a running process owns its slot; each child reaped once, with its real status; slots follow their cycle; shutdown ends |
| Signals, `impl/proc/sig.c` | pending set, masks, dispositions, one host-wide pending word | kill, pump, handlers, sigsuspend, sigwait | written by any thread, read by the owner's pump | SIGKILL against the pump's loop; calls inside handlers; two numberings of a set | accepted signals are not lost, blocked ones are held, SIGKILL ends its target |
| Synchronisation, `impl/proc/pthread.c` | cells in guest memory | mutex, cond, spinlock, rwlock, barrier, once | 32-bit cells, one global wait queue | lost wake-ups, counters that wrap, barrier reuse | exclusion; every wait ends when its cause is gone |
| Threads of a guest, `impl/proc/pthread.c` | a table of 128 records, stacks, TLS arenas | create, clone, join, end of a thread | heap memory that is freed and given out again | join against exit, two joiners, clone's word | no use after free, nothing leaks, joins return |
| Wait queue, `wasm3/source/m3_atomic.c` | one generation counter, one condition variable | wait, notify | all primitives share it | spurious wake-ups, notify before sleep | no lost notify |
| Address space, `impl/mem/mem.c` | break, mmap cursor, list of holes, list of mappings | brk, mmap, munmap, mremap | fork copies it, execve resets it, malloc starts from the break | bounded lists, unaligned and partial ranges | nothing given out twice, uncleared, or cleared under its owner |
| Heap, `impl/mem/alloc.c` | sorted first-fit list in guest memory | malloc, calloc, free, realloc, memalign | break and arena bounds | coalescing, double free, size wrap | blocks tile the heap, one owner each, all of it comes back |
| Descriptors, `impl/io/*.c` | `fd_map` with tombstones, FILE slots | open, close, dup2, pipe, fork, exec, fopen, fclose | host descriptors shared by all guests, duplicated at fork | close of a recycled descriptor, descriptor leaks | each guest sees a POSIX table of its own |
| kqueue, `impl/libc/kqueue-*.c` | one table of exit watches, an epoll descriptor per kqueue | kqueue, kevent, exit notification | told by `yos_exit`; the table is shared by all guests | a look-up after the wait; closing; a full table | each exit reported once, to each loop, with its own udata |
| Devices, `impl/ydev` | rings between guests and device callbacks | start, stop, read, write, poll | lock, condition, self-pipe | pipe and lock disagree | order kept, nobody sleeps past data, poll tells the truth |
| Start and shutdown, `main.c` | pid 1's context | load, exec loop, wait for the others | `any_exit_cond` | sleeps on a condition not all paths signal | shutdown ends |
| libc bridges, vfs, yctl, tracing, generated glue | little | marshalling, forwarding, rendering | the parts above | - | - |
| Browser host, `platform/web` | a second process layer, in JavaScript | same | messages between workers | - | - |

The hazards, each at its line, are in `PROJECT.json` under `hazards`.

## Modules

| Module | Models | Part | Theorems in |
|---|---|---|---|
| `Lifecycle` | what a process table promises (abstract) | process lifecycle | - |
| `ProcTable` | `impl/proc/proc.c`, the terminating half of `impl/proc/sig.c`, the shutdown wait of `main.c`; implements `Lifecycle` | process lifecycle | `ProcTableProofs` |
| `Signals` | `impl/proc/sig.c`, `deliver_to_proc` and `yos_kill`, the host handlers of `main.c` | signal delivery | `SignalsProofs` |
| `GuestSync` | the primitives of `impl/proc/pthread.c` over `wasm3/source/m3_atomic.c` | thread synchronisation | `GuestSyncProofs` |
| `GuestThreads` | create, clone, join and the worker of `impl/proc/pthread.c` | threads | `GuestThreadsProofs` |
| `MemMap` | `impl/mem/mem.c`, arena start of `impl/mem/alloc.c`, memory fields in fork and execve | address space | `MemoryProofs` |
| `ForkRace` | fork's two copies taken apart, on top of `MemMap`, for a counterexample | address space | - |
| `Heap` | `impl/mem/alloc.c` | guest heap | `MemoryProofs` |
| `Descriptors` | what POSIX promises of descriptors (abstract) | descriptors | - |
| `FdTable` | the tables of `impl/io/io.c` and `impl/io/file.c`, and fork, execve and exit on them; implements `Descriptors` | descriptors | `FdTableProofs` |
| `Kqueue` | `impl/libc/kqueue-linux.c` | kqueue emulation | `KqueueProofs` |
| `AudioRings` | `ydev_vfd` of `impl/ydev/core.c`, `impl/ydev/audio_miniaudio.c` | device layer | `AudioRingsProofs` |

A `.cfg` gives a module's constants their values; no MC module is needed.
`PROJECT.json` maps each definition to the lines it models. Where two modules
touch one function they look at different state: `ProcTable` follows slots and statuses through a kill
and leaves dispositions to chance, `Signals` follows the pending word and
takes slots as given, `Kqueue` has of
a process only that it runs, ends and announces the pid its slot holds by then (`ProcTable`'s `Leave`).

### ProcTable and Lifecycle

`procs` is `rt->procs`; `pc`, `proc`, `pend`, `chldIgn` and `loc` are a host thread's place in the
code, its `ctx->proc`, `sig_pending`, the SIGCHLD bit of `sig_ignore_mask`, and the locals of
the call it is in. Pids are never reused, so a context is named by the pid it was
born with; slots are reused, and what a thread finds behind `ctx->proc` is what
the slot holds by then. A section under `rt->proc_lock` is one step; every access
outside it that another thread can come between is a step of its own. That is
why an exit takes up to ten steps (`yos_exit`, `RecordStatus`, `ReadIds`,
`ReadOrphaned`, `CleanTable`, `HupFinds`, `HupDelivers`, `PtyFinds`, `PtyDelivers`, `Leave`), and why a
kill is two (`yos_kill` finds, `KillDelivers` delivers).

Abstractions. Exit code and terminating signal are stored in one step (both after
the state). Handlers run guest code, which is any sequence of the same steps, so a
signal that is handled is just taken from the pending set. What signals a guest
blocks, handles or ignores is a free choice, apart from SIGCHLD's disposition, which
auto-reaping reads. A context freed by its thread reads as anything
(`IgnoresSigchld`). A load failure of a forked module leaves the slot RUNNING, as
in the code. `fate`, `reports`, `killed`, `announced` and `torn` are history: no guard of an action reads them.

`Lifecycle` has no slots, threads or locks: a process is unborn, alive, ended,
and then reported to one waitpid of its parent or discarded. The refinement mapping
(`Lives` and `Parents` in `ProcTable`) reads a process's life from its slot while it has one, and from
`fate` and `reports` once it has not.

### Signals

The thread of a process is a stack of frames: guest code, the pump, sigsuspend
or sigwait on top of each other, because a handler runs guest code that makes
calls of its own (at most `MaxNest` deep). `pending`, `mask` and `disp` are the words of
the context, as sets of bit positions. The code numbers bits in its own words
by signal and in a guest's `sigset_t` by signal less one; the conversions, where there
are any, are modelled as in the code, and `blocked` keeps what the guest meant. sigsuspend polls
`Polls` times (200 in the code). Its read and its write of the pending word are two steps.

### GuestSync and GuestThreads

Each atomic access to a cell is a step. `work` fixes which primitives a behaviour
uses, so that one run covers four workloads. `woken` stands for the sleepers that have
seen `g_notify_gen` advance: the code has one generation for all addresses, so
every notify wakes every sleeper. The load of the rwlock cell and a
compare-exchange that succeeds are one step, since one that fails only goes round
its loop. Timed waits are `TimeOut`; spurious wake-ups of the host's condition variable
are `Spurious`. Counters wrap at `SeqSize`. Guests use the primitives as POSIX
allows: only the holder unlocks, and cond_wait is called with the mutex held.

In `GuestThreads` a thread is a host thread, a record on the heap, a slot whose
index is its id and its TLS arena, and a stack. create, clone and join are as many
steps as they have sections another thread can come between. A record
that is freed may be given out again, which is what makes a late access harmful.
`word` is the word clone names, on which the guest itself waits.

### MemMap and Heap

`MemMap` follows one process; at a fork the model goes on with the child, which is the
more interesting one because it starts without a live list. The lists change
under `mem_lock`, one call at a time. A call that has to go through them (munmap,
MAP_FIXED) is as many steps as its loops have rounds: `call` says where it is, and the break, which has no
lock, may move in between. An mmap that looks for one hole is a single step. What is cleared after
the lock is released belongs to the caller by then. The model forks and executes in one step, between calls. The code's fork copies
the memory and later the lists, and takes no lock; `ForkRace` has that in two steps with the parent's other threads in between, and
`fork_race` shows what goes wrong. Lists are sequences, and removal swaps in the last element as the code does,
so their order is the code's. `held` is what the guest has mapped, `stale` what it has
given up and nobody has cleared; the guest is taken to have written to all it
holds. `harm` records what the first call to do something wrong has done: give out memory in use (`alias`) or not
cleared (`residue`), clear what is in use (`clobber`), or raise the break over memory of the mmap side (`overrun`). The code allows the
last one, and after it the two sides of the memory are no longer apart; so `NoAlias`, `MapsZeroed` and `NoClobber` say
that none of the others is ever the first. `BelowCursor` and `HolesFree` hold throughout. mremap is called on a region
the guest holds; the old region is never unmapped, so it leaks.

`Heap` keeps the words the allocator reads: the header of each block, the link of each
free one, the head. Sizes, header, minimum block and alignment are the code's; the memory
is a few hundred bytes and a word holds `Word` values, so that large requests wrap. A call is one step under
`g_alloc_lock`, apart from realloc, which takes it twice. `wrote` is the range the
last call filled. The guest uses the interface as C allows, except that it may
free twice, which the code promises to survive.

### FdTable and Descriptors

All guests share the host's descriptor table (`host`); `fd_map[p]` translates a
guest's numbers and holds the tombstones of fclose. `files[p]` is the stream table. A
close by number that comes too late hits whoever got the number since: `owed`
holds such closes, and steps of other processes come in between. fork duplicates
one descriptor per step. The refinement mapping hides all of it: `Descriptors`
says that a process has a table of its own that only its own calls change. Files are compared by identity;
offsets, bytes and paths are left out.

### Kqueue

`watches` is `g_proc_watches`; a watch's eventfd is two bits, whether it has been
written to and whether it is in an open epoll descriptor. epoll_wait fills `batch`, and each
event of it is then looked up in the table in a step of its own, under the
table's lock. An epoll tag has room for `Half` values of udata. `regs` and `owed` are what the guests may
expect. `pidIn` is the pid in the slot a process has or had in the process table: a process forked
later may be given the slot of one that is on its way out and has been reaped, and then
`yos_kqueue_notify_exit` is called with the new one's pid (`PidRead`). So a report tells a guest that a pid was
announced, which is what `ReportsTrue` says, and not that the process has ended; that is `AnnouncesExited` of `ProcTable`, which the code breaks
(`exit_event`). A loop has one kqueue and, in the run, one watch per process, as libuv does; filters on
descriptors are entries of the host's epoll descriptor and change nothing here.

### AudioRings

`dev` says whether a behaviour is about the input ring, in records, or the output ring, in
bytes. An element is the number of what was put in, so that loss and reordering
show. Sections under a ring's lock are one step. The output ring's writes and reads of
its pipe come after the unlock and are steps of their own; the input ring's are inside. The host's
condition variable wakes one thread (signal), all (broadcast), or one for no reason.

## Runs

Passing runs:

| Run | Bounds | Distinct states | Shows |
|---|---|---|---|
| `proc_table` | 3 slots, 3 pids, exit code 383, pid 1 sends SIGKILL, pid 3 is a forkpty child | 1.9 million | `LiveOwnsSlot`, `ReportsFate`, `ReapsOnce`, and the refinement `ImplementsLifecycle`, over all interleavings of exit, clean-up, kill and wait |
| `proc_failures` | as above, no kill; failing forks and loads, returns, SIGCHLD ignored, traps in 1 and 3 | 1.4 million | `SlotLifecycle` on the error paths |
| `guest_sync` | 3 threads, counters modulo 3, 2 signals, at most 2 readers, barrier of 2 | 222 thousand | exclusion, no lost wake-up, once, barrier; `SleepersWake` under fairness |
| `guest_threads` | 3 records, 2 slots, 2 stacks | 29 thousand | `NoDangling`, `OwnArena`, `NothingLeaks`; `JoinEnds` under fairness |
| `mem_map` | 10 units, pages of 2, 2 holes, 2 mappings; brk up to a unit above the middle, MAP_FIXED below and above it | 4.4 million | `BelowCursor`, `HolesFree`, `NoAlias`, `MapsZeroed`, `NoClobber` |
| `heap` | 160 bytes of heap, words of 9 bits, 2 threads, requests from 0 to 456 bytes | 67 thousand | `Tiled`, `OneOwner`, `WritesInside`, `Recovered` |
| `fd_table` | 2 processes, 2 descriptors each, 5 of the host, one stream | 37 thousand | `OwnDescriptor`, `NoLeak`, `TombsStay`, and the refinement `ImplementsDescriptors` |
| `signals` | 2 processes, 3 signals and one beyond the word, 2 polls, 4 frames | 185 thousand | `SignalsConserved`, `BlockedHeld`; `KillEnds` and `Delivered` under fairness |
| `kqueue` | 2 loops, 2 kqueues, 2 processes, one of them forked later, 4 slots | 88 thousand | `WatchesBacked`, `ReportsTrue`; `ExitsReported` under fairness |
| `audio_rings` | 2 threads, rings of 3, low watermark 1, 7 elements | 92 thousand | `RingInOrder`, `SleepersDue`, `PollTells` |

Three processes are the least that have a grandparent, an orphan and a reaper;
three slots let every process be in the table at once, and the counterexamples with two
reuse slots. Three threads are the least with a
holder, a waiter and a third that comes between; with three records and two slots a thread is made while
another is joined and a third finds the table full. An exit code of 383 shows whether it is cut to eight
bits, and whether the 127 that are left are taken for a signal. Tables of two holes and two
mappings overflow within a few calls, lengths of half a page and of two pages give
partial overlaps, and odd addresses give unaligned ones; the middle is at 5, so that a break of 6 is refused before the first mmap and
accepted after it, over a mapping as over a hole. A heap of ten minimal
pieces has room for a free block on either side of one in use, and 456 of 512
is a request that does not fit. Two descriptors per process fill a table with one open; five on the
host are the standard one and two for each process, so that its table, too, becomes exactly full and dup and dup2 fail there, but a fork never runs out half way. Two processes
mean that nobody else acts during a fork; for that there is the theorem, for any number of processes. Four frames are a handler inside a call inside a handler. A ring
of three wraps and overflows twice within seven elements. Two loops on two
processes need four watches.

What the passing runs leave out is what the code gets wrong, and each
restriction is lifted in one of the counterexamples below: `mem_map` forks in one step
and lets only the first process exec; `proc_failures`
allows traps only where no later process can take over the slot; `fd_table`
has processes fork, execute and exit with their streams closed, and nobody given the number between dup's two closes
after a full table (`DupFull`); `signals` gives sigsuspend only the empty and the full set; `guest_threads` joins a thread
once; `kqueue` has as many slots as watches, closes a kqueue only without
watches, lets a loop use only its own and add a watch once, and has a host that refuses no eventfd.

Deadlock is not checked: processes end, threads may all be idle or block each
other as the guest program wants, and bounded counters run out.

Two runs show a disagreement between a comment and the code:

| Run | The code says | What happens |
|---|---|---|
| `shutdown` | "each proc-exit path broadcasts" (`main.c`) | death by signal does not; main sleeps for ever |
| `audio_room` | "The fd becomes readable when ring occupancy drops below the low watermark" (`audio_miniaudio.c`) | a writer drains the pipe after its unlock, and with it the callback's byte |

Further counterexamples, each a `.cfg` to be run on the module named; `findings` in
`PROJECT.json` quotes the lines:

| Config | Module | Property | What happens |
|---|---|---|---|
| `torn_status` | `ProcTable` | `StatusObserved` | waitpid reaps between the store of the state and that of the status |
| `proc_trap` | `ProcTable` | `LiveOwnsSlot` | the tail of a trapped child marks the process that has taken its slot |
| `kill_lost` | `ProcTable` | `KillNotLost` | a starting child overwrites its pending signals with its parent's |
| `exit_event` | `ProcTable` | `AnnouncesExited` | the pid announced is read from a slot that has been reused |
| `suspend_mask` | `Signals` | `BlockedHeld` | sigsuspend installs the guest's set one position off |
| `rw_writers` | `GuestSync` | `WriterPreference` | nothing records a waiting writer |
| `brk_overlap` | `MemMap` | `HeapApart` | after the first mmap, the limit of brk is above the mappings; so it is above a MAP_FIXED between the break and the middle |
| `fork_race` | `ForkRace` | `MapsZeroed` | what another thread unmaps between fork's copy of the memory and its copy of the lists is a hole in the child, and not cleared there |
| `exec_child` | `MemMap` | `NoAlias` | a forked child's exec keeps its live list |
| `heap_realloc` | `Heap` | `ContentsFollow` | realloc of a shifted pointer works on the start of the block |
| `fd_full` | `FdTable` | `OwnDescriptor` | dup with a full table closes its host descriptor twice |
| `kq_killed` | `Kqueue` | `DeathsReported` | a process killed by a signal is announced to no kqueue |
| `kq_shared` | `Kqueue` | `ReportsTrue` | two threads in one kqueue: an event with sixteen bits of udata |
| `kq_closed` | `Kqueue` | `ReportsTrue` | a watch of a closed kqueue answers for a new one with its number |
| `kq_full` | `Kqueue` | `ExitsReported` | a watch that finds the table full, or that the host refuses, is dropped in silence |
| `kq_twice` | `Kqueue` | `ReportsTrue` | adding a watch again takes a second slot, and the old udata is reported |

Others need only a constant changed: `OnlyOrphansInherited` in `proc_table.cfg` with four
pids, `TidCleared` in `guest_threads.cfg`, `NoDangling` there
with `JoinsTwice = TRUE`, `OwnDescriptor` with `FaultSpec` and `KeepStreams = TRUE` in `fd_table.cfg`,
`OneOwner` in `heap.cfg` with a size within 24 of `Word`, `SuspendDelivers` in `signals.cfg`, `KillEnds` there
with `Catchable = {1, 3}`, and `SignalsConserved` with both processes as `Targets`.

## Fairness

The host schedules its pthreads, and that is all the fairness there is. `ProcTable`'s `FairSpec` assumes weak fairness of each host thread's own
steps and of main's check when it is awake. `GuestSync` assumes it of each thread inside a call (`InCall`): a
notified thread does return from
`pthread_cond_wait`. `Signals` assumes it inside the pump, sigsuspend and sigwait, and strong fairness of
`BlockingCall`: a guest goes on making calls that pump, though handlers and
other calls come in between; nothing is delivered to a guest that only computes. `GuestThreads` assumes it inside
create and join and strong fairness of `worker_main`: a guest thread's function ends,
which is what a joiner waits for. `Kqueue` assumes
it of an announcement and of a kevent under way, and strong fairness of
`Learns`: an event loop comes back to its kqueue, and epoll, which
rotates its list, leaves no ready entry out for ever. Nothing is assumed of what guests do
between calls, of spurious wake-ups or of time-outs.

## Proofs

Checked by TLAPS for every value of the constants that satisfies the modules' assumptions.

`ProcTableProofs`. `TypeCorrect` needs nothing else. The other four assume
`Trappers = {}`: with a trap a running process can lose its slot, as `proc_trap` shows. None of the properties is
inductive: that a running process keeps its slot depends on who else may write to
that slot. The invariant is in two parts.

 - `Owned`: types, pids handed out so far (`PidsFresh`), no pid in two slots
   (`PidsUnique`), a thread that still acts for its guest, or has
   left it and not marked its slot, owns that slot (`ActingOwns`), slots in READY belong to nobody yet (`ReadyUnstarted`), and a
   thread that stores its status never comes to the end of `fork_thread_func` (`RecordersExit`). It gives
   `RunningOwnsSlot` and, with `Next`, `SlotsCycle`.
 - `Accounted`: what has been reported fits what has happened to the process
   (`Reported`), and, until a slot is torn, each zombie's slot holds the status of
   its process or its thread is about to store it (`Recorded`). It gives
   `WaitReapsOnce` and `WaitReportsFate`.

`ProcTableProofs` also holds the refinement. `TableImplementsLifecycle` shows, again without traps, that `ProcTable`
implements `Lifecycle` under the mapping: the initial states correspond, and from
`Owned`, `Accounted` and what the mapping needs besides each action is an abstract step or a stutter. A fork is
`Spawn`, a status stored or a signal's default action `End`, a waitpid that finds a zombie `Report`, and the table
part of the clean-up `Inherit` or `Discard`.

`GuestSyncProofs`. The invariant `Sound` says who holds each cell (`MutexOwned`,
`SpinOwned`, and `RwOwned`, where the cell counts the readers) and what the locals of
nested calls hold (`Frames`), that the once routine has one runner (`OnceOwned`), that a waiter's
sequence lags by the signals since its load (`CondCounted`, which needs fewer signals than the
counter holds), what a parked thread is parked on (`Parked`), and that arrivals,
generation and departures of the barrier add up (`BarrierCounted`). With it
`NoLostWakeup` and `CondNoMissedSignal` are inductive. From it follow
`SyncTypeCorrect`, `SyncExcludes`, `OnceRunsOnce`, `CondSignalsArrive`, `WakeupsArrive` and `BarrierIsOne`.

`AudioRingsProofs`. For every capacity and any finite set of threads, from `RingsAssumption` alone. `RingsTyped` needs
besides the types that a call under way has something left to do (`Calling`): a pop
subtracts from it. With both (`Typed`), `SleepersDue` is inductive: a
push adds one record and wakes one sleeper, a pop takes one record and one woken thread at most
(`WokenCounts`), and nobody goes to sleep on an input ring that holds something. `PollIsTrue` needs `Sides`: nobody is
between an unlock and the pipe of an input device; the output ring has no such invariant, and
`audio_room` shows what follows. `RingsInOrder` restates the property as `InOrder` of the
elements from `tail` on, numbered from `First`; a pop or a callback drops the oldest (`DropInOrder`), a push or a
write puts new ones behind the newest (`PutInOrder`), a push on a full ring does both. The
arithmetic of wrapping indices is in the lemmas from `WrapOnce` to `MovedTwice`.

`GuestThreadsProofs`. All three theorems assume `~JoinsTwice`: with a second joiner
`NoDangling` fails. Who may free a record depends on how far each call
with it has come, so the invariant follows a record through its life: a record that
is not in use is blank (`Blank`), the table and the records
name each other (`Tabled`), two calls never work on one record (`CallsApart`), a
create or clone under way has got just so far (`Made`), and so has a join
(`Taken`); a record no call works on belongs to a thread that can be joined or was cloned (`Kept`),
an id the guest may join is one nobody joins yet (`Joinable`), and stacks belong to
one record each (`StacksApart`). `RecordsOutlive`, `ArenasApart` and
`ThreadsLeakNothing` follow from it.

`KqueueProofs`. Both theorems assume what the counterexamples need broken: `Orderly`, which is
`~ShareKq` (`kq_shared`), `~CloseArmed` (`kq_closed`), `~AddsTwice` (`kq_twice`) and `~HostFails`, and `Roomy`, a slot for each kqueue and process
(`kq_full`). Nothing is assumed of the pids that exits announce. That a free slot is there when a watch is added is then
counting: slots in use map one to one into pairs of kqueue and process
(`Backed`). `ReportsTrue` looks at a table that may have changed since epoll_wait
filled the batch; it holds because every event of a batch is still
backed by a slot that has fired (`BatchesHold`), and a watch fires only when it was there as its pid was announced (`FiredOwed`).

`FdTableProofs`. For any number of processes, files and descriptors, under `~KeepStreams`: guests fork,
execute and exit with their streams closed. `SlotsApart` (a mapped slot has an open
host descriptor for itself) and `Accounted` (an open host descriptor is in some slot)
are each other's converse and are both needed, because a call looks for
its number in the guest's table and for its descriptor in the host's. Streams sit on a
slot each (`StreamsSit`), processes that do not run have none and owe no close (`Quiet`), and a fork under way
has copied the slots below its cursor (`Forking`, `Copied`). `CloseReachesOwn`, `NothingLeaks` and `TombstonesStay` follow.
`GuestsHaveDescriptors`, the refinement of `Descriptors`, needs `Roomy` besides: the host has room for all slots of
all guests. With a full host table a fork goes on without the descriptor it could not duplicate, so
the child silently has fewer than its parent (`fd_table.cfg` with `HostMax = 4`).

`MemoryProofs`, the heap. For every region and any set of requests, with two assumptions. `NoWrap`: no request
is within the rounding of the word's end, since such a one gets a block that is too small. `Served`:
aligned_alloc is not asked for sixteen, which it accepts and does not give (see `findings`); `heap.cfg`
satisfies both. `Tiled` needs `Linked` and `Coalesced`, and they need it: the list in
address order is what makes the block behind `prev` the one that is merged, and merging keeps the
blocks tiling. `Carves` (do_alloc) and `Returns` (yos_free) show that a call changes one block in use and
leaves the rest, `Joined` that what a free merges is exactly the blocks inside the new one. The guest's side is stated with
the pointer posix_memalign noted down (`Placed`, `MovesPlaced`, `HeldApart`, `Owned`), and `Finds` shows that
`unshift_user_off`, which only sees the word in front of a pointer, finds the same
block. The results are `BlocksTile`, `BlocksHaveOneOwner`, `WritesStayInside` and `AllIsRecovered`, where the last follows
from the others: no block in use, and no two free neighbours.

`MemoryProofs`, the mappings. For every size of memory, page and table and any addresses and lengths, for brk and MAP_FIXED too, with two
assumptions that `mem_map.cfg` satisfies: `BaseLow`, the image's static data end in the lower half, and
`~ChildExecs` (without it, `exec_child`). The properties are about what calls have
done wrong, so the invariant `MapInv` has to say why they cannot. mmap does not clear a hole, so every hole is `Clean`: nobody's,
and zero. What it gives out must not be a mapping either, so holes are apart from each other and from the live list (`Holes`, `Parted`).
munmap breaks that for a while: it puts holes on one list before it takes the range off the other. Until then the two lists may
meet, but only inside the call's range, and only at mappings the loop is past (`Progress`); the hole that is being merged is apart from all
the others and clean, though on no list. When live_remove ends, no mapping reaches into the range, and what may only meet there
is apart. The loops re-examine the slot they have filled from the end of the list, which is why the regions below
the index never overlap the range. carve_free_range also pushes onto a list that may be full: the hole then dropped is
the first, whose place is taken by the piece just pushed, and that piece is outside the range. `Pushed`, `Added`, `SwapApart`, `Pieces` and `Merged` say what the list operations do;
one lemma per step follows, and `MapInvImplies` reads the six properties off the invariant. A break raised over the mmap side is the one thing that
can go wrong first (`Harmless`); until it has, the live list, the guest's memory and the range of a MAP_FIXED under way are above the
break (`Above`) and holes are zero (`Dirty`), and after it these parts ask for nothing, while lists, holes and cursor go on as before (`Bounds`, which gives `AllBelowCursor`). An unlisted mapping (the table was full) is only leaked, because
`held` stays below the cursor.

`SignalsProofs`. For any processes, signals and depth of handlers inside pumps inside waits. The thread of a process is a
stack, so the invariant speaks of every frame: a mask in a frame is as good as the one in force
(`Covers`, `GoodFrames`), since a sigsuspend below will bring it back, and only the top frame can
be between sigsuspend's read and write of the pending word (`SynthOK`), which then has changed by kill alone.
`PendingConserved` assumes that no process is both in `Targets` and in `Parents`; `OnlySigchldRaces` says
what is left without that assumption: sigsuspend's store is the one step that loses a signal. `BlockedAreHeld`
assumes `SuspendSetsAgree`, that the sets given to sigsuspend are closed upwards (the empty and the full set are), which is
when its missing shift does no harm; `suspend_mask` has a set that is not. `KillUnmaskable` assumes nothing.
`signals.cfg` satisfies both assumptions.

Only model-checked: liveness (`SleepersWake`, `JoinEnds`, `KillEnds`, `Delivered`, `ExitsReported`; `ShutdownCompletes` is refuted), since fairness
is out of the prover's reach. Every invariant and action property of a passing run is proved.

## Not modelled

Process groups, sessions and kill of a group; vfork and waitid; keys and
semaphores; the bytes behind descriptors, directories, FIFOs and
ptys; kqueue's filters on descriptors and its darwin and windows back ends; cameras, sensors and
permissions. The bridges, vfs, yctl, tracing and generated glue forward, format or
render and keep next to no state. The browser host is a second implementation of the process layer, in
JavaScript. `proc.c` directly under `src/yos` is not built.

The map covers a small part of the repository's lines, and most of the rest is
not a subject for a model: miniaudio (one header of 96 thousand lines), the
generated structure tables and syscall glue (some 50 thousand), the interpreter (`wasm3`), and
libvterm and WASI are third-party or generated; the libc bridges marshal
arguments for the host. What the modules cover is the part of yos that keeps state
between calls and shares it between threads.

## Plan

Done: the modules above. Left, in this order:

 1. The registry of FIFOs, process groups and waitid.
 2. The browser host: worker messages against the same `Lifecycle`.
