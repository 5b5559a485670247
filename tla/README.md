# A TLA+ development for kernel-riscv

kernel-riscv is a small preemptive kernel for one RISC-V hart: threads, a
round-robin scheduler with time slices, sleeping, counting semaphores with
timed waits, a first-fit block allocator and a buffered console. User code
enters the kernel only through traps; the handlers run with interrupts off.
This directory models the kernel's control in TLA+, checks it with TLC on small
instances, and proves parts of it with TLAPS for all sizes. Paths below are
relative to the repository's own `src/` and `h/` directories.

## Inventory

| Part | State | Operations | Interacts with |
|---|---|---|---|
| scheduler (`scheduler.c`) | ready ring, current thread, user thread count, delta list of timeouts | push, next, timeout, remove_timeout, tick | every blocking call; calls `__sem_remove_thread` from the tick |
| semaphores (`semaphore.c`) | `val`, ring of waiting threads, array `semaphores[10]` | open, close, wait, timed wait, signal, remove_thread | scheduler |
| threads (`thread.c`) | struct with stack, saved context, `time_left`, one list node | create, exit, delete, yield | scheduler, allocator |
| trap handler and main loop (`main.c`) | position of `kernel_main` in its loop | one case per cause and system call; the loop that stops the machine | everything |
| allocator (`mem.c`) | `mem_index`, one signed word per block | init, alloc, free | called by create, open, timeout |
| console (`console.c`) | input and output buffers, ring of threads in `getc` | getc, putc, device interrupt | scheduler, trap handler |
| trap entry and exit (`trap.S`) | register frame on the kernel stack | save, call `irq_handler`, restore, clear the pending tick | thread contexts |
| lists (`list.c`) | intrusive ring nodes | insert, remove | scheduler, semaphores, console |
| kernel services (`kernel.c`) | none | print, stop, panic | everything |
| wrappers (`syscall_c.c`, `syscall_cpp.cpp`) | none | load registers and `ecall` | trap handler |
| reporter (`ubsan.c`) | none | vendored, not enabled | none |
| test programs (`test/`) | bounded buffers, counters | producer and consumer, sleeping, mode tests | wrappers |

What is hard here:

* **Interleaving.** Handlers are atomic, but the running thread, the timer and
  `kernel_main` interleave at every instruction between them. A tick can fall
  into the one-instruction window of `main()` and put `kernel_main` itself in
  the ready ring.
* **Shared list nodes.** A thread has one node for the ready ring and for all
  waiting rings; linking it twice ruins two rings at once.
* **Encoded state.** `time_left = 0` means both "slice over" and "has a
  timeout"; a negative `val` means "that many threads wait".
* **Timeouts.** A timeout names a thread and a semaphore and outlives the wait
  it belongs to when the wait succeeds at once or the semaphore is closed.
* **Delta list.** Each timeout stores ticks relative to the one before it.
* **Stale frames.** A trap saves the registers on the stack of the thread it
  interrupts, and `thread->sp` names the frame of the thread's last *switch*;
  a handler that writes a result must choose between the two.
* **Retries.** A refused `putc` moves the return address back onto its `ecall`
  and gives the processor away; the call is repeated until it is accepted.
* **Rings taken apart while they are walked.** `__sem_close` pushes the nodes
  of the ring its loop follows.
* **Boundary tags.** A run's length is written at both ends; a stale tag is
  later read as the end of a run.

The properties that make each part correct: threads are neither lost nor
linked twice; queues are first come, first served; a wait returns its own
outcome; the count and the value of a semaphore agree; the slice always ends;
a sleep lasts the ticks asked for; a ready thread runs; the machine stops
exactly after the last exit; characters keep their order and number in both
directions; a thread resumes with its own context; allocations never overlap; the tags describe the
heap; the allocator is first fit and fails only when nothing fits.

## Modules

    KernelState   state of threads, scheduler, semaphores, console; ends of the machine
      Scheduler   scheduler.c, and __sem_remove_thread, which the tick calls
        Semaphore semaphore.c
        Console   console.c
          Kernel  main.c, thread.c: actions, fairness, properties
            MCKernel             instances for TLC
            KernelSleep          Kernel with a history of what sleepers asked for
              MCKernelSleep
            KernelProofs         theorems on counts, slices and values
              KernelConsoleProofs  on types and the console
                KernelPlaceProofs  on where threads are, Counting and sleeps
            KernelHeap    Kernel with the blocks of the heap and the calls on memory
              MCKernelHeap
              KernelHeapProofs
    Context       trap.S, yield, __thread_create: what is saved and restored
      MCContext
      ContextProofs
    Ring          list.c and all linking and unlinking, pointer by pointer
      MCRing
      RingProofs
    Mem           mem.c: actions and properties
      MCMem
      MemProofs
    ProducerConsumer  test/buffer.cpp and the C API test, over Counting
      ProducerConsumerProofs

    Counting      what the semaphore calls promise        (implemented by Kernel)
    Heap          what the allocator promises             (implemented by Mem)
    BoundedQueue  what a producer-consumer buffer promises (by ProducerConsumer)

The modules cut the kernel at different depths. `Kernel` takes a trap as one
step and a ring as a sequence. `Ring` justifies the sequences: it has the
pointers and shows that every operation does to them what it means for the
sequence. `Context` justifies the one step: it has the instructions around a
trap, the frames and the control registers, and leaves open who runs next.
`KernelHeap` adds to `Kernel` where memory comes from; `Mem` is the allocator
itself. `ProducerConsumer` is a program on top of the kernel and uses of it
only what `Counting` and `NoStarvation` state.

### Kernel

A step is one trap, served to the end, or one step of `main()`'s loop.

| Action | Code |
|---|---|
| `ThreadCreate`, `ThreadCreateNoMemory` | `SYSCALL_THREAD_CREATE`, `__thread_create` |
| `ThreadExit` | `SYSCALL_THREAD_EXIT`, `__thread_exit`, `__thread_delete` |
| `ThreadDispatch` | `SYSCALL_THREAD_DISPATCH` |
| `SemOpen`, `SemOpenNoMemory`, `SemClose`, `SemWait`, `SemSignal`, `SemTimedWait` | the semaphore calls |
| `TimedSleep` | `SYSCALL_TIMED_SLEEP` |
| `Unserved` | `mem_free`, `sem_trywait`: the handler has no case for them |
| `Getc` | `SYSCALL_GETC`, `__getc`: takes a character or blocks |
| `PutcAccepted`, `PutcRefused` | `SYSCALL_PUTC`, `__putc`; refused: `sepc` moved back, the thread requeued |
| `KeyPress` | the device (external): a character is typed |
| `HwIrq` | `IRQ_HW`: `__console_receive`, then `__console_send` |
| `IllegalOperation` | illegal instruction, read or write: `__panic` |
| `TimerIrq` | `__scheduler_tick` and the end of the time slice |
| `KernelDispatch` | `SYSCALL_KERNEL_DISPATCH` |
| `KernelCheck` | the loop condition of `main()` and `__stop` |

Rings are sequences, head first. This is an abstraction of the pointers that
is right as long as every node is linked once. The model does not assume so:
every operation has an operator `..._end` that says whether, in this state, it
links a node twice or leaves a head on an unlinked node (`"corrupt"`), reads a
freed struct (`"fault"`) or calls `__panic` (`"panic"`). An open past the end
of `semaphores[]` is `"corrupt"` too. Such a step sets
`halted` and nothing else, and the behaviour ends; what memory looks like
afterwards is not modelled. `Intact` says no such step exists; properties of
the form `halted = "no" => ...` speak about the kernel while it is sound.

`a0` is the word of the saved frame in which a call returns its result. A
thread that blocks leaves the code of its call there until somebody writes the
result, which is what makes a missing write visible. The other registers
are left out. `time_left` and the deltas count modulo `TIME_MOD` and
`as_i32` converts the initial value of a semaphore, because subtraction below
zero and a value of 2^31 or more matter. `val` itself is an integer: it can
move by at most one per call and cannot reach the limits of `i32` in the
runs.

A semaphore handle is used only while its semaphore is open, since the calls
take the pointer from the caller on trust. Thread and semaphore structs come
from the sets `Thread` and `Sem`; when a set is used up the allocator has
failed. Freed structs are reused, so a stale pointer may meet a new owner.

A character is the number of its place in its stream, so that one lost, doubled
or moved shows. The device keeps what is typed until it is read (`rx_data`)
and takes any number of characters, none included, whenever the kernel
offers them; `tx_data` is the last it took. `repeats` holds the threads whose
`putc` was refused and which will execute the `ecall` again. `getc` with a
character in the buffer may leave the code of the call in `a0`; `Context` shows
when.

### Context

| Action | Code |
|---|---|
| `UserCompute`, `UserPush`, `UserPop` | instructions of user code |
| `MainOn`, `MainOff` | the two writes of `sstatus` in the loop of `main()` |
| `TimerTrap`, `HwTrap`, `EcallTrap` | the trap and `irq_wrap` up to the call of `irq_handler` |
| `Timer`, `Hw` | the cases `IRQ_TIMER`, `IRQ_HW` |
| `Service`, `Create`, `Wake`, `Dispatch`, `Block`, `Sleep`, `Exit`, `PutcFull`, `Getc`, `KernelDispatch` | the system calls, one action per way of treating frames and registers |
| `Return` | `irq_wrap` after `irq_handler`, `csrc sip`, `sret` |
| `Raise` | the timer (external) |

`cpu` and `csr` are the processor's registers, `tcb` the saved `sp`, `sepc` and
`sstatus` of each struct, `mem` the slots of the stacks. `own` is a history
variable: what each thread must find when it next runs. Registers other than
`a0` and `sp` are one register that holds the name of the thread that computed
it. `yield` to oneself writes only `sp`, so `tcb` then holds a `sepc` and a
`sstatus` that are older than the thread; the model keeps that.

### Ring

`next` and `prev` per node, one head pointer per ring, and `walk` for the
position of the loop of `__sem_close`, whose rounds are steps. Every `push` and
`pop` of the sources is an action; a timeout may be inserted at any place.
`queue` is a history variable: what the operation means for a sequence.
`__scheduler_remove_timeout` and `__sem_remove_thread` are left out. They leave
a head pointer on the node they unlink; `Kernel` ends such a behaviour.

### KernelSleep

`Kernel` with the history variable `owed`: per thread, the ticks until its sleep
has to be over. `Asks` sets it to the argument of the call, `Ticks` takes one
from everybody at each interrupt of the timer, and no other action touches it.
It is never written from the list of timeouts and never read by an action, so a
wrong delta or a tick that is not counted makes the two differ.

### KernelHeap

`free_blocks`, `held_blocks` (with user code), `lost_blocks` (passed to
`mem_free`, which no handler serves) and `creating` (where a thread is inside the
wrapper `thread_create`, which makes up to three calls and can be preempted
between them; until the second succeeds the stack is the caller's, and when it
fails the third call loses it). Each action is an action of `Kernel` with a block
for every `__mem_alloc` and `__mem_free` of its handler, both outcomes of the
allocation included, or `mem_alloc` or `mem_free`: `TimeoutBlock` for the entry
that `__scheduler_timeout` links, one free for each entry `__scheduler_tick` finds
over (`Tick`), one when a signal ends a timed wait (`cancels`). `Exhausted` is the walk that panics when no run is
left (see Findings), and the write through the null pointer in
`__scheduler_timeout`.

### ProducerConsumer

A step is one system call or one access to a shared variable, so that a thread
can be preempted between any two. `Put`, `Get` and `GetCnt` are the methods of
`Buffer`; `Enter`, `Create`, `Join`, `PrintRest` and `Delete` are the steps of
`producerConsumer_C_API` and `~Buffer`. The number of producers and the size
are what the user enters; the test refuses some of these values, as in the
code.

### Mem

`__mem_alloc` is modelled loop iteration by loop iteration (`AllocTake`,
`AllocSkip`, `AllocFail`), because its walk is the interesting part: `i` jumps
by the lengths it reads. The loop looks one run ahead, so it reads
`mem_index[n_mem_blocks]`, a word after the index that belongs to somebody
else: `Beyond` is the set of values it may hold. A run that is "found" there
would be written past the index; that ends the behaviour as `"corrupt"`.
`__mem_free` is one step, `FreeBlock` or `FreeElsewhere`, with every error path.
A call is a step of its own (`Alloc`, `Free`), so that `request` and `ptr` say
which call a return answers; `held` records what callers own. Callers pass every
block, the start of an allocation or not, and pointers outside the heap or into a
block. Left out are the pointers of `TakenForStart`, which `__mem_free` takes for
the start of an allocation and which are none: the index itself, and the last
block of a run of n when the entry n - 1 further on is the head of another run of
n, or lies after the index and happens to hold n.

## Runs

| Run | Instance | Checks |
|---|---|---|
| `kernel_core` | 3 threads, 2 semaphores, sleeps of 0 to 3 ticks, 3 opens, all calls but the timed wait and the console's | `TypeOK`, `NoThreadLost`, `LinkedOnce`, `Intact`, `SemCount`, `StopsWhenDone`, `SliceBounded`, `NoOvertaking`, `WaitOutcome`, `SleepsAsLongAsAsked`, `SemaphoresServe` |
| `kernel_timed` | 2 threads, 1 semaphore, all calls but the console's, timed waits included | `SemCount` |
| `kernel_live` | 3 threads, 1 semaphore, sleeps of 2 ticks, fair | `NoStarvation`, `Termination`, `SleepsEnd` |
| `kernel_console` | 2 threads, buffers of 2, 3 characters each way, slices of 1 tick, fair | `NoThreadLost`, `Intact`, `InputInOrder`, `OutputInOrder`, `NoReaderWaitsWithInput`, `ReaderGetsChar`, `ReaderServed`, `PutcEnds` |
| `context_safe` | 2 threads and `kernel_main`, 1 data slot per stack, all calls but `getc` with input | `ContextIntact`, `ResultIntact`, `StackIntact`, `InterruptsOff` |
| `context_ticks` | 2 threads, fair | `TicksServed` |
| `ring_queues` | 5 nodes, 2 semaphores | `RingsHoldQueues`, `WalkKeepsItsPlace` |
| `mem_heap` | 8 blocks, 2 of them the index, requests of 1 to 3 | `TypeOK`, `NoOverlap`, `IndexExact`, `StopsOnlyWhenFull`, `ServesFirstFit`, `AllocReturns` |
| `kernel_heap` | 2 threads, 1 semaphore, 8 blocks, stacks of 2, slices of 1 tick, timed waits included | `BlocksAccounted` |
| `producer_consumer` | up to 2 producers, sizes up to 2, fair | `NoUseAfterDelete`, `BufferIsQueue`, `TestEnds` |
| `timed_wait_panic` | 2 threads, 1 semaphore, timed waits | `NoLostThreadPanic`, violated, see Findings |
| `getc_result` | 1 thread, `getc` with input | `ResultIntact`, violated, see Findings |

The bounds. Three threads are the fewest with a thread running and two in a
queue, which order, fairness and two wakes by one tick need; `kernel_main` is a
fourth member of the ready ring. Two semaphores are the fewest that can share a
node by mistake; `MaxOpens` lets a freed semaphore struct be reused, and
`SEMAPHORES_LEN` equals it in `kernel_core`, so the last place of the array is
filled. A slice is 2 ticks as in `lib/hw.h`, and sleeps of 0 to 3 ticks are
shorter than, equal to and longer than it, and give equal, smaller and larger
deltas. `MaxSleepers` binds only where timed waits are allowed, since a thread
may then leave many timeouts behind. `TIME_MOD` is larger than every argument,
and 4 in `kernel_timed` so that a wrapped count comes back to zero within
reach. `MaxVal` bounds how far a value is signalled up; above zero a value has
no further effect on threads. No thread of `kernel_core` calls `getc`: what
`LinkedOnce` and `NoOvertaking` say of its ring is shown by the theorems.

With console buffers of two and three characters each way, both buffers run
full with a character left over, a buffer is shifted by less than its length,
and two threads wait for input, with `kernel_main` running, while the device
has several characters. The slice is one tick there: how long it is does not
matter to the console, and every tick preempts. In
`Context` two threads and `kernel_main` give every kind of switch, and one data
slot is what a misplaced frame or result would hit. Five nodes in `Ring` allow
rings of one, two and three next to each other, and a ring of three is the
shortest in which the predecessor and the successor of a node differ; the
theorem covers the rest. Two threads of three blocks, a
semaphore and a timeout fill the eight blocks of `kernel_heap`: a signal can end
a timed wait, a tick can end two timeouts, and a thread, a semaphore or a
timeout can fail to get its block at every point of `thread_create`. The slice
is one tick, and times are 0 and 1, since which tick ends a timeout is the
matter of the other runs. Two producers, a
consumer and `main` contend for a buffer of up to two, which wraps, runs full
and runs empty. `TestEnds` rests on the test refusing more producers than places:
without that refusal a producer may wait for space when the consumer has gone. With eight blocks and requests of one to three, a heap of six
free blocks has free runs on both sides of a freed run, exact fits, splits and
exhaustion. The word after the index holds -2 to 2: a free run shorter than,
equal to and longer than a request, 0, and the lengths of used runs.

Threads, semaphores and nodes are interchangeable (no definition names one), so
the safety runs use symmetry; the liveness runs and `producer_consumer` do not.

Fairness. `FairSpec` of `Kernel` assumes that `kernel_main`, when current, goes
on with its loop (weak fairness: it is straight code with interrupts off
outside the window) and that the timer, which is never off for good, is taken
again and again when it can be taken again and again (strong fairness: the
window of `main()` opens for one instruction per round, and the timer is not in
step with the loop). Nothing is assumed about user threads: they may compute
for ever, and `NoStarvation` then rests on preemption. `FairSpec` of `Mem`
assumes only that `__mem_alloc`, sequential code with interrupts off, goes on.

`ConsoleFairness` adds that the device keeps interrupting while it has a
character or is offered one, and that a thread whose `putc` was refused
executes its `ecall` again when it is given the processor again and again: its
next instruction is that `ecall`. `PutcEnds` holds with a bounded number of
characters put by others (`MaxPut`): a thread that refills the buffer each time
before the other gets the processor could keep it out, and the code has no
queue for refused callers.

`Fairness` of `Context` assumes that handlers run to their end, that `main()`
goes on, and that the timer is not in step with the program: of the ticks it
raises not all fall where the next trap exit throws them away. A tick that is
pending when the window of `main()` opens is taken there, because the processor
evaluates pending interrupts right after the write of `sstatus` that allows
them.

`ProducerConsumer` assumes weak fairness of every thread, which is what
`NoStarvation` of `Kernel` provides to a ready thread, and that the user
presses escape at some time.

A sleep is measured in ticks that are delivered: `csrc sip, 0x2` at
trap exit (`trap.S`) throws away a tick that arrived during the handler, so in
real time a sleep may be longer.

`SleepsAsLongAsAsked` compares the list of timeouts with `owed`: the deltas up to
the entry of a sleeper (`remaining`) add up to what it is owed, it is neither
ready nor running before that is zero, and the tick that makes it zero makes the
thread ready. `SleepsEnd` adds that, under the fairness above, every sleep ends.

Refinement. `ServesFirstFit` states that `Mem` implements `Heap`, with the steps
of the walk as stuttering. `Heap` sees the request and the pointer of the call in
progress, so a return that would be right for another call is not accepted.
`SemaphoresServe` states that `Kernel`, without timed waits,
implements `Counting`: every other call and every interrupt is a stuttering
step for the semaphores. `BufferIsQueue` states that `ProducerConsumer`
implements `BoundedQueue` under `items`, the slots from `head` to `tail`: `put`
takes effect when `tail` moves, `get` when `head` does.

## Theorems

In `KernelProofs`, for every set of threads and semaphores, every slice length,
buffer size, modulus and bound that satisfies the assumptions of `KernelState`,
`Semaphore`, `Console` and `Kernel`, with all calls, those of the console
included, unless said otherwise:

* `StopsWhenDoneTheorem`: `Spec => []StopsWhenDone`, with every call. The
  invariant `CountInv` adds to the count that the current thread is live or
  `kernel_main`: without it, `ThreadExit` could decrement the count for a
  thread that is no longer counted. A switch to a freed struct is excluded
  because that step ends the machine (`SwitchToOwned`).
* `SliceBoundedTheorem`: `Spec => []SliceBounded` when the program makes no
  timed wait. `SliceInv` strengthens the statement from the running thread to
  all threads, since any of them may be the next to run; `__sem_timed_wait`
  writes 0 into `time_left` and is the only action that breaks it.
* `SemCountTheorem`: `Spec => []SemCount` with every call, timed waits and
  their timeouts included, when initial values fit in an `i32`. `SemInv` needs
  the types of the rings and values; the tick, which empties several rings at
  once, rests on `TickWakes` and `TimedOutRing`: if no wake of the tick went
  wrong, every ring it empties had exactly one thread, which is why adding one
  to the value is right.

In `KernelConsoleProofs`, under the same assumptions and with every call:

* `TypeOKTheorem`: `Spec => []TypeOK`. `TypeInv` has one part per group of
  variables. The deltas of the timeout list and the slices are sums and
  differences modulo `TIME_MOD`, and `a0` receives characters, so the types need
  `CountInv` and the two console invariants below.
* `InputInOrderTheorem`, `NoReaderWaitsWithInputTheorem`: proved together by
  `InputInv`. The order alone is not inductive: `__console_receive` hands a
  character to a waiting reader past the buffer, which is in order only because
  the buffer is empty then, and this is what `NoReaderWaitsWithInput` says.
* `OutputInOrderTheorem`: `OutputInv` adds only types; the step that matters is
  the shift of the send buffer by what the device took.
* `ReaderGetsCharTheorem`, an action property: needs `ReaderInv`, that no thread
  is twice in the ring of `getc`, or a second write could replace its
  character.

In `KernelPlaceProofs`, when the program makes no timed wait (`NoTimedWaits`; the
run `timed_wait_panic` shows that the code does not keep these properties
otherwise):

* `NoThreadLostTheorem`, `LinkedOnceTheorem`: from `KernelInv`, of which `PlaceInv`
  says that the running thread, the ready ring, the semaphores' rings, the ring
  of `getc` and the timeout list share no thread, repeat none, and together
  hold the live ones. Neither property is inductive alone: removing a thread
  from one ring keeps it out of the others only if it was linked once, and
  linking it once needs to know where it was. `SliceInv` is part of
  `KernelInv` because `__sem_signal` takes `time_left = 0` for "has a timeout"
  and would remove an entry of the timeout list.
* `IntactTheorem`: every `..._end` of every action is `"no"` or `"stopped"`. It
  also assumes that the program executes no illegal instruction, for which
  `__panic` is the specified answer, and opens at most `SEMAPHORES_LEN`
  semaphores, since `__sem_open` does not check the end of `semaphores[]`.
* `SemaphoresServeTheorem`: `Kernel` implements `Counting`, from `KernelInv` and
  `SemInv`, when initial values fit in an `i32` (`InitsFit`). Each action is
  either one step of `Counting` or leaves its variables alone.
* `NoOvertakingTheorem`, an action property: each handler turns the ready ring,
  each semaphore's ring and that of `getc` into a suffix of itself (`Kept`) or into one with
  threads behind it that were not in it (`Extended`). That these were not in it
  comes from `KernelInv`: a thread pushed twice would be ahead of itself.
* `WaitOutcomeTheorem`, an action property: `Leaves` names the rings a step takes
  a thread from, and `OutcomeStep` what becomes of its result. `__sem_signal` and
  `__sem_close` write the `a0` of exactly the threads they unlink because each is
  in one ring once.
* `SleepsAsLongAsAskedTheorem`: `SleepSpec => SleepsAsLongAsAsked`. The invariant
  `SleepInv` says that the sum of deltas up to each entry of the timeout list is
  at least 1 and below `TIME_MOD`. Without it the sums mean nothing, since
  `__scheduler_timeout` and `__scheduler_tick` subtract in an unsigned `time_t`.
  `OwedInv` says that these sums are what the history `owed` holds. Inserting an
  entry splits the delta of the next one, leaves all other sums alone, and gives
  the new one the argument of the call (`TimeoutTicks`); a tick takes 1 from each
  sum, and the entries it removes are those whose sum was 1 (`TickTicks`), whose
  threads it pushes (`WokenByTick`). A sum over a set of places does not depend on
  the order of the places (`SumsInAnyOrder`), so it grows by one delta from each
  entry to the next (`TicksAre`).

In `KernelHeapProofs`, for every size of the heap, the structs and the stacks:

* `BlocksAccountedTheorem`: with every call. `HeapInv` adds that thread,
  semaphore and timeout counts are finite numbers, since each step moves blocks
  between the terms of one sum. The blocks each handler allocates and frees are
  given by its calls of the allocator, so the proof has to show that they match
  what the lists and sets gain and lose: `TickShortens` that a tick unlinks
  exactly the entries it finds over, `SignalShortens` that a signal unlinks one
  entry exactly when it ends a timed wait, `CreatorsGo` where the stack is during
  `thread_create`.

In `ContextProofs`, for every set of threads and every depth of the stacks:

* `ContextIntactTheorem`, `InterruptsOffTheorem`: with every call. `ContextInv`
  says where the context of each thread is: of the running one in the
  processor or, during a trap, in the newest frame of its stack; of all others in
  the frame `tcb` names. That `tcb` names the right frame holds only for threads
  that do not run (`yield` to oneself does not write all of it), so the invariant
  follows the role of each thread.
* `ResultIntactTheorem`, `StackIntactTheorem`: when no thread calls `getc`
  (`NoStaleResult`); the run `getc_result` shows that `__getc` breaks the first
  by writing to the frame of the last switch, which may by then be a slot of
  the thread's own data, which is the second.

In `RingProofs`, for every set of nodes and of semaphores:

* `RingsTheorem`, `WalkKeepsItsPlaceTheorem`: `Spec => []RingsHoldQueues` and
  `Spec => []WalkKeepsItsPlace`. The
  invariant adds `TypeOK` and `OnePlace`: a node is in one place of one queue,
  so an operation that writes the pointers of a node and its neighbours leaves
  every other ring alone. The walk of `__sem_close` needs its own part of the
  invariant because its ring is no longer a circle: the nodes behind it are
  already in the ready ring, only `next` from `current_thread` onwards still
  leads to `first_thread`, and `first_thread` itself is among those pushed.
  The theorem is what allows `Kernel` to have sequences for rings.

In `MemProofs`, for every number of blocks, every size of the index and every
content of the word after it, when no caller asks for zero blocks
(`NoEmptyRequest`: every caller in the kernel asks for one or more, and a request
of zero ruins a tag, see Findings):

* `TypeOKTheorem`, `NoOverlapTheorem`, `IndexExactTheorem`,
  `StopsOnlyWhenFullTheorem`: from `MemInv`, which says there is a set of starts
  whose runs tile the heap, with the length at both ends, zero inside and no
  two free runs side by side (`Exact`), that the walk of `__mem_alloc` stands on
  a start (`Walk`), and that all free runs behind it are too short (`Short`). The
  set of starts is quantified, not computed: no induction over the heap is
  needed, and a split adds one start, a join removes one or two.
* `ServesFirstFitTheorem`: `Mem` implements `Heap`. The walk's rounds are
  stuttering steps; `Short` is what makes the run taken the first that fits and
  a failure right. `Refused` shows that `__mem_free` refuses every block nobody
  holds outside `TakenForStart`: its entry is 0, negative, or the foot of a run,
  and the entry that is compared is then no equal length. `OneCall` carries the
  condition on the pointer from the call to the step that reads the index.

In `ProducerConsumerProofs`, for any numbers of threads and places the user may
enter:

* `NoUseAfterDeleteTheorem`: `PCInv` follows `main()` through its phases (`Phase`).
  While threads run, `Units` says that the units of `waitForAll` and the joins
  made are the threads that are over, so the last join comes after the last
  call of any thread.
* `BufferIsQueueTheorem`: `ProducerConsumer` implements `BoundedQueue`. `Units`
  also accounts for each unit of `spaceAvailable` and `itemAvailable`: it is in
  the value, with a thread between its two calls, or an item of the buffer. `put`
  at a full buffer and `get` at an empty one are excluded by that sum, two
  writers at one slot by the sum for `mutexTail`. `Queued` is needed because a
  woken thread goes on without a second look at the value.

Each proof has the same shape: the initial states satisfy the invariant, each
action keeps it (one step per action), the invariant implies the property; a
refinement adds that each step, from states in the invariant, maps to a step of
the abstract specification or a stutter. Every invariant was checked with TLC
before its proof. Lemmas on the `..._end` operators show that handlers never end
in `"stopped"`. A sum of deltas over a set of places is an integer by induction
on the size of the set, stated over sets of numbers (`InductiveSet` of
`KernelProofs`: a set that holds 0, and with each number the next, holds all),
because the library's induction theorems take an operator the provers cannot
instantiate; `LeastNatural` gives the first entry at which a tick goes wrong.

Only model-checked is liveness under fairness, which is out of this prover's
reach: `NoStarvation`, `Termination`, `SleepsEnd`, `ReaderServed`, `PutcEnds`,
`TicksServed`, `AllocReturns`, `TestEnds`.

## Findings

Two disagreements of the code with its own checks and tests have a run:

* `timed_wait_panic`: a timed wait that succeeds at once leaves its timeout in
  the list; when it is over, `__sem_remove_thread` panics with "Thread lost".
* `getc_result`: `__getc` with a character in the buffer writes it to the frame
  of the thread's last switch; the caller finds the code of the call in `a0`.

Others show in the definitions and have no run of their own:

* If another thread waits on the semaphore when a timeout left behind is over,
  `__sem_remove_thread` drops that thread from the semaphore and it never runs
  again (`scheduler_tick` empties the ring, whoever is in it).
* A wait that does time out returns the code of the call, because the early
  return for a ring of one skips the write of `SEM_WAIT_TIMEOUT`; a longer ring
  is left with its head on an unlinked node (`wake_end`).
* `__scheduler_remove_timeout` frees the first of several timeouts and leaves
  `sleeping_threads` on it (`sleeping_freed`); the next tick or timeout uses the
  freed record.
* When nothing fits, the walk of `__mem_alloc` reads the word after the index
  (`Beyond`) and stops the machine over a sound index if that word is 0.
  `StopsOnlyWhenFull` shows that this is the only time it does.
* `__mem_alloc` serves a request of zero blocks and zeroes two tags; `mem_heap`
  asks for one block or more.
* `__mem_free` accepts the last block of an allocation of n as the start of one
  when another run of n begins n - 1 blocks further on (for two allocations of
  two, side by side: the second block of the first); `TakenForStart` says which,
  and `Free` leaves such calls out.
* `irq_handler` has no case for `SYSCALL_MEM_FREE`: `mem_free` returns its own
  code and the blocks stay allocated (`mem_free` in `KernelHeap`). So a
  `thread_create` that finds no memory for the struct leaks the stack it has just
  allocated (`CreateUndo`): `lost_blocks` only grows.

`kernel_timed` and the theorems show what survives timed waits: values still
count the waiting threads and the thread count is right.

## Not modelled

* `ubsan.c` is vendored and not enabled by the Makefile.
* The C++ classes (`syscall_cpp.cpp`) forward each method to one C call and keep
  only the handle; `PeriodicThread` is declared and has no bodies.
* Number printing (`kernel.c`), debug output and what the kernel itself prints
  in a panic are formatting and end with the machine.
* The check "Stack overflow" of `__thread_delete`: how deep a stack grows is up to
  the user program.
* The binary library under `lib/`: its timer and console device are the external
  actions `TimerIrq`, `Raise`, `KeyPress` and the device's part of `HwIrq`.
* The other test programs print and sleep; they share flags only.
* That output is complete when the machine stops: `__stop` offers what is left
  once and waits for nothing. `OutputInOrder` shows that what is lost is the end.
* `semaphores[]` filled beyond its length: the model ends such a behaviour as
  `"corrupt"`; nothing in the repository says how many are meant to be enough.
* Bad arguments: callers of `__mem_free` pass no pointer of `TakenForStart`, and
  semaphore handles are used only while open.

## Plan

All components with a state of their own are modelled, and every safety
invariant, action property and refinement of the passing runs is proved, those
of `KernelPlaceProofs` for programs without timed waits. What is left:

1. The properties of `KernelPlaceProofs` that timed waits do not break. A thread in
   a timed wait is in two places by design, so `PlaceInv` has to say which pairs of
   places a thread may share, and TLC has to say first which of them hold.
