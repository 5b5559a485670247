----------------------------- MODULE KernelHeap -----------------------------
(***************************************************************************)
(* Kernel together with the blocks of the heap: which handler asks         *)
(* __mem_alloc for blocks, what it does when there are none, which blocks  *)
(* it gives back, and the calls mem_alloc, mem_free and thread_create of   *)
(* user code.                                                              *)
(*                                                                         *)
(* The heap is a number of free blocks.  Heap, which Mem implements, says  *)
(* that a request of one block fails only when none is free; a longer one  *)
(* may also fail because no run is long enough, so here it may always      *)
(* fail.  Every struct of the kernel is one block.  The calls of the       *)
(* console allocate nothing and are left out.                              *)
(***************************************************************************)
EXTENDS Kernel

CONSTANTS
  HEAP_BLOCKS,  \* blocks the heap has for threads, semaphores, timeouts, buffers
  STACK_BLOCKS, \* DEFAULT_STACK_SIZE in blocks
  Sizes         \* arguments of mem_alloc, in blocks

ASSUME HeapAssumption ==
  /\ STACK_BLOCKS \in Nat \ {0}
  /\ HEAP_BLOCKS \in Nat
  /\ HEAP_BLOCKS > STACK_BLOCKS
  /\ Sizes \subseteq Nat \ {0}

VARIABLES
  free_blocks,   \* blocks of the heap that are free
  creating,      \* per thread: where it is in thread_create
  held_blocks,   \* blocks user code has from mem_alloc and has not freed
  lost_blocks    \* blocks passed to mem_free, which nobody can use again

heap_vars == <<free_blocks, creating, held_blocks, lost_blocks>>
all_vars == <<vars, heap_vars>>

thread_blocks == STACK_BLOCKS + 1

HeapInit ==
  /\ Init
  /\ free_blocks = HEAP_BLOCKS - thread_blocks
  /\ creating = [t \in Thread |-> "no"]
  /\ held_blocks = 0
  /\ lost_blocks = 0

-----------------------------------------------------------------------------
(* __mem_alloc and __mem_free, as the handlers call them.                  *)

\* A request is served.
Allocates(n) ==
  /\ free_blocks >= n
  /\ free_blocks' = free_blocks - n

\* A request may find no run of n blocks.
MayFail(n) == free_blocks < n \/ n > 1

Frees(n) == free_blocks' = free_blocks + n

\* The walk that finds no run may stop the machine with "Memory index
\* corrupted!" (see Mem) instead of returning 0; code that does not test the
\* result writes to address 0, which ends in "Illegal write".
Exhausted(n) ==
  /\ MayFail(n)
  /\ Halt("panic")
  /\ UNCHANGED heap_vars

\* The running thread is not inside thread_create.
Outside == thread_current \in Thread /\ creating[thread_current] = "no"

\* Some address other than 0, as a result.
ADDRESS == 1

-----------------------------------------------------------------------------
(* Calls about memory.                                                     *)

\* SYSCALL_MEM_ALLOC: no other state of the kernel changes.
mem_alloc(n, result) ==
  /\ \/ Allocates(n) /\ result = ADDRESS
     \/ MayFail(n) /\ result = 0 /\ UNCHANGED free_blocks
  /\ a0' = [a0 EXCEPT ![thread_current] = result]
  /\ UNCHANGED <<halted, km_pc, live, sched_vars, user_thread_count, timeout_vars,
                 sem_vars, console_vars, lost_blocks>>

MemAlloc ==
  /\ Ecall("MEM_ALLOC") /\ Outside
  /\ \E n \in Sizes :
       \/ Exhausted(n)
       \/ \E result \in {0, ADDRESS} :
            /\ mem_alloc(n, result)
            /\ held_blocks' = IF result = 0 THEN held_blocks ELSE held_blocks + n
            /\ UNCHANGED creating

\* mem_free of user code: a code the handler does not serve, so that n blocks
\* the caller gives up are not free for anyone.
mem_free(n) ==
  /\ unserved("MEM_FREE")
  /\ lost_blocks' = lost_blocks + n
  /\ UNCHANGED free_blocks

MemFree ==
  /\ Outside
  /\ \E n \in Sizes :
       /\ n <= held_blocks
       /\ mem_free(n)
       /\ held_blocks' = held_blocks - n
  /\ UNCHANGED creating

-----------------------------------------------------------------------------
(* thread_create: three calls, between which the thread can be preempted.  *)

Goes(from, to) ==
  /\ creating[thread_current] = from
  /\ creating' = [creating EXCEPT ![thread_current] = to]

\* mem_alloc of the stack, which may give THREAD_CREATE_NO_MEMORY.
CreateStack ==
  /\ Ecall("THREAD_CREATE") /\ Outside
  /\ \/ Exhausted(STACK_BLOCKS)
     \/ /\ mem_alloc(STACK_BLOCKS, ADDRESS)
        /\ Goes("no", "stack")
        /\ UNCHANGED held_blocks
     \/ /\ mem_alloc(STACK_BLOCKS, 0)
        /\ UNCHANGED <<creating, held_blocks>>

\* The ecall of thread_create: the stack now belongs to the thread.
CreateThread ==
  /\ Ecall("THREAD_CREATE") /\ creating[thread_current] = "stack"
  /\ \/ Exhausted(1)
     \/ /\ ThreadCreate
        /\ Allocates(1)
        /\ Goes("stack", "no")
        /\ UNCHANGED <<held_blocks, lost_blocks>>
     \/ /\ ThreadCreateNoMemory
        /\ MayFail(1)
        /\ Goes("stack", "failed")
        /\ UNCHANGED <<free_blocks, held_blocks, lost_blocks>>

\* After a failure thread_create passes the stack to mem_free, and it is lost.
CreateUndo ==
  /\ mem_free(STACK_BLOCKS)
  /\ Goes("failed", "no")
  /\ UNCHANGED held_blocks

\* __thread_delete frees the stack and the struct.
Exit ==
  /\ ThreadExit /\ Outside
  /\ Frees(thread_blocks)
  /\ UNCHANGED <<creating, held_blocks, lost_blocks>>

-----------------------------------------------------------------------------
(* Semaphores and timeouts.                                                *)

Open ==
  /\ Ecall("SEM_OPEN") /\ Outside
  /\ \/ Exhausted(1)
     \/ SemOpen /\ Allocates(1) /\ UNCHANGED <<creating, held_blocks, lost_blocks>>
     \/ SemOpenNoMemory /\ MayFail(1) /\ UNCHANGED heap_vars

Close ==
  /\ SemClose /\ Outside
  /\ Frees(1)
  /\ UNCHANGED <<creating, held_blocks, lost_blocks>>

\* __scheduler_timeout takes a block for the entry once it has read the head of
\* the list, and does not test the result.
TimeoutBlock ==
  IF timeout_end = "no" THEN Allocates(1) ELSE UNCHANGED free_blocks

\* time_sleep of no time links no entry.
Sleep ==
  /\ Ecall("TIMED_SLEEP") /\ Outside
  /\ \E time \in Times :
       /\ SleepFor(time)
       /\ IF time = 0 THEN UNCHANGED free_blocks ELSE TimeoutBlock
  /\ UNCHANGED <<creating, held_blocks, lost_blocks>>

\* A timed wait links one, whatever its time is.
TimedWait ==
  /\ SemTimedWait /\ Outside
  /\ TimeoutBlock
  /\ UNCHANGED <<creating, held_blocks, lost_blocks>>

TimeoutNoMemory ==
  /\ Outside
  /\ timeout_end = "no"
  /\ \/ Ecall("TIMED_SLEEP") /\ \E time \in Times : time > 0
     \/ Ecall("SEM_TIMED_WAIT") /\ open # {} /\ Times # {}
  /\ Exhausted(1)

\* Mutant: the first entry that is over is unlinked and not freed.
Tick_first_kept ==
  /\ TimerIrq
  /\ \E k \in 0 .. Len(sleeping_threads) :
       expired(k) /\ Frees(IF k = 0 THEN 0 ELSE k - 1)
  /\ UNCHANGED <<creating, held_blocks, lost_blocks>>

\* __scheduler_tick calls __mem_free for each of the k entries that are over.
Tick ==
  /\ TimerIrq
  /\ \E k \in 0 .. Len(sleeping_threads) : expired(k) /\ Frees(k)
  /\ UNCHANGED <<creating, held_blocks, lost_blocks>>

\* The signal ends a timed wait: __scheduler_remove_timeout frees one entry.
cancels(s) == sem_signal_unblocks(s) /\ time_left[Head(waiting_threads[s])] = 0

Signal ==
  /\ Ecall("SEM_SIGNAL") /\ Outside
  /\ \E s \in open : SignalOn(s) /\ Frees(IF cancels(s) THEN 1 ELSE 0)
  /\ UNCHANGED <<creating, held_blocks, lost_blocks>>

-----------------------------------------------------------------------------
\* The handlers that neither allocate nor free.
Others ==
  /\ \/ (ThreadDispatch \/ SemWait \/ unserved("SEM_TRYWAIT")) /\ Outside
     \/ IllegalOperation /\ Outside
     \/ KernelDispatch \/ KernelCheck \/ Off
  /\ UNCHANGED heap_vars

HeapNext ==
  \/ MemAlloc \/ MemFree \/ CreateStack \/ CreateThread \/ CreateUndo \/ Exit
  \/ Open \/ Close \/ Sleep \/ TimedWait \/ TimeoutNoMemory
  \/ Tick \/ Signal \/ Others

HeapSpec == HeapInit /\ [][HeapNext]_all_vars

-----------------------------------------------------------------------------
(* Properties.                                                             *)

\* The blocks of the structs and stacks of what exists in the kernel.
kernel_blocks ==
  thread_blocks * Cardinality(live) + Cardinality(open) + Len(sleeping_threads)

\* The threads inside thread_create, each with a stack that is no thread's yet.
creators == {t \in Thread : creating[t] # "no"}

\* The blocks user code has.
user_blocks == STACK_BLOCKS * Cardinality(creators) + held_blocks

\* The kernel neither loses a block nor gives one back twice: a block is free,
\* belongs to a thread, a semaphore or a timeout that exists, is with user code,
\* or was passed to mem_free, which irq_handler does not serve.  So the structs
\* do not use up the heap, however often threads, semaphores and timeouts come
\* and go and whichever calls fail; what does is mem_free, the stack that a
\* failed thread_create passes to it included.
BlocksAccounted ==
  halted = "no" =>
    /\ free_blocks >= 0
    /\ free_blocks + kernel_blocks + user_blocks + lost_blocks = HEAP_BLOCKS
=============================================================================
