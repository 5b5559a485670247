-------------------------- MODULE KernelHeapProofs --------------------------
(***************************************************************************)
(* The blocks of the heap are accounted for, whatever threads, semaphores  *)
(* and timeouts come and go, for any heap and any sizes.                   *)
(***************************************************************************)
EXTENDS KernelHeap, KernelConsoleProofs

-----------------------------------------------------------------------------
(* The inductive invariant.                                                *)

\* The number of blocks of the kernel's structs can be told: the sets are
\* finite and the list is a list.
Countable ==
  /\ CountInv
  /\ SleepersTyped
  /\ open \subseteq Sem
  /\ IsFiniteSet(open)

HeapTyped ==
  /\ free_blocks \in Int
  /\ held_blocks \in Int
  /\ lost_blocks \in Int
  /\ DOMAIN creating = Thread

HeapInv == Countable /\ HeapTyped /\ BlocksAccounted

-----------------------------------------------------------------------------
(* Numbers.                                                                *)

LEMMA SumOfFour ==
  ASSUME NEW a \in Int, NEW b \in Int, NEW c \in Int, NEW d \in Int, NEW cd, c + d = cd
  PROVE  a + b + c + d = a + b + cd
OBVIOUS

LEMMA SameLength == \A a, b \in Nat : 1 .. a = 1 .. b => a = b
<1>1. \A a, b \in Nat : a < b => b \in 1 .. b /\ b \notin 1 .. a
  OBVIOUS
<1> QED BY <1>1

\* thread_blocks of one thread more or less.
LEMMA ThreadBlocks ==
  /\ thread_blocks \in Nat
  /\ \A n \in Nat : thread_blocks * (n + 1) = thread_blocks * n + thread_blocks
  /\ \A n \in Nat : thread_blocks * n \in Int
<1>1. \A b \in Nat, n \in Nat : b * (n + 1) = b * n + b /\ b * n \in Int
  OBVIOUS
<1>2. thread_blocks \in Nat
  BY HeapAssumption DEF thread_blocks
<1> QED BY <1>1, <1>2

\* The blocks of the structs of the threads of T, of the semaphores of S and of
\* n timeouts.
struct_blocks(T, S, n) == thread_blocks * Cardinality(T) + Cardinality(S) + n

LEMMA StructBlocks ==
  ASSUME NEW T, IsFiniteSet(T), NEW S, IsFiniteSet(S), NEW n \in Nat
  PROVE  struct_blocks(T, S, n) \in Int
<1> DEFINE p == thread_blocks * Cardinality(T)
<1>1. Cardinality(T) \in Nat /\ Cardinality(S) \in Nat
  BY FS_CardinalityType
<1>2. p \in Int
  BY <1>1, ThreadBlocks
<1>3. struct_blocks(T, S, n) = p + Cardinality(S) + n
  BY DEF struct_blocks
<1> HIDE DEF p
<1> QED BY <1>1, <1>2, <1>3

\* A thread more or less, and a semaphore more or less.
LEMMA StructAdded ==
  ASSUME NEW T, IsFiniteSet(T), NEW S, IsFiniteSet(S), NEW n \in Nat
  PROVE  /\ \A t : t \notin T =>
              struct_blocks(T \cup {t}, S, n) = struct_blocks(T, S, n) + thread_blocks
         /\ \A t \in T :
              struct_blocks(T \ {t}, S, n) = struct_blocks(T, S, n) - thread_blocks
         /\ \A s : s \notin S => struct_blocks(T, S \cup {s}, n) = struct_blocks(T, S, n) + 1
         /\ \A s \in S : struct_blocks(T, S \ {s}, n) = struct_blocks(T, S, n) - 1
<1>1. Cardinality(T) \in Nat /\ Cardinality(S) \in Nat
  BY FS_CardinalityType
<1>2. thread_blocks * Cardinality(T) \in Int /\ thread_blocks \in Nat
  BY <1>1, ThreadBlocks
<1>3. ASSUME NEW t, t \notin T
      PROVE  struct_blocks(T \cup {t}, S, n) = struct_blocks(T, S, n) + thread_blocks
  <2>1. Cardinality(T \cup {t}) = Cardinality(T) + 1
    BY <1>3, FS_AddElement
  <2>2. thread_blocks * Cardinality(T \cup {t}) = thread_blocks * Cardinality(T) + thread_blocks
    BY <1>1, <2>1, ThreadBlocks
  <2> DEFINE p == thread_blocks * Cardinality(T)
             r == thread_blocks * Cardinality(T \cup {t})
  <2>3. p \in Int /\ r = p + thread_blocks
    BY <1>2, <2>2
  <2>4. /\ struct_blocks(T, S, n) = p + Cardinality(S) + n
        /\ struct_blocks(T \cup {t}, S, n) = r + Cardinality(S) + n
    BY DEF struct_blocks
  <2> HIDE DEF p, r
  <2> QED BY <1>1, <1>2, <2>3, <2>4
<1>4. ASSUME NEW t \in T
      PROVE  struct_blocks(T \ {t}, S, n) = struct_blocks(T, S, n) - thread_blocks
  <2>1. Cardinality(T \ {t}) = Cardinality(T) - 1 /\ IsFiniteSet(T \ {t})
    BY FS_RemoveElement
  <2>2. Cardinality(T \ {t}) \in Nat
    BY <2>1, FS_CardinalityType
  <2>3. Cardinality(T) = Cardinality(T \ {t}) + 1
    BY <1>1, <2>1, <2>2
  <2>4. thread_blocks * Cardinality(T) = thread_blocks * Cardinality(T \ {t}) + thread_blocks
        /\ thread_blocks * Cardinality(T \ {t}) \in Int
    BY <2>2, <2>3, ThreadBlocks
  <2> DEFINE p == thread_blocks * Cardinality(T)
             r == thread_blocks * Cardinality(T \ {t})
  <2>5. r \in Int /\ p = r + thread_blocks
    BY <2>4
  <2>6. /\ struct_blocks(T, S, n) = p + Cardinality(S) + n
        /\ struct_blocks(T \ {t}, S, n) = r + Cardinality(S) + n
    BY DEF struct_blocks
  <2> HIDE DEF p, r
  <2> QED BY <1>1, <1>2, <2>5, <2>6
<1> DEFINE p == thread_blocks * Cardinality(T)
<1>5. p \in Int /\ \A U : struct_blocks(T, U, n) = p + Cardinality(U) + n
  BY <1>2 DEF struct_blocks
<1> HIDE DEF p
<1>6. ASSUME NEW s, s \notin S
      PROVE  struct_blocks(T, S \cup {s}, n) = struct_blocks(T, S, n) + 1
  <2>1. Cardinality(S \cup {s}) = Cardinality(S) + 1
    BY <1>6, FS_AddElement
  <2> QED BY <1>1, <1>5, <2>1
<1>7. ASSUME NEW s \in S
      PROVE  struct_blocks(T, S \ {s}, n) = struct_blocks(T, S, n) - 1
  <2>1. Cardinality(S \ {s}) = Cardinality(S) - 1
    BY FS_RemoveElement
  <2> QED BY <1>1, <1>5, <2>1
<1> QED BY <1>3, <1>4, <1>6, <1>7

\* A timeout more or less.
LEMMA StructTimeouts ==
  ASSUME NEW T, IsFiniteSet(T), NEW S, IsFiniteSet(S), NEW n \in Nat, NEW m \in Nat
  PROVE  struct_blocks(T, S, m) = struct_blocks(T, S, n) + (m - n)
<1> DEFINE p == thread_blocks * Cardinality(T)
<1>1. Cardinality(T) \in Nat /\ Cardinality(S) \in Nat
  BY FS_CardinalityType
<1>2. p \in Int
  BY <1>1, ThreadBlocks
<1>3. struct_blocks(T, S, n) = p + Cardinality(S) + n
      /\ struct_blocks(T, S, m) = p + Cardinality(S) + m
  BY DEF struct_blocks
<1> HIDE DEF p
<1> QED BY <1>1, <1>2, <1>3

\* The stacks of the threads of C, which are inside thread_create.
stack_blocks(C) == STACK_BLOCKS * Cardinality(C)

\* One of them more or less.
LEMMA StackBlocks ==
  ASSUME NEW C, IsFiniteSet(C)
  PROVE  /\ stack_blocks(C) \in Int
         /\ \A t : t \notin C => stack_blocks(C \cup {t}) = stack_blocks(C) + STACK_BLOCKS
         /\ \A t \in C : stack_blocks(C \ {t}) = stack_blocks(C) - STACK_BLOCKS
<1>1. \A b \in Nat, n \in Nat : b * (n + 1) = b * n + b /\ b * n \in Int
  OBVIOUS
<1>2. STACK_BLOCKS \in Nat /\ Cardinality(C) \in Nat
  BY HeapAssumption, FS_CardinalityType
<1>3. stack_blocks(C) \in Int
  BY <1>1, <1>2 DEF stack_blocks
<1>4. ASSUME NEW t, t \notin C
      PROVE  stack_blocks(C \cup {t}) = stack_blocks(C) + STACK_BLOCKS
  <2>1. Cardinality(C \cup {t}) = Cardinality(C) + 1
    BY <1>4, FS_AddElement
  <2> QED BY <1>1, <1>2, <2>1 DEF stack_blocks
<1>5. ASSUME NEW t \in C
      PROVE  stack_blocks(C \ {t}) = stack_blocks(C) - STACK_BLOCKS
  <2>1. Cardinality(C \ {t}) = Cardinality(C) - 1 /\ IsFiniteSet(C \ {t})
    BY FS_RemoveElement
  <2>2. Cardinality(C \ {t}) \in Nat
    BY <2>1, FS_CardinalityType
  <2>3. Cardinality(C) = Cardinality(C \ {t}) + 1
    BY <1>2, <2>1, <2>2
  <2>4. stack_blocks(C) = stack_blocks(C \ {t}) + STACK_BLOCKS /\ stack_blocks(C \ {t}) \in Int
    BY <1>1, <1>2, <2>2, <2>3 DEF stack_blocks
  <2> QED BY <1>2, <2>4
<1> QED BY <1>3, <1>4, <1>5

-----------------------------------------------------------------------------
(* What a step may do to the sum.                                          *)

\* The blocks that are neither free nor the kernel's.
handed_blocks == stack_blocks(creators) + held_blocks + lost_blocks

\* The sets and the list have numbers of members.
LEMMA Numbers ==
  ASSUME Countable
  PROVE  /\ IsFiniteSet(live) /\ IsFiniteSet(open)
         /\ Len(sleeping_threads) \in Nat /\ kernel_blocks \in Int
         /\ kernel_blocks = struct_blocks(live, open, Len(sleeping_threads))
<1>1. IsFiniteSet(live)
  BY KernelAssumption, FS_Subset DEF Countable, CountInv
<1>2. IsFiniteSet(open) /\ Len(sleeping_threads) \in Nat
  BY SleeperFields DEF Countable
<1>3. kernel_blocks = struct_blocks(live, open, Len(sleeping_threads))
  BY DEF kernel_blocks, struct_blocks
<1> QED BY <1>1, <1>2, <1>3, StructBlocks

\* The same of the next state.
LEMMA NumbersNext ==
  ASSUME Countable'
  PROVE  /\ IsFiniteSet(live') /\ IsFiniteSet(open')
         /\ Len(sleeping_threads') \in Nat /\ kernel_blocks' \in Int
         /\ kernel_blocks' = struct_blocks(live', open', Len(sleeping_threads'))
<1>1. live' \subseteq Thread /\ IsFiniteSet(open') /\ sleeping_threads' \in Seq(Sleeper)
  BY DEF Countable, CountInv, SleepersTyped
<1>2. IsFiniteSet(live') /\ Len(sleeping_threads') \in Nat
  BY <1>1, KernelAssumption, FS_Subset
<1>3. kernel_blocks' = struct_blocks(live', open', Len(sleeping_threads'))
  BY DEF kernel_blocks, struct_blocks
<1> QED BY <1>1, <1>2, <1>3, StructBlocks

LEMMA Creators == IsFiniteSet(creators) /\ stack_blocks(creators) \in Int
<1>1. IsFiniteSet(creators)
  BY KernelAssumption, FS_Subset DEF creators
<1> QED BY <1>1, StackBlocks

LEMMA HandedInt ==
  ASSUME HeapTyped
  PROVE  /\ handed_blocks \in Int
         /\ user_blocks + lost_blocks = handed_blocks
         /\ user_blocks \in Int
<1>1. user_blocks = stack_blocks(creators) + held_blocks
  BY DEF user_blocks, stack_blocks
<1> QED BY <1>1, Creators DEF HeapTyped, handed_blocks

LEMMA HandedIntNext ==
  ASSUME HeapTyped'
  PROVE  /\ handed_blocks' \in Int
         /\ user_blocks' + lost_blocks' = handed_blocks'
         /\ user_blocks' \in Int
<1>1. user_blocks' = stack_blocks(creators') + held_blocks'
  BY DEF user_blocks, stack_blocks
<1>2. IsFiniteSet(creators')
  BY KernelAssumption, FS_Subset DEF creators
<1>3. stack_blocks(creators') \in Int
  BY <1>2, StackBlocks
<1> QED BY <1>1, <1>3 DEF HeapTyped, handed_blocks

\* When the kernel's blocks, the free ones and the others change by numbers that
\* add up to nothing, all blocks are still accounted for.
LEMMA Balanced ==
  ASSUME HeapInv, Countable', HeapTyped', halted = "no",
         halted' = "no" =>
           /\ free_blocks' >= 0
           /\ \E u, h \in Int : /\ kernel_blocks' = kernel_blocks + u
                                /\ handed_blocks' = handed_blocks + h
                                /\ free_blocks' = free_blocks - (u + h)
  PROVE  HeapInv'
<1> SUFFICES ASSUME halted' = "no" PROVE BlocksAccounted'
  BY DEF HeapInv, BlocksAccounted
<1>1. kernel_blocks \in Int /\ kernel_blocks' \in Int
  BY Numbers, NumbersNext DEF HeapInv
<1>2. /\ handed_blocks \in Int /\ user_blocks + lost_blocks = handed_blocks
      /\ user_blocks \in Int /\ lost_blocks \in Int /\ free_blocks \in Int
  BY HandedInt DEF HeapInv, HeapTyped
<1>3. /\ handed_blocks' \in Int /\ user_blocks' + lost_blocks' = handed_blocks'
      /\ user_blocks' \in Int /\ lost_blocks' \in Int /\ free_blocks' \in Int
  BY HandedIntNext DEF HeapTyped
<1>4. PICK u \in Int, h \in Int : /\ kernel_blocks' = kernel_blocks + u
                                  /\ handed_blocks' = handed_blocks + h
                                  /\ free_blocks' = free_blocks - (u + h)
  OBVIOUS
<1>5. free_blocks + kernel_blocks + user_blocks + lost_blocks = HEAP_BLOCKS
  BY DEF HeapInv, BlocksAccounted
<1>6. free_blocks + kernel_blocks + handed_blocks = HEAP_BLOCKS
  BY <1>1, <1>2, <1>5
<1>7. free_blocks' + kernel_blocks' + handed_blocks' = HEAP_BLOCKS
  BY <1>1, <1>2, <1>3, <1>4, <1>6
<1>8. free_blocks' + kernel_blocks' + user_blocks' + lost_blocks' = HEAP_BLOCKS
  <2>1. free_blocks' + kernel_blocks' + user_blocks' + lost_blocks'
          = free_blocks' + kernel_blocks' + handed_blocks'
    <3>1. kernel_blocks' \in Int
      BY <1>1
    <3>2. free_blocks' \in Int /\ user_blocks' \in Int /\ lost_blocks' \in Int
      BY <1>3
    <3>3. user_blocks' + lost_blocks' = handed_blocks'
      BY <1>3
    <3> QED BY <3>1, <3>2, <3>3, SumOfFour
  <2> QED BY <1>7, <2>1
<1>9. free_blocks' >= 0
  OBVIOUS
<1> QED BY <1>8, <1>9 DEF BlocksAccounted

\* How the blocks with user code change.
LEMMA HandedKept ==
  ASSUME HeapTyped, UNCHANGED <<creating, held_blocks, lost_blocks>>
  PROVE  handed_blocks' = handed_blocks + 0
<1>1. handed_blocks' = handed_blocks
  BY DEF handed_blocks, creators
<1> QED BY <1>1, HandedInt

\* A thread goes into thread_create, on in it, or out of it.
LEMMA CreatorsGo ==
  ASSUME HeapTyped, NEW from, NEW to, Goes(from, to), thread_current \in Thread
  PROVE  /\ DOMAIN creating' = Thread
         /\ from = "no" /\ to # "no" => /\ thread_current \notin creators
                                        /\ creators' = creators \cup {thread_current}
         /\ from # "no" /\ to = "no" => /\ thread_current \in creators
                                        /\ creators' = creators \ {thread_current}
         /\ from # "no" /\ to # "no" => creators' = creators
<1>1. /\ creating[thread_current] = from
      /\ creating' = [creating EXCEPT ![thread_current] = to]
      /\ DOMAIN creating = Thread
  BY DEF Goes, HeapTyped
<1>2. /\ DOMAIN creating' = Thread /\ creating'[thread_current] = to
      /\ \A t \in Thread : t # thread_current => creating'[t] = creating[t]
  BY <1>1
<1> QED BY <1>1, <1>2 DEF creators

-----------------------------------------------------------------------------
(* The structs stay countable.                                             *)

\* A step opens one semaphore, closes one, or leaves them alone.
LEMMA OpenNext ==
  ASSUME Next
  PROVE  \/ open' = open
         \/ \E s \in Sem \ open : open' = open \cup {s}
         \/ \E s \in open : open' = open \ {s}
<1> USE DEF sem_vars
<1>1. \A end : Halt(end) => open' = open
  BY DEF Halt
<1>2. CASE SemOpen
  BY <1>1, <1>2 DEF SemOpen, sem_open
<1>3. CASE SemClose
  BY <1>1, <1>3 DEF SemClose, sem_close
<1>4. CASE \/ ThreadCreate \/ ThreadCreateNoMemory \/ ThreadExit \/ ThreadDispatch
           \/ SemOpenNoMemory \/ SemWait \/ SemSignal \/ SemTimedWait \/ TimedSleep
           \/ Unserved \/ IllegalOperation
  BY <1>1, <1>4 DEF ThreadCreate, ThreadCreateNoMemory, ThreadExit, ThreadDispatch,
     SemOpenNoMemory, SemWait, SemSignal, SignalOn, SemTimedWait, TimedSleep, SleepFor,
     Unserved, unserved, IllegalOperation
<1>5. CASE \/ Getc \/ PutcAccepted \/ PutcRefused \/ TimerIrq \/ KeyPress \/ HwIrq
           \/ KernelDispatch \/ KernelCheck \/ Off
  BY <1>1, <1>5 DEF Getc, PutcAccepted, PutcRefused, TimerIrq, KeyPress, HwIrq,
     KernelDispatch, KernelCheck, stop, Off, vars
<1> QED BY <1>2, <1>3, <1>4, <1>5 DEF Next, Syscall

LEMMA CountableNext ==
  ASSUME Countable, Next
  PROVE  Countable'
<1>1. CountInv' /\ SleepersTyped'
  BY CountNext, SleepersNext DEF Countable
<1>2. open' \subseteq Sem /\ IsFiniteSet(open')
  <2>1. CASE open' = open
    BY <2>1 DEF Countable
  <2>2. CASE \E s \in Sem \ open : open' = open \cup {s}
    BY <2>2, FS_AddElement DEF Countable
  <2>3. CASE \E s \in open : open' = open \ {s}
    BY <2>3, FS_RemoveElement DEF Countable
  <2> QED BY <2>1, <2>2, <2>3, OpenNext
<1> QED BY <1>1, <1>2 DEF Countable

\* A machine that ends changes none of the structs.
LEMMA CountableHalt ==
  ASSUME Countable, Halt("panic")
  PROVE  Countable'
<1>1. CountInv'
  BY CountHalt DEF Countable, Failure
<1>2. UNCHANGED <<open, sleeping_threads, sleeping_freed>>
  BY DEF Halt, sem_vars, timeout_vars
<1> QED BY <1>1, <1>2 DEF Countable, SleepersTyped

\* The handler of mem_alloc, and the codes irq_handler does not serve, leave
\* the structs alone.
LEMMA CountableFrame ==
  ASSUME Countable,
         UNCHANGED <<halted, live, thread_current, user_thread_count, timeout_vars, open>>
  PROVE  Countable'
BY DEF Countable, CountInv, SleepersTyped, timeout_vars

LEMMA SameUsed ==
  ASSUME live' = live, open' = open, sleeping_threads' = sleeping_threads
  PROVE  kernel_blocks' = kernel_blocks
BY DEF kernel_blocks

-----------------------------------------------------------------------------
(* The handlers, one by one.                                               *)

LEMMA ExhaustedStep ==
  ASSUME HeapInv, NEW n, Exhausted(n)
  PROVE  HeapInv'
<1>1. Countable'
  BY CountableHalt DEF HeapInv, Exhausted
<1>2. HeapTyped' /\ halted' # "no"
  BY DEF HeapInv, HeapTyped, Exhausted, heap_vars, Halt
<1> QED BY <1>1, <1>2 DEF HeapInv, BlocksAccounted

\* A step that leaves the structs and the blocks alone, or ends the machine.
LEMMA FrameStep ==
  ASSUME HeapInv, Countable', UNCHANGED <<free_blocks, creating, held_blocks, lost_blocks>>,
         halted' = "no" => halted = "no" /\ UNCHANGED <<live, open, sleeping_threads>>
  PROVE  HeapInv'
BY DEF HeapInv, HeapTyped, BlocksAccounted, kernel_blocks, user_blocks, creators

\* A step that takes as many blocks as the structs and user code get, or gives
\* back as many as they give up.
LEMMA StructStep ==
  ASSUME HeapInv, Countable', halted = "no", NEW u \in Int, NEW h \in Int,
         free_blocks' = free_blocks - (u + h), free_blocks >= u + h,
         held_blocks' \in Int, lost_blocks' \in Int, DOMAIN creating' = Thread,
         handed_blocks' = handed_blocks + h,
         halted' = "no" => kernel_blocks' = kernel_blocks + u
  PROVE  HeapInv'
<1>1. free_blocks \in Int
  BY DEF HeapInv, HeapTyped
<1>2. HeapTyped' /\ free_blocks' >= 0
  BY <1>1 DEF HeapTyped
<1> QED BY <1>2, Balanced

\* A step of the kernel that leaves the blocks of user code alone.
LEMMA KernelStep ==
  ASSUME HeapInv, Countable', halted = "no", NEW u \in Int,
         free_blocks' = free_blocks - u, free_blocks >= u,
         UNCHANGED <<creating, held_blocks, lost_blocks>>,
         halted' = "no" => kernel_blocks' = kernel_blocks + u
  PROVE  HeapInv'
<1>1. free_blocks \in Int /\ held_blocks \in Int /\ lost_blocks \in Int
      /\ DOMAIN creating = Thread
  BY DEF HeapInv, HeapTyped
<1>2. handed_blocks' = handed_blocks + 0
  BY HandedKept DEF HeapInv
<1>3. /\ held_blocks' \in Int /\ lost_blocks' \in Int /\ DOMAIN creating' = Thread
      /\ free_blocks' = free_blocks - (u + 0) /\ free_blocks >= u + 0
  BY <1>1
<1> QED BY <1>2, <1>3, StructStep

\* What the calls of memory leave alone.
LEMMA MemFrame ==
  ASSUME HeapInv,
         UNCHANGED <<halted, live, thread_current, user_thread_count, timeout_vars, open>>
  PROVE  Countable' /\ kernel_blocks' = kernel_blocks + 0
<1>1. sleeping_threads' = sleeping_threads
  BY DEF timeout_vars
<1>2. Countable'
  BY CountableFrame DEF HeapInv
<1>3. kernel_blocks' = kernel_blocks /\ kernel_blocks \in Int
  BY <1>1, SameUsed, Numbers DEF HeapInv
<1> QED BY <1>2, <1>3

\* mem_alloc finds no run.
LEMMA MemAllocFails ==
  ASSUME HeapInv, halted = "no", NEW n, mem_alloc(n, 0), UNCHANGED <<creating, held_blocks>>
  PROVE  HeapInv'
<1>1. /\ UNCHANGED <<halted, live, thread_current, user_thread_count, timeout_vars, open>>
      /\ UNCHANGED <<sleeping_threads, lost_blocks, free_blocks>>
  BY DEF mem_alloc, sched_vars, sem_vars, timeout_vars, ADDRESS
<1> QED BY <1>1, MemFrame, FrameStep

\* mem_alloc hands out n blocks.
LEMMA MemAllocStep ==
  ASSUME HeapInv, halted = "no", NEW n \in Nat, mem_alloc(n, ADDRESS),
         held_blocks' \in Int, DOMAIN creating' = Thread,
         handed_blocks' = handed_blocks + n
  PROVE  HeapInv'
<1>1. /\ UNCHANGED <<halted, live, thread_current, user_thread_count, timeout_vars, open>>
      /\ UNCHANGED lost_blocks /\ Allocates(n)
  BY DEF mem_alloc, sched_vars, sem_vars, timeout_vars, ADDRESS
<1>2. Countable' /\ kernel_blocks' = kernel_blocks + 0
  BY <1>1, MemFrame
<1>3. /\ lost_blocks' \in Int /\ free_blocks >= 0 + n
      /\ free_blocks' = free_blocks - (0 + n)
  BY <1>1 DEF Allocates, HeapInv, HeapTyped
<1> QED BY <1>2, <1>3, StructStep

\* mem_free leaves the sum of what user code has and what is lost alone.
LEMMA MemFreeStep ==
  ASSUME HeapInv, NEW n, mem_free(n),
         held_blocks' \in Int, lost_blocks' \in Int, DOMAIN creating' = Thread,
         handed_blocks' = handed_blocks + 0
  PROVE  HeapInv'
<1>1. /\ UNCHANGED <<halted, live, thread_current, user_thread_count, timeout_vars, open>>
      /\ UNCHANGED free_blocks /\ halted = "no"
  BY DEF mem_free, unserved, Ecall, sched_vars, sem_vars, timeout_vars
<1>2. Countable' /\ kernel_blocks' = kernel_blocks + 0
  BY <1>1, MemFrame
<1>3. free_blocks' = free_blocks - (0 + 0) /\ free_blocks >= 0 + 0
  BY <1>1 DEF HeapInv, HeapTyped, BlocksAccounted
<1> QED BY <1>1, <1>2, <1>3, StructStep

\* How the kernel's blocks change when only the list of timeouts does.
LEMMA TimeoutsUsed ==
  ASSUME Countable, Countable', UNCHANGED <<live, open>>,
         NEW k \in Int, Len(sleeping_threads') = Len(sleeping_threads) + k
  PROVE  kernel_blocks' = kernel_blocks + k
<1>1. /\ IsFiniteSet(live) /\ IsFiniteSet(open) /\ Len(sleeping_threads) \in Nat
      /\ kernel_blocks = struct_blocks(live, open, Len(sleeping_threads))
      /\ kernel_blocks \in Int
  BY Numbers
<1>2. /\ Len(sleeping_threads') \in Nat
      /\ kernel_blocks' = struct_blocks(live, open, Len(sleeping_threads'))
  BY NumbersNext
<1>3. kernel_blocks' = kernel_blocks + (Len(sleeping_threads') - Len(sleeping_threads))
  BY <1>1, <1>2, StructTimeouts
<1> QED BY <1>1, <1>2, <1>3

\* A tick unlinks as many entries as it finds over.
LEMMA TickShortens ==
  ASSUME Countable, TimerIrq, halted' = "no",
         NEW k \in 0 .. Len(sleeping_threads), expired(k)
  PROVE  Len(sleeping_threads') = Len(sleeping_threads) - k
<1>1. Len(sleeping_threads) \in Nat
  BY SleeperFields DEF Countable, SleepersTyped
<1>2. PICK l \in 0 .. Len(sleeping_threads) :
        expired(l) /\ (Halt(timer_end(l)) \/ scheduler_tick(l))
  BY DEF TimerIrq
<1>3. ~Halt(timer_end(l))
  BY DEF Halt, Ends
<1>4. aged \in Seq(Sleeper) /\ Len(aged) = Len(sleeping_threads)
  BY AgedTyped DEF Countable
<1>5. k = l
  BY <1>1, <1>2, <1>4 DEF expired
<1>6. sleeping_threads' = Without(aged, k)
  BY <1>2, <1>3, <1>5 DEF scheduler_tick, Without
<1>7. Len(Without(aged, k)) = Len(aged) - k
  BY <1>4, SuffixOf
<1> QED BY <1>4, <1>6, <1>7

\* A signal that ends a timed wait unlinks one entry, and any other none.
LEMMA SignalShortens ==
  ASSUME Countable, Countable', NEW s, SignalOn(s), halted' = "no"
  PROVE  Len(sleeping_threads') = Len(sleeping_threads) - IF cancels(s) THEN 1 ELSE 0
<1>1. Len(sleeping_threads) \in Nat /\ Len(sleeping_threads') \in Nat
  BY SleeperFields DEF Countable, SleepersTyped
<1>2. sem_signal(s)
  BY DEF SignalOn, Halt, Ends
<1>3. CASE cancels(s)
  <2>1. PICK i \in DOMAIN sleeping_threads : sleeping_threads' = timeout_unlinked(i)
    BY <1>2, <1>3 DEF cancels, sem_signal, sem_unblock_thread, scheduler_remove_timeout
  <2>2. DOMAIN sleeping_threads' = 1 .. Len(sleeping_threads) - 1
    BY <2>1 DEF timeout_unlinked
  <2>3. /\ DOMAIN sleeping_threads' = 1 .. Len(sleeping_threads')
        /\ DOMAIN sleeping_threads = 1 .. Len(sleeping_threads)
    BY DEF Countable, SleepersTyped
  <2> DEFINE n == Len(sleeping_threads) - 1
  <2>a. n \in Nat
    BY <1>1, <2>1, <2>3
  <2>4. n \in Nat /\ 1 .. n = 1 .. Len(sleeping_threads')
    BY <2>a, <2>2, <2>3
  <2> HIDE DEF n
  <2>5. Len(sleeping_threads') = n
    BY <1>1, <2>4, SameLength
  <2>6. Len(sleeping_threads') = Len(sleeping_threads) - 1
    BY <2>5 DEF n
  <2> QED BY <1>3, <2>6
<1>4. CASE ~cancels(s)
  <2>1. UNCHANGED timeout_vars
    BY <1>2, <1>4 DEF cancels, sem_signal, sem_unblock_thread
  <2> QED BY <1>1, <1>4, <2>1 DEF timeout_vars
<1> QED BY <1>3, <1>4

\* A new timeout is one entry more.
LEMMA TimeoutLengthens ==
  ASSUME Countable, Countable', NEW t, NEW time, NEW s, scheduler_timeout(t, time, s)
  PROVE  Len(sleeping_threads') = Len(sleeping_threads) + 1
<1>1. Len(sleeping_threads) \in Nat /\ Len(sleeping_threads') \in Nat
  BY SleeperFields DEF Countable, SleepersTyped
<1>2. DOMAIN sleeping_threads' = 1 .. Len(sleeping_threads) + 1
  BY DEF scheduler_timeout, timeout_linked
<1>3. DOMAIN sleeping_threads' = 1 .. Len(sleeping_threads')
  BY DEF Countable, SleepersTyped
<1> QED BY <1>1, <1>2, <1>3

LEMMA CreateStep ==
  ASSUME HeapInv, ThreadCreate, Allocates(1), Goes("stack", "no"),
         UNCHANGED <<held_blocks, lost_blocks>>
  PROVE  HeapInv'
<1>1. halted = "no" /\ Countable /\ Countable' /\ thread_current \in Thread
  BY CountableNext DEF HeapInv, ThreadCreate, Ecall, Next, Syscall
<1>2. /\ IsFiniteSet(live) /\ IsFiniteSet(open) /\ Len(sleeping_threads) \in Nat
      /\ kernel_blocks = struct_blocks(live, open, Len(sleeping_threads))
      /\ kernel_blocks' = struct_blocks(live', open', Len(sleeping_threads'))
  BY <1>1, Numbers, NumbersNext
<1>3. \/ halted' = "corrupt"
      \/ /\ UNCHANGED <<open, sleeping_threads>>
         /\ \E t \in Thread \ live : live' = live \cup {t}
  BY DEF ThreadCreate, Halt, sem_vars, timeout_vars
<1>4. halted' = "no" => kernel_blocks' = kernel_blocks + thread_blocks
  BY <1>2, <1>3, StructAdded
<1>5. /\ free_blocks \in Int /\ held_blocks \in Int /\ lost_blocks \in Int
      /\ HeapTyped
  BY DEF HeapInv, HeapTyped
<1>6. /\ DOMAIN creating' = Thread /\ thread_current \in creators
      /\ creators' = creators \ {thread_current}
  BY <1>1, <1>5, CreatorsGo
<1>7. stack_blocks(creators') = stack_blocks(creators) - STACK_BLOCKS
  BY <1>6, Creators, StackBlocks
<1> DEFINE h == - STACK_BLOCKS
<1>8. /\ thread_blocks \in Int /\ h \in Int /\ thread_blocks + h = 1
      /\ free_blocks >= thread_blocks + h
      /\ free_blocks' = free_blocks - (thread_blocks + h)
  BY <1>5, HeapAssumption DEF thread_blocks, Allocates
<1>9. handed_blocks' = handed_blocks + h
  BY <1>5, <1>7, Creators, HeapAssumption DEF handed_blocks
<1> HIDE DEF h
<1> QED BY <1>1, <1>4, <1>5, <1>6, <1>8, <1>9, StructStep

\* The stack of a new thread.
LEMMA StackStep ==
  ASSUME HeapInv, halted = "no", thread_current \in Thread,
         mem_alloc(STACK_BLOCKS, ADDRESS), Goes("no", "stack"), UNCHANGED held_blocks
  PROVE  HeapInv'
<1>1. /\ free_blocks \in Int /\ held_blocks \in Int /\ lost_blocks \in Int /\ HeapTyped
  BY DEF HeapInv, HeapTyped
<1>2. /\ DOMAIN creating' = Thread /\ thread_current \notin creators
      /\ creators' = creators \cup {thread_current}
  BY <1>1, CreatorsGo
<1>3. stack_blocks(creators') = stack_blocks(creators) + STACK_BLOCKS
  BY <1>2, Creators, StackBlocks
<1>4. lost_blocks' = lost_blocks
  BY DEF mem_alloc
<1>5. handed_blocks' = handed_blocks + STACK_BLOCKS
  BY <1>1, <1>3, <1>4, Creators, HeapAssumption DEF handed_blocks
<1> QED BY <1>1, <1>2, <1>5, MemAllocStep, HeapAssumption

\* The stack of a thread that was not created.
LEMMA UndoStep ==
  ASSUME HeapInv, CreateUndo
  PROVE  HeapInv'
<1>1. /\ free_blocks \in Int /\ held_blocks \in Int /\ lost_blocks \in Int /\ HeapTyped
      /\ STACK_BLOCKS \in Int
  BY HeapAssumption DEF HeapInv, HeapTyped
<1>2. /\ mem_free(STACK_BLOCKS) /\ Goes("failed", "no") /\ thread_current \in Thread
      /\ held_blocks' = held_blocks /\ lost_blocks' = lost_blocks + STACK_BLOCKS
  BY DEF CreateUndo, mem_free, unserved, Ecall
<1>3. /\ DOMAIN creating' = Thread /\ thread_current \in creators
      /\ creators' = creators \ {thread_current}
  BY <1>1, <1>2, CreatorsGo
<1>4. stack_blocks(creators') = stack_blocks(creators) - STACK_BLOCKS
  BY <1>3, Creators, StackBlocks
<1>5. handed_blocks' = handed_blocks + 0
  BY <1>1, <1>2, <1>4, Creators DEF handed_blocks
<1>6. held_blocks' \in Int /\ lost_blocks' \in Int
  BY <1>1, <1>2
<1> QED BY <1>2, <1>3, <1>5, <1>6, MemFreeStep

\* Blocks user code gets from mem_alloc, and blocks it passes to mem_free.
LEMMA HeldStep ==
  ASSUME HeapInv, UNCHANGED creating, NEW n \in Nat, NEW m \in Nat,
         held_blocks' = held_blocks + n - m, lost_blocks' = lost_blocks + m
  PROVE  /\ held_blocks' \in Int /\ lost_blocks' \in Int /\ DOMAIN creating' = Thread
         /\ handed_blocks' = handed_blocks + n
<1>1. /\ held_blocks \in Int /\ lost_blocks \in Int /\ DOMAIN creating = Thread
  BY DEF HeapInv, HeapTyped
<1>2. creators' = creators
  BY DEF creators
<1> QED BY <1>1, <1>2, Creators DEF handed_blocks

LEMMA ExitStep ==
  ASSUME HeapInv, ThreadExit, Frees(thread_blocks), UNCHANGED <<creating, held_blocks, lost_blocks>>
  PROVE  HeapInv'
<1>1. halted = "no" /\ Countable /\ Countable' /\ thread_current \in live
  BY CountableNext, KernelAssumption
     DEF HeapInv, ThreadExit, Ecall, Next, Syscall, Countable, CountInv
<1>2. /\ IsFiniteSet(live) /\ IsFiniteSet(open) /\ Len(sleeping_threads) \in Nat
      /\ kernel_blocks = struct_blocks(live, open, Len(sleeping_threads))
      /\ kernel_blocks' = struct_blocks(live', open', Len(sleeping_threads'))
      /\ kernel_blocks \in Int
  BY <1>1, Numbers, NumbersNext
<1>3. \/ halted' # "no"
      \/ /\ UNCHANGED <<open, sleeping_threads>>
         /\ live' = live \ {thread_current}
  BY DEF ThreadExit, Halt, Ends, sem_vars, timeout_vars
<1>4. halted' = "no" => kernel_blocks' = kernel_blocks - thread_blocks
  BY <1>1, <1>2, <1>3, StructAdded
<1> DEFINE u == - thread_blocks
<1>5. /\ u \in Int /\ free_blocks >= u /\ free_blocks' = free_blocks - u
      /\ halted' = "no" => kernel_blocks' = kernel_blocks + u
  BY <1>1, <1>4, ThreadBlocks, <1>2 DEF Frees, HeapInv, HeapTyped, BlocksAccounted
<1> HIDE DEF u
<1> QED BY <1>1, <1>5, KernelStep

LEMMA OpenStep ==
  ASSUME HeapInv, SemOpen, Allocates(1), UNCHANGED <<creating, held_blocks, lost_blocks>>
  PROVE  HeapInv'
<1>1. halted = "no" /\ Countable /\ Countable'
  BY CountableNext DEF HeapInv, SemOpen, Ecall, Next, Syscall
<1>2. /\ IsFiniteSet(live) /\ IsFiniteSet(open) /\ Len(sleeping_threads) \in Nat
      /\ kernel_blocks = struct_blocks(live, open, Len(sleeping_threads))
      /\ kernel_blocks' = struct_blocks(live', open', Len(sleeping_threads'))
      /\ kernel_blocks \in Int
  BY <1>1, Numbers, NumbersNext
<1>3. \/ halted' # "no"
      \/ /\ UNCHANGED <<live, sleeping_threads>>
         /\ \E s \in Sem \ open : open' = open \cup {s}
  BY DEF SemOpen, sem_open, Halt, Ends, timeout_vars
<1>4. halted' = "no" => kernel_blocks' = kernel_blocks + 1
  BY <1>2, <1>3, StructAdded
<1>5. free_blocks >= 1 /\ free_blocks' = free_blocks - 1
  BY DEF Allocates, HeapInv, HeapTyped
<1> QED BY <1>1, <1>4, <1>5, KernelStep

LEMMA CloseStep ==
  ASSUME HeapInv, SemClose, Frees(1), UNCHANGED <<creating, held_blocks, lost_blocks>>
  PROVE  HeapInv'
<1>1. halted = "no" /\ Countable /\ Countable'
  BY CountableNext DEF HeapInv, SemClose, Ecall, Next, Syscall
<1>2. /\ IsFiniteSet(live) /\ IsFiniteSet(open) /\ Len(sleeping_threads) \in Nat
      /\ kernel_blocks = struct_blocks(live, open, Len(sleeping_threads))
      /\ kernel_blocks' = struct_blocks(live', open', Len(sleeping_threads'))
      /\ kernel_blocks \in Int
  BY <1>1, Numbers, NumbersNext
<1>3. \/ halted' # "no"
      \/ /\ UNCHANGED <<live, sleeping_threads>>
         /\ \E s \in open : open' = open \ {s}
  BY DEF SemClose, sem_close, Halt, Ends, timeout_vars
<1>4. halted' = "no" => kernel_blocks' = kernel_blocks - 1
  BY <1>2, <1>3, StructAdded
<1> DEFINE u == -1
<1>5. /\ u \in Int /\ free_blocks >= u /\ free_blocks' = free_blocks - u
      /\ halted' = "no" => kernel_blocks' = kernel_blocks + u
  BY <1>1, <1>2, <1>4 DEF Frees, HeapInv, HeapTyped, BlocksAccounted
<1> HIDE DEF u
<1> QED BY <1>1, <1>5, KernelStep

\* The steps that change the list of timeouts by k entries take or give back k
\* blocks.
LEMMA TimeoutStep ==
  ASSUME HeapInv, Next, halted = "no", UNCHANGED <<live, open>>,
         UNCHANGED <<creating, held_blocks, lost_blocks>>,
         NEW k \in Int, free_blocks' = free_blocks - k, free_blocks >= k,
         halted' = "no" => Len(sleeping_threads') = Len(sleeping_threads) + k
  PROVE  HeapInv'
<1>1. Countable /\ Countable'
  BY CountableNext DEF HeapInv
<1>2. halted' = "no" => kernel_blocks' = kernel_blocks + k
  BY <1>1, TimeoutsUsed
<1> QED BY <1>1, <1>2, KernelStep

LEMMA TickStep ==
  ASSUME HeapInv, Tick
  PROVE  HeapInv'
<1>1. PICK k \in 0 .. Len(sleeping_threads) : expired(k) /\ Frees(k)
  BY DEF Tick
<1>2. /\ TimerIrq /\ Next /\ halted = "no"
      /\ UNCHANGED <<creating, held_blocks, lost_blocks>>
  BY DEF Tick, TimerIrq, Interruptible, Next
<1>3. UNCHANGED <<live, open>>
  BY <1>2 DEF TimerIrq, Halt, sem_vars
<1>4. Len(sleeping_threads) \in Nat /\ free_blocks \in Int /\ free_blocks >= 0
  BY <1>2, Numbers DEF HeapInv, HeapTyped, BlocksAccounted
<1>5. halted' = "no" => Len(sleeping_threads') = Len(sleeping_threads) - k
  BY <1>1, <1>2, TickShortens DEF HeapInv
<1> DEFINE u == -k
<1>6. /\ u \in Int /\ free_blocks' = free_blocks - u /\ free_blocks >= u
      /\ halted' = "no" => Len(sleeping_threads') = Len(sleeping_threads) + u
  BY <1>1, <1>4, <1>5 DEF Frees
<1> HIDE DEF u
<1> QED BY <1>2, <1>3, <1>6, TimeoutStep

LEMMA SignalStep ==
  ASSUME HeapInv, Signal
  PROVE  HeapInv'
<1>1. PICK s \in open : SignalOn(s) /\ Frees(IF cancels(s) THEN 1 ELSE 0)
  BY DEF Signal
<1>2. /\ Next /\ halted = "no" /\ UNCHANGED <<creating, held_blocks, lost_blocks>>
  BY <1>1 DEF Signal, SemSignal, Ecall, Next, Syscall
<1>3. UNCHANGED <<live, open>>
  BY <1>1 DEF SignalOn, Halt, sem_vars
<1>4. Len(sleeping_threads) \in Nat /\ free_blocks \in Int /\ free_blocks >= 0
      /\ Countable /\ Countable'
  BY <1>2, Numbers, CountableNext DEF HeapInv, HeapTyped, BlocksAccounted
<1> DEFINE k == IF cancels(s) THEN 1 ELSE 0
           u == -k
<1>5. halted' = "no" => Len(sleeping_threads') = Len(sleeping_threads) - k
  BY <1>1, <1>4, SignalShortens
<1>6. k \in 0 .. 1 /\ free_blocks' = free_blocks + k
  BY <1>1 DEF Frees
<1> HIDE DEF k
<1>7. /\ u \in Int /\ free_blocks' = free_blocks - u /\ free_blocks >= u
      /\ halted' = "no" => Len(sleeping_threads') = Len(sleeping_threads) + u
  BY <1>4, <1>5, <1>6
<1> HIDE DEF u
<1> QED BY <1>2, <1>3, <1>7, TimeoutStep

\* A new timeout, for which TimeoutBlock took a block unless the machine stopped.
LEMMA LinkStep ==
  ASSUME HeapInv, Next, halted = "no", UNCHANGED <<live, open>>, TimeoutBlock,
         UNCHANGED <<creating, held_blocks, lost_blocks>>,
         halted' = "no" =>
           timeout_end = "no" /\ \E t, time, s : scheduler_timeout(t, time, s)
  PROVE  HeapInv'
<1>1. Countable /\ Countable' /\ Len(sleeping_threads) \in Nat /\ free_blocks \in Int
      /\ free_blocks >= 0
  BY CountableNext, Numbers DEF HeapInv, HeapTyped, BlocksAccounted
<1>2. CASE timeout_end = "no"
  <2>1. free_blocks' = free_blocks - 1 /\ free_blocks >= 1
    BY <1>2 DEF TimeoutBlock, Allocates
  <2>2. halted' = "no" => Len(sleeping_threads') = Len(sleeping_threads) + 1
    BY <1>1, TimeoutLengthens
  <2> QED BY <2>1, <2>2, TimeoutStep
<1>3. CASE timeout_end # "no"
  <2>1. free_blocks' = free_blocks
    BY <1>3 DEF TimeoutBlock
  <2> QED BY <1>1, <1>3, <2>1, FrameStep
<1> QED BY <1>2, <1>3

LEMMA SleepStep ==
  ASSUME HeapInv, Sleep
  PROVE  HeapInv'
<1>1. PICK time \in Times :
        SleepFor(time) /\ IF time = 0 THEN UNCHANGED free_blocks ELSE TimeoutBlock
  BY DEF Sleep
<1>2. Next /\ halted = "no" /\ UNCHANGED <<creating, held_blocks, lost_blocks>>
  BY <1>1 DEF Sleep, TimedSleep, Ecall, Next, Syscall
<1>3. UNCHANGED <<live, open>>
  BY <1>1 DEF SleepFor, Halt, sem_vars
<1>4. halted' = "no" =>
        /\ Handled(timed_sleep_end(time))
        /\ time = 0 => UNCHANGED timeout_vars
        /\ time # 0 => scheduler_timeout(thread_current, time, NULL)
  BY <1>1 DEF SleepFor, Halt, Ends
<1>5. CASE time = 0
  <2>1. halted' = "no" => UNCHANGED sleeping_threads
    BY <1>4, <1>5 DEF timeout_vars
  <2>2. Countable' /\ free_blocks' = free_blocks
    BY <1>1, <1>2, <1>5, CountableNext DEF HeapInv
  <2> QED BY <1>2, <1>3, <2>1, <2>2, FrameStep
<1>6. CASE time # 0
  <2>1. halted' = "no" => timeout_end = "no"
    BY <1>4, <1>6 DEF Handled, timed_sleep_end, Then
  <2> QED BY <1>1, <1>2, <1>3, <1>4, <1>6, <2>1, LinkStep
<1> QED BY <1>5, <1>6

LEMMA TimedWaitStep ==
  ASSUME HeapInv, TimedWait
  PROVE  HeapInv'
<1>1. SemTimedWait /\ TimeoutBlock /\ UNCHANGED <<creating, held_blocks, lost_blocks>>
  BY DEF TimedWait
<1>2. Next /\ halted = "no"
  BY <1>1 DEF SemTimedWait, Ecall, Next, Syscall
<1>3. UNCHANGED <<live, open>>
  BY <1>1 DEF SemTimedWait, Halt, sem_vars
<1>4. ASSUME halted' = "no"
      PROVE  timeout_end = "no" /\ \E t, time, s : scheduler_timeout(t, time, s)
  <2>1. PICK s \in open, time \in Times :
          /\ Handled(sem_timed_wait_end(s))
          /\ sem_timed_wait(s, time, code("SEM_TIMED_WAIT"))
    BY <1>1, <1>4 DEF SemTimedWait, Halt, Ends
  <2>2. timeout_end = "no"
    BY <2>1 DEF Handled, sem_timed_wait_end, Then
  <2>3. scheduler_timeout(thread_current, time, s)
    BY <2>1 DEF sem_timed_wait
  <2> QED BY <2>2, <2>3
<1> QED BY <1>1, <1>2, <1>3, <1>4, LinkStep

-----------------------------------------------------------------------------
LEMMA HeapInvInit == HeapInit => HeapInv
<1> SUFFICES ASSUME HeapInit PROVE HeapInv
  OBVIOUS
<1>1. CountInv
  BY CountInit DEF HeapInit
<1>2. /\ sleeping_threads = <<>> /\ sleeping_freed = FALSE /\ open = {}
      /\ \E t \in Thread : live = {t}
  BY DEF HeapInit, Init
<1>3. Cardinality(live) = 1 /\ Cardinality(open) = 0 /\ IsFiniteSet(open)
      /\ Len(sleeping_threads) = 0
  BY <1>2, FS_Singleton, FS_EmptySet
<1>4. <<>> \in Seq(Sleeper)
  OBVIOUS
<1>5. Countable
  BY <1>1, <1>2, <1>3, <1>4 DEF Countable, SleepersTyped
<1>6. /\ free_blocks = HEAP_BLOCKS - thread_blocks /\ held_blocks = 0
      /\ thread_blocks \in Int /\ HEAP_BLOCKS \in Int /\ HEAP_BLOCKS >= thread_blocks
  BY HeapAssumption DEF HeapInit, thread_blocks
<1>7. thread_blocks * 1 = thread_blocks
  BY <1>6
<1>8. kernel_blocks = thread_blocks
  BY <1>3, <1>6, <1>7 DEF kernel_blocks
<1>9. creators = {} /\ lost_blocks = 0 /\ DOMAIN creating = Thread
  BY DEF HeapInit, creators
<1>10. user_blocks = 0
  <2>1. STACK_BLOCKS * 0 = 0
    BY HeapAssumption
  <2> QED BY <1>6, <1>9, <2>1, FS_EmptySet DEF user_blocks
<1> QED BY <1>5, <1>6, <1>8, <1>9, <1>10 DEF HeapInv, HeapTyped, BlocksAccounted

LEMMA HeapInvNext == HeapInv /\ [HeapNext]_all_vars => HeapInv'
<1> SUFFICES ASSUME HeapInv, HeapNext PROVE HeapInv'
  BY DEF HeapInv, Countable, CountInv, SleepersTyped, HeapTyped, BlocksAccounted,
     kernel_blocks, user_blocks, creators,
     all_vars, heap_vars, vars, sched_vars, timeout_vars, sem_vars
<1>1. CASE MemAlloc
  <2>1. PICK n \in Sizes :
          \/ Exhausted(n)
          \/ \E result \in {0, ADDRESS} :
               /\ mem_alloc(n, result)
               /\ held_blocks' = IF result = 0 THEN held_blocks ELSE held_blocks + n
               /\ UNCHANGED creating
    BY <1>1 DEF MemAlloc
  <2>2. n \in Nat /\ halted = "no" /\ ADDRESS # 0 /\ held_blocks \in Int /\ lost_blocks \in Int
    BY <1>1, HeapAssumption DEF MemAlloc, Ecall, ADDRESS, HeapInv, HeapTyped
  <2>3. CASE Exhausted(n)
    BY <2>3, ExhaustedStep
  <2>4. CASE mem_alloc(n, 0) /\ held_blocks' = held_blocks /\ UNCHANGED creating
    BY <2>2, <2>4, MemAllocFails
  <2>5. CASE mem_alloc(n, ADDRESS) /\ held_blocks' = held_blocks + n /\ UNCHANGED creating
    <3>1. lost_blocks' = lost_blocks
      BY <2>5 DEF mem_alloc
    <3>2. held_blocks' = held_blocks + n - 0 /\ lost_blocks' = lost_blocks + 0
      BY <2>2, <2>5, <3>1
    <3> QED BY <2>2, <2>5, <3>2, HeldStep, MemAllocStep
  <2> QED BY <2>1, <2>2, <2>3, <2>4, <2>5
<1>2. CASE MemFree
  <2>1. PICK n \in Sizes : mem_free(n) /\ held_blocks' = held_blocks - n /\ UNCHANGED creating
    BY <1>2 DEF MemFree
  <2>2. n \in Nat /\ held_blocks \in Int /\ lost_blocks \in Int
    BY HeapAssumption DEF HeapInv, HeapTyped
  <2>3. held_blocks' = held_blocks + 0 - n /\ lost_blocks' = lost_blocks + n
    BY <2>1, <2>2 DEF mem_free
  <2> QED BY <2>1, <2>2, <2>3, HeldStep, MemFreeStep
<1>a. CASE CreateUndo
  BY <1>a, UndoStep
<1>3. CASE CreateStack
  BY <1>3, ExhaustedStep, StackStep, MemAllocFails DEF CreateStack, Ecall
<1>4. CASE CreateThread
  <2>1. CASE Exhausted(1)
    BY <2>1, ExhaustedStep
  <2>2. CASE ThreadCreate /\ Allocates(1) /\ Goes("stack", "no")
             /\ UNCHANGED <<held_blocks, lost_blocks>>
    BY <2>2, CreateStep
  <2>3. CASE ThreadCreateNoMemory /\ Goes("stack", "failed")
             /\ UNCHANGED <<free_blocks, held_blocks, lost_blocks>>
    <3>1. Countable' /\ halted = "no" /\ thread_current \in Thread
      BY <2>3, CountableNext DEF HeapInv, Next, Syscall, ThreadCreateNoMemory, Ecall
    <3>2. UNCHANGED <<live, open, sleeping_threads, halted>>
      BY <2>3 DEF ThreadCreateNoMemory, sem_vars, timeout_vars
    <3>3. creators' = creators /\ DOMAIN creating' = Thread
      BY <2>3, <3>1, CreatorsGo DEF HeapInv
    <3> QED BY <2>3, <3>1, <3>2, <3>3
            DEF HeapInv, HeapTyped, BlocksAccounted, kernel_blocks, user_blocks
  <2> QED BY <1>4, <2>1, <2>2, <2>3 DEF CreateThread
<1>5. CASE Exit
  BY <1>5, ExitStep DEF Exit
<1>6. CASE Open
  <2>1. CASE Exhausted(1)
    BY <2>1, ExhaustedStep
  <2>2. CASE SemOpen /\ Allocates(1) /\ UNCHANGED <<creating, held_blocks, lost_blocks>>
    BY <2>2, OpenStep
  <2>3. CASE SemOpenNoMemory /\ UNCHANGED heap_vars
    <3>1. Countable'
      BY <2>3, CountableNext DEF HeapInv, Next, Syscall
    <3>2. UNCHANGED <<live, open, sleeping_threads, halted>> /\ halted = "no"
          /\ UNCHANGED <<free_blocks, creating, held_blocks, lost_blocks>>
      BY <2>3 DEF SemOpenNoMemory, Ecall, sem_vars, timeout_vars, heap_vars
    <3> QED BY <3>1, <3>2, FrameStep
  <2> QED BY <1>6, <2>1, <2>2, <2>3 DEF Open
<1>7. CASE Close
  BY <1>7, CloseStep DEF Close
<1>8. CASE Sleep
  BY <1>8, SleepStep
<1>b. CASE TimedWait
  BY <1>b, TimedWaitStep
<1>9. CASE TimeoutNoMemory
  BY <1>9, ExhaustedStep DEF TimeoutNoMemory
<1>10. CASE Tick \/ Signal
  BY <1>10, TickStep, SignalStep
<1>11. CASE Others
  <2>1. CASE (ThreadDispatch \/ SemWait) /\ UNCHANGED heap_vars
    <3>1. Countable'
      BY <2>1, CountableNext DEF HeapInv, Next, Syscall
    <3>2. UNCHANGED <<live, open, sleeping_threads>> /\ halted = "no"
          /\ UNCHANGED <<free_blocks, creating, held_blocks, lost_blocks>>
      BY <2>1 DEF ThreadDispatch, SemWait, Halt, Ecall, sem_vars, timeout_vars, heap_vars
    <3> QED BY <3>1, <3>2, FrameStep
  <2>2. CASE unserved("SEM_TRYWAIT") /\ UNCHANGED heap_vars
    <3>1. /\ UNCHANGED <<halted, live, thread_current, user_thread_count, timeout_vars, open>>
          /\ UNCHANGED <<free_blocks, creating, held_blocks, lost_blocks>>
          /\ UNCHANGED sleeping_threads /\ halted = "no"
      BY <2>2 DEF unserved, Ecall, sched_vars, sem_vars, timeout_vars, heap_vars
    <3> QED BY <3>1, CountableFrame, FrameStep DEF HeapInv
  <2>3. CASE (IllegalOperation \/ KernelDispatch \/ KernelCheck \/ Off) /\ UNCHANGED heap_vars
    <3>1. Countable'
      BY <2>3, CountableNext DEF HeapInv, Next, Syscall
    <3>2. UNCHANGED <<live, open, sleeping_threads, free_blocks, creating, held_blocks,
                      lost_blocks>>
      BY <2>3 DEF IllegalOperation, KernelDispatch, KernelCheck, stop, Off, Halt, vars,
         sem_vars, timeout_vars, heap_vars
    <3>3. halted' = "no" => halted = "no"
      BY <2>3 DEF IllegalOperation, Ecall, KernelDispatch, KernelCheck, Off, vars
    <3> QED BY <3>1, <3>2, <3>3, FrameStep
  <2> QED BY <1>11, <2>1, <2>2, <2>3 DEF Others
<1> QED BY <1>1, <1>2, <1>a, <1>3, <1>4, <1>5, <1>6, <1>7, <1>8, <1>b, <1>9, <1>10, <1>11
        DEF HeapNext

\* The kernel neither loses a block nor gives one back twice, whatever the size
\* of the heap and of the stacks, and however many threads, semaphores and
\* timeouts come and go: the free blocks, those of the threads, semaphores and
\* timeouts that exist, those user code has and those it passed to the mem_free
\* that irq_handler does not serve add up to the heap after every handler, the
\* ones that run out of memory included.
THEOREM BlocksAccountedTheorem == HeapSpec => []BlocksAccounted
<1>1. HeapInv => BlocksAccounted
  BY DEF HeapInv
<1> QED BY <1>1, HeapInvInit, HeapInvNext, PTL DEF HeapSpec
=============================================================================
