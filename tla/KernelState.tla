----------------------------- MODULE KernelState -----------------------------
(***************************************************************************)
(* The state the kernel keeps in memory, shared by scheduler.c,            *)
(* semaphore.c, console.c, thread.c and main.c, the console device, and    *)
(* the ways the machine can end.                                           *)
(*                                                                         *)
(* The intrusive rings of thread structs (ready_threads, waiting_threads,  *)
(* threads_waiting_for_input) are sequences, head first: list_insert in    *)
(* front of the head is Append, unlinking the head is Tail (Ring shows why *)
(* this is sound).  A sequence stands for a ring only while every          *)
(* list_node is linked once; a step of the code that links a node twice,   *)
(* or leaves a head pointer on an unlinked node, ends the behaviour with   *)
(* halted = "corrupt", and one that touches a freed struct ends it with    *)
(* halted = "fault".                                                       *)
(***************************************************************************)
EXTENDS Integers, Sequences, FiniteSets, SequencesExt

CONSTANTS
  Thread,             \* thread structs __thread_create can allocate
  KernelMain,         \* the struct of kernel_main, allocated by main()
  Sem,                \* semaphore structs __sem_open can allocate
  NULL,
  DEFAULT_TIME_SLICE, \* lib/hw.h: 2 ticks
  TIME_MOD            \* time_t counts modulo TIME_MOD (2^64 in the build)

ASSUME KernelAssumption ==
  /\ IsFiniteSet(Thread)
  /\ KernelMain \notin Thread
  /\ NULL \notin Sem
  /\ DEFAULT_TIME_SLICE \in Nat \ {0}
  /\ TIME_MOD \in Nat
  /\ TIME_MOD > DEFAULT_TIME_SLICE

VARIABLES
  halted,            \* "no", or how the machine ended
  km_pc,             \* where kernel_main is in the loop of main()
  live,              \* thread structs allocated and not freed
  a0,                \* per thread: the saved a0, the result of its syscall
  ready_threads,     \* scheduler->ready_threads
  thread_current,    \* scheduler->thread_current
  time_left,         \* per thread: time_left, a time_t
  user_thread_count, \* scheduler->user_thread_count
  sleeping_threads,  \* scheduler->sleeping_threads, the list of timeouts
  sleeping_freed,    \* scheduler->sleeping_threads points to a freed struct
  open,              \* semaphore structs allocated and not freed
  val,               \* per semaphore: val
  waiting_threads,   \* per semaphore: waiting_threads
  sem_cnt,           \* semaphores opened since boot
  console_receive_buffer,    \* the characters in it, oldest first
  console_send_buffer,       \* likewise
  threads_waiting_for_input, \* the ring of threads in getc
  repeats,           \* threads whose putc was refused: they repeat the ecall
  rx_data,           \* device: characters typed and not read by the kernel
  tx_data,           \* device: the last character it was given
  typed,             \* history: characters typed since boot
  put                \* history: characters putc has accepted since boot

sched_vars == <<ready_threads, thread_current, time_left>>
timeout_vars == <<sleeping_threads, sleeping_freed>>
sem_vars == <<open, val, waiting_threads, sem_cnt>>
input_vars ==
  <<console_receive_buffer, threads_waiting_for_input, rx_data, typed>>
output_vars == <<console_send_buffer, tx_data, put>>
console_vars == <<input_vars, output_vars, repeats>>
vars == <<halted, km_pc, live, a0, sched_vars, user_thread_count,
          timeout_vars, sem_vars, console_vars>>

Tcb == Thread \cup {KernelMain}
Time == 0 .. TIME_MOD - 1
Sleeper == [thread : Tcb, semaphore : Sem \cup {NULL}, delta : Time]

\* __stop(); __panic(); a list_node linked twice; a freed struct touched.
Ends == {"stopped", "panic", "corrupt", "fault"}

\* The struct of t is allocated.  kernel_main is never freed.
Owned(t) == t \in live \cup {KernelMain}

\* The threads linked in the waiting rings of the semaphores of S.
Waiters(S) == UNION {ToSet(waiting_threads[s]) : s \in S}

\* The threads linked in a ring of a semaphore of S or in the ring of getc.
Linked(S) == Waiters(S) \cup ToSet(threads_waiting_for_input)

\* How linking the list_node of t ends when the nodes of linked are in rings.
LinkEnd(t, linked) ==
  CASE ~Owned(t)    -> "fault"
    [] t \in linked -> "corrupt"
    [] OTHER        -> "no"

\* The end of one step followed by another: the first that is not "no".
Then(e1, e2) == IF e1 = "no" THEN e2 ELSE e1

\* The machine ends inside a handler; what the handler has written by then
\* is no longer observed.
Halt(end) ==
  /\ end \in Ends
  /\ halted' = end
  /\ UNCHANGED <<km_pc, live, a0, sched_vars, user_thread_count,
                 timeout_vars, sem_vars, console_vars>>
=============================================================================
