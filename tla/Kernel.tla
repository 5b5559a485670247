------------------------------- MODULE Kernel -------------------------------
(***************************************************************************)
(* main.c and thread.c: one action per trap irq_handler serves and per     *)
(* step of the loop of main(), and the console device.  Traps are taken    *)
(* with interrupts off, so a handler is one step; between two steps the    *)
(* running thread, the devices and kernel_main interleave freely.          *)
(***************************************************************************)
EXTENDS Semaphore, Console

CONSTANTS
  Calls,        \* the system calls the user program makes
  Times,        \* arguments of time_sleep and sem_timed_wait
  Inits,        \* arguments of sem_open
  MaxOpens,     \* bound: semaphores opened since boot
  MaxVal,       \* bound: value a semaphore is signalled up to
  MaxSleepers,  \* bound: entries in the list of timeouts
  MaxTyped,     \* bound: characters typed since boot
  MaxPut        \* bound: calls of putc since boot

\* The codes the wrappers of syscall_c.c put in a0.
thread_codes == [THREAD_CREATE |-> 17, THREAD_EXIT |-> 18, THREAD_DISPATCH |-> 19]
sem_codes == [SEM_OPEN |-> 33, SEM_CLOSE |-> 34, SEM_WAIT |-> 35, SEM_SIGNAL |-> 36,
              SEM_TIMED_WAIT |-> 37, SEM_TRYWAIT |-> 38]
time_codes == [TIMED_SLEEP |-> 49]
console_codes == [GETC |-> 65, PUTC |-> 66]
mem_codes == [MEM_ALLOC |-> 1, MEM_FREE |-> 2]

code(call) ==
  CASE call \in DOMAIN thread_codes  -> thread_codes[call]
    [] call \in DOMAIN sem_codes     -> sem_codes[call]
    [] call \in DOMAIN time_codes    -> time_codes[call]
    [] call \in DOMAIN console_codes -> console_codes[call]
    [] call \in DOMAIN mem_codes     -> mem_codes[call]

Wrappers ==
  DOMAIN thread_codes \cup DOMAIN sem_codes \cup DOMAIN time_codes
    \cup DOMAIN console_codes \cup DOMAIN mem_codes

\* The codes irq_handler has a case for.
served_codes == {1} \cup 17 .. 19 \cup 33 .. 37 \cup {49} \cup 65 .. 66

\* A system call, or an operation user code may not execute.
Syscalls == Wrappers \cup {"ILLEGAL"}

ASSUME CallsAssumption ==
  /\ Calls \subseteq Syscalls
  /\ Times \subseteq Time
  /\ Inits \subseteq 0 .. I32_MOD - 1
  /\ MaxOpens \in Nat
  /\ MaxVal \in Int
  /\ MaxSleepers \in Nat
  /\ MaxTyped \in Nat
  /\ MaxPut \in Nat

THREAD_CREATE_NO_MEMORY == -1

\* What a0 of a saved context can hold as a result.
Results == {0, SEM_CLOSED_EXTERNALLY, SEM_WAIT_TIMEOUT}
             \cup {code(call) : call \in Wrappers} \cup {char(i) : i \in 1 .. MaxTyped}

-----------------------------------------------------------------------------
\* main() up to its first ecall: user_main is the only user thread.
Init ==
  /\ halted = "no"
  /\ km_pc = "boot"
  /\ thread_current = KernelMain
  /\ \E user_main \in Thread :
       /\ live = {user_main}
       /\ ready_threads = <<user_main>>
  /\ time_left = [t \in Tcb |-> IF t = KernelMain THEN 1 ELSE DEFAULT_TIME_SLICE]
  /\ a0 = [t \in Tcb |-> 0]
  /\ user_thread_count = 1
  /\ sleeping_threads = <<>>
  /\ sleeping_freed = FALSE
  /\ open = {}
  /\ val = [s \in Sem |-> 0]
  /\ waiting_threads = [s \in Sem |-> <<>>]
  /\ sem_cnt = 0
  /\ console_receive_buffer = <<>>
  /\ console_send_buffer = <<>>
  /\ threads_waiting_for_input = <<>>
  /\ repeats = {}
  /\ rx_data = <<>>
  /\ tx_data = 0
  /\ typed = 0
  /\ put = 0

\* The running user thread makes a system call: any call, unless its putc was
\* refused and the ecall of that putc is the next instruction.
Ecall(call) ==
  /\ halted = "no"
  /\ thread_current \in Thread
  /\ call \in Calls
  /\ thread_current \in repeats => call = "PUTC"

\* The handler ends the machine, or goes on.
Handled(end) == end = "no" /\ UNCHANGED halted

-----------------------------------------------------------------------------
(* Threads.                                                                *)

\* SYSCALL_THREAD_CREATE: __thread_create of a user-mode thread.
ThreadCreate ==
  /\ Ecall("THREAD_CREATE")
  /\ \E t \in Thread \ live :
       LET linked == ToSet(ready_threads) \cup Linked(Sem)
       IN IF t \in linked
          THEN Halt("corrupt")
          ELSE /\ live' = live \cup {t}
               /\ user_thread_count' = user_thread_increment
               /\ ready_threads' = scheduler_push(ready_threads, t)
               /\ time_left' = renewed_slice(time_left, {t})
               /\ a0' = [a0 EXCEPT ![thread_current] = 0]
               /\ UNCHANGED <<halted, km_pc, thread_current, timeout_vars, sem_vars,
                              console_vars>>

\* __mem_alloc finds no block for the struct.  What fills the heap is not part
\* of this module, so this may happen at any time (see KernelHeap).
ThreadCreateNoMemory ==
  /\ Ecall("THREAD_CREATE")
  /\ a0' = [a0 EXCEPT ![thread_current] = THREAD_CREATE_NO_MEMORY]
  /\ UNCHANGED <<halted, km_pc, live, sched_vars, user_thread_count,
                 timeout_vars, sem_vars, console_vars>>

\* SYSCALL_THREAD_EXIT: __thread_exit and __thread_delete.  yield has stored
\* the old context by the time the struct is freed; a thread that would
\* resume itself runs on in a freed struct.
thread_exit_end ==
  IF ready_threads # <<>> /\ Head(ready_threads) = thread_current
  THEN "fault" ELSE switch_end(ready_threads)

ThreadExit ==
  /\ Ecall("THREAD_EXIT")
  /\ \/ Halt(thread_exit_end)
     \/ /\ Handled(thread_exit_end)
        /\ user_thread_count' = user_thread_decrement
        /\ scheduler_next(ready_threads)
        /\ live' = live \ {thread_current}
        /\ UNCHANGED <<km_pc, a0, time_left, timeout_vars, sem_vars, console_vars>>

\* SYSCALL_THREAD_DISPATCH, and the end of a time slice: the running thread
\* goes last in the ready queue q, the first one runs.
requeue_end(q, linked) ==
  LET q1 == scheduler_push(q, thread_current)
  IN Then(LinkEnd(thread_current, linked), switch_end(q1))

ThreadDispatch ==
  LET end == requeue_end(ready_threads, ToSet(ready_threads) \cup Linked(Sem))
  IN /\ Ecall("THREAD_DISPATCH")
     /\ \/ Halt(end)
        \/ /\ Handled(end)
           /\ scheduler_next(scheduler_push(ready_threads, thread_current))
           /\ time_left' = renewed_slice(time_left, {thread_current})
           /\ UNCHANGED <<km_pc, live, a0, user_thread_count, timeout_vars, sem_vars,
                          console_vars>>

-----------------------------------------------------------------------------
(* Semaphores.  A handle is used only while its semaphore is open.         *)

SemOpen ==
  /\ Ecall("SEM_OPEN")
  /\ sem_cnt < MaxOpens
  /\ \E s \in Sem \ open, init \in Inits :
       \/ Halt(sem_open_end)
       \/ /\ Handled(sem_open_end)
          /\ sem_open(s, init)
          /\ UNCHANGED <<km_pc, live, sched_vars, user_thread_count, timeout_vars,
                         console_vars>>

SemOpenNoMemory ==
  /\ Ecall("SEM_OPEN")
  /\ a0' = [a0 EXCEPT ![thread_current] = SEM_CREATE_NO_MEMORY]
  /\ UNCHANGED <<halted, km_pc, live, sched_vars, user_thread_count,
                 timeout_vars, sem_vars, console_vars>>

SemClose ==
  /\ Ecall("SEM_CLOSE")
  /\ \E s \in open :
       \/ Halt(sem_close_end(s))
       \/ /\ Handled(sem_close_end(s))
          /\ sem_close(s)
          /\ UNCHANGED <<km_pc, live, user_thread_count, console_vars>>

SemWait ==
  /\ Ecall("SEM_WAIT")
  /\ \E s \in open :
       \/ Halt(sem_wait_end(s))
       \/ /\ Handled(sem_wait_end(s))
          /\ sem_wait(s, code("SEM_WAIT"))
          /\ UNCHANGED <<km_pc, live, time_left, user_thread_count,
                         timeout_vars, open, sem_cnt, console_vars>>

\* The handler of sem_signal on s.
SignalOn(s) ==
  /\ val[s] < MaxVal
  /\ \/ Halt(sem_signal_end(s))
     \/ /\ Handled(sem_signal_end(s))
        /\ sem_signal(s)
        /\ UNCHANGED <<km_pc, live, thread_current, user_thread_count,
                       open, sem_cnt, console_vars>>

SemSignal == Ecall("SEM_SIGNAL") /\ \E s \in open : SignalOn(s)

SemTimedWait ==
  /\ Ecall("SEM_TIMED_WAIT")
  /\ Len(sleeping_threads) < MaxSleepers
  /\ \E s \in open, time \in Times :
       \/ Halt(sem_timed_wait_end(s))
       \/ /\ Handled(sem_timed_wait_end(s))
          /\ sem_timed_wait(s, time, code("SEM_TIMED_WAIT"))
          /\ UNCHANGED <<km_pc, live, user_thread_count, open, sem_cnt, console_vars>>

-----------------------------------------------------------------------------
(* The console.                                                            *)

\* SYSCALL_GETC: the thread takes a character, or blocks until one comes.
Getc ==
  /\ Ecall("GETC")
  /\ \/ Halt(getc_end)
     \/ /\ Handled(getc_end)
        /\ IF getc_blocks THEN getc_block(code("GETC")) ELSE getc_take(code("GETC"))
        /\ UNCHANGED <<km_pc, live, time_left, user_thread_count, timeout_vars,
                       sem_vars, output_vars, repeats, rx_data, typed>>

\* A call of putc is new, or the repetition of one that was refused.
EcallPutc ==
  /\ Ecall("PUTC")
  /\ thread_current \in repeats \/ put + Cardinality(repeats) < MaxPut

\* SYSCALL_PUTC when __putc stores the character.  Nothing is written to a0.
PutcAccepted ==
  /\ EcallPutc
  /\ \E n \in sendable : ~putc_full(n) /\ putc_store(n)
  /\ repeats' = repeats \ {thread_current}
  /\ a0' = [a0 EXCEPT ![thread_current] = code("PUTC")]
  /\ UNCHANGED <<halted, km_pc, live, sched_vars, user_thread_count, timeout_vars,
                 sem_vars, input_vars>>

\* SYSCALL_PUTC when the buffer stays full: sepc is moved back to the ecall
\* and the thread goes last in the ready queue.
PutcRefused ==
  LET end == requeue_end(ready_threads, ToSet(ready_threads) \cup Linked(Sem))
  IN /\ EcallPutc
     /\ \E n \in sendable : putc_full(n)
     /\ \/ Halt(end)
        \/ /\ Handled(end)
           /\ scheduler_next(scheduler_push(ready_threads, thread_current))
           /\ time_left' = renewed_slice(time_left, {thread_current})
           /\ repeats' = repeats \cup {thread_current}
           /\ a0' = [a0 EXCEPT ![thread_current] = code("PUTC")]
           /\ UNCHANGED <<km_pc, live, user_thread_count, timeout_vars, sem_vars,
                          input_vars, output_vars>>

-----------------------------------------------------------------------------
(* Sleeping, and the calls irq_handler has no case for.                    *)

\* SYSCALL_TIMED_SLEEP.  A sleep of no ticks returns at once.
timed_sleep_end(time) ==
  IF time = 0 THEN "no" ELSE Then(timeout_end, switch_end(ready_threads))

SleepFor(time) ==
  /\ Len(sleeping_threads) < MaxSleepers
  /\ \/ Halt(timed_sleep_end(time))
     \/ /\ Handled(timed_sleep_end(time))
        /\ a0' = [a0 EXCEPT ![thread_current] = 0]
        /\ IF time = 0
           THEN UNCHANGED <<timeout_vars, ready_threads, thread_current>>
           ELSE /\ scheduler_timeout(thread_current, time, NULL)
                /\ scheduler_next(ready_threads)
        /\ UNCHANGED <<km_pc, live, time_left, user_thread_count, sem_vars,
                       console_vars>>

TimedSleep == Ecall("TIMED_SLEEP") /\ \E time \in Times : SleepFor(time)

\* mem_free and sem_trywait trap with codes the switch has no case for: the
\* code itself comes back in a0 as the result.
unserved(call) ==
  /\ Ecall(call)
  /\ code(call) \notin served_codes
  /\ a0' = [a0 EXCEPT ![thread_current] = code(call)]
  /\ UNCHANGED <<halted, km_pc, live, sched_vars, user_thread_count,
                 timeout_vars, sem_vars, console_vars>>

Unserved == \E call \in Wrappers : unserved(call)

\* An illegal instruction, read or write of user code.
IllegalOperation ==
  /\ Ecall("ILLEGAL")
  /\ Halt("panic")

-----------------------------------------------------------------------------
(* Interrupts and kernel_main.                                             *)

\* Mutant: main() never opens its window.
Interruptible_user_only == halted = "no" /\ thread_current \in Thread

\* Interrupts are on in user mode, and in kernel_main for one instruction.
Interruptible ==
  halted = "no" /\ (thread_current \in Thread \/ km_pc = "window")

\* IRQ_TIMER: the tick, then the time slice of the running thread.
slices_after_tick(k) ==
  [renewed_slice(time_left, woken(k)) EXCEPT
     ![thread_current] = (@ - 1) % TIME_MOD]

slice_over(k) == slices_after_tick(k)[thread_current] = 0

timer_end(k) ==
  LET q == ready_after_tick(k)
      linked == ToSet(q) \cup Linked(Sem \ timed_out_sems(k))
  IN Then(tick_end(k),
          IF slice_over(k) THEN requeue_end(q, linked) ELSE "no")

TimerIrq ==
  /\ Interruptible
  /\ \E k \in 0 .. Len(sleeping_threads) :
       /\ expired(k)
       /\ \/ Halt(timer_end(k))
          \/ /\ Handled(timer_end(k))
             /\ scheduler_tick(k)
             /\ LET q == ready_after_tick(k)
                IN IF slice_over(k)
                   THEN /\ scheduler_next(scheduler_push(q, thread_current))
                        /\ time_left' = renewed_slice(slices_after_tick(k), {thread_current})
                   ELSE /\ ready_threads' = q
                        /\ time_left' = slices_after_tick(k)
                        /\ UNCHANGED thread_current
             /\ UNCHANGED <<km_pc, live, a0, user_thread_count, sleeping_freed,
                            open, sem_cnt, console_vars>>

\* A character is typed: the device keeps it until the kernel reads it.
KeyPress ==
  /\ halted = "no"
  /\ typed < MaxTyped
  /\ typed' = typed + 1
  /\ rx_data' = Append(rx_data, char(typed + 1))
  /\ UNCHANGED <<halted, km_pc, live, a0, sched_vars, user_thread_count, timeout_vars,
                 sem_vars, console_receive_buffer, threads_waiting_for_input,
                 output_vars, repeats>>

\* IRQ_HW: the console has a character, or takes one: __console_receive, then
\* __console_send.
HwIrq ==
  /\ Interruptible
  /\ rx_data # <<>> \/ console_send_buffer # <<>>
  /\ \/ Halt(receive_end)
     \/ /\ Handled(receive_end)
        /\ console_receive
        /\ \E n \in sendable : console_send(n)
        /\ UNCHANGED <<km_pc, live, thread_current, user_thread_count, timeout_vars,
                       sem_vars, repeats, typed, put>>

\* The ecall of kernel_main: SYSCALL_KERNEL_DISPATCH.  kernel_main is not
\* pushed; __scheduler_next falls back on it.
KernelDispatch ==
  /\ halted = "no"
  /\ thread_current = KernelMain
  /\ km_pc \in {"boot", "window"}
  /\ \/ Halt(switch_end(ready_threads))
     \/ /\ Handled(switch_end(ready_threads))
        /\ km_pc' = "check"
        /\ scheduler_next(ready_threads)
        /\ UNCHANGED <<live, a0, time_left, user_thread_count, timeout_vars, sem_vars,
                       console_vars>>

\* __stop, once the loop of main() is over: a last __console_send.
stop ==
  /\ halted' = "stopped"
  /\ \E n \in sendable : console_send(n)
  /\ UNCHANGED <<km_pc, live, a0, sched_vars, user_thread_count, timeout_vars, sem_vars,
                 input_vars, repeats, put>>

\* Mutant: main() stops when no thread is ready.
KernelCheck_ready ==
  /\ halted = "no"
  /\ thread_current = KernelMain
  /\ km_pc = "check"
  /\ IF ready_threads = <<>>
     THEN stop
     ELSE /\ km_pc' = "window"
          /\ UNCHANGED <<halted, live, a0, sched_vars, user_thread_count,
                         timeout_vars, sem_vars, console_vars>>

\* The loop condition of main(): go on to the window, or stop the machine.
KernelCheck ==
  /\ halted = "no"
  /\ thread_current = KernelMain
  /\ km_pc = "check"
  /\ IF user_thread_count = 0
     THEN stop
     ELSE /\ km_pc' = "window"
          /\ UNCHANGED <<halted, live, a0, sched_vars, user_thread_count,
                         timeout_vars, sem_vars, console_vars>>

\* The machine is off.
Off == halted # "no" /\ UNCHANGED vars

Syscall ==
  \/ ThreadCreate \/ ThreadCreateNoMemory \/ ThreadExit \/ ThreadDispatch
  \/ SemOpen \/ SemOpenNoMemory \/ SemClose \/ SemWait \/ SemSignal
  \/ SemTimedWait \/ TimedSleep \/ Unserved \/ IllegalOperation
  \/ Getc \/ PutcAccepted \/ PutcRefused

Next ==
  Syscall \/ TimerIrq \/ KeyPress \/ HwIrq \/ KernelDispatch \/ KernelCheck \/ Off

Spec == Init /\ [][Next]_vars

\* kernel_main runs its loop when it is the current thread.  The timer is a
\* device outside the program: it interrupts a user thread that runs on, and,
\* not being in step with the loop of main(), falls into the one-instruction
\* window again and again.  Nothing is assumed of user threads.
Fairness == WF_vars(KernelDispatch \/ KernelCheck) /\ SF_vars(TimerIrq)

FairSpec == Spec /\ Fairness

\* The console interrupts for as long as it has a character for the kernel or
\* the kernel one for it, and a thread whose putc was refused executes the
\* ecall again once it is given the processor often enough.
ConsoleFairness ==
  /\ SF_vars(HwIrq)
  /\ \A t \in Thread :
       SF_vars(/\ t = thread_current
               /\ t \in repeats
               /\ PutcAccepted \/ PutcRefused)

ConsoleFairSpec == FairSpec /\ ConsoleFairness

-----------------------------------------------------------------------------
(* Properties.                                                             *)

\* Every field of the kernel's state has the type the structs give it.
TypeOK ==
  /\ halted \in Ends \cup {"no"}
  /\ km_pc \in {"boot", "check", "window"}
  /\ live \subseteq Thread
  /\ a0 \in [Tcb -> Results]
  /\ ready_threads \in Seq(Tcb)
  /\ thread_current \in Tcb
  /\ time_left \in [Tcb -> Time]
  /\ user_thread_count \in Nat
  /\ sleeping_threads \in Seq(Sleeper)
  /\ sleeping_freed \in BOOLEAN
  /\ open \subseteq Sem
  /\ val \in [Sem -> Int]
  /\ waiting_threads \in [Sem -> Seq(Tcb)]
  /\ sem_cnt \in Nat
  /\ console_send_buffer \in Seq(Nat)
  /\ \A q \in {console_receive_buffer, rx_data} : q \in Seq(Nat)
  /\ threads_waiting_for_input \in Seq(Tcb)
  /\ repeats \subseteq Thread
  /\ tx_data \in Nat /\ typed \in Nat /\ put \in Nat

-----------------------------------------------------------------------------
\* The threads held by time_sleep: their timeout names no semaphore.
Asleep ==
  {e.thread : e \in {x \in ToSet(sleeping_threads) : x.semaphore = NULL}}

NoDuplicates(q) == \A i, j \in DOMAIN q : q[i] = q[j] => i = j

\* Whatever order the calls and ticks come in, every thread that was created
\* and has not exited runs, is ready, waits on a semaphore or for input, or
\* sleeps, and no struct freed by __thread_delete is reached from any of
\* these places.
NoThreadLost ==
  halted = "no" =>
    LET held == {thread_current} \cup ToSet(ready_threads)
                  \cup Linked(Sem) \cup Asleep
    IN live \subseteq held /\ held \subseteq live \cup {KernelMain}

\* A thread struct has one list_node, and one place: it never runs while it
\* is linked, is never linked in two rings or twice in one, and kernel_main
\* neither waits nor sleeps.
LinkedOnce ==
  halted = "no" =>
    /\ NoDuplicates(ready_threads)
    /\ \A s \in Sem : NoDuplicates(waiting_threads[s])
    /\ \A r, s \in Sem :
         r # s => ToSet(waiting_threads[r]) \cap ToSet(waiting_threads[s]) = {}
    /\ NoDuplicates(threads_waiting_for_input)
    /\ Waiters(Sem) \cap ToSet(threads_waiting_for_input) = {}
    /\ ToSet(ready_threads) \cap (Linked(Sem) \cup Asleep) = {}
    /\ Linked(Sem) \cap Asleep = {}
    /\ NoDuplicates([i \in DOMAIN sleeping_threads |-> sleeping_threads[i].thread])
    /\ thread_current \notin ToSet(ready_threads) \cup Linked(Sem) \cup Asleep
    /\ KernelMain \notin Linked(Sem) \cup Asleep

\* The kernel's own checks never fire, no list_node is linked twice and no
\* freed struct is touched: the machine only ends through __stop.
Intact == halted \in {"no", "stopped"}

\* A negative value counts the waiting threads exactly, and nobody waits on
\* a semaphore with units left or on one that is closed.
SemCount ==
  halted = "no" =>
    \A s \in Sem :
      Len(waiting_threads[s]) = IF s \in open /\ val[s] < 0 THEN -val[s] ELSE 0

\* main() leaves its loop, and stops the machine, only when the last user
\* thread has exited: user_thread_count is the number of live threads.
StopsWhenDone ==
  /\ user_thread_count = Cardinality(live)
  /\ halted = "stopped" => live = {}

\* A running user thread has between one tick and a full time slice left, so
\* the slice always ends and the thread can be preempted.
SliceBounded ==
  halted = "no" /\ thread_current \in Thread
    => time_left[thread_current] \in 1 .. DEFAULT_TIME_SLICE

-----------------------------------------------------------------------------
Before(q, t, u) == \E i, j \in DOMAIN q : i < j /\ q[i] = t /\ q[j] = u

\* First come, first served: in the ready queue, on a semaphore and in getc nobody
\* gets ahead of a thread that stays queued, neither a thread that comes
\* later nor one that was behind it.
NoOvertaking ==
  [][LET kept(q, r) == \A t \in ToSet(q) \cap ToSet(r), u \in Tcb :
           Before(r, u, t) => Before(q, u, t)
     IN halted' = "no" =>
          /\ kept(ready_threads, ready_threads')
          /\ kept(threads_waiting_for_input, threads_waiting_for_input')
          /\ \A s \in Sem : kept(waiting_threads[s], waiting_threads'[s])]_vars

\* t leaves the ring of getc.
Served(t) ==
  /\ t \in ToSet(threads_waiting_for_input)
  /\ t \notin ToSet(threads_waiting_for_input')

\* A thread leaves a semaphore's ring for the ready queue with the result of
\* its wait in a0: 0 when it was signalled, the error when the semaphore was
\* closed.  No step writes the result of a thread that is neither making the
\* call nor leaving a ring.
WaitOutcome ==
  [][halted' = "no" =>
       \A t \in Thread :
         LET left == {s \in Sem : /\ t \in ToSet(waiting_threads[s])
                                  /\ t \notin ToSet(waiting_threads'[s])}
         IN IF left = {}
            THEN a0'[t] # a0[t] => t = thread_current \/ Served(t)
            ELSE /\ t \in ToSet(ready_threads')
                 /\ a0'[t] = IF left \subseteq open' THEN 0
                                                     ELSE SEM_CLOSED_EXTERNALLY
    ]_vars

\* The semaphores of the kernel are the counting semaphores programs rely on:
\* whatever sleeps, ticks, exits and other calls happen in between, a step of
\* the kernel is one wait, signal, open or close, or touches no semaphore.
SemaphoresCount == INSTANCE Counting

SemaphoresServe == SemaphoresCount!CountingSpec

\* The characters typed that no thread has been given yet.
pending == console_receive_buffer \o rx_data

\* No character typed is lost, doubled or moved on its way through the device
\* and the receive buffer, however reads and interrupts alternate and also when
\* the buffer is full: those not yet given to a thread are the last ones typed,
\* and no more are stored than the buffer has places.
InputInOrder ==
  /\ Len(console_receive_buffer) <= CONSOLE_BUFFER_SIZE
  /\ \A i \in DOMAIN pending : pending[i] = char(typed - Len(pending) + i)

\* No character putc has accepted is lost, doubled or moved: the buffer goes on
\* where the device stopped, ends with the last one accepted and never holds
\* more than it has places.
OutputInOrder ==
  /\ Len(console_send_buffer) <= CONSOLE_BUFFER_SIZE
  /\ tx_data + Len(console_send_buffer) = put
  /\ \A i \in DOMAIN console_send_buffer : console_send_buffer[i] = tx_data + i

\* No wake-up is lost: no thread waits in getc while the buffer has characters.
NoReaderWaitsWithInput ==
  threads_waiting_for_input # <<>> => console_receive_buffer = <<>>

\* The threads that leave the ring of getc are its first ones, each is ready and
\* has in a0 its own character: the first thread the oldest one, and so on.
ReaderGetsChar ==
  [][\A i \in DOMAIN threads_waiting_for_input :
       LET t == threads_waiting_for_input[i]
       IN Served(t) => /\ t \in ToSet(ready_threads')
                       /\ a0'[t] = char(typed - Len(pending) + i)]_vars

\* A character that is typed wakes the thread that has waited longest in getc,
\* whatever the other threads do.
ReaderServed ==
  \A t \in Thread :
    halted = "no" /\ rx_data # <<>> /\ IsPrefix(<<t>>, threads_waiting_for_input)
      ~> t \notin ToSet(threads_waiting_for_input) \/ halted # "no"

\* A refused putc ends when the other threads print a bounded number of
\* characters: the thread is not kept repeating its ecall forever.
PutcEnds ==
  \A t \in Thread : t \in repeats ~> t \notin repeats \/ halted # "no"

\* __sem_remove_thread finds the thread it is asked to remove: its panic
\* "Thread lost" never fires (no user code executes an illegal instruction).
NoLostThreadPanic == halted # "panic"

\* A ready thread runs, however the other threads behave.
NoStarvation ==
  \A t \in Thread :
    halted = "no" /\ t \in ToSet(ready_threads)
      ~> thread_current = t \/ halted # "no"

\* Once the last thread has exited the machine stops.
Termination == live = {} ~> halted = "stopped"

\* Every sleep ends: ticks go on being delivered, also when all threads sleep,
\* and each sleeper comes to the front of the list and is woken.
SleepsEnd ==
  \A t \in Thread : halted = "no" /\ t \in Asleep ~> t \notin Asleep \/ halted # "no"
=============================================================================
