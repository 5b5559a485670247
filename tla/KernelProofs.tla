---------------------------- MODULE KernelProofs ----------------------------
(***************************************************************************)
(* Theorems about Kernel, for every set of threads and semaphores, every   *)
(* time slice and every user program the constants allow.                  *)
(***************************************************************************)
EXTENDS Kernel, TLAPS, FiniteSetTheorems, SequenceTheorems,
        WellFoundedInduction

\* How a handler can end: it goes on, or the machine fails in it.
Failure == {"no", "panic", "corrupt", "fault"}

-----------------------------------------------------------------------------
(* Handlers never end the machine with __stop: only main() does.           *)

LEMMA LinkEnds == \A t, linked : LinkEnd(t, linked) \in Failure
  BY DEF LinkEnd, Failure

LEMMA SwitchEnds == \A q : switch_end(q) \in Failure
  BY DEF switch_end, Failure

LEMMA ThenEnds == \A d \in Failure, e \in Failure : Then(d, e) \in Failure
  BY DEF Then

LEMMA TimeoutEnds ==
  timeout_end \in Failure /\ \A t : remove_timeout_end(t) \in Failure
  BY DEF timeout_end, remove_timeout_end, Failure

LEMMA TickEnds == \A k : tick_end(k) \in Failure
  <1>1. \A j : wake_end(j) \in Failure
    BY LinkEnds DEF wake_end, Failure
  <1> QED
    BY <1>1 DEF tick_end, Failure

LEMMA SemaphoreEnds ==
  /\ sem_open_end \in Failure
  /\ \A s : /\ sem_close_end(s) \in Failure
            /\ sem_wait_end(s) \in Failure
            /\ sem_timed_wait_end(s) \in Failure
            /\ sem_signal_end(s) \in Failure
  <1>1. sem_open_end \in Failure
    BY DEF sem_open_end, Failure
  <1> SUFFICES ASSUME NEW s
               PROVE  /\ sem_close_end(s) \in Failure
                      /\ sem_wait_end(s) \in Failure
                      /\ sem_timed_wait_end(s) \in Failure
                      /\ sem_signal_end(s) \in Failure
    BY <1>1
  <1>2. sem_close_end(s) \in Failure
    BY LinkEnds DEF sem_close_end, Failure
  <1>3. sem_wait_end(s) \in Failure
    BY LinkEnds, SwitchEnds, ThenEnds DEF sem_wait_end, Failure
  <1>4. sem_timed_wait_end(s) \in Failure
    BY <1>3, TimeoutEnds, ThenEnds DEF sem_timed_wait_end
  <1>5. sem_signal_end(s) \in Failure
    BY LinkEnds, TimeoutEnds, ThenEnds DEF sem_signal_end, sem_unblock_end, Failure
  <1> QED
    BY <1>2, <1>3, <1>4, <1>5

LEMMA ConsoleEnds == getc_end \in Failure /\ receive_end \in Failure
  <1>1. getc_end \in Failure
    BY LinkEnds, SwitchEnds, ThenEnds DEF getc_end, Failure
  <1>2. receive_end \in Failure
    BY LinkEnds DEF receive_end, Failure
  <1> QED
    BY <1>1, <1>2

LEMMA KernelEnds ==
  /\ thread_exit_end \in Failure
  /\ \A q, linked : requeue_end(q, linked) \in Failure
  /\ \A time : timed_sleep_end(time) \in Failure
  /\ \A k : timer_end(k) \in Failure
  <1>1. thread_exit_end \in Failure
    BY SwitchEnds DEF thread_exit_end, Failure
  <1>2. \A q, linked : requeue_end(q, linked) \in Failure
    BY LinkEnds, SwitchEnds, ThenEnds DEF requeue_end
  <1>3. \A time : timed_sleep_end(time) \in Failure
    BY TimeoutEnds, SwitchEnds, ThenEnds DEF timed_sleep_end, Failure
  <1>4. \A k : timer_end(k) \in Failure
    BY <1>2, TickEnds, ThenEnds DEF timer_end, Failure
  <1> QED
    BY <1>1, <1>2, <1>3, <1>4

-----------------------------------------------------------------------------
(* The machine stops only when no user thread is left.                     *)

\* Besides the count itself: the struct of the current thread is allocated,
\* so an exit always takes a live thread away.
CountInv ==
  /\ live \subseteq Thread
  /\ thread_current \in live \cup {KernelMain}
  /\ user_thread_count = Cardinality(live)
  /\ halted = "stopped" => live = {}

LEMMA CountInit == Init => CountInv
  BY KernelAssumption, FS_Singleton DEF Init, CountInv

LEMMA CountHalt ==
  ASSUME CountInv, NEW end \in Failure, Halt(end)
  PROVE  CountInv'
  BY DEF CountInv, Halt, sched_vars, Failure

\* A switch to the head of q is a switch to an allocated struct.
LEMMA SwitchToOwned ==
  ASSUME NEW q, switch_end(q) = "no", scheduler_next(q)
  PROVE  thread_current' \in live \cup {KernelMain}
  BY DEF switch_end, scheduler_next, Owned

LEMMA CountNext == CountInv /\ [Next]_vars => CountInv'
  <1> SUFFICES ASSUME CountInv, [Next]_vars
               PROVE  CountInv'
    OBVIOUS
  <1>f. IsFiniteSet(live)
    BY KernelAssumption, FS_Subset DEF CountInv
  <1> USE DEF sched_vars, timeout_vars, sem_vars
  <1>1. CASE ThreadCreate
    <2>1. PICK t \in Thread \ live :
            LET linked == ToSet(ready_threads) \cup Linked(Sem)
            IN IF t \in linked
               THEN Halt("corrupt")
               ELSE /\ live' = live \cup {t}
                    /\ user_thread_count' = user_thread_increment
                    /\ halted' = halted
                    /\ thread_current' = thread_current
      BY <1>1 DEF ThreadCreate
    <2>2. CASE Halt("corrupt")
      BY <2>2, CountHalt DEF Failure
    <2>3. CASE /\ live' = live \cup {t}
               /\ user_thread_count' = user_thread_increment
               /\ halted' = halted
               /\ thread_current' = thread_current
      <3>1. Cardinality(live \cup {t}) = Cardinality(live) + 1
        BY <1>f, <2>1, FS_AddElement
      <3>2. halted = "no"
        BY <1>1 DEF ThreadCreate, Ecall
      <3> QED
        BY <2>3, <3>1, <3>2 DEF CountInv, user_thread_increment
    <2> QED
      BY <2>1, <2>2, <2>3
  <1>2. CASE ThreadExit
    <2>1. CASE Halt(thread_exit_end)
      BY <2>1, KernelEnds, CountHalt
    <2>2. CASE /\ Handled(thread_exit_end)
               /\ user_thread_count' = user_thread_decrement
               /\ scheduler_next(ready_threads)
               /\ live' = live \ {thread_current}
      <3>1. thread_current \in live /\ halted = "no"
        BY <1>2, KernelAssumption DEF ThreadExit, Ecall, CountInv
      <3>2. Cardinality(live \ {thread_current}) = Cardinality(live) - 1
        BY <1>f, <3>1, FS_RemoveElement
      <3>3. thread_current' \in (live \ {thread_current}) \cup {KernelMain}
        <4>1. switch_end(ready_threads) = "no"
          BY <2>2 DEF Handled, thread_exit_end
        <4>2. thread_current' \in live \cup {KernelMain}
          BY <2>2, <4>1, SwitchToOwned
        <4>3. thread_current' # thread_current
          BY <2>2, <3>1, KernelAssumption
             DEF Handled, thread_exit_end, scheduler_next, CountInv
        <4> QED
          BY <4>2, <4>3
      <3> QED
        BY <2>2, <3>1, <3>2, <3>3 DEF CountInv, Handled, user_thread_decrement
    <2> QED
      BY <1>2, <2>1, <2>2 DEF ThreadExit
  <1>3. CASE ThreadDispatch \/ PutcRefused
    <2> DEFINE end == requeue_end(ready_threads, ToSet(ready_threads) \cup Linked(Sem))
               q == scheduler_push(ready_threads, thread_current)
    <2>1. CASE Halt(end)
      BY <2>1, KernelEnds, CountHalt
    <2>2. CASE Handled(end) /\ scheduler_next(q) /\ UNCHANGED <<live, user_thread_count>>
      <3>1. switch_end(q) = "no"
        BY <2>2 DEF Handled, requeue_end, Then
      <3>2. thread_current' \in live \cup {KernelMain}
        BY <2>2, <3>1, SwitchToOwned
      <3> QED
        BY <2>2, <3>2 DEF CountInv, Handled
    <2> QED
      BY <1>3, <2>1, <2>2 DEF ThreadDispatch, PutcRefused
  <1>4. CASE \/ ThreadCreateNoMemory \/ SemOpenNoMemory \/ Unserved
             \/ PutcAccepted \/ KeyPress
    BY <1>4 DEF ThreadCreateNoMemory, SemOpenNoMemory, Unserved, unserved, PutcAccepted,
       KeyPress, CountInv
  <1>5. CASE SemOpen
    BY <1>5, SemaphoreEnds, CountHalt DEF SemOpen, Handled, CountInv
  <1>6. CASE SemClose
    BY <1>6, SemaphoreEnds, CountHalt DEF SemClose, Handled, sem_close, CountInv
  <1>7. CASE SemWait \/ SemTimedWait
    <2>1. PICK s \in open :
            \/ Halt(sem_wait_end(s))
            \/ Halt(sem_timed_wait_end(s))
            \/ /\ Handled(sem_wait_end(s)) \/ Handled(sem_timed_wait_end(s))
               /\ \E c : sem_wait(s, c)
               /\ UNCHANGED <<live, user_thread_count>>
      BY <1>7 DEF SemWait, SemTimedWait, sem_timed_wait
    <2>2. CASE Halt(sem_wait_end(s)) \/ Halt(sem_timed_wait_end(s))
      BY <2>2, SemaphoreEnds, CountHalt
    <2>3. CASE /\ Handled(sem_wait_end(s)) \/ Handled(sem_timed_wait_end(s))
               /\ \E c : sem_wait(s, c)
               /\ UNCHANGED <<live, user_thread_count>>
      <3>1. sem_wait_end(s) = "no" /\ halted' = halted
        BY <2>3 DEF Handled, sem_timed_wait_end, Then
      <3>2. thread_current' \in live \cup {KernelMain}
        <4>1. CASE sem_wait_blocks(s)
          BY <2>3, <3>1, <4>1, SwitchToOwned DEF sem_wait_end, Then, sem_wait
        <4>2. CASE ~sem_wait_blocks(s)
          BY <2>3, <4>2 DEF sem_wait, CountInv
        <4> QED
          BY <4>1, <4>2
      <3> QED
        BY <2>3, <3>1, <3>2 DEF CountInv
    <2> QED
      BY <2>1, <2>2, <2>3
  <1>8. CASE SemSignal
    BY <1>8, SemaphoreEnds, CountHalt DEF SemSignal, SignalOn, Handled, CountInv
  <1>9. CASE TimedSleep
    <2>1. PICK time \in Times :
            \/ Halt(timed_sleep_end(time))
            \/ /\ Handled(timed_sleep_end(time))
               /\ IF time = 0 THEN UNCHANGED thread_current
                              ELSE scheduler_next(ready_threads)
               /\ UNCHANGED <<live, user_thread_count>>
      BY <1>9 DEF TimedSleep, SleepFor
    <2>2. CASE Halt(timed_sleep_end(time))
      BY <2>2, KernelEnds, CountHalt
    <2>3. CASE /\ Handled(timed_sleep_end(time))
               /\ IF time = 0 THEN UNCHANGED thread_current
                              ELSE scheduler_next(ready_threads)
               /\ UNCHANGED <<live, user_thread_count>>
      <3>1. thread_current' \in live \cup {KernelMain}
        BY <2>3, SwitchToOwned DEF Handled, timed_sleep_end, Then, CountInv
      <3> QED
        BY <2>3, <3>1 DEF CountInv, Handled
    <2> QED
      BY <2>1, <2>2, <2>3
  <1>10. CASE IllegalOperation
    BY <1>10, CountHalt DEF IllegalOperation, Failure
  <1>11. CASE TimerIrq
    <2>1. PICK k \in 0 .. Len(sleeping_threads) :
            \/ Halt(timer_end(k))
            \/ /\ Handled(timer_end(k))
               /\ IF slice_over(k)
                  THEN scheduler_next(scheduler_push(ready_after_tick(k), thread_current))
                  ELSE UNCHANGED thread_current
               /\ UNCHANGED <<live, user_thread_count>>
      BY <1>11 DEF TimerIrq
    <2>2. CASE Halt(timer_end(k))
      BY <2>2, KernelEnds, CountHalt
    <2>3. CASE /\ Handled(timer_end(k))
               /\ IF slice_over(k)
                  THEN scheduler_next(scheduler_push(ready_after_tick(k), thread_current))
                  ELSE UNCHANGED thread_current
               /\ UNCHANGED <<live, user_thread_count>>
      <3>1. thread_current' \in live \cup {KernelMain}
        BY <2>3, SwitchToOwned DEF Handled, timer_end, requeue_end, Then, CountInv
      <3> QED
        BY <2>3, <3>1 DEF CountInv, Handled
    <2> QED
      BY <2>1, <2>2, <2>3
  <1>12. CASE KernelDispatch
    <2>1. CASE Halt(switch_end(ready_threads))
      BY <2>1, SwitchEnds, CountHalt
    <2>2. CASE /\ Handled(switch_end(ready_threads))
               /\ scheduler_next(ready_threads)
               /\ UNCHANGED <<live, user_thread_count>>
      BY <2>2, SwitchToOwned DEF Handled, CountInv
    <2> QED
      BY <1>12, <2>1, <2>2 DEF KernelDispatch
  <1>13. CASE KernelCheck
    <2>1. user_thread_count = 0 => live = {}
      BY <1>f, FS_EmptySet DEF CountInv
    <2> QED
      BY <1>13, <2>1 DEF KernelCheck, stop, CountInv
  <1>15. CASE Getc
    <2>1. CASE Halt(getc_end)
      BY <2>1, ConsoleEnds, CountHalt
    <2>2. CASE Handled(getc_end) /\ getc_blocks /\ scheduler_next(ready_threads)
                /\ UNCHANGED <<live, user_thread_count>>
      <3>1. switch_end(ready_threads) = "no"
        BY <2>2 DEF Handled, getc_end, Then
      <3> QED
        BY <2>2, <3>1, SwitchToOwned DEF Handled, CountInv
    <2>3. CASE UNCHANGED <<halted, thread_current, live, user_thread_count>>
      BY <2>3 DEF CountInv
    <2> QED
      BY <1>15, <2>1, <2>2, <2>3 DEF Getc, getc_block, getc_take, Handled
  <1>16. CASE HwIrq
    BY <1>16, ConsoleEnds, CountHalt DEF HwIrq, Handled, CountInv
  <1>14. CASE Off \/ UNCHANGED vars
    BY <1>14 DEF Off, vars, CountInv
  <1> QED
    BY <1>1, <1>2, <1>3, <1>4, <1>5, <1>6, <1>7, <1>8, <1>9, <1>10, <1>11,
       <1>12, <1>13, <1>14, <1>15, <1>16 DEF Next, Syscall

\* main() stops the machine only when the last user thread has exited, for
\* any number of threads and whatever they call: user_thread_count never
\* drifts from the number of live thread structs.
THEOREM StopsWhenDoneTheorem == Spec => []StopsWhenDone
  <1>1. CountInv => StopsWhenDone
    BY DEF CountInv, StopsWhenDone
  <1> QED
    BY <1>1, CountInit, CountNext, PTL DEF Spec

-----------------------------------------------------------------------------
(* A running user thread can always be preempted.                          *)

SliceInv == time_left \in [Tcb -> 1 .. DEFAULT_TIME_SLICE]

LEMMA SliceRenewed ==
  ASSUME NEW left, NEW T,
         \A t \in Tcb \ T : left[t] \in 1 .. DEFAULT_TIME_SLICE
  PROVE  renewed_slice(left, T) \in [Tcb -> 1 .. DEFAULT_TIME_SLICE]
  BY KernelAssumption DEF renewed_slice

LEMMA SliceNext ==
  ASSUME "SEM_TIMED_WAIT" \notin Calls
  PROVE  CountInv /\ SliceInv /\ [Next]_vars => SliceInv'
  <1> SUFFICES ASSUME CountInv, SliceInv, [Next]_vars
               PROVE  SliceInv'
    OBVIOUS
  <1> USE DEF sched_vars
  <1>1. ASSUME NEW end, Halt(end)
        PROVE  SliceInv'
    BY <1>1 DEF Halt, SliceInv
  <1>r. \A T : renewed_slice(time_left, T) \in [Tcb -> 1 .. DEFAULT_TIME_SLICE]
    BY SliceRenewed DEF SliceInv
  <1>2. CASE ThreadCreate \/ ThreadDispatch \/ PutcRefused \/ HwIrq
    BY <1>1, <1>2, <1>r DEF ThreadCreate, ThreadDispatch, PutcRefused, HwIrq,
       console_receive, SliceInv
  <1>3. CASE \/ ThreadCreateNoMemory \/ ThreadExit \/ SemOpen \/ SemOpenNoMemory
             \/ SemWait \/ TimedSleep \/ Unserved \/ IllegalOperation
             \/ Getc \/ PutcAccepted \/ KeyPress
    BY <1>1, <1>3 DEF ThreadCreateNoMemory, ThreadExit, SemOpen, SemOpenNoMemory,
       SemWait, TimedSleep, SleepFor, Unserved, unserved, IllegalOperation, Getc, PutcAccepted,
       KeyPress, SliceInv
  <1>4. CASE SemClose
    BY <1>1, <1>4, <1>r DEF SemClose, sem_close, SliceInv
  <1>5. CASE SemSignal
    BY <1>1, <1>5, <1>r DEF SemSignal, SignalOn, sem_signal, sem_unblock_thread, SliceInv
  <1>6. CASE SemTimedWait
    BY <1>6 DEF SemTimedWait, Ecall
  <1>7. CASE TimerIrq
    <2>1. PICK k \in 0 .. Len(sleeping_threads) :
            \/ Halt(timer_end(k))
            \/ time_left' = renewed_slice(slices_after_tick(k), {thread_current})
            \/ /\ ~slice_over(k)
               /\ time_left' = slices_after_tick(k)
      BY <1>7 DEF TimerIrq
    <2> DEFINE left == renewed_slice(time_left, woken(k))
    <2>2. left \in [Tcb -> 1 .. DEFAULT_TIME_SLICE] /\ thread_current \in Tcb
      BY <1>r DEF CountInv, Tcb
    <2>3. slices_after_tick(k) =
            [left EXCEPT ![thread_current] = (left[thread_current] - 1) % TIME_MOD]
      BY DEF slices_after_tick
    <2> HIDE DEF left
    <2>4. \A t \in Tcb \ {thread_current} :
            slices_after_tick(k)[t] \in 1 .. DEFAULT_TIME_SLICE
      BY <2>2, <2>3
    <2>5. CASE time_left' = renewed_slice(slices_after_tick(k), {thread_current})
      BY <2>4, <2>5, SliceRenewed DEF SliceInv
    <2>6. CASE ~slice_over(k) /\ time_left' = slices_after_tick(k)
      <3>0. left[thread_current] \in 1 .. DEFAULT_TIME_SLICE
        BY <2>2
      <3>1. left[thread_current] - 1 \in 0 .. DEFAULT_TIME_SLICE - 1
        BY <3>0, KernelAssumption
      <3>2. \A x \in 0 .. DEFAULT_TIME_SLICE - 1 : x % TIME_MOD = x
        BY KernelAssumption
      <3>3. slices_after_tick(k)[thread_current] = left[thread_current] - 1
        BY <2>2, <2>3, <3>1, <3>2
      <3>4. slices_after_tick(k)[thread_current] \in 1 .. DEFAULT_TIME_SLICE
        BY <2>6, <3>0, <3>3, KernelAssumption DEF slice_over
      <3>5. slices_after_tick(k) = [t \in Tcb |-> slices_after_tick(k)[t]]
        BY <2>2, <2>3
      <3> QED
        BY <2>4, <2>6, <3>4, <3>5 DEF SliceInv
    <2> QED
      BY <1>1, <2>1, <2>5, <2>6
  <1>8. CASE KernelDispatch \/ KernelCheck
    BY <1>1, <1>8 DEF KernelDispatch, KernelCheck, stop, SliceInv
  <1>9. CASE Off \/ UNCHANGED vars
    BY <1>9 DEF Off, vars, SliceInv
  <1> QED
    BY <1>2, <1>3, <1>4, <1>5, <1>6, <1>7, <1>8, <1>9 DEF Next, Syscall

\* Without sem_timed_wait the time slice of a running user thread never runs
\* past its end: every tick either switches or leaves between one tick and a
\* whole slice.
THEOREM SliceBoundedTheorem ==
  ASSUME "SEM_TIMED_WAIT" \notin Calls
  PROVE  Spec => []SliceBounded
  <1>1. Init => SliceInv
    BY KernelAssumption DEF Init, SliceInv
  <1>2. SliceInv => SliceBounded
    BY DEF SliceInv, SliceBounded, Tcb
  <1>3. CountInv /\ SliceInv /\ [Next]_vars => SliceInv'
    BY SliceNext
  <1> QED
    BY <1>1, <1>2, <1>3, CountInit, CountNext, PTL DEF Spec

-----------------------------------------------------------------------------
(* The value of a semaphore counts its waiting threads.                    *)

\* A non-empty set of naturals has a least element.
LEMMA LeastNatural ==
  ASSUME NEW S \in SUBSET Nat, S # {}
  PROVE  Min(S) \in S /\ \A n \in S : Min(S) <= n
  <1>1. \E x \in S : \A y \in S : ~(<<y, x>> \in OpToRel(<, Nat))
    BY NatLessThanWellFounded, WFMin
  <1>2. \A x, y \in Nat : y < x => <<y, x>> \in OpToRel(<, Nat)
    BY DEF OpToRel
  <1>3. \E x \in S : \A y \in S : x <= y
    <2>1. PICK x \in S : \A y \in S : ~(<<y, x>> \in OpToRel(<, Nat))
      BY <1>1
    <2>2. \A y \in S : ~(y < x)
      BY <1>2, <2>1
    <2>3. \A y \in S : x <= y
      BY <2>2
    <2> QED
      BY <2>3
  <1> QED
    BY <1>3 DEF Min

\* Induction, for a set instead of a predicate.
LEMMA InductiveSet ==
  ASSUME NEW S, 0 \in S, \A n \in Nat : n \in S => n + 1 \in S
  PROVE  Nat \subseteq S
  <1> DEFINE others == Nat \ S
  <1> SUFFICES ASSUME others # {}
               PROVE  FALSE
    OBVIOUS
  <1>1. Min(others) \in others /\ \A n \in others : Min(others) <= n
    BY LeastNatural
  <1> HIDE DEF others
  <1>2. PICK m \in others : \A n \in others : m <= n
    BY <1>1
  <1>3. m \in Nat /\ m \notin S
    BY <1>2 DEF others
  <1>4. m # 0 /\ m - 1 \in Nat /\ m - 1 \notin others
    BY <1>2, <1>3
  <1>5. m - 1 \in S /\ m - 1 + 1 = m
    BY <1>3, <1>4 DEF others
  <1> QED
    BY <1>3, <1>4, <1>5

\* A tick that goes on has woken each of its entries without a failure.
LEMMA TickWakes ==
  ASSUME NEW k \in Nat, tick_end(k) = "no", NEW j \in 1 .. k
  PROVE  wake_end(j) = "no"
  <1> DEFINE bad == {n \in 1 .. k : wake_end(n) # "no"}
  <1>1. bad = {} \/ wake_end(Min(bad)) = "no"
    BY DEF tick_end
  <1>2. bad # {} => Min(bad) \in bad
    BY LeastNatural
  <1> QED
    BY <1>1, <1>2

\* __sem_remove_thread goes on only in a ring of one thread.
LEMMA TimedOutRing ==
  ASSUME NEW k \in Nat, tick_end(k) = "no",
         waiting_threads \in [Sem -> Seq(Tcb)],
         NEW s \in Sem, s \in timed_out_sems(k)
  PROVE  s \in open /\ Len(waiting_threads[s]) = 1
  <1>1. PICK j \in 1 .. k : sleeping_threads[j].semaphore = s /\ s # NULL
    BY DEF timed_out_sems
  <1>2. wake_end(j) = "no"
    BY TickWakes
  <1>3. /\ s \in open
        /\ waiting_threads[s] # <<>>
        /\ ~(Len(waiting_threads[s]) > 1)
    BY <1>1, <1>2 DEF wake_end
  <1>4. waiting_threads[s] \in Seq(Tcb)
    OBVIOUS
  <1>5. Len(waiting_threads[s]) \in Nat /\ Len(waiting_threads[s]) # 0
    BY <1>3, <1>4, EmptySeq, LenProperties
  <1>6. \A n \in Nat : n # 0 /\ ~(n > 1) => n = 1
    OBVIOUS
  <1>7. Len(waiting_threads[s]) = 1
    BY <1>3, <1>5, <1>6
  <1> QED
    BY <1>3, <1>7

CountsWaiters(s) ==
  Len(waiting_threads[s]) = IF s \in open /\ val[s] < 0 THEN -val[s] ELSE 0

SemInv ==
  /\ waiting_threads \in [Sem -> Seq(Tcb)]
  /\ val \in [Sem -> Int]
  /\ open \subseteq Sem
  /\ \A s \in Sem : CountsWaiters(s)

\* The initial values sem_open is called with are not negative as an i32.
InitsFit == \A init \in Inits : 2 * init < I32_MOD

LEMMA SemFrame ==
  ASSUME SemInv, UNCHANGED <<waiting_threads, val, open>>
  PROVE  SemInv'
  BY DEF SemInv, CountsWaiters

\* One semaphore is written, the others keep their value and their ring.
LEMMA SemOne ==
  ASSUME SemInv, NEW s \in Sem, NEW v \in Int, NEW w \in Seq(Tcb),
         val' = [val EXCEPT ![s] = v],
         waiting_threads' = [waiting_threads EXCEPT ![s] = w],
         open' \subseteq Sem,
         open' \ {s} = open \ {s},
         Len(w) = IF s \in open' /\ v < 0 THEN -v ELSE 0
  PROVE  SemInv'
  <1>1. waiting_threads' \in [Sem -> Seq(Tcb)] /\ val' \in [Sem -> Int]
    BY DEF SemInv
  <1>2. CountsWaiters(s)'
    BY DEF SemInv, CountsWaiters
  <1>3. ASSUME NEW r \in Sem \ {s}
        PROVE  CountsWaiters(r)'
    <2>1. val'[r] = val[r] /\ waiting_threads'[r] = waiting_threads[r]
      BY DEF SemInv
    <2>2. r \in open' <=> r \in open
      OBVIOUS
    <2> QED
      BY <2>1, <2>2 DEF SemInv, CountsWaiters
  <1> QED
    BY <1>1, <1>2, <1>3 DEF SemInv

LEMMA SemNext ==
  ASSUME InitsFit
  PROVE  CountInv /\ SemInv /\ [Next]_vars => SemInv'
  <1> SUFFICES ASSUME CountInv, SemInv, [Next]_vars
               PROVE  SemInv'
    OBVIOUS
  <1> USE DEF sem_vars
  <1>1. ASSUME NEW end, Halt(end)
        PROVE  SemInv'
    BY <1>1, SemFrame DEF Halt
  <1>2. CASE \/ ThreadCreate \/ ThreadCreateNoMemory \/ ThreadExit \/ ThreadDispatch
             \/ SemOpenNoMemory \/ TimedSleep \/ Unserved \/ IllegalOperation
             \/ KernelDispatch \/ KernelCheck
             \/ Getc \/ PutcAccepted \/ PutcRefused \/ KeyPress \/ HwIrq
    BY <1>1, <1>2, SemFrame DEF ThreadCreate, ThreadCreateNoMemory, ThreadExit,
       ThreadDispatch, SemOpenNoMemory, TimedSleep, SleepFor, Unserved, unserved, IllegalOperation,
       KernelDispatch, KernelCheck, stop, Getc, PutcAccepted, PutcRefused,
       KeyPress, HwIrq
  <1>3. CASE SemOpen
    <2>1. PICK s \in Sem \ open, init \in Inits :
            Halt(sem_open_end) \/ sem_open(s, init)
      BY <1>3 DEF SemOpen
    <2>2. CASE sem_open(s, init)
      <3> DEFINE v == as_i32(init)
                 w == <<>>
      <3>1. v \in Int /\ ~(v < 0)
        BY CallsAssumption, SemaphoreAssumption DEF as_i32, InitsFit
      <3>2. w \in Seq(Tcb) /\ Len(w) = 0
        BY EmptySeq
      <3>3. open' \subseteq Sem /\ open' \ {s} = open \ {s}
        BY <2>2 DEF sem_open, SemInv
      <3>4. /\ val' = [val EXCEPT ![s] = v]
            /\ waiting_threads' = [waiting_threads EXCEPT ![s] = w]
        BY <2>2 DEF sem_open
      <3> HIDE DEF v, w
      <3>5. Len(w) = IF s \in open' /\ v < 0 THEN -v ELSE 0
        BY <3>1, <3>2
      <3> QED
        BY <3>1, <3>2, <3>3, <3>4, <3>5, SemOne
    <2> QED
      BY <1>1, <2>1, <2>2
  <1>4. CASE SemClose
    <2>1. PICK s \in open : Halt(sem_close_end(s)) \/ sem_close(s)
      BY <1>4 DEF SemClose
    <2>2. CASE sem_close(s)
      <3> DEFINE v == val[s]
                 w == <<>>
      <3>1. w \in Seq(Tcb) /\ Len(w) = 0
        BY EmptySeq
      <3>2. open' \subseteq Sem /\ open' \ {s} = open \ {s} /\ s \notin open' /\ s \in Sem
        BY <2>2 DEF sem_close, SemInv
      <3>3. v \in Int /\ val' = [val EXCEPT ![s] = v]
        BY <2>2, <3>2 DEF sem_close, SemInv
      <3>4. waiting_threads' = [waiting_threads EXCEPT ![s] = w]
        BY <2>2 DEF sem_close
      <3> HIDE DEF v, w
      <3>5. Len(w) = IF s \in open' /\ v < 0 THEN -v ELSE 0
        BY <3>1, <3>2
      <3> QED
        BY <3>1, <3>2, <3>3, <3>4, <3>5, SemOne
    <2> QED
      BY <1>1, <2>1, <2>2
  <1>5. CASE SemWait \/ SemTimedWait
    <2>1. PICK s \in open, c \in {code("SEM_WAIT"), code("SEM_TIMED_WAIT")} :
            \/ \E end : Halt(end)
            \/ sem_wait(s, c) /\ open' = open
      BY <1>5 DEF SemWait, SemTimedWait, sem_timed_wait
    <2>2. CASE sem_wait(s, c) /\ open' = open
      <3> DEFINE v == val[s] - 1
      <3>1. s \in Sem /\ val[s] \in Int /\ waiting_threads[s] \in Seq(Tcb)
        BY DEF SemInv
      <3>2. v \in Int /\ val' = [val EXCEPT ![s] = v]
        BY <2>2, <3>1 DEF sem_wait
      <3>3. Len(waiting_threads[s]) = IF val[s] < 0 THEN -val[s] ELSE 0
        BY <3>1 DEF SemInv, CountsWaiters
      <3>4. open' \subseteq Sem /\ open' \ {s} = open \ {s} /\ s \in open'
        BY <2>2 DEF SemInv
      <3>5. CASE sem_wait_blocks(s)
        <4> DEFINE w == Append(waiting_threads[s], thread_current)
        <4>1. w \in Seq(Tcb) /\ Len(w) = Len(waiting_threads[s]) + 1
          BY <3>1, AppendProperties DEF CountInv, Tcb
        <4>2. waiting_threads' = [waiting_threads EXCEPT ![s] = w]
          BY <2>2, <3>5 DEF sem_wait, sem_push
        <4>3. val[s] - 1 < 0
          BY <3>5 DEF sem_wait_blocks
        <4>4. Len(w) = -v /\ v < 0
          BY <3>1, <3>3, <4>1, <4>3
        <4> HIDE DEF v, w
        <4>5. Len(w) = IF s \in open' /\ v < 0 THEN -v ELSE 0
          BY <3>4, <4>4
        <4> QED
          BY <3>1, <3>2, <3>4, <4>1, <4>2, <4>5, SemOne
      <3>6. CASE ~sem_wait_blocks(s)
        <4> DEFINE w == waiting_threads[s]
        <4>1. waiting_threads' = [waiting_threads EXCEPT ![s] = w]
          BY <2>2, <3>1, <3>6 DEF sem_wait, SemInv
        <4>2. ~(v < 0)
          BY <3>6 DEF sem_wait_blocks
        <4>3. Len(w) = 0 /\ w \in Seq(Tcb)
          BY <3>1, <3>3, <4>2
        <4> HIDE DEF v, w
        <4>4. Len(w) = IF s \in open' /\ v < 0 THEN -v ELSE 0
          BY <4>2, <4>3
        <4> QED
          BY <3>1, <3>2, <3>4, <4>1, <4>3, <4>4, SemOne
      <3> QED
        BY <3>5, <3>6
    <2> QED
      BY <1>1, <2>1, <2>2
  <1>6. CASE SemSignal
    <2>1. PICK s \in open : \/ Halt(sem_signal_end(s))
                            \/ sem_signal(s) /\ open' = open
      BY <1>6 DEF SemSignal, SignalOn
    <2>2. CASE sem_signal(s) /\ open' = open
      <3> DEFINE v == val[s] + 1
      <3>1. s \in Sem /\ val[s] \in Int /\ waiting_threads[s] \in Seq(Tcb)
        BY DEF SemInv
      <3>2. v \in Int /\ val' = [val EXCEPT ![s] = v]
        BY <2>2, <3>1 DEF sem_signal
      <3>3. Len(waiting_threads[s]) = IF val[s] < 0 THEN -val[s] ELSE 0
        BY <3>1 DEF SemInv, CountsWaiters
      <3>4. open' \subseteq Sem /\ open' \ {s} = open \ {s} /\ s \in open'
        BY <2>2 DEF SemInv
      <3>5. CASE sem_signal_unblocks(s)
        <4> DEFINE w == Tail(waiting_threads[s])
        <4>1. waiting_threads[s] # <<>> /\ val[s] + 1 <= 0
          BY <3>5 DEF sem_signal_unblocks
        <4>2. w \in Seq(Tcb) /\ Len(w) = Len(waiting_threads[s]) - 1
          BY <3>1, <4>1, HeadTailProperties
        <4>3. waiting_threads' = [waiting_threads EXCEPT ![s] = w]
          BY <2>2, <3>5 DEF sem_signal, sem_unblock_thread
        <4>4. Len(w) = IF v < 0 THEN -v ELSE 0
          BY <3>1, <3>3, <4>1, <4>2
        <4> HIDE DEF v, w
        <4>5. Len(w) = IF s \in open' /\ v < 0 THEN -v ELSE 0
          BY <3>4, <4>4
        <4> QED
          BY <3>1, <3>2, <3>4, <4>2, <4>3, <4>5, SemOne
      <3>6. CASE ~sem_signal_unblocks(s)
        <4> DEFINE w == waiting_threads[s]
        <4>1. waiting_threads' = [waiting_threads EXCEPT ![s] = w]
          BY <2>2, <3>1, <3>6 DEF sem_signal, SemInv
        <4>2. val[s] + 1 > 0 \/ waiting_threads[s] = <<>>
          BY <3>1, <3>6 DEF sem_signal_unblocks
        <4>3. waiting_threads[s] = <<>> => Len(waiting_threads[s]) = 0
          BY EmptySeq
        <4>4. Len(w) = 0 /\ w \in Seq(Tcb) /\ ~(v < 0)
          BY <3>1, <3>3, <4>2, <4>3
        <4> HIDE DEF v, w
        <4>5. Len(w) = IF s \in open' /\ v < 0 THEN -v ELSE 0
          BY <4>4
        <4> QED
          BY <3>1, <3>2, <3>4, <4>1, <4>4, <4>5, SemOne
      <3> QED
        BY <3>5, <3>6
    <2> QED
      BY <1>1, <2>1, <2>2
  <1>7. CASE TimerIrq
    <2>1. PICK k \in 0 .. Len(sleeping_threads) :
            \/ Halt(timer_end(k))
            \/ Handled(timer_end(k)) /\ scheduler_tick(k) /\ open' = open
      BY <1>7 DEF TimerIrq
    <2>2. CASE Handled(timer_end(k)) /\ scheduler_tick(k) /\ open' = open
      <3>1. tick_end(k) = "no" /\ k \in Nat
        BY <2>1, <2>2 DEF Handled, timer_end, Then
      <3>2. waiting_threads' \in [Sem -> Seq(Tcb)] /\ val' \in [Sem -> Int]
        BY <2>2, EmptySeq DEF scheduler_tick, SemInv
      <3>3. ASSUME NEW s \in Sem
            PROVE  CountsWaiters(s)'
        <4>1. CASE s \in timed_out_sems(k)
          <5>1. s \in open /\ Len(waiting_threads[s]) = 1
            BY <3>1, <4>1, TimedOutRing DEF SemInv
          <5>2. val[s] \in Int /\ 1 = IF val[s] < 0 THEN -val[s] ELSE 0
            BY <5>1 DEF SemInv, CountsWaiters
          <5>3. val[s] = -1
            BY <5>2
          <5>4. val'[s] = 0 /\ waiting_threads'[s] = <<>>
            BY <2>2, <4>1, <5>3 DEF scheduler_tick
          <5> QED
            BY <5>4, EmptySeq DEF CountsWaiters
        <4>2. CASE s \notin timed_out_sems(k)
          <5>1. val'[s] = val[s] /\ waiting_threads'[s] = waiting_threads[s]
            BY <2>2, <4>2 DEF scheduler_tick
          <5> QED
            BY <2>2, <5>1 DEF SemInv, CountsWaiters
        <4> QED
          BY <4>1, <4>2
      <3> QED
        BY <2>2, <3>2, <3>3 DEF SemInv
    <2> QED
      BY <1>1, <2>1, <2>2
  <1>8. CASE Off \/ UNCHANGED vars
    BY <1>8, SemFrame DEF Off, vars
  <1> QED
    BY <1>2, <1>3, <1>4, <1>5, <1>6, <1>7, <1>8 DEF Next, Syscall

\* A negative semaphore value counts the waiting threads exactly, through any
\* sequence of waits, timed waits, signals, closes and ticks by any number of
\* threads, provided no semaphore is opened with a value that an i32 cannot
\* hold.
THEOREM SemCountTheorem ==
  ASSUME InitsFit
  PROVE  Spec => []SemCount
  <1>1. Init => SemInv
    BY EmptySeq DEF Init, SemInv, CountsWaiters
  <1>2. SemInv => SemCount
    BY DEF SemInv, SemCount, CountsWaiters
  <1>3. CountInv /\ SemInv /\ [Next]_vars => SemInv'
    BY SemNext
  <1> QED
    BY <1>1, <1>2, <1>3, CountInit, CountNext, PTL DEF Spec
=============================================================================
