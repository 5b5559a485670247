------------------------------ MODULE Semaphore ------------------------------
(***************************************************************************)
(* semaphore.c: what each semaphore call of the running thread does.  The  *)
(* caller, irq_handler, leaves the rest of the state alone.                *)
(***************************************************************************)
EXTENDS Scheduler

CONSTANTS
  SEMAPHORES_LEN, \* length of the array semaphores: 10
  I32_MOD         \* i32 counts modulo I32_MOD (2^32 in the build)

ASSUME SemaphoreAssumption ==
  /\ SEMAPHORES_LEN \in Nat
  /\ I32_MOD \in Nat \ {0}

SEM_CREATE_NO_MEMORY == -1
SEM_CLOSED_EXTERNALLY == -1
SEM_WAIT_TIMEOUT == -2
SEM_SIGNAL_NO_THREADS == -1

\* The u32 argument init stored in the i32 field val.
as_i32(u) == IF 2 * u >= I32_MOD THEN u - I32_MOD ELSE u

-----------------------------------------------------------------------------
\* __sem_open: the new handle is also stored in the array semaphores, at an
\* index that is never checked.
sem_open_end == IF sem_cnt >= SEMAPHORES_LEN THEN "corrupt" ELSE "no"

sem_open(s, init) ==
  /\ open' = open \cup {s}
  /\ val' = [val EXCEPT ![s] = as_i32(init)]
  /\ waiting_threads' = [waiting_threads EXCEPT ![s] = <<>>]
  /\ sem_cnt' = sem_cnt + 1
  /\ a0' = [a0 EXCEPT ![thread_current] = 0]

-----------------------------------------------------------------------------
\* __sem_close: every waiting thread is pushed, in order, with the error as
\* its result; the timeouts of the timed waits among them stay in the list.
sem_close_end(s) ==
  LET linked == ToSet(ready_threads) \cup Linked(Sem \ {s})
      link_end(i) == LinkEnd(waiting_threads[s][i], linked)
      bad == {i \in DOMAIN waiting_threads[s] : link_end(i) # "no"}
  IN IF bad = {} THEN "no" ELSE link_end(Min(bad))

\* Mutant: only the first waiting thread is pushed.
sem_close_first(s) ==
  LET W == ToSet(waiting_threads[s])
      first == SelectSeq(waiting_threads[s], LAMBDA t : t = waiting_threads[s][1])
  IN /\ ready_threads' = ready_threads \o first
     /\ time_left' = renewed_slice(time_left, W)
     /\ a0' = [a0 EXCEPT ![thread_current] = 0]
     /\ open' = open \ {s}
     /\ waiting_threads' = [waiting_threads EXCEPT ![s] = <<>>]
     /\ UNCHANGED <<thread_current, timeout_vars, val, sem_cnt>>

\* Mutant: the waiting threads are not told that the semaphore is gone.
sem_close_silent(s) ==
  /\ ready_threads' = ready_threads \o waiting_threads[s]
  /\ time_left' = renewed_slice(time_left, ToSet(waiting_threads[s]))
  /\ a0' = [a0 EXCEPT ![thread_current] = 0]
  /\ open' = open \ {s}
  /\ waiting_threads' = [waiting_threads EXCEPT ![s] = <<>>]
  /\ UNCHANGED <<thread_current, timeout_vars, val, sem_cnt>>

sem_close(s) ==
  LET W == ToSet(waiting_threads[s])
  IN /\ ready_threads' = ready_threads \o waiting_threads[s]
     /\ time_left' = renewed_slice(time_left, W)
     /\ a0' = [t \in Tcb |-> CASE t = thread_current -> 0
                               [] t \in W -> SEM_CLOSED_EXTERNALLY
                               [] OTHER -> a0[t]]
     /\ open' = open \ {s}
     /\ waiting_threads' = [waiting_threads EXCEPT ![s] = <<>>]
     /\ UNCHANGED <<thread_current, timeout_vars, val, sem_cnt>>

-----------------------------------------------------------------------------
\* __sem_push: last in the ring.
sem_push(w, t) == Append(w, t)

\* __sem_wait blocks when the value drops below zero: the next thread is
\* taken from the ready queue, then the old one is linked in the ring.
sem_wait_blocks_early(s) == val[s] - 1 <= 0  \* mutant: off by one

sem_wait_blocks(s) == val[s] - 1 < 0

sem_wait_end(s) ==
  LET linked == ToSet(scheduler_rest(ready_threads)) \cup Linked(Sem)
  IN IF sem_wait_blocks(s)
     THEN Then(switch_end(ready_threads), LinkEnd(thread_current, linked))
     ELSE "no"

\* A thread that blocks keeps the code of its system call in a0 until the
\* thread that wakes it writes the result there.
sem_wait(s, code) ==
  /\ val' = [val EXCEPT ![s] = @ - 1]
  /\ IF sem_wait_blocks(s)
     THEN /\ scheduler_next(ready_threads)
          /\ waiting_threads' = [waiting_threads EXCEPT
                                   ![s] = sem_push(@, thread_current)]
          /\ a0' = [a0 EXCEPT ![thread_current] = code]
     ELSE /\ a0' = [a0 EXCEPT ![thread_current] = 0]
          /\ UNCHANGED <<waiting_threads, ready_threads, thread_current>>

-----------------------------------------------------------------------------
\* __sem_timed_wait: the timeout is linked before __sem_wait decides whether
\* the thread blocks, and time_left = 0 marks a thread that has one.
sem_timed_wait_end(s) == Then(timeout_end, sem_wait_end(s))

sem_timed_wait(s, time, code) ==
  /\ time_left' = [time_left EXCEPT ![thread_current] = 0]
  /\ scheduler_timeout(thread_current, time, s)
  /\ sem_wait(s, code)

-----------------------------------------------------------------------------
\* __sem_signal unblocks the first waiting thread when the value was
\* negative, and cancels the timeout of a timed wait.
sem_signal_unblocks(s) == val[s] + 1 <= 0 /\ waiting_threads[s] # <<>>

sem_unblock_end(s) ==
  LET t == Head(waiting_threads[s])
      linked == ToSet(ready_threads) \cup Linked(Sem \ {s})
                  \cup ToSet(Tail(waiting_threads[s]))
  IN CASE ~Owned(t)        -> "fault"
       [] time_left[t] = 0 -> Then(remove_timeout_end(t), LinkEnd(t, linked))
       [] OTHER            -> LinkEnd(t, linked)

sem_signal_end(s) == IF sem_signal_unblocks(s) THEN sem_unblock_end(s) ELSE "no"

\* Mutant: the thread is pushed but stays in the waiting ring.
sem_unblock_thread_linked(s) ==
  LET t == Head(waiting_threads[s])
  IN /\ ready_threads' = scheduler_push(ready_threads, t)
     /\ time_left' = renewed_slice(time_left, {t})
     /\ a0' = [a0 EXCEPT ![t] = 0, ![thread_current] = 0]
     /\ UNCHANGED <<timeout_vars, waiting_threads>>

\* Mutant: the last to come is woken.
sem_unblock_thread_last(s) ==
  LET w == waiting_threads[s]
      t == w[Len(w)]
  IN /\ waiting_threads' = [waiting_threads EXCEPT ![s] = SubSeq(w, 1, Len(w) - 1)]
     /\ ready_threads' = scheduler_push(ready_threads, t)
     /\ time_left' = renewed_slice(time_left, {t})
     /\ a0' = [a0 EXCEPT ![t] = 0, ![thread_current] = 0]
     /\ UNCHANGED timeout_vars

sem_unblock_thread(s) ==
  LET t == Head(waiting_threads[s])
  IN /\ waiting_threads' = [waiting_threads EXCEPT ![s] = Tail(@)]
     /\ IF time_left[t] = 0
        THEN scheduler_remove_timeout(t)
        ELSE UNCHANGED timeout_vars
     /\ ready_threads' = scheduler_push(ready_threads, t)
     /\ time_left' = renewed_slice(time_left, {t})
     /\ a0' = [a0 EXCEPT ![t] = 0, ![thread_current] = 0]

sem_signal(s) ==
  /\ val' = [val EXCEPT ![s] = @ + 1]
  /\ \/ /\ sem_signal_unblocks(s)
        /\ sem_unblock_thread(s)
     \/ /\ ~sem_signal_unblocks(s)
        /\ a0' = [a0 EXCEPT ![thread_current] =
                    IF val[s] + 1 <= 0 THEN SEM_SIGNAL_NO_THREADS ELSE 0]
        /\ UNCHANGED <<waiting_threads, timeout_vars, ready_threads, time_left>>
=============================================================================
