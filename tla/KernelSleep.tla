----------------------------- MODULE KernelSleep -----------------------------
(***************************************************************************)
(* Kernel with a history of what its sleepers are owed: time_sleep(time)   *)
(* promises the caller to be woken by the time-th tick after the call.     *)
(* The history is written from the argument of the call and from the       *)
(* interrupts of the timer alone, never from the list of timeouts, and no  *)
(* action of Kernel reads it.                                              *)
(***************************************************************************)
EXTENDS Kernel

VARIABLE owed   \* per thread: ticks until its sleep must be over, 0 when awake

sleep_vars == <<vars, owed>>

SleepInit == Init /\ owed = [t \in Thread |-> 0]

\* time_sleep(time) of the running thread.
Asks(time) ==
  /\ Ecall("TIMED_SLEEP")
  /\ SleepFor(time)
  /\ owed' = [owed EXCEPT ![thread_current] = time]

\* A tick is delivered: one less for everybody who sleeps.
Ticks ==
  /\ TimerIrq
  /\ owed' = [t \in Thread |-> IF owed[t] = 0 THEN 0 ELSE owed[t] - 1]

\* Nothing else begins, shortens or ends a sleep.
OtherCalls ==
  /\ \/ ThreadCreate \/ ThreadCreateNoMemory \/ ThreadExit \/ ThreadDispatch
     \/ SemOpen \/ SemOpenNoMemory \/ SemClose \/ SemWait \/ SemSignal
     \/ SemTimedWait \/ Unserved \/ IllegalOperation
     \/ Getc \/ PutcAccepted \/ PutcRefused
     \/ KeyPress \/ HwIrq \/ KernelDispatch \/ KernelCheck \/ Off
  /\ UNCHANGED owed

SleepNext == (\E time \in Times : Asks(time)) \/ Ticks \/ OtherCalls

SleepSpec == SleepInit /\ [][SleepNext]_sleep_vars

-----------------------------------------------------------------------------
(* Properties.                                                             *)

\* Ticks the list of timeouts has left for the sleep of t, 0 when t has no entry.
remaining ==
  [t \in Thread |->
     LET entries == {i \in DOMAIN sleeping_threads :
                       /\ sleeping_threads[i].thread = t
                       /\ sleeping_threads[i].semaphore = NULL}
     IN IF entries = {} THEN 0 ELSE due(sleeping_threads, Min(entries))]

\* The delta list of scheduler.c keeps every promise, whoever else goes to sleep
\* or wakes in between: the deltas up to the entry of a sleeper add up to the
\* ticks it is still owed of the time it asked for, it neither runs nor is
\* ready before that, and the tick that is the last one makes it ready.
SleepsAsLongAsAsked ==
  /\ [](halted = "no" =>
          \A t \in Thread :
            /\ remaining[t] = owed[t]
            /\ t \in Asleep <=> owed[t] > 0
            /\ owed[t] > 0 => t \notin ToSet(ready_threads) \cup {thread_current})
  /\ [][halted' = "no" =>
          \A t \in Thread : owed[t] > 0 /\ owed'[t] = 0 =>
            t \in ToSet(ready_threads') \cup {thread_current'}]_sleep_vars
=============================================================================
