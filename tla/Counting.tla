------------------------------ MODULE Counting ------------------------------
(***************************************************************************)
(* What the semaphore calls promise, whatever runs beneath them: a wait    *)
(* that finds no unit queues the thread, a signal hands its unit to the    *)
(* thread that has waited longest, and a close lets every waiting thread   *)
(* go.  Kernel implements it; ProducerConsumer is built on it.             *)
(***************************************************************************)
EXTENDS Integers, Sequences

CONSTANTS Sem, Thread

VARIABLES
  open,             \* semaphores that exist
  val,              \* per semaphore: units left, or minus the threads waiting
  waiting_threads   \* per semaphore: the waiting threads, in order

count_vars == <<open, val, waiting_threads>>

CountingInit ==
  /\ open = {}
  /\ val = [s \in Sem |-> 0]
  /\ waiting_threads = [s \in Sem |-> <<>>]

\* t waits on no semaphore.
Free(t) ==
  \A s \in Sem : \A i \in DOMAIN waiting_threads[s] : waiting_threads[s][i] # t

Open(s) ==
  /\ s \notin open
  /\ open' = open \cup {s}
  /\ val'[s] \in Nat
  /\ val' = [val EXCEPT ![s] = val'[s]]
  /\ UNCHANGED waiting_threads

Close(s) ==
  /\ s \in open
  /\ open' = open \ {s}
  /\ waiting_threads' = [waiting_threads EXCEPT ![s] = <<>>]
  /\ UNCHANGED val

Wait(t, s) ==
  /\ s \in open
  /\ Free(t)
  /\ val' = [val EXCEPT ![s] = @ - 1]
  /\ waiting_threads' = IF val[s] > 0
                        THEN waiting_threads
                        ELSE [waiting_threads EXCEPT ![s] = Append(@, t)]
  /\ UNCHANGED open

Signal(s) ==
  /\ s \in open
  /\ val' = [val EXCEPT ![s] = @ + 1]
  /\ waiting_threads' = IF waiting_threads[s] = <<>>
                        THEN waiting_threads
                        ELSE [waiting_threads EXCEPT ![s] = Tail(@)]
  /\ UNCHANGED open

CountingNext ==
  \E s \in Sem : Open(s) \/ Close(s) \/ Signal(s) \/ \E t \in Thread : Wait(t, s)

CountingSpec == CountingInit /\ [][CountingNext]_count_vars
=============================================================================
