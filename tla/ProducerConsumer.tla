-------------------------- MODULE ProducerConsumer --------------------------
(***************************************************************************)
(* The producer and consumer test of the C API, with the bounded buffer of *)
(* test/buffer.cpp, over the semaphores the kernel provides (Counting).    *)
(* Threads are preempted anywhere, so a step is one system call or one     *)
(* access to a shared variable.  Printing and thread_dispatch change none  *)
(* of this state and are left out.                                         *)
(***************************************************************************)
EXTENDS Integers, Sequences, FiniteSets

CONSTANTS
  MaxThreads,  \* bound: number of producers the user enters
  MaxSize      \* bound: size of the buffer the user enters

ASSUME EnteredAssumption == MaxThreads \in Nat /\ MaxSize \in Nat

\* Producer i is thread i, 0 the one that reads the keyboard; the consumer is
\* thread threadNum.
MAIN == -1
KEYBOARD == 0
Thread == MAIN .. MaxThreads
Sem == {"itemAvailable", "spaceAvailable", "mutexHead", "mutexTail", "waitForAll"}

VARIABLES
  open, val, waiting_threads,  \* the semaphores
  threadNum, n,                \* what the user enters
  buffer, head, tail,          \* the fields of Buffer
  threadEnd,                   \* set when the user presses escape
  pc,                          \* per thread: where it is
  ret,                         \* per thread: the result of get or getCnt
  joined                       \* the i of the loop that waits for all threads

buffer_vars == <<buffer, head, tail>>
sem_vars == <<open, val, waiting_threads>>
vars == <<sem_vars, threadNum, n, buffer_vars, threadEnd, pc, ret, joined>>

Semaphores == INSTANCE Counting

CONSUMER == threadNum
Started == 0 .. threadNum
cap == n + 1

\* What is put: the id of a producer, and '!' as the last of the keyboard.
BANG == -1
UNSET == -2
Value == BANG .. MaxThreads

Init ==
  /\ Semaphores!CountingInit
  /\ threadNum \in 0 .. MaxThreads
  /\ n \in 0 .. MaxSize
  /\ buffer = [i \in 0 .. MaxSize |-> UNSET]
  /\ head = 0
  /\ tail = 0
  /\ threadEnd = FALSE
  /\ pc = [t \in Thread |-> IF t = MAIN THEN "entered" ELSE "new"]
  /\ ret = [t \in Thread |-> 0]
  /\ joined = 0

-----------------------------------------------------------------------------
(* Steps of a thread.                                                      *)

\* t goes on, unless it waits on a semaphore.
Goes(t, from, to) ==
  /\ pc[t] = from
  /\ Semaphores!Free(t)
  /\ pc' = [pc EXCEPT ![t] = to]
  /\ UNCHANGED <<threadNum, n>>

Waits(t, from, to, s) ==
  /\ Goes(t, from, to)
  /\ Semaphores!Wait(t, s)
  /\ UNCHANGED <<buffer_vars, threadEnd, ret, joined>>

Signals(t, from, to, s) ==
  /\ Goes(t, from, to)
  /\ Semaphores!Signal(s)
  /\ UNCHANGED <<buffer_vars, threadEnd, ret, joined>>

-----------------------------------------------------------------------------
(* Buffer::put.                                                            *)

item(t) == IF t = KEYBOARD /\ threadEnd THEN BANG ELSE t

PutStore(t) ==
  /\ Goes(t, "put_store", "put_advance")
  /\ buffer' = [buffer EXCEPT ![tail] = item(t)]
  /\ UNCHANGED <<sem_vars, head, tail, threadEnd, ret, joined>>

PutAdvance(t) ==
  /\ Goes(t, "put_advance", "put_unlock")
  /\ tail' = (tail + 1) % cap
  /\ UNCHANGED <<sem_vars, buffer, head, threadEnd, ret, joined>>

\* The keyboard's last item is put after threadEnd is set.
after_put(t) == IF t = KEYBOARD /\ threadEnd THEN "end" ELSE "loop"

\* Mutant: the producer does not wait for space.
Put_unbounded(t) ==
  \/ Waits(t, "put", "put_store", "mutexTail")
  \/ PutStore(t)
  \/ PutAdvance(t)
  \/ Signals(t, "put_unlock", "put_item", "mutexTail")
  \/ Signals(t, "put_item", after_put(t), "itemAvailable")

Put(t) ==
  \/ Waits(t, "put", "put_lock", "spaceAvailable")
  \/ Waits(t, "put_lock", "put_store", "mutexTail")
  \/ PutStore(t)
  \/ PutAdvance(t)
  \/ Signals(t, "put_unlock", "put_item", "mutexTail")
  \/ Signals(t, "put_item", after_put(t), "itemAvailable")

-----------------------------------------------------------------------------
(* Buffer::get.                                                            *)

GetLoad(t) ==
  /\ Goes(t, "get_load", "get_advance")
  /\ ret' = [ret EXCEPT ![t] = buffer[head]]
  /\ UNCHANGED <<sem_vars, buffer_vars, threadEnd, joined>>

GetAdvance(t) ==
  /\ Goes(t, "get_advance", "get_unlock")
  /\ head' = (head + 1) % cap
  /\ UNCHANGED <<sem_vars, buffer, tail, threadEnd, ret, joined>>

Get(t) ==
  \/ Waits(t, "get", "get_lock", "itemAvailable")
  \/ Waits(t, "get_lock", "get_load", "mutexHead")
  \/ GetLoad(t)
  \/ GetAdvance(t)
  \/ Signals(t, "get_unlock", "get_space", "mutexHead")
  \/ Signals(t, "get_space", "loop", "spaceAvailable")

-----------------------------------------------------------------------------
(* Buffer::getCnt, which holds both locks.                                 *)

cnt == IF tail >= head THEN tail - head ELSE cap - head + tail

Count(t) ==
  /\ Goes(t, "cnt_count", "cnt_unlock")
  /\ ret' = [ret EXCEPT ![t] = cnt]
  /\ UNCHANGED <<sem_vars, buffer_vars, threadEnd, joined>>

\* The consumer gets what is left, ~Buffer prints it.
after_cnt(t) ==
  CASE ret[t] = 0 -> IF t = MAIN THEN "delete" ELSE "end"
    [] OTHER      -> IF t = MAIN THEN "print" ELSE "get"

GetCnt(t) ==
  \/ Waits(t, "cnt", "cnt_lock", "mutexHead")
  \/ Waits(t, "cnt_lock", "cnt_count", "mutexTail")
  \/ Count(t)
  \/ Signals(t, "cnt_unlock", "cnt_done", "mutexTail")
  \/ Signals(t, "cnt_done", after_cnt(t), "mutexHead")

-----------------------------------------------------------------------------
(* The bodies of the threads.                                              *)

\* while ((key = getc()) != 0x1b)
KeyTyped ==
  /\ Goes(KEYBOARD, "loop", "put")
  /\ UNCHANGED <<sem_vars, buffer_vars, threadEnd, ret, joined>>

\* Mutant: the other threads are not told.
EscapeTyped_untold ==
  /\ Goes(KEYBOARD, "loop", "put")
  /\ UNCHANGED <<sem_vars, buffer_vars, threadEnd, ret, joined>>

EscapeTyped ==
  /\ Goes(KEYBOARD, "loop", "put")
  /\ threadEnd' = TRUE
  /\ UNCHANGED <<sem_vars, buffer_vars, ret, joined>>

\* while (!threadEnd) of a producer and of the consumer
ProducerLoop(t) ==
  /\ t # KEYBOARD
  /\ Goes(t, "loop", IF threadEnd THEN "end" ELSE "put")
  /\ UNCHANGED <<sem_vars, buffer_vars, threadEnd, ret, joined>>

\* Once threadEnd is set, it stays so: from then on every item is preceded by
\* a call of getCnt.
ConsumerLoop(t) ==
  /\ Goes(t, "loop", IF threadEnd THEN "cnt" ELSE "get")
  /\ UNCHANGED <<sem_vars, buffer_vars, threadEnd, ret, joined>>

End(t) == Signals(t, "end", "over", "waitForAll")

Producer(t) == t < threadNum /\ (ProducerLoop(t) \/ Put(t) \/ End(t))

Consumer(t) == t = CONSUMER /\ (ConsumerLoop(t) \/ Get(t) \/ GetCnt(t) \/ End(t))

-----------------------------------------------------------------------------
(* producerConsumer_C_API.                                                 *)

refused == threadNum > n \/ threadNum < 1

\* The numbers are looked at; new Buffer(n), sem_open(&waitForAll, 0).
Enter ==
  /\ IF refused
     THEN Goes(MAIN, "entered", "done") /\ UNCHANGED sem_vars
     ELSE /\ Goes(MAIN, "entered", "create")
          /\ open' = Sem
          /\ val' = [itemAvailable |-> 0, spaceAvailable |-> n, mutexHead |-> 1,
                     mutexTail |-> 1, waitForAll |-> 0]
          /\ UNCHANGED waiting_threads
  /\ UNCHANGED <<buffer_vars, threadEnd, ret, joined>>

\* The consumer is created first, then the producers in order.
Create ==
  /\ pc[MAIN] = "create"
  /\ \E t \in Started :
       /\ pc[t] = "new"
       /\ t = CONSUMER \/ \A u \in Started : u < t \/ u = CONSUMER => pc[u] # "new"
       /\ pc' = [pc EXCEPT ![t] = "loop"]
  /\ UNCHANGED <<threadNum, n, sem_vars, buffer_vars, threadEnd, ret, joined>>

Created ==
  /\ \A t \in Started : pc[t] # "new"
  /\ Goes(MAIN, "create", "join")
  /\ UNCHANGED <<sem_vars, buffer_vars, threadEnd, ret, joined>>

all_fewer == threadNum   \* mutant: one thread too few is waited for

\* The loop waits for the producers and the consumer.
all == threadNum + 1

Join ==
  /\ joined < all
  /\ Goes(MAIN, "join", "join")
  /\ Semaphores!Wait(MAIN, "waitForAll")
  /\ joined' = joined + 1
  /\ UNCHANGED <<buffer_vars, threadEnd, ret>>

\* sem_close(waitForAll), then ~Buffer prints what is left.
Joined ==
  /\ joined = all
  /\ Goes(MAIN, "join", "cnt")
  /\ Semaphores!Close("waitForAll")
  /\ UNCHANGED <<buffer_vars, threadEnd, ret, joined>>

PrintRest ==
  /\ Goes(MAIN, "print", "cnt")
  /\ head' = (head + 1) % cap
  /\ UNCHANGED <<sem_vars, buffer, tail, threadEnd, ret, joined>>

\* ~Buffer closes the semaphores one by one; their order does not matter.
Delete ==
  \/ /\ open # {}
     /\ Goes(MAIN, "delete", "delete")
     /\ \E s \in open : Semaphores!Close(s)
     /\ UNCHANGED <<buffer_vars, threadEnd, ret, joined>>
  \/ /\ open = {}
     /\ Goes(MAIN, "delete", "done")
     /\ UNCHANGED <<sem_vars, buffer_vars, threadEnd, ret, joined>>

Main == Enter \/ Create \/ Created \/ Join \/ Joined \/ GetCnt(MAIN) \/ PrintRest \/ Delete

Done == pc[MAIN] = "done" /\ UNCHANGED vars

Next ==
  \/ Main \/ KeyTyped \/ EscapeTyped \/ Done
  \/ \E t \in Started : Producer(t) \/ Consumer(t)

Spec == Init /\ [][Next]_vars

\* A thread that is ready runs again and again (NoStarvation of Kernel), and
\* the user does not type other keys for ever.
Fairness ==
  /\ WF_vars(Main)
  /\ \A t \in 0 .. MaxThreads : WF_vars(Producer(t) \/ Consumer(t))
  /\ SF_vars(EscapeTyped)

FairSpec == Spec /\ Fairness

-----------------------------------------------------------------------------
(* Properties.                                                             *)

\* The items in the buffer, oldest first.
items == [i \in 1 .. (tail - head) % cap |-> buffer[(head + i - 1) % cap]]

Queue == INSTANCE BoundedQueue WITH capacity <- n

\* With any preemption, puts, gets and counts of all threads make the buffer a
\* queue: no item is overwritten, taken twice or passed over, and there are
\* never more than n, so the slot between tail and head stays free.
BufferIsQueue == Queue!Spec

\* The semaphore a thread is about to use.
used(t) ==
  CASE pc[t] \in {"put", "get_space"}                              -> {"spaceAvailable"}
    [] pc[t] \in {"put_lock", "put_unlock", "cnt_lock", "cnt_unlock"} -> {"mutexTail"}
    [] pc[t] \in {"put_item", "get"}                               -> {"itemAvailable"}
    [] pc[t] \in {"get_lock", "get_unlock", "cnt", "cnt_done"}     -> {"mutexHead"}
    [] pc[t] = "end"                                               -> {"waitForAll"}
    [] OTHER                                                       -> {}

\* Nobody uses a semaphore or the buffer after main has closed or deleted it:
\* every thread has signalled waitForAll as its last step by then.
NoUseAfterDelete ==
  /\ \A t \in Thread : used(t) \subseteq open
  /\ pc[MAIN] \in {"cnt", "print", "delete", "done"} /\ ~refused =>
       \A t \in Started : pc[t] = "over"

\* The test ends after escape: no producer is left waiting for space when the
\* consumer has gone, because there are no more producers than places, and no
\* order of the two locks holds anybody up.
TestEnds == pc[MAIN] = "entered" ~> pc[MAIN] = "done"
=============================================================================
