------------------------------ MODULE Scheduler ------------------------------
(***************************************************************************)
(* scheduler.c: the ready queue, the switch to the next thread, and the    *)
(* list of timeouts, which keeps for each entry the ticks after the entry  *)
(* before it (delta).                                                      *)
(***************************************************************************)
EXTENDS KernelState

-----------------------------------------------------------------------------
(* The ready queue.                                                        *)

\* Mutant: the thread is linked in front of the others.
scheduler_push_in_front(q, t) == <<t>> \o q

\* __scheduler_push: last in the ring.  Its time slice is renewed by
\* renewed_slice, which every caller applies with it.
scheduler_push(q, t) == Append(q, t)

\* Mutant: the time slice is not renewed.
renewed_slice_never(left, T) == left

\* The time slices left, once the threads of T have been pushed.
renewed_slice(left, T) ==
  [t \in Tcb |-> IF t \in T THEN DEFAULT_TIME_SLICE ELSE left[t]]

\* The ready queue once __scheduler_next has unlinked its head.
scheduler_rest(q) == IF q = <<>> THEN q ELSE Tail(q)

\* How __scheduler_next and the yield to its thread end: yield reads the
\* saved sstatus, sepc and sp of the new thread.
switch_end(q) == IF q # <<>> /\ ~Owned(Head(q)) THEN "fault" ELSE "no"

\* __scheduler_next from the ready queue q, then yield: the head of the
\* queue runs, or kernel_main when there is none.
scheduler_next(q) ==
  /\ thread_current' = IF q = <<>> THEN KernelMain ELSE Head(q)
  /\ ready_threads' = scheduler_rest(q)

\* Mutant: a new thread is not counted.
user_thread_increment_missing == user_thread_count

\* __scheduler_user_thread_increment and __scheduler_user_thread_decrement.
user_thread_increment == user_thread_count + 1

\* Mutant: an exit is not counted.
user_thread_decrement_missing == user_thread_count

user_thread_decrement == user_thread_count - 1

-----------------------------------------------------------------------------
(* The list of timeouts.                                                   *)

\* Entry e with d ticks after the entry before it.
with_delta(e, d) ==
  [thread |-> e.thread, semaphore |-> e.semaphore, delta |-> d % TIME_MOD]

\* Ticks until entry i of the list of timeouts s is due.
due(s, i) == MapThenSumSet(LAMBDA j : s[j].delta, 1 .. i) % TIME_MOD

\* The place where __scheduler_timeout links a new entry: in front of a
\* head that is due later; otherwise the walk goes past the head, and on
\* while the entry it looks at is due earlier.
timeout_place(time, p) ==
  LET s == sleeping_threads
  IN IF s = <<>> \/ time < s[1].delta
     THEN p = 1
     ELSE /\ p > 1
          /\ p <= Len(s) => due(s, p) >= time
          /\ \A q \in 2 .. p - 1 : due(s, q) < time

\* Mutant: the entry after the new one keeps its delta.
timeout_linked_late(t, time, s, p) ==
  LET old == sleeping_threads
      delta == IF p = 1 THEN time ELSE (time - due(old, p - 1)) % TIME_MOD
  IN InsertAt(old, p, [thread |-> t, semaphore |-> s, delta |-> delta])

\* The list of timeouts with an entry for t linked at place p: its delta is
\* relative to the entry before it, and taken from the entry after it.
timeout_linked(t, time, s, p) ==
  LET old == sleeping_threads
      delta == IF p = 1 THEN time ELSE (time - due(old, p - 1)) % TIME_MOD
  IN [i \in 1 .. Len(old) + 1 |->
        CASE i < p     -> old[i]
          [] i = p     -> [thread |-> t, semaphore |-> s, delta |-> delta]
          [] i = p + 1 -> with_delta(old[p], old[p].delta - delta)
          [] OTHER     -> old[i - 1]]

\* __scheduler_timeout reads the head of the list.
timeout_end == IF sleeping_freed THEN "fault" ELSE "no"

scheduler_timeout(t, time, s) ==
  /\ \E p \in 1 .. Len(sleeping_threads) + 1 :
       /\ timeout_place(time, p)
       /\ sleeping_threads' = timeout_linked(t, time, s, p)
  /\ UNCHANGED sleeping_freed

\* __scheduler_remove_timeout panics when the thread has no entry.
remove_timeout_end(t) ==
  CASE sleeping_freed -> "fault"
    [] \A i \in DOMAIN sleeping_threads : sleeping_threads[i].thread # t
                      -> "panic"
    [] OTHER          -> "no"

\* The list without its entry i, whose ticks go to the entry after it.
timeout_unlinked(i) ==
  LET old == sleeping_threads
  IN [j \in 1 .. Len(old) - 1 |->
        CASE j < i  -> old[j]
          [] j = i  -> with_delta(old[j + 1], old[j + 1].delta + old[i].delta)
          [] OTHER  -> old[j + 1]]

\* The first entry of the thread is unlinked and freed.  The head pointer is
\* written only when that was the only entry.
scheduler_remove_timeout(t) ==
  \E i \in DOMAIN sleeping_threads :
    /\ sleeping_threads[i].thread = t
    /\ \A j \in 1 .. i - 1 : sleeping_threads[j].thread # t
    /\ sleeping_threads' = timeout_unlinked(i)
    /\ sleeping_freed' = (i = 1 /\ Len(sleeping_threads) > 1)

-----------------------------------------------------------------------------
(* __scheduler_tick.                                                       *)

\* The list of timeouts after the tick has decremented its first delta.
aged ==
  [i \in DOMAIN sleeping_threads |->
     IF i = 1 THEN with_delta(sleeping_threads[1], sleeping_threads[1].delta - 1)
              ELSE sleeping_threads[i]]

\* The tick wakes the first k entries: those in front of the first one with
\* ticks left.
expired(k) ==
  /\ \A i \in 1 .. k : aged[i].delta = 0
  /\ k < Len(aged) => aged[k + 1].delta # 0

\* The semaphores __sem_remove_thread is called for, up to entry i.
timed_out_sems(i) == {sleeping_threads[j].semaphore : j \in 1 .. i} \ {NULL}

\* The threads woken by the first i entries.
woken(i) == {sleeping_threads[j].thread : j \in 1 .. i}

\* How waking entry i ends, after the entries before it have been woken.
\* __sem_remove_thread panics on an empty ring; on a ring of two or more it
\* unlinks the head node and leaves waiting_threads pointing to it; a ring
\* of one it empties, whichever thread is in it.
wake_end(i) ==
  LET t == sleeping_threads[i].thread
      s == sleeping_threads[i].semaphore
      linked == ToSet(ready_threads) \cup woken(i - 1)
                  \cup Linked(Sem \ timed_out_sems(i))
  IN CASE s # NULL /\ s \notin open -> "fault"
       [] s # NULL /\ (waiting_threads[s] = <<>> \/ s \in timed_out_sems(i - 1))
                                    -> "panic"
       [] s # NULL /\ Len(waiting_threads[s]) > 1
                                    -> "corrupt"
       [] OTHER                     -> LinkEnd(t, linked)

\* How the tick that wakes k entries ends: as the first wake that goes wrong.
tick_end(k) ==
  LET bad == {i \in 1 .. k : wake_end(i) # "no"}
  IN CASE sleeping_freed -> "fault"
       [] bad = {}       -> "no"
       [] OTHER          -> wake_end(Min(bad))

\* The ready queue after the tick has pushed the threads of k entries.
ready_after_tick(k) ==
  ready_threads \o [i \in 1 .. k |-> sleeping_threads[i].thread]

\* Mutant: a thread that timed out is not counted back into the value.
scheduler_tick_uncounted(k) ==
  /\ sleeping_threads' = SubSeq(aged, k + 1, Len(aged))
  /\ UNCHANGED val
  /\ waiting_threads' = [s \in Sem |-> IF s \in timed_out_sems(k) THEN <<>>
                                                         ELSE waiting_threads[s]]

\* The writes of a tick that wakes k entries, apart from the ready queue.
scheduler_tick(k) ==
  /\ sleeping_threads' = SubSeq(aged, k + 1, Len(aged))
  /\ val' = [s \in Sem |-> IF s \in timed_out_sems(k) THEN val[s] + 1
                                                      ELSE val[s]]
  /\ waiting_threads' = [s \in Sem |-> IF s \in timed_out_sems(k) THEN <<>>
                                                         ELSE waiting_threads[s]]
=============================================================================
