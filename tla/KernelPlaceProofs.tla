-------------------------- MODULE KernelPlaceProofs --------------------------
(***************************************************************************)
(* Theorems about the places of threads in Kernel: no thread is lost, none *)
(* is in two places, the kernel's own checks never fire, queues are first  *)
(* come first served, waits end with their result, sleeps last as long as  *)
(* asked, and Kernel implements Counting, for every number of threads and  *)
(* semaphores, as long as no thread calls sem_timed_wait.  With it a       *)
(* thread can be lost: see the run timed_wait_panic.                       *)
(***************************************************************************)
EXTENDS KernelConsoleProofs, KernelSleep

NoTimedWaits == "SEM_TIMED_WAIT" \notin Calls

-----------------------------------------------------------------------------
(* The inductive invariant.                                                *)

\* The threads of a list of timeouts.
names(s) == [i \in DOMAIN s |-> s[i].thread]

\* The threads in the list of timeouts, in order.
sleepers == names(sleeping_threads)

\* The threads that run or are ready (Q), wait on semaphores (W) or for input
\* (I) and sleep (S) are different ones, and are those allocated (L), apart
\* from kernel_main, which only runs or is ready.
Apart(Q, W, I, S, L) ==
  /\ Q \cap (W \cup I \cup S) = {}
  /\ W \cap (I \cup S) = {}
  /\ I \cap S = {}
  /\ L \subseteq Q \cup W \cup I \cup S
  /\ Q \cup W \cup I \cup S \subseteq L \cup {KernelMain}
  /\ KernelMain \notin W \cup I \cup S

ThreadsApart ==
  /\ thread_current \notin ToSet(ready_threads)
  /\ Apart({thread_current} \cup ToSet(ready_threads), Waiters(Sem),
           ToSet(threads_waiting_for_input), ToSet(sleepers), live)

\* No thread is twice in a ring or in two rings, and the ring of a semaphore
\* that does not exist is empty.
RingsApart ==
  /\ \A s \in Sem : NoDuplicates(waiting_threads[s])
  /\ \A r, s \in Sem :
       r # s => ToSet(waiting_threads[r]) \cap ToSet(waiting_threads[s]) = {}
  /\ \A s \in Sem \ open : waiting_threads[s] = <<>>

\* All timeouts are those of time_sleep, and the head pointer is right.
OnlySleeps ==
  /\ sleeping_freed = FALSE
  /\ \A i \in DOMAIN sleeping_threads : sleeping_threads[i].semaphore = NULL

PlaceInv ==
  /\ ThreadsApart
  /\ NoDuplicates(ready_threads)
  /\ NoDuplicates(sleepers)
  /\ RingsApart
  /\ OnlySleeps

-----------------------------------------------------------------------------
(* One thread more in a list, or one ring written.                         *)

\* r is q with t linked at place p.
Inserted(q, r, t, p) ==
  /\ p \in 1 .. Len(q) + 1
  /\ Len(r) = Len(q) + 1
  /\ r[p] = t
  /\ \A i \in 1 .. Len(q) : /\ i < p => r[i] = q[i]
                            /\ i >= p => r[i + 1] = q[i]

LEMMA InsertedInQueue ==
  ASSUME NEW q \in Seq(Tcb), NEW r \in Seq(Tcb), NEW t, NEW p, Inserted(q, r, t, p)
  PROVE  /\ ToSet(r) = ToSet(q) \cup {t}
         /\ NoDuplicates(q) /\ t \notin ToSet(q) => NoDuplicates(r)
  <1> DEFINE at(i) == IF i < p THEN i ELSE i + 1
  <1>1. /\ Len(q) \in Nat /\ DOMAIN q = 1 .. Len(q) /\ DOMAIN r = 1 .. Len(q) + 1
        /\ p \in 1 .. Len(q) + 1 /\ r[p] = t
        /\ \A i \in 1 .. Len(q) : /\ i < p => r[i] = q[i]
                                  /\ i >= p => r[i + 1] = q[i]
    BY LenProperties DEF Inserted
  <1>2. \A i \in 1 .. Len(q) : at(i) \in 1 .. Len(q) + 1 /\ at(i) # p /\ r[at(i)] = q[i]
    BY <1>1
  <1>3. \A j \in 1 .. Len(q) + 1 : j # p => \E i \in 1 .. Len(q) : at(i) = j
    <2> SUFFICES ASSUME NEW j \in 1 .. Len(q) + 1, j # p
                 PROVE  \E i \in 1 .. Len(q) : at(i) = j
      OBVIOUS
    <2>1. CASE j < p
      <3>1. j \in 1 .. Len(q) /\ at(j) = j
        BY <1>1, <2>1
      <3> QED
        BY <3>1
    <2>2. CASE j > p
      <3>1. j - 1 \in 1 .. Len(q) /\ at(j - 1) = j
        BY <1>1, <2>2
      <3> QED
        BY <3>1
    <2> QED
      BY <1>1, <2>1, <2>2
  <1> HIDE DEF at
  <1>4. ToSet(r) = ToSet(q) \cup {t}
    <2>1. ASSUME NEW j \in 1 .. Len(q) + 1
          PROVE  r[j] \in ToSet(q) \cup {t}
      <3>1. CASE j # p
        <4>1. PICK i \in 1 .. Len(q) : at(i) = j
          BY <1>3, <3>1
        <4>2. r[j] = q[i]
          BY <1>2, <4>1
        <4> QED
          BY <1>1, <4>2 DEF ToSet
      <3> QED
        BY <1>1, <3>1
    <2>2. \A i \in 1 .. Len(q) : q[i] \in ToSet(r)
      BY <1>1, <1>2 DEF ToSet
    <2>3. t \in ToSet(r)
      BY <1>1 DEF ToSet
    <2> QED
      BY <1>1, <2>1, <2>2, <2>3 DEF ToSet
  <1>5. ASSUME NoDuplicates(q), t \notin ToSet(q)
        PROVE  NoDuplicates(r)
    <2> SUFFICES ASSUME NEW j \in 1 .. Len(q) + 1, NEW l \in 1 .. Len(q) + 1, r[j] = r[l]
                 PROVE  j = l
      BY <1>1 DEF NoDuplicates
    <2>1. \A i \in 1 .. Len(q) : q[i] # t
      BY <1>1, <1>5 DEF ToSet
    <2>2. \A i, k \in 1 .. Len(q) : q[i] = q[k] => i = k
      BY <1>1, <1>5 DEF NoDuplicates
    <2>3. CASE j = p \/ l = p
      <3>1. ASSUME NEW k \in 1 .. Len(q) + 1, k # p
            PROVE  r[k] # t
        <4>1. PICK i \in 1 .. Len(q) : at(i) = k
          BY <1>3, <3>1
        <4> QED
          BY <1>2, <2>1, <4>1
      <3> QED
        BY <1>1, <2>3, <3>1
    <2>4. CASE j # p /\ l # p
      <3>1. PICK i \in 1 .. Len(q) : at(i) = j /\ r[j] = q[i]
        BY <1>2, <1>3, <2>4
      <3>2. PICK k \in 1 .. Len(q) : at(k) = l /\ r[l] = q[k]
        BY <1>2, <1>3, <2>4
      <3> QED
        BY <2>2, <3>1, <3>2
    <2> QED
      BY <2>3, <2>4
  <1> QED
    BY <1>4, <1>5

LEMMA NamesOf ==
  ASSUME NEW s \in Seq(Sleeper)
  PROVE  /\ names(s) \in Seq(Tcb)
         /\ Len(names(s)) = Len(s)
         /\ DOMAIN s = 1 .. Len(s)
         /\ \A i \in 1 .. Len(s) : names(s)[i] = s[i].thread /\ s[i].thread \in Tcb
  <1>1. Len(s) \in Nat /\ DOMAIN s = 1 .. Len(s)
    BY LenProperties
  <1>2. \A i \in 1 .. Len(s) : s[i].thread \in Tcb
    <2>1. \A i \in 1 .. Len(s) : s[i] \in Sleeper
      BY ElementOfSeq
    <2>2. \A e \in Sleeper : e.thread \in Tcb
      BY DEF Sleeper
    <2> QED
      BY <2>1, <2>2
  <1>3. names(s) \in [1 .. Len(s) -> Tcb]
    BY <1>1, <1>2 DEF names
  <1> QED
    BY <1>1, <1>2, <1>3, FunctionIsSeq DEF names

\* __scheduler_timeout of a time_sleep puts one thread to sleep.
LEMMA ThreadSleeps ==
  ASSUME SleepersTyped, OnlySleeps, NEW t \in Tcb, NEW time \in Time,
         scheduler_timeout(t, time, NULL)
  PROVE  /\ OnlySleeps'
         /\ ToSet(sleepers') = ToSet(sleepers) \cup {t}
         /\ NoDuplicates(sleepers) /\ t \notin ToSet(sleepers) => NoDuplicates(sleepers')
  <1> DEFINE old == sleeping_threads
             n == Len(sleeping_threads)
  <1>1. PICK p \in 1 .. n + 1 : sleeping_threads' = timeout_linked(t, time, NULL, p)
    BY DEF scheduler_timeout
  <1>2. n \in Nat /\ SleepersTyped' /\ \A i \in 1 .. n : old[i].semaphore = NULL
    BY SleeperFields, TimeoutTyped DEF OnlySleeps
  <1>3. Len(sleeping_threads') = n + 1
    <2>1. DOMAIN sleeping_threads' = 1 .. n + 1
      BY <1>1 DEF timeout_linked
    <2>2. Len(sleeping_threads') \in Nat /\ DOMAIN sleeping_threads' = 1 .. Len(sleeping_threads')
      BY <1>2, LenProperties DEF SleepersTyped
    <2> QED
      BY <1>2, <2>1, <2>2
  <1>4. ASSUME NEW i \in 1 .. n + 1
        PROVE  /\ sleeping_threads'[i].semaphore = NULL
               /\ i < p => sleeping_threads'[i].thread = old[i].thread
               /\ i = p => sleeping_threads'[i].thread = t
               /\ i > p => sleeping_threads'[i].thread = old[i - 1].thread
    <2>1. CASE i < p
      <3>1. i \in 1 .. n /\ sleeping_threads'[i] = old[i]
        BY <1>1, <1>2, <2>1 DEF timeout_linked
      <3> QED
        BY <1>2, <2>1, <3>1
    <2>2. CASE i = p
      BY <1>1, <1>2, <2>2 DEF timeout_linked
    <2>3. CASE i = p + 1
      <3>1. p \in 1 .. n /\ i - 1 = p /\ ~(i < p) /\ i # p
        BY <1>2, <2>3
      <3>2. /\ sleeping_threads'[i].semaphore = old[p].semaphore
            /\ sleeping_threads'[i].thread = old[p].thread
        BY <1>1, <2>3, <3>1 DEF timeout_linked, with_delta
      <3> QED
        BY <1>2, <3>1, <3>2
    <2>4. CASE i > p + 1
      <3>1. i - 1 \in 1 .. n /\ ~(i < p) /\ i # p /\ i # p + 1
        BY <1>2, <2>4
      <3>2. sleeping_threads'[i] = old[i - 1]
        BY <1>1, <3>1 DEF timeout_linked
      <3> QED
        BY <1>2, <3>1, <3>2
    <2> QED
      BY <1>2, <2>1, <2>2, <2>3, <2>4
  <1>5. OnlySleeps'
    <2>1. DOMAIN sleeping_threads' = 1 .. n + 1
      BY <1>2, <1>3, LenProperties DEF SleepersTyped
    <2> QED
      BY <1>4, <2>1 DEF OnlySleeps, scheduler_timeout
  <1>6. /\ sleepers \in Seq(Tcb) /\ Len(sleepers) = n
        /\ \A i \in 1 .. n : sleepers[i] = old[i].thread
    BY NamesOf DEF SleepersTyped, sleepers
  <1>7. /\ sleepers' \in Seq(Tcb) /\ Len(sleepers') = n + 1
        /\ \A i \in 1 .. n + 1 : sleepers'[i] = sleeping_threads'[i].thread
    BY <1>2, <1>3, NamesOf DEF SleepersTyped, sleepers
  <1> HIDE DEF n, old
  <1>8. sleepers'[p] = t
    BY <1>4, <1>7
  <1>9. ASSUME NEW i \in 1 .. n
        PROVE  /\ i < p => sleepers'[i] = sleepers[i]
               /\ i >= p => sleepers'[i + 1] = sleepers[i]
    <2>1. CASE i < p
      BY <1>2, <1>4, <1>6, <1>7, <2>1
    <2>2. CASE ~(i < p)
      <3>1. i + 1 \in 1 .. n + 1 /\ i + 1 > p /\ i + 1 - 1 = i
        BY <1>2, <2>2
      <3> QED
        BY <1>4, <1>6, <1>7, <2>2, <3>1
    <2> QED
      BY <2>1, <2>2
  <1>10. Inserted(sleepers, sleepers', t, p)
    BY <1>6, <1>7, <1>8, <1>9 DEF Inserted
  <1>11. /\ ToSet(sleepers') = ToSet(sleepers) \cup {t}
         /\ NoDuplicates(sleepers) /\ t \notin ToSet(sleepers) => NoDuplicates(sleepers')
    BY <1>6, <1>7, <1>10, InsertedInQueue
  <1> QED
    BY <1>5, <1>11

\* A tick wakes the first k sleepers and touches no semaphore.
LEMMA SleepersWake ==
  ASSUME SleepersTyped, QueuesTyped, OnlySleeps, NEW k \in 0 .. Len(sleeping_threads),
         scheduler_tick(k), sleeping_freed' = sleeping_freed
  PROVE  /\ OnlySleeps'
         /\ waiting_threads' = waiting_threads
         /\ val' = val
         /\ timed_out_sems(k) = {}
         /\ sleepers' = Without(sleepers, k)
         /\ [i \in 1 .. k |-> sleeping_threads[i].thread] = SubSeq(sleepers, 1, k)
  <1> DEFINE n == Len(sleeping_threads)
  <1>1. /\ n \in Nat /\ aged \in Seq(Sleeper) /\ Len(aged) = n
        /\ \A i \in 1 .. n : /\ aged[i].thread = sleeping_threads[i].thread
                             /\ aged[i].semaphore = NULL
                             /\ sleeping_threads[i].semaphore = NULL
    BY SleeperFields, AgedTyped DEF OnlySleeps
  <1>2. timed_out_sems(k) = {}
    BY <1>1 DEF timed_out_sems
  <1>3. waiting_threads' = waiting_threads /\ val' = val
    BY <1>2 DEF scheduler_tick, QueuesTyped
  <1>4. sleeping_threads' = Without(aged, k)
    BY DEF scheduler_tick, Without
  <1>5. /\ sleeping_threads' \in Seq(Sleeper) /\ Len(sleeping_threads') = n - k
        /\ \A i \in 1 .. n - k : sleeping_threads'[i] = aged[k + i]
    BY <1>1, <1>4, SuffixOf
  <1>7. \A i \in 1 .. n - k : k + i \in 1 .. n
    BY <1>1
  <1>8. OnlySleeps'
    <2>1. DOMAIN sleeping_threads' = 1 .. n - k
      BY <1>5, LenProperties
    <2> QED
      BY <1>1, <1>5, <1>7, <2>1 DEF OnlySleeps
  <1>9. /\ sleepers \in Seq(Tcb) /\ Len(sleepers) = n
        /\ \A i \in 1 .. n : sleepers[i] = sleeping_threads[i].thread
    BY NamesOf DEF SleepersTyped, sleepers
  <1>10. /\ sleepers' \in Seq(Tcb) /\ Len(sleepers') = n - k
         /\ \A i \in 1 .. n - k : sleepers'[i] = sleeping_threads'[i].thread
    BY <1>5, NamesOf DEF sleepers
  <1>11. /\ Without(sleepers, k) \in Seq(Tcb) /\ Len(Without(sleepers, k)) = n - k
         /\ \A i \in 1 .. n - k : Without(sleepers, k)[i] = sleepers[k + i]
    BY <1>9, SuffixOf
  <1>12. \A i \in 1 .. n - k : sleepers'[i] = Without(sleepers, k)[i]
    BY <1>1, <1>5, <1>7, <1>9, <1>10, <1>11
  <1>13. sleepers' = Without(sleepers, k)
    BY <1>10, <1>11, <1>12, SeqEqual
  <1> DEFINE w == [i \in 1 .. k |-> sleeping_threads[i].thread]
             v == SubSeq(sleepers, 1, k)
  <1>14. v \in Seq(Tcb) /\ Len(v) = k /\ \A i \in 1 .. k : v[i] = sleepers[i]
    BY <1>9, PrefixOf
  <1>15. w \in Seq(Tcb) /\ Len(w) = k
    <2>1. w \in [1 .. k -> Tcb] /\ k \in Nat
      BY SleeperFields
    <2> HIDE DEF w
    <2> QED
      BY <2>1, FunctionIsSeq
  <1>16. \A i \in 1 .. k : w[i] = v[i]
    <2>1. \A i \in 1 .. k : i \in 1 .. n /\ w[i] = sleeping_threads[i].thread
      BY <1>1
    <2> QED
      BY <1>9, <1>14, <2>1
  <1>17. w = v
    <2> HIDE DEF w, v
    <2> QED
      BY <1>14, <1>15, <1>16, SeqEqual
  <1> QED
    BY <1>2, <1>3, <1>8, <1>13, <1>17

\* The ring of one semaphore is written.
LEMMA OneRing ==
  ASSUME QueuesTyped, RingsApart, NEW s \in Sem, NEW w \in Seq(Tcb), NoDuplicates(w),
         waiting_threads' = [waiting_threads EXCEPT ![s] = w],
         \A t \in ToSet(w) : t \in ToSet(waiting_threads[s]) \/ t \notin Waiters(Sem),
         open' \ {s} = open \ {s},
         s \notin open' => w = <<>>
  PROVE  /\ RingsApart'
         /\ Waiters(Sem)' = (Waiters(Sem) \ ToSet(waiting_threads[s])) \cup ToSet(w)
         /\ ToSet(waiting_threads[s]) \subseteq Waiters(Sem)
  <1>1. /\ waiting_threads'[s] = w
        /\ \A r \in Sem \ {s} : waiting_threads'[r] = waiting_threads[r]
    BY DEF QueuesTyped
  <1>2. \A t : t \in Waiters(Sem) <=> \E r \in Sem : t \in ToSet(waiting_threads[r])
    BY DEF Waiters
  <1>3. \A t : t \in Waiters(Sem)' <=> \E r \in Sem : t \in ToSet(waiting_threads'[r])
    BY DEF Waiters
  <1>4. \A r \in Sem \ {s} : ToSet(waiting_threads[r]) \cap ToSet(w) = {}
    BY <1>2 DEF RingsApart
  <1>5. \A r, q \in Sem :
          r # q => ToSet(waiting_threads'[r]) \cap ToSet(waiting_threads'[q]) = {}
    <2> SUFFICES ASSUME NEW r \in Sem, NEW q \in Sem, r # q
                 PROVE  ToSet(waiting_threads'[r]) \cap ToSet(waiting_threads'[q]) = {}
      OBVIOUS
    <2>1. CASE r # s /\ q # s
      BY <1>1, <2>1 DEF RingsApart
    <2>2. CASE r = s \/ q = s
      BY <1>1, <1>4, <2>2
    <2> QED
      BY <2>1, <2>2
  <1>6. \A r \in Sem : NoDuplicates(waiting_threads'[r])
    BY <1>1 DEF RingsApart
  <1>7. \A r \in Sem \ open' : waiting_threads'[r] = <<>>
    BY <1>1 DEF RingsApart
  <1>8. Waiters(Sem)' = (Waiters(Sem) \ ToSet(waiting_threads[s])) \cup ToSet(w)
    <2>1. ASSUME NEW t
          PROVE  t \in Waiters(Sem)' <=>
                   t \in (Waiters(Sem) \ ToSet(waiting_threads[s])) \cup ToSet(w)
      BY <1>1, <1>2, <1>3 DEF RingsApart
    <2> QED
      BY <2>1
  <1> QED
    BY <1>2, <1>5, <1>6, <1>7, <1>8 DEF RingsApart

\* The first thread of q runs, or kernel_main.
LEMMA SwitchPlaces ==
  ASSUME NEW q \in Seq(Tcb), NoDuplicates(q), scheduler_next(q),
         NEW W, NEW I, NEW S, NEW L, Apart(ToSet(q), W, I, S, L)
  PROVE  /\ thread_current' \notin ToSet(ready_threads')
         /\ Apart({thread_current'} \cup ToSet(ready_threads'), W, I, S, L)
         /\ NoDuplicates(ready_threads')
  <1>1. CASE q = <<>>
    <2>1. thread_current' = KernelMain /\ ready_threads' = <<>> /\ ToSet(q) = {}
      BY <1>1, EmptyQueue DEF scheduler_next, scheduler_rest
    <2> QED
      BY <2>1, EmptyQueue DEF Apart
  <1>2. CASE q # <<>>
    <2>1. thread_current' = Head(q) /\ ready_threads' = Tail(q)
      BY <1>2 DEF scheduler_next, scheduler_rest
    <2>2. /\ ToSet(q) = ToSet(ready_threads') \cup {thread_current'}
          /\ NoDuplicates(ready_threads') /\ thread_current' \notin ToSet(ready_threads')
      BY <1>2, <2>1, LeaveQueue
    <2>3. {thread_current'} \cup ToSet(ready_threads') = ToSet(q)
      BY <2>2
    <2> QED
      BY <2>2, <2>3
  <1> QED
    BY <1>1, <1>2

\* Threads go from the ring of one semaphore to the ready queue.
LEMMA RingLeavesTo ==
  ASSUME NEW c, NEW R, NEW W, NEW I, NEW S, NEW L, NEW V,
         c \notin R, Apart({c} \cup R, W, I, S, L), V \subseteq W
  PROVE  c \notin R \cup V /\ Apart({c} \cup (R \cup V), W \ V, I, S, L)
  BY DEF Apart

-----------------------------------------------------------------------------
(* Every step keeps the places apart.                                      *)

place_vars == <<ready_threads, thread_current, live, open, waiting_threads,
                threads_waiting_for_input, timeout_vars>>

LEMMA PlaceFrame ==
  ASSUME PlaceInv, UNCHANGED place_vars
  PROVE  PlaceInv'
  BY DEF PlaceInv, ThreadsApart, RingsApart, OnlySleeps, Waiters, sleepers, names,
     place_vars, timeout_vars, NoDuplicates

LEMMA PlaceNext ==
  ASSUME NoTimedWaits
  PROVE  TypeInv /\ SliceInv /\ ReaderInv /\ PlaceInv /\ [Next]_vars => PlaceInv'
  <1> SUFFICES ASSUME TypeInv, SliceInv, ReaderInv, PlaceInv, [Next]_vars
               PROVE  PlaceInv'
    OBVIOUS
  <1> DEFINE c == thread_current
             R == ToSet(ready_threads)
             W == Waiters(Sem)
             I == ToSet(threads_waiting_for_input)
             S == ToSet(sleepers)
  <1> USE DEF sched_vars, sem_vars, console_vars, input_vars
  <1>f. ASSUME UNCHANGED place_vars
        PROVE  PlaceInv'
    BY <1>f, PlaceFrame
  <1>1. ASSUME NEW end, Halt(end)
        PROVE  PlaceInv'
    BY <1>f, <1>1 DEF Halt, place_vars
  <1>t. /\ ready_threads \in Seq(Tcb) /\ threads_waiting_for_input \in Seq(Tcb)
        /\ sleepers \in Seq(Tcb) /\ waiting_threads \in [Sem -> Seq(Tcb)]
        /\ c \in Tcb /\ open \subseteq Sem
        /\ SleepersTyped /\ QueuesTyped /\ InputInv
    BY NamesOf DEF TypeInv, QueuesTyped, InputInv, CountInv, Tcb, SleepersTyped, sleepers
  <1>p. /\ c \notin R /\ Apart({c} \cup R, W, I, S, live)
        /\ NoDuplicates(ready_threads) /\ NoDuplicates(threads_waiting_for_input)
        /\ NoDuplicates(sleepers) /\ RingsApart /\ OnlySleeps
    BY DEF PlaceInv, ThreadsApart, ReaderInv
  <1>l. live \subseteq Thread /\ KernelMain \notin Thread /\ KernelMain \notin live
    BY KernelAssumption DEF TypeInv, CountInv
  <1>k. UNCHANGED <<open, waiting_threads>> => RingsApart' /\ Waiters(Sem)' = W
    BY <1>p DEF RingsApart, Waiters, NoDuplicates
  <1>s. UNCHANGED timeout_vars => OnlySleeps' /\ sleepers' = sleepers
    BY <1>p DEF timeout_vars, OnlySleeps, sleepers, names
  <1>r. LET q == scheduler_push(ready_threads, c)
        IN q \in Seq(Tcb) /\ ToSet(q) = {c} \cup R /\ NoDuplicates(q)
    BY <1>t, <1>p, JoinQueue DEF scheduler_push
  <1> HIDE DEF c, R, W, I, S
  <1>2. CASE ThreadCreate
    <2>1. PICK t \in Thread \ live :
            \/ Halt("corrupt")
            \/ /\ live' = live \cup {t}
               /\ ready_threads' = scheduler_push(ready_threads, t)
               /\ UNCHANGED <<thread_current, timeout_vars, sem_vars, console_vars>>
      BY <1>2 DEF ThreadCreate
    <2>2. CASE /\ live' = live \cup {t}
               /\ ready_threads' = scheduler_push(ready_threads, t)
               /\ UNCHANGED <<thread_current, timeout_vars, sem_vars, console_vars>>
      <3>1. t \notin {c} \cup R \cup W \cup I \cup S /\ t # KernelMain
        BY <1>p, <1>l, <2>1 DEF Apart
      <3>2. ToSet(ready_threads') = R \cup {t} /\ NoDuplicates(ready_threads')
        BY <1>t, <1>p, <2>2, <3>1, JoinQueue DEF scheduler_push, R, Tcb
      <3>3. c \notin R \cup {t} /\ Apart({c} \cup (R \cup {t}), W, I, S, live \cup {t})
        BY <1>p, <3>1 DEF Apart
      <3> QED
        BY <1>p, <1>k, <1>s, <2>2, <3>2, <3>3 DEF PlaceInv, ThreadsApart, c, I, S
    <2> QED
      BY <1>1, <2>1, <2>2
  <1>3. CASE ThreadExit
    <2>1. CASE /\ scheduler_next(ready_threads) /\ live' = live \ {thread_current}
               /\ UNCHANGED <<timeout_vars, sem_vars, console_vars>>
      <3>1. Apart(R, W, I, S, live \ {c})
        BY <1>p DEF Apart
      <3>2. /\ thread_current' \notin ToSet(ready_threads')
            /\ Apart({thread_current'} \cup ToSet(ready_threads'), W, I, S, live \ {c})
            /\ NoDuplicates(ready_threads')
        BY <1>t, <1>p, <2>1, <3>1, SwitchPlaces DEF R
      <3> QED
        BY <1>p, <1>k, <1>s, <2>1, <3>2 DEF PlaceInv, ThreadsApart, c, I, S
    <2> QED
      BY <1>1, <1>3, <2>1 DEF ThreadExit
  <1>4. CASE ThreadDispatch \/ PutcRefused
    <2>1. CASE /\ scheduler_next(scheduler_push(ready_threads, thread_current))
               /\ UNCHANGED <<live, timeout_vars, sem_vars, threads_waiting_for_input>>
      <3>1. /\ thread_current' \notin ToSet(ready_threads')
            /\ Apart({thread_current'} \cup ToSet(ready_threads'), W, I, S, live)
            /\ NoDuplicates(ready_threads')
        BY <1>p, <1>r, <2>1, SwitchPlaces DEF c
      <3> QED
        BY <1>p, <1>k, <1>s, <2>1, <3>1 DEF PlaceInv, ThreadsApart, I, S
    <2> QED
      BY <1>1, <1>4, <2>1 DEF ThreadDispatch, PutcRefused
  <1>5. CASE \/ ThreadCreateNoMemory \/ SemOpenNoMemory \/ Unserved \/ IllegalOperation
             \/ PutcAccepted \/ KeyPress \/ KernelCheck \/ Off \/ UNCHANGED vars
    BY <1>f, <1>1, <1>5 DEF ThreadCreateNoMemory, SemOpenNoMemory, Unserved, unserved,
       IllegalOperation, PutcAccepted, KeyPress, KernelCheck, stop, Off, vars, place_vars
  <1>6. CASE SemOpen
    <2>1. PICK s \in Sem \ open, init \in Inits :
            \/ Halt(sem_open_end)
            \/ /\ sem_open(s, init)
               /\ UNCHANGED <<live, sched_vars, timeout_vars, console_vars>>
      BY <1>6 DEF SemOpen
    <2>2. CASE /\ sem_open(s, init)
               /\ UNCHANGED <<live, sched_vars, timeout_vars, console_vars>>
      <3>1. waiting_threads[s] = <<>>
        BY <1>p, <2>1 DEF RingsApart
      <3>2. waiting_threads' = waiting_threads
        BY <1>t, <2>1, <2>2, <3>1 DEF sem_open
      <3>3. RingsApart' /\ Waiters(Sem)' = W
        <4>1. open' = open \cup {s}
          BY <2>2 DEF sem_open
        <4>2. RingsApart'
          BY <1>p, <3>2, <4>1 DEF RingsApart, NoDuplicates
        <4>3. Waiters(Sem)' = W
          BY <3>2 DEF Waiters, W
        <4> QED
          BY <4>2, <4>3
      <3> QED
        BY <1>p, <1>s, <2>2, <3>3 DEF PlaceInv, ThreadsApart, c, R, I, S
    <2> QED
      BY <1>1, <2>1, <2>2
  <1>7. CASE SemClose
    <2>1. PICK s \in open :
            \/ Halt(sem_close_end(s))
            \/ sem_close(s) /\ UNCHANGED <<live, console_vars>>
      BY <1>7 DEF SemClose
    <2>2. CASE sem_close(s) /\ UNCHANGED <<live, console_vars>>
      <3> DEFINE w == waiting_threads[s]
      <3>1. s \in Sem /\ w \in Seq(Tcb) /\ NoDuplicates(w)
        BY <1>t, <1>p DEF RingsApart
      <3>2. /\ RingsApart'
            /\ Waiters(Sem)' = W \ ToSet(w)
            /\ ToSet(w) \subseteq W
        BY <1>t, <1>p, <2>2, <3>1, OneRing, EmptyQueue DEF sem_close, W
      <3>3. c \notin R \cup ToSet(w)
              /\ Apart({c} \cup (R \cup ToSet(w)), W \ ToSet(w), I, S, live)
        BY <1>p, <3>2, RingLeavesTo
      <3>4. ToSet(ready_threads') = R \cup ToSet(w) /\ NoDuplicates(ready_threads')
        <4>1. R \cap ToSet(w) = {}
          BY <1>p, <3>2 DEF Apart
        <4> QED
          BY <1>t, <1>p, <2>2, <3>1, <4>1, JoinQueues DEF sem_close, R
      <3> QED
        BY <1>p, <1>s, <2>2, <3>2, <3>3, <3>4 DEF PlaceInv, ThreadsApart, sem_close, c, I, S
    <2> QED
      BY <1>1, <2>1, <2>2
  <1>8. CASE SemWait
    <2>1. PICK s \in open :
            \/ Halt(sem_wait_end(s))
            \/ /\ sem_wait(s, code("SEM_WAIT"))
               /\ UNCHANGED <<live, timeout_vars, open, console_vars>>
      BY <1>8 DEF SemWait
    <2>2. CASE /\ sem_wait(s, code("SEM_WAIT")) /\ sem_wait_blocks(s)
               /\ UNCHANGED <<live, timeout_vars, open, console_vars>>
      <3> DEFINE w == waiting_threads[s]
                 v == sem_push(w, c)
      <3>1. s \in Sem /\ w \in Seq(Tcb) /\ NoDuplicates(w) /\ ToSet(w) \subseteq W
        BY <1>t, <1>p DEF RingsApart, Waiters, W
      <3>2. c \notin W /\ c # KernelMain
        BY <1>p, <1>8, KernelAssumption DEF Apart, SemWait, Ecall, c
      <3>3. v \in Seq(Tcb) /\ ToSet(v) = ToSet(w) \cup {c} /\ NoDuplicates(v)
        BY <1>t, <3>1, <3>2, JoinQueue DEF sem_push
      <3>4. waiting_threads' = [waiting_threads EXCEPT ![s] = v]
        BY <2>2 DEF sem_wait, c
      <3> HIDE DEF v
      <3>5. RingsApart' /\ Waiters(Sem)' = (W \ ToSet(w)) \cup ToSet(v)
        BY <1>t, <1>p, <2>2, <3>1, <3>2, <3>3, <3>4, OneRing DEF W
      <3>6. Waiters(Sem)' = W \cup {c}
        BY <3>1, <3>3, <3>5
      <3>7. Apart(R, W \cup {c}, I, S, live)
        BY <1>p, <3>2 DEF Apart
      <3>8. /\ thread_current' \notin ToSet(ready_threads')
            /\ Apart({thread_current'} \cup ToSet(ready_threads'), W \cup {c}, I, S, live)
            /\ NoDuplicates(ready_threads')
        BY <1>t, <1>p, <2>2, <3>7, SwitchPlaces DEF sem_wait, R
      <3> QED
        BY <1>p, <1>s, <2>2, <3>5, <3>6, <3>8 DEF PlaceInv, ThreadsApart, I, S
    <2>3. CASE /\ sem_wait(s, code("SEM_WAIT")) /\ ~sem_wait_blocks(s)
               /\ UNCHANGED <<live, timeout_vars, open, console_vars>>
      BY <1>f, <2>3 DEF sem_wait, place_vars
    <2> QED
      BY <1>1, <2>1, <2>2, <2>3
  <1>9. CASE SemSignal
    <2>1. PICK s \in open :
            \/ Halt(sem_signal_end(s))
            \/ /\ sem_signal(s)
               /\ UNCHANGED <<live, thread_current, open, console_vars>>
      BY <1>9 DEF SemSignal, SignalOn
    <2>2. CASE /\ sem_signal_unblocks(s) /\ sem_unblock_thread(s)
               /\ UNCHANGED <<live, thread_current, open, console_vars>>
      <3> DEFINE w == waiting_threads[s]
                 t == Head(w)
                 v == Tail(w)
      <3>1. s \in Sem /\ w \in Seq(Tcb) /\ NoDuplicates(w) /\ w # <<>>
              /\ ToSet(w) \subseteq W
        BY <1>t, <1>p, <2>2 DEF RingsApart, Waiters, W, sem_signal_unblocks
      <3>2. /\ t \in ToSet(w) /\ v \in Seq(Tcb) /\ ToSet(w) = ToSet(v) \cup {t}
            /\ NoDuplicates(v) /\ t \notin ToSet(v) /\ t \in Tcb
        BY <3>1, LeaveQueue, QueueIndices
      <3>3. UNCHANGED timeout_vars
        <4>1. time_left[t] # 0
          BY <3>2 DEF SliceInv
        <4> QED
          BY <2>2, <4>1 DEF sem_unblock_thread
      <3>4. /\ waiting_threads' = [waiting_threads EXCEPT ![s] = v]
            /\ ready_threads' = scheduler_push(ready_threads, t)
        BY <2>2 DEF sem_unblock_thread
      <3> HIDE DEF v, t, w
      <3>5. RingsApart' /\ Waiters(Sem)' = (W \ ToSet(w)) \cup ToSet(v)
        BY <1>t, <1>p, <2>1, <2>2, <3>1, <3>2, <3>4, OneRing DEF W, w
      <3>6. Waiters(Sem)' = W \ {t}
        BY <3>1, <3>2, <3>5
      <3>7. c \notin R \cup {t} /\ Apart({c} \cup (R \cup {t}), W \ {t}, I, S, live)
        <4>1. {t} \subseteq W
          BY <3>1, <3>2
        <4> QED
          BY <1>p, <4>1, RingLeavesTo
      <3>8. ToSet(ready_threads') = R \cup {t} /\ NoDuplicates(ready_threads')
        <4>1. t \notin R
          BY <1>p, <3>1, <3>2 DEF Apart
        <4> QED
          BY <1>t, <1>p, <3>2, <3>4, <4>1, JoinQueue DEF scheduler_push, R
      <3> QED
        BY <1>p, <1>s, <2>2, <3>3, <3>5, <3>6, <3>7, <3>8 DEF PlaceInv, ThreadsApart, c, I, S
    <2>3. CASE /\ UNCHANGED <<waiting_threads, timeout_vars, ready_threads>>
               /\ UNCHANGED <<live, thread_current, open, console_vars>>
      BY <1>f, <2>3 DEF place_vars
    <2> QED
      BY <1>1, <2>1, <2>2, <2>3 DEF sem_signal
  <1>10. CASE SemTimedWait
    BY <1>10 DEF SemTimedWait, Ecall, NoTimedWaits
  <1>11. CASE TimedSleep
    <2>1. PICK time \in Times :
            \/ Halt(timed_sleep_end(time))
            \/ /\ UNCHANGED <<timeout_vars, ready_threads, thread_current>>
               /\ UNCHANGED <<live, sem_vars, console_vars>>
            \/ /\ scheduler_timeout(thread_current, time, NULL)
               /\ scheduler_next(ready_threads)
               /\ UNCHANGED <<live, sem_vars, console_vars>>
      BY <1>11 DEF TimedSleep, SleepFor
    <2>2. CASE /\ UNCHANGED <<timeout_vars, ready_threads, thread_current>>
               /\ UNCHANGED <<live, sem_vars, console_vars>>
      BY <1>f, <2>2 DEF place_vars
    <2>3. CASE /\ scheduler_timeout(thread_current, time, NULL)
               /\ scheduler_next(ready_threads)
               /\ UNCHANGED <<live, sem_vars, console_vars>>
      <3>1. c \notin S /\ c # KernelMain /\ time \in Time
        BY <1>p, <1>11, KernelAssumption, CallsAssumption DEF Apart, TimedSleep, SleepFor, Ecall, c
      <3>2. OnlySleeps' /\ ToSet(sleepers') = S \cup {c} /\ NoDuplicates(sleepers')
        BY <1>t, <1>p, <2>3, <3>1, ThreadSleeps DEF S, c
      <3>3. Apart(R, W, I, S \cup {c}, live)
        BY <1>p, <3>1 DEF Apart
      <3>4. /\ thread_current' \notin ToSet(ready_threads')
            /\ Apart({thread_current'} \cup ToSet(ready_threads'), W, I, S \cup {c}, live)
            /\ NoDuplicates(ready_threads')
        BY <1>t, <1>p, <2>3, <3>3, SwitchPlaces DEF R
      <3> QED
        BY <1>p, <1>k, <2>3, <3>2, <3>4 DEF PlaceInv, ThreadsApart, I
    <2> QED
      BY <1>1, <2>1, <2>2, <2>3
  <1>12. CASE TimerIrq
    <2>1. PICK k \in 0 .. Len(sleeping_threads) :
            \/ Halt(timer_end(k))
            \/ /\ scheduler_tick(k)
               /\ \/ scheduler_next(scheduler_push(ready_after_tick(k), thread_current))
                  \/ ready_threads' = ready_after_tick(k) /\ UNCHANGED thread_current
               /\ UNCHANGED <<live, sleeping_freed, open, console_vars>>
      BY <1>12 DEF TimerIrq
    <2>2. CASE /\ scheduler_tick(k)
               /\ \/ scheduler_next(scheduler_push(ready_after_tick(k), thread_current))
                  \/ ready_threads' = ready_after_tick(k) /\ UNCHANGED thread_current
               /\ UNCHANGED <<live, sleeping_freed, open, console_vars>>
      <3> DEFINE w == SubSeq(sleepers, 1, k)
                 V == ToSet(w)
                 S1 == ToSet(Without(sleepers, k))
                 q == ready_after_tick(k)
      <3>1. /\ OnlySleeps' /\ waiting_threads' = waiting_threads
            /\ sleepers' = Without(sleepers, k) /\ q = ready_threads \o w
        BY <1>t, <1>p, <2>1, <2>2, SleepersWake DEF ready_after_tick
      <3>2. /\ w \in Seq(Tcb) /\ NoDuplicates(w) /\ S = V \cup S1 /\ V \cap S1 = {}
            /\ NoDuplicates(sleepers')
        <4>1. k \in 0 .. Len(sleepers)
          BY <1>t, <2>1, NamesOf DEF sleepers, SleepersTyped
        <4> QED
          BY <1>t, <1>p, <3>1, <4>1, SplitQueue DEF S
      <3> HIDE DEF w, V, S1, q
      <3>3. c \notin R \cup V /\ Apart({c} \cup (R \cup V), W, I, S1, live)
        BY <1>p, <3>2 DEF Apart
      <3>4. q \in Seq(Tcb) /\ ToSet(q) = R \cup V /\ NoDuplicates(q)
        <4>1. R \cap V = {}
          BY <1>p, <3>2 DEF Apart
        <4> QED
          BY <1>t, <1>p, <3>1, <3>2, <4>1, JoinQueues DEF R, V
      <3> DEFINE p == scheduler_push(q, c)
      <3>5. p \in Seq(Tcb) /\ ToSet(p) = {c} \cup (R \cup V) /\ NoDuplicates(p)
        BY <1>t, <3>3, <3>4, JoinQueue DEF scheduler_push
      <3> HIDE DEF p
      <3>6. /\ thread_current' \notin ToSet(ready_threads')
            /\ Apart({thread_current'} \cup ToSet(ready_threads'), W, I, S1, live)
            /\ NoDuplicates(ready_threads')
        <4>1. CASE ready_threads' = q /\ UNCHANGED thread_current
          BY <3>3, <3>4, <4>1 DEF c
        <4>2. CASE scheduler_next(p)
          <5>1. Apart(ToSet(p), W, I, S1, live)
            BY <3>3, <3>5
          <5> QED
            BY <3>5, <4>2, <5>1, SwitchPlaces
        <4> QED
          BY <2>2, <4>1, <4>2 DEF p, q, c
      <3> QED
        BY <1>p, <1>k, <2>2, <3>1, <3>2, <3>6 DEF PlaceInv, ThreadsApart, I, S1
    <2> QED
      BY <1>1, <2>1, <2>2
  <1>13. CASE Getc
    <2>1. CASE getc_block(code("GETC")) /\ UNCHANGED <<live, timeout_vars, sem_vars>>
      <3>1. c \notin I /\ c # KernelMain
        BY <1>p, <1>13, KernelAssumption DEF Apart, Getc, Ecall, c
      <3>2. ToSet(threads_waiting_for_input') = I \cup {c}
        BY <1>t, <2>1, JoinQueue DEF getc_block, I, c
      <3>3. Apart(R, W, I \cup {c}, S, live)
        BY <1>p, <3>1 DEF Apart
      <3>4. /\ thread_current' \notin ToSet(ready_threads')
            /\ Apart({thread_current'} \cup ToSet(ready_threads'), W, I \cup {c}, S, live)
            /\ NoDuplicates(ready_threads')
        BY <1>t, <1>p, <2>1, <3>3, SwitchPlaces DEF getc_block, R
      <3> QED
        BY <1>p, <1>k, <1>s, <2>1, <3>2, <3>4 DEF PlaceInv, ThreadsApart, S
    <2>2. CASE getc_take(code("GETC")) /\ UNCHANGED <<live, timeout_vars, sem_vars>>
      BY <1>f, <2>2 DEF getc_take, place_vars
    <2> QED
      BY <1>1, <1>13, <2>1, <2>2 DEF Getc
  <1>14. CASE HwIrq
    <2>1. CASE /\ console_receive /\ typed' = typed
               /\ UNCHANGED <<live, thread_current, timeout_vars, sem_vars>>
      <3> DEFINE n == unblocked_cnt
                 V == ToSet(unblocked)
                 I1 == ToSet(still_waiting)
      <3>1. n \in 0 .. Len(threads_waiting_for_input)
        BY <1>t, <2>1, ReceiveAdvances
      <3>2. /\ unblocked \in Seq(Tcb) /\ NoDuplicates(unblocked)
            /\ I = V \cup I1 /\ V \cap I1 = {}
        BY <1>t, <1>p, <3>1, SplitQueue DEF unblocked, still_waiting, Without, I
      <3> HIDE DEF V, I1
      <3>3. c \notin R \cup V /\ Apart({c} \cup (R \cup V), W, I1, S, live)
        BY <1>p, <3>2 DEF Apart
      <3>4. ToSet(ready_threads') = R \cup V /\ NoDuplicates(ready_threads')
        <4>1. R \cap V = {}
          BY <1>p, <3>2 DEF Apart
        <4> QED
          BY <1>t, <1>p, <2>1, <3>2, <4>1, JoinQueues DEF console_receive, R, V
      <3>5. ToSet(threads_waiting_for_input') = I1
        BY <2>1 DEF console_receive, I1
      <3> QED
        BY <1>p, <1>k, <1>s, <2>1, <3>3, <3>4, <3>5 DEF PlaceInv, ThreadsApart, c, S
    <2> QED
      BY <1>1, <1>14, <2>1 DEF HwIrq
  <1>15. CASE KernelDispatch
    <2>1. CASE /\ scheduler_next(ready_threads)
               /\ UNCHANGED <<live, timeout_vars, sem_vars, console_vars>>
      <3>1. c = KernelMain
        BY <1>15 DEF KernelDispatch, c
      <3>2. Apart(R, W, I, S, live)
        BY <1>p, <1>l, <3>1 DEF Apart
      <3>3. /\ thread_current' \notin ToSet(ready_threads')
            /\ Apart({thread_current'} \cup ToSet(ready_threads'), W, I, S, live)
            /\ NoDuplicates(ready_threads')
        BY <1>t, <1>p, <2>1, <3>2, SwitchPlaces DEF R
      <3> QED
        BY <1>p, <1>k, <1>s, <2>1, <3>3 DEF PlaceInv, ThreadsApart, I, S
    <2> QED
      BY <1>1, <1>15, <2>1 DEF KernelDispatch
  <1> QED
    BY <1>2, <1>3, <1>4, <1>5, <1>6, <1>7, <1>8, <1>9, <1>10, <1>11, <1>12, <1>13,
       <1>14, <1>15 DEF Next, Syscall

-----------------------------------------------------------------------------
(* No thread is lost, none is linked twice.                                *)

KernelInv == TypeInv /\ SliceInv /\ ReaderInv /\ PlaceInv

LEMMA KernelInvInit == Init => KernelInv
  <1> SUFFICES ASSUME Init
               PROVE  KernelInv
    OBVIOUS
  <1>1. SliceInv
    BY KernelAssumption DEF Init, SliceInv
  <1>2. ReaderInv
    BY EmptyQueue DEF Init, ReaderInv
  <1>3. PICK t \in Thread : live = {t} /\ ready_threads = <<t>>
    BY DEF Init
  <1>4. ToSet(ready_threads) = {t} /\ NoDuplicates(ready_threads)
    <2>1. ready_threads = Append(<<>>, t) /\ t \in Tcb
      BY <1>3 DEF Tcb
    <2> QED
      BY <2>1, EmptyQueue, JoinQueue
  <1>5. sleepers = <<>>
    <2>1. DOMAIN sleeping_threads = {} /\ sleeping_threads = <<>>
      BY EmptyQueue, LenProperties DEF Init
    <2> QED
      BY <2>1 DEF sleepers, names
  <1>6. ToSet(sleepers) = {} /\ NoDuplicates(sleepers)
    BY <1>5, EmptyQueue
  <1>7. RingsApart /\ Waiters(Sem) = {}
    BY EmptyQueue DEF Init, RingsApart, Waiters
  <1>8. OnlySleeps
    <2>1. \A i \in DOMAIN sleeping_threads : FALSE
      BY EmptyQueue, LenProperties DEF Init
    <2> QED
      BY <2>1 DEF Init, OnlySleeps
  <1>9. ThreadsApart
    <2>1. thread_current = KernelMain /\ ToSet(threads_waiting_for_input) = {}
      BY EmptyQueue DEF Init
    <2> QED
      BY <1>3, <1>4, <1>6, <1>7, <2>1, KernelAssumption DEF ThreadsApart, Apart
  <1> QED
    BY <1>1, <1>2, <1>4, <1>6, <1>7, <1>8, <1>9, TypeInit DEF KernelInv, PlaceInv

LEMMA KernelInvNext ==
  ASSUME NoTimedWaits
  PROVE  KernelInv /\ [Next]_vars => KernelInv'
  BY TypeNext, SliceNext, ReaderNext, PlaceNext DEF KernelInv, TypeInv, NoTimedWaits

\* The sleepers are those held by time_sleep.
LEMMA AllAsleep ==
  ASSUME SleepersTyped, OnlySleeps
  PROVE  Asleep = ToSet(sleepers)
  <1>1. DOMAIN sleepers = DOMAIN sleeping_threads
          /\ \A i \in DOMAIN sleeping_threads : sleepers[i] = sleeping_threads[i].thread
    BY DEF sleepers, names
  <1>2. \A i \in DOMAIN sleeping_threads : sleeping_threads[i].semaphore = NULL
    BY DEF OnlySleeps
  <1>3. Asleep = {sleeping_threads[i].thread : i \in DOMAIN sleeping_threads}
    BY <1>2 DEF Asleep, ToSet
  <1> QED
    BY <1>1, <1>3 DEF ToSet

\* However calls, ticks, signals, closes and reads interleave, without timed
\* waits every thread that was created and has not exited is in one of the
\* kernel's places, and no freed struct is: for any number of threads and
\* semaphores.
THEOREM NoThreadLostTheorem ==
  ASSUME NoTimedWaits
  PROVE  Spec => []NoThreadLost
  <1>1. KernelInv => NoThreadLost
    BY AllAsleep DEF KernelInv, TypeInv, PlaceInv, ThreadsApart, Apart, NoThreadLost, Linked
  <1>2. KernelInv /\ [Next]_vars => KernelInv'
    BY KernelInvNext
  <1> QED
    BY <1>1, <1>2, KernelInvInit, PTL DEF Spec

\* Without timed waits the one list_node of a thread struct is linked at most
\* once and never while the thread runs, for any number of threads and
\* semaphores: __scheduler_push, __sem_push and __waiting_push never link a
\* node that is in a ring.
THEOREM LinkedOnceTheorem ==
  ASSUME NoTimedWaits
  PROVE  Spec => []LinkedOnce
  <1>1. KernelInv => LinkedOnce
    <2> SUFFICES ASSUME KernelInv
                 PROVE  LinkedOnce
      OBVIOUS
    <2>1. Asleep = ToSet(sleepers)
      BY AllAsleep DEF KernelInv, TypeInv, PlaceInv
    <2>2. /\ NoDuplicates(ready_threads) /\ NoDuplicates(threads_waiting_for_input)
          /\ NoDuplicates([i \in DOMAIN sleeping_threads |-> sleeping_threads[i].thread])
      BY DEF KernelInv, PlaceInv, ReaderInv, sleepers, names
    <2>3. /\ \A s \in Sem : NoDuplicates(waiting_threads[s])
          /\ \A r, s \in Sem :
               r # s => ToSet(waiting_threads[r]) \cap ToSet(waiting_threads[s]) = {}
      BY DEF KernelInv, PlaceInv, RingsApart
    <2>4. /\ Waiters(Sem) \cap ToSet(threads_waiting_for_input) = {}
          /\ ToSet(ready_threads) \cap (Linked(Sem) \cup Asleep) = {}
          /\ Linked(Sem) \cap Asleep = {}
          /\ thread_current \notin ToSet(ready_threads) \cup Linked(Sem) \cup Asleep
          /\ KernelMain \notin Linked(Sem) \cup Asleep
      BY <2>1 DEF KernelInv, PlaceInv, ThreadsApart, Apart, Linked
    <2> QED
      BY <2>2, <2>3, <2>4 DEF LinkedOnce
  <1>2. KernelInv /\ [Next]_vars => KernelInv'
    BY KernelInvNext
  <1> QED
    BY <1>1, <1>2, KernelInvInit, PTL DEF Spec

-----------------------------------------------------------------------------
(* The kernel's own checks never fire.                                     *)

LEMMA LinkGoesOn ==
  ASSUME NEW t \in live \cup {KernelMain}, NEW linked, t \notin linked
  PROVE  LinkEnd(t, linked) = "no"
  BY DEF LinkEnd, Owned

LEMMA SwitchGoesOn ==
  ASSUME NEW q \in Seq(Tcb), ToSet(q) \subseteq live \cup {KernelMain}
  PROVE  switch_end(q) = "no"
  BY LeaveQueue DEF switch_end, Owned

\* Where the running thread goes to the end of the ready queue.
LEMMA RequeueGoesOn ==
  ASSUME NEW q \in Seq(Tcb), ToSet(q) \subseteq live \cup {KernelMain},
         thread_current \in live \cup {KernelMain}, thread_current \in Tcb,
         NEW linked, thread_current \notin linked
  PROVE  requeue_end(q, linked) = "no"
  <1>1. /\ scheduler_push(q, thread_current) \in Seq(Tcb)
        /\ ToSet(scheduler_push(q, thread_current)) \subseteq live \cup {KernelMain}
    BY JoinQueue DEF scheduler_push
  <1>2. switch_end(scheduler_push(q, thread_current)) = "no"
    BY <1>1, SwitchGoesOn
  <1>3. LinkEnd(thread_current, linked) = "no"
    BY LinkGoesOn
  <1> QED
    BY <1>2, <1>3 DEF requeue_end, Then

\* The places, as the checks see them.
LEMMA PlacesSeen ==
  ASSUME KernelInv
  PROVE  /\ ready_threads \in Seq(Tcb) /\ thread_current \in Tcb
         /\ thread_current \in live \cup {KernelMain}
         /\ ToSet(ready_threads) \subseteq live \cup {KernelMain}
         /\ thread_current \notin ToSet(ready_threads) \cup Linked(Sem) \cup ToSet(sleepers)
         /\ Linked(Sem) \subseteq live
         /\ ToSet(sleepers) \subseteq live
         /\ Linked(Sem) \cap (ToSet(ready_threads) \cup ToSet(sleepers)) = {}
         /\ ToSet(sleepers) \cap ToSet(ready_threads) = {}
         /\ Waiters(Sem) \cap ToSet(threads_waiting_for_input) = {}
         /\ \A U \in SUBSET Sem : Waiters(U) \subseteq Waiters(Sem)
                                    /\ Linked(U) \subseteq Linked(Sem)
  BY DEF KernelInv, TypeInv, QueuesTyped, CountInv, Tcb, PlaceInv, ThreadsApart, Apart,
     Linked, Waiters

LEMMA SemaphoresGoOn ==
  ASSUME KernelInv
  PROVE  \A s \in open : /\ sem_close_end(s) = "no"
                         /\ sem_wait_end(s) = "no"
                         /\ sem_signal_end(s) = "no"
  <1> SUFFICES ASSUME NEW s \in open
               PROVE  /\ sem_close_end(s) = "no"
                      /\ sem_wait_end(s) = "no"
                      /\ sem_signal_end(s) = "no"
    OBVIOUS
  <1> DEFINE w == waiting_threads[s]
             others == ToSet(ready_threads) \cup Linked(Sem \ {s})
  <1>1. s \in Sem /\ w \in Seq(Tcb) /\ ToSet(w) \subseteq Waiters(Sem)
    BY DEF KernelInv, TypeInv, QueuesTyped, Waiters
  <1>2. \A t \in ToSet(w) : t \in live /\ t \notin others
    <2>1. \A t \in ToSet(w) : t \notin Waiters(Sem \ {s})
      BY <1>1 DEF KernelInv, PlaceInv, RingsApart, Waiters
    <2> QED
      BY <1>1, <2>1, PlacesSeen DEF Linked
  <1> HIDE DEF others
  <1>3. sem_close_end(s) = "no"
    <2>1. \A i \in DOMAIN w : w[i] \in ToSet(w)
      BY DEF ToSet
    <2>2. \A i \in DOMAIN w : LinkEnd(w[i], others) = "no"
      BY <1>2, <2>1, LinkGoesOn
    <2> QED
      BY <2>2 DEF sem_close_end, others
  <1>4. sem_wait_end(s) = "no"
    <2>1. switch_end(ready_threads) = "no"
      BY PlacesSeen, SwitchGoesOn
    <2>2. ToSet(scheduler_rest(ready_threads)) \subseteq ToSet(ready_threads)
      BY PlacesSeen, LeaveQueue DEF scheduler_rest
    <2>3. LinkEnd(thread_current, ToSet(scheduler_rest(ready_threads)) \cup Linked(Sem)) = "no"
      BY <2>2, PlacesSeen, LinkGoesOn
    <2> QED
      BY <2>1, <2>3 DEF sem_wait_end, Then
  <1>5. CASE sem_signal_unblocks(s)
    <2>1. w # <<>>
      BY <1>5 DEF sem_signal_unblocks
    <2>2. Head(w) \in ToSet(w) /\ Head(w) \notin ToSet(Tail(w)) /\ Head(w) \in Tcb
      BY <1>1, <2>1, LeaveQueue, QueueIndices DEF KernelInv, PlaceInv, RingsApart
    <2>3. Head(w) \in live /\ Head(w) \notin others \cup ToSet(Tail(w))
      BY <1>2, <2>2
    <2>4. LinkEnd(Head(w), others \cup ToSet(Tail(w))) = "no"
      BY <2>3, LinkGoesOn
    <2>5. time_left[Head(w)] # 0
      BY <2>2 DEF KernelInv, SliceInv
    <2> QED
      BY <1>3, <1>4, <1>5, <2>3, <2>4, <2>5 DEF sem_signal_end, sem_unblock_end, Owned, others
  <1>6. CASE ~sem_signal_unblocks(s)
    BY <1>3, <1>4, <1>6 DEF sem_signal_end
  <1> QED
    BY <1>5, <1>6

LEMMA ConsoleGoesOn ==
  ASSUME KernelInv
  PROVE  getc_end = "no" /\ receive_end = "no"
  <1>1. getc_end = "no"
    <2>1. switch_end(ready_threads) = "no"
      BY PlacesSeen, SwitchGoesOn
    <2>2. ToSet(scheduler_rest(ready_threads)) \subseteq ToSet(ready_threads)
      BY PlacesSeen, LeaveQueue DEF scheduler_rest
    <2>3. LinkEnd(thread_current, ToSet(scheduler_rest(ready_threads)) \cup Linked(Sem)) = "no"
      BY <2>2, PlacesSeen, LinkGoesOn
    <2> QED
      BY <2>1, <2>3 DEF getc_end, Then
  <1>2. receive_end = "no"
    <2> DEFINE linked == ToSet(ready_threads) \cup Waiters(Sem) \cup ToSet(still_waiting)
               q == threads_waiting_for_input
    <2>1. q \in Seq(Tcb) /\ NoDuplicates(q)
      BY DEF KernelInv, TypeInv, InputInv, ReaderInv
    <2>2. unblocked_cnt \in 0 .. Len(q)
      <3>1. console_receive_buffer \in Seq(Nat) /\ rx_data \in Seq(Nat)
              /\ Len(console_receive_buffer) <= CONSOLE_BUFFER_SIZE
        BY DEF KernelInv, TypeInv, InputInv, InputInOrder
      <3>2. received_len \in 0 .. Len(rx_data)
        BY <3>1, LenProperties, ConsoleAssumption DEF received_len
      <3>3. received \in Seq(Nat)
        BY <3>1, <3>2, PrefixOf, ConcatProperties DEF received
      <3>4. Len(received) \in Nat /\ Len(q) \in Nat
        BY <2>1, <3>3, LenProperties
      <3> QED
        BY <3>4 DEF unblocked_cnt
    <2>3. /\ ToSet(unblocked) \subseteq ToSet(q)
          /\ ToSet(unblocked) \cap ToSet(still_waiting) = {}
      BY <2>1, <2>2, SplitQueue DEF unblocked, still_waiting, Without
    <2>4. \A t \in ToSet(unblocked) : t \in live /\ t \notin linked
      BY <2>3, PlacesSeen DEF Linked
    <2> HIDE DEF linked
    <2>5. \A i \in DOMAIN unblocked : LinkEnd(unblocked[i], linked) = "no"
      <3>1. \A i \in DOMAIN unblocked : unblocked[i] \in ToSet(unblocked)
        BY DEF ToSet
      <3> QED
        BY <2>4, <3>1, LinkGoesOn
    <2> QED
      BY <2>5 DEF receive_end, linked
  <1> QED
    BY <1>1, <1>2

LEMMA TimerGoesOn ==
  ASSUME KernelInv, NEW k \in 0 .. Len(sleeping_threads)
  PROVE  timer_end(k) = "no"
  <1> DEFINE n == Len(sleeping_threads)
             q == ready_after_tick(k)
  <1>1. /\ sleepers \in Seq(Tcb) /\ Len(sleepers) = n /\ n \in Nat
        /\ DOMAIN sleepers = 1 .. n
        /\ \A i \in 1 .. n : sleepers[i] = sleeping_threads[i].thread
        /\ \A i \in 1 .. n : sleeping_threads[i].semaphore = NULL
    BY NamesOf, LenProperties DEF KernelInv, TypeInv, SleepersTyped, PlaceInv, OnlySleeps, sleepers
  <1>2. \A i \in 1 .. n : sleepers[i] \in ToSet(sleepers)
    BY <1>1 DEF ToSet
  <1>3. ASSUME NEW i \in 1 .. k
        PROVE  wake_end(i) = "no"
    <2> DEFINE linked == ToSet(ready_threads) \cup woken(i - 1)
                           \cup Linked(Sem \ timed_out_sems(i))
    <2>1. i \in 1 .. n /\ \A j \in 1 .. i - 1 : j \in 1 .. n /\ j # i
      BY <1>1
    <2>2. sleepers[i] \notin woken(i - 1)
      BY <1>1, <2>1 DEF woken, KernelInv, PlaceInv, NoDuplicates
    <2>3. sleepers[i] \in live /\ sleepers[i] \notin linked
      BY <1>2, <2>1, <2>2, PlacesSeen
    <2>4. LinkEnd(sleepers[i], linked) = "no"
      <3> HIDE DEF linked
      <3> QED
        BY <2>3, LinkGoesOn
    <2> QED
      BY <1>1, <2>1, <2>4 DEF wake_end
  <1>4. tick_end(k) = "no"
    BY <1>3 DEF tick_end, KernelInv, PlaceInv, OnlySleeps
  <1>5. /\ q \in Seq(Tcb)
        /\ ToSet(q) \subseteq ToSet(ready_threads) \cup ToSet(sleepers)
    <2> DEFINE w == [i \in 1 .. k |-> sleeping_threads[i].thread]
    <2>1. w \in Seq(Tcb)
      BY WokenTyped DEF KernelInv, TypeInv, QueuesTyped
    <2>2. ToSet(w) \subseteq ToSet(sleepers)
      <3>1. \A i \in 1 .. k : i \in 1 .. n /\ w[i] = sleepers[i]
        BY <1>1
      <3>2. DOMAIN w = 1 .. k
        OBVIOUS
      <3> QED
        BY <1>2, <3>1, <3>2 DEF ToSet
    <2> HIDE DEF w
    <2>3. q = ready_threads \o w
      BY DEF ready_after_tick, w
    <2> QED
      BY <2>1, <2>2, <2>3, JoinQueues DEF KernelInv, TypeInv, QueuesTyped
  <1> HIDE DEF q
  <1>6. requeue_end(q, ToSet(q) \cup Linked(Sem \ timed_out_sems(k))) = "no"
    <2>1. thread_current \notin ToSet(q) \cup Linked(Sem \ timed_out_sems(k))
      BY <1>5, PlacesSeen
    <2>2. ToSet(q) \subseteq live \cup {KernelMain}
      BY <1>5, PlacesSeen
    <2> QED
      BY <1>5, <2>1, <2>2, PlacesSeen, RequeueGoesOn
  <1> QED
    BY <1>4, <1>6 DEF timer_end, Then, q

LEMMA IntactNext ==
  ASSUME NoTimedWaits, "ILLEGAL" \notin Calls, MaxOpens <= SEMAPHORES_LEN
  PROVE  KernelInv /\ Intact /\ [Next]_vars => Intact'
  <1> SUFFICES ASSUME KernelInv, Intact, [Next]_vars
               PROVE  Intact'
    OBVIOUS
  <1>1. ~Halt("no")
    BY DEF Halt, Ends
  <1>q. requeue_end(ready_threads, ToSet(ready_threads) \cup Linked(Sem)) = "no"
    BY PlacesSeen, RequeueGoesOn
  <1>s. switch_end(ready_threads) = "no"
    BY PlacesSeen, SwitchGoesOn
  <1>2. CASE ThreadCreate
    <2>1. \A t \in Thread \ live : t \notin ToSet(ready_threads) \cup Linked(Sem)
      BY PlacesSeen, KernelAssumption
    <2> QED
      BY <1>2, <2>1 DEF ThreadCreate, Intact
  <1>3. CASE ThreadExit
    <2>1. thread_exit_end = "no"
      BY <1>s, PlacesSeen, LeaveQueue DEF thread_exit_end
    <2> QED
      BY <1>1, <1>3, <2>1 DEF ThreadExit, Handled, Intact
  <1>4. CASE ThreadDispatch \/ PutcRefused
    BY <1>1, <1>4, <1>q DEF ThreadDispatch, PutcRefused, Handled, Intact
  <1>5. CASE \/ ThreadCreateNoMemory \/ SemOpenNoMemory \/ Unserved
             \/ PutcAccepted \/ KeyPress \/ KernelCheck \/ Off \/ UNCHANGED vars
    BY <1>5 DEF ThreadCreateNoMemory, SemOpenNoMemory, Unserved, unserved,
       PutcAccepted, KeyPress, KernelCheck, stop, Off, vars, Intact
  <1>6. CASE SemOpen
    <2>1. sem_open_end = "no"
      BY <1>6, SemaphoreAssumption, CallsAssumption
         DEF SemOpen, sem_open_end, KernelInv, TypeInv, QueuesTyped
    <2> QED
      BY <1>1, <1>6, <2>1 DEF SemOpen, Handled, Intact
  <1>7. CASE SemClose \/ SemWait \/ SemSignal
    BY <1>1, <1>7, SemaphoresGoOn DEF SemClose, SemWait, SemSignal, SignalOn, Handled, Intact
  <1>8. CASE SemTimedWait \/ IllegalOperation
    BY <1>8 DEF SemTimedWait, IllegalOperation, Ecall, NoTimedWaits
  <1>9. CASE TimedSleep
    <2>1. \A time : timed_sleep_end(time) = "no"
      BY <1>s DEF timed_sleep_end, Then, timeout_end, KernelInv, PlaceInv, OnlySleeps
    <2> QED
      BY <1>1, <1>9, <2>1 DEF TimedSleep, SleepFor, Handled, Intact
  <1>10. CASE TimerIrq
    BY <1>1, <1>10, TimerGoesOn DEF TimerIrq, Handled, Intact
  <1>11. CASE Getc \/ HwIrq
    BY <1>1, <1>11, ConsoleGoesOn DEF Getc, HwIrq, Handled, Intact
  <1>12. CASE KernelDispatch
    BY <1>1, <1>12, <1>s DEF KernelDispatch, Handled, Intact
  <1> QED
    BY <1>2, <1>3, <1>4, <1>5, <1>6, <1>7, <1>8, <1>9, <1>10, <1>11, <1>12 DEF Next, Syscall

\* The machine only ends through __stop: no handler panics, links a node twice
\* or touches a freed struct, for any number of threads, as long as user code
\* executes nothing illegal, makes no timed wait, and opens no more semaphores
\* than the array semaphores has places.
THEOREM IntactTheorem ==
  ASSUME NoTimedWaits, "ILLEGAL" \notin Calls, MaxOpens <= SEMAPHORES_LEN
  PROVE  Spec => []Intact
  <1>1. Init => Intact
    BY DEF Init, Intact
  <1>2. KernelInv /\ [Next]_vars => KernelInv'
    BY KernelInvNext
  <1>3. KernelInv /\ Intact /\ [Next]_vars => Intact'
    BY IntactNext
  <1> QED
    BY <1>1, <1>2, <1>3, KernelInvInit, PTL DEF Spec

-----------------------------------------------------------------------------
(* The semaphores are counting semaphores.                                 *)

\* A step of the kernel is one step of a counting semaphore, or none.
LEMMA CountingStep ==
  ASSUME NoTimedWaits, InitsFit
  PROVE  KernelInv /\ SemInv /\ [Next]_vars
           => [SemaphoresCount!CountingNext]_(SemaphoresCount!count_vars)
  <1> SUFFICES ASSUME KernelInv, SemInv, [Next]_vars
               PROVE  \/ SemaphoresCount!CountingNext
                      \/ UNCHANGED <<open, val, waiting_threads>>
    BY DEF SemaphoresCount!count_vars
  <1> USE DEF sem_vars
  <1>1. ASSUME NEW end, Halt(end)
        PROVE  UNCHANGED <<open, val, waiting_threads>>
    BY <1>1 DEF Halt
  <1>2. CASE \/ ThreadCreate \/ ThreadCreateNoMemory \/ ThreadExit \/ ThreadDispatch
             \/ SemOpenNoMemory \/ TimedSleep \/ Unserved \/ IllegalOperation
             \/ KernelDispatch \/ KernelCheck
             \/ Getc \/ PutcAccepted \/ PutcRefused \/ KeyPress \/ HwIrq
             \/ Off \/ UNCHANGED vars
    BY <1>1, <1>2 DEF ThreadCreate, ThreadCreateNoMemory, ThreadExit,
       ThreadDispatch, SemOpenNoMemory, TimedSleep, SleepFor, Unserved, unserved, IllegalOperation,
       KernelDispatch, KernelCheck, stop, Getc, PutcAccepted, PutcRefused,
       KeyPress, HwIrq, Off, vars
  <1>t. /\ open \subseteq Sem /\ val \in [Sem -> Int] /\ waiting_threads \in [Sem -> Seq(Tcb)]
        /\ \A s \in open : Len(waiting_threads[s]) = IF val[s] < 0 THEN -val[s] ELSE 0
    BY DEF SemInv, CountsWaiters
  <1>3. CASE SemOpen
    <2>1. PICK s \in Sem \ open, init \in Inits : Halt(sem_open_end) \/ sem_open(s, init)
      BY <1>3 DEF SemOpen
    <2>2. CASE sem_open(s, init)
      <3>1. as_i32(init) \in Nat
        BY CallsAssumption, SemaphoreAssumption DEF as_i32, InitsFit
      <3>2. val'[s] \in Nat /\ val' = [val EXCEPT ![s] = val'[s]]
        BY <1>t, <2>2, <3>1 DEF sem_open
      <3>3. waiting_threads' = waiting_threads
        BY <1>t, <2>2 DEF sem_open, KernelInv, PlaceInv, RingsApart
      <3>4. SemaphoresCount!Open(s)
        BY <2>2, <3>2, <3>3 DEF sem_open, SemaphoresCount!Open
      <3> QED
        BY <3>4 DEF SemaphoresCount!CountingNext
    <2> QED
      BY <1>1, <2>1, <2>2
  <1>4. CASE SemClose
    <2>1. PICK s \in open : Halt(sem_close_end(s)) \/ sem_close(s)
      BY <1>4 DEF SemClose
    <2>2. CASE sem_close(s)
      <3>1. SemaphoresCount!Close(s) /\ s \in Sem
        BY <1>t, <2>2 DEF sem_close, SemaphoresCount!Close
      <3> QED
        BY <3>1 DEF SemaphoresCount!CountingNext
    <2> QED
      BY <1>1, <2>1, <2>2
  <1>5. CASE SemWait
    <2>1. PICK s \in open : \/ Halt(sem_wait_end(s))
                            \/ sem_wait(s, code("SEM_WAIT")) /\ open' = open
      BY <1>5 DEF SemWait
    <2>2. CASE sem_wait(s, code("SEM_WAIT")) /\ open' = open
      <3>1. thread_current \in Thread
        BY <1>5 DEF SemWait, Ecall
      <3>2. SemaphoresCount!Free(thread_current)
        <4>1. thread_current \notin Waiters(Sem)
          BY PlacesSeen DEF Linked
        <4> QED
          BY <4>1 DEF SemaphoresCount!Free, Waiters, ToSet
      <3>3. s \in Sem /\ val[s] \in Int /\ (sem_wait_blocks(s) <=> ~(val[s] > 0))
        BY <1>t DEF sem_wait_blocks
      <3>4. SemaphoresCount!Wait(thread_current, s)
        BY <2>2, <3>2, <3>3 DEF sem_wait, sem_push, SemaphoresCount!Wait
      <3> QED
        BY <3>1, <3>3, <3>4 DEF SemaphoresCount!CountingNext
    <2> QED
      BY <1>1, <2>1, <2>2
  <1>6. CASE SemSignal
    <2>1. PICK s \in open : \/ Halt(sem_signal_end(s))
                            \/ sem_signal(s) /\ open' = open
      BY <1>6 DEF SemSignal, SignalOn
    <2>2. CASE sem_signal(s) /\ open' = open
      <3>1. s \in Sem /\ val[s] \in Int /\ waiting_threads[s] \in Seq(Tcb)
        BY <1>t
      <3>2. sem_signal_unblocks(s) <=> waiting_threads[s] # <<>>
        <4>1. waiting_threads[s] # <<>> => Len(waiting_threads[s]) \in Nat \ {0}
          BY <3>1, EmptySeq
        <4>2. waiting_threads[s] # <<>> => val[s] + 1 <= 0
          BY <1>t, <3>1, <4>1
        <4> QED
          BY <4>2 DEF sem_signal_unblocks
      <3>3. SemaphoresCount!Signal(s)
        BY <2>2, <3>2 DEF sem_signal, sem_unblock_thread, SemaphoresCount!Signal
      <3> QED
        BY <3>1, <3>3 DEF SemaphoresCount!CountingNext
    <2> QED
      BY <1>1, <2>1, <2>2
  <1>7. CASE SemTimedWait
    BY <1>7 DEF SemTimedWait, Ecall, NoTimedWaits
  <1>8. CASE TimerIrq
    <2>1. PICK k \in 0 .. Len(sleeping_threads) :
            \/ Halt(timer_end(k))
            \/ /\ scheduler_tick(k)
               /\ UNCHANGED <<sleeping_freed, open>>
      BY <1>8 DEF TimerIrq
    <2>2. CASE scheduler_tick(k) /\ UNCHANGED <<sleeping_freed, open>>
      BY <2>1, <2>2, SleepersWake DEF KernelInv, TypeInv, PlaceInv
    <2> QED
      BY <1>1, <2>1, <2>2
  <1> QED
    BY <1>2, <1>3, <1>4, <1>5, <1>6, <1>7, <1>8 DEF Next, Syscall

\* For any number of threads and semaphores, and whatever sleeps, ticks, reads
\* and exits come in between, __sem_open, __sem_wait, __sem_signal and
\* __sem_close implement the counting semaphores of Counting: no signal is
\* lost, no unit is given out twice, and the first thread to wait is the first
\* to go on.
THEOREM SemaphoresServeTheorem ==
  ASSUME NoTimedWaits, InitsFit
  PROVE  Spec => SemaphoresServe
  <1>1. Init => SemInv
    BY EmptySeq DEF Init, SemInv, CountsWaiters
  <1>2. CountInv /\ SemInv /\ [Next]_vars => SemInv'
    BY SemNext
  <1>3. KernelInv /\ [Next]_vars => KernelInv'
    BY KernelInvNext
  <1>4. Init => SemaphoresCount!CountingInit
    BY DEF Init, SemaphoresCount!CountingInit
  <1>5. KernelInv => CountInv
    BY DEF KernelInv, TypeInv
  <1>6. KernelInv /\ SemInv /\ [Next]_vars
           => [SemaphoresCount!CountingNext]_(SemaphoresCount!count_vars)
    BY CountingStep
  <1> QED
    BY <1>1, <1>2, <1>3, <1>4, <1>5, <1>6, KernelInvInit, PTL
       DEF Spec, SemaphoresServe, SemaphoresCount!CountingSpec
-----------------------------------------------------------------------------
(* Nobody is overtaken.                                                    *)

\* Nobody gets ahead of a thread that stays when queue q becomes queue r.
Kept(q, r) ==
  \A t \in ToSet(q) \cap ToSet(r), u \in Tcb : Before(r, u, t) => Before(q, u, t)

\* r is q with threads that were not in q behind it.
Extended(q, r) ==
  /\ Len(q) <= Len(r)
  /\ \A j \in 1 .. Len(r) : IF j <= Len(q) THEN r[j] = q[j] ELSE r[j] \notin ToSet(q)

\* Queue r is what is left of q when its first d threads have gone and others
\* have come behind it.
LEMMA KeptInOrder ==
  ASSUME NEW q \in Seq(Tcb), NEW r \in Seq(Tcb), NEW d \in Nat,
         \A j \in 1 .. Len(r) : IF d + j <= Len(q) THEN r[j] = q[d + j]
                                                   ELSE r[j] \notin ToSet(q)
  PROVE  Kept(q, r)
  <1>1. /\ DOMAIN q = 1 .. Len(q) /\ Len(q) \in Nat
        /\ DOMAIN r = 1 .. Len(r) /\ Len(r) \in Nat
    BY LenProperties
  <1> SUFFICES ASSUME NEW t \in ToSet(q), NEW u, NEW i \in 1 .. Len(r), NEW j \in 1 .. Len(r),
                      i < j, r[i] = u, r[j] = t
               PROVE  Before(q, u, t)
    BY <1>1 DEF Kept, Before
  <1>2. d + j <= Len(q) /\ q[d + j] = t
    OBVIOUS
  <1>3. d + i \in 1 .. Len(q) /\ d + j \in 1 .. Len(q) /\ d + i < d + j /\ d + i <= Len(q)
    BY <1>1, <1>2
  <1>4. q[d + i] = u
    BY <1>3
  <1> QED
    BY <1>1, <1>2, <1>3, <1>4 DEF Before

LEMMA SameQueue == ASSUME NEW q \in Seq(Tcb) PROVE Extended(q, q) /\ Kept(q, q)
  <1>1. Len(q) \in Nat
    BY LenProperties
  <1> QED
    BY <1>1 DEF Extended, Kept

LEMMA PushedBehind ==
  ASSUME NEW q \in Seq(Tcb), NEW r \in Seq(Tcb), Extended(q, r),
         NEW t \in Tcb, t \notin ToSet(q)
  PROVE  Extended(q, scheduler_push(r, t))
  <1> DEFINE p == scheduler_push(r, t)
  <1>1. /\ Len(p) = Len(r) + 1 /\ p[Len(r) + 1] = t
        /\ \A j \in 1 .. Len(r) : p[j] = r[j]
        /\ Len(q) \in Nat /\ Len(r) \in Nat
    BY AppendProperties, LenProperties DEF scheduler_push
  <1> HIDE DEF p
  <1>2. ASSUME NEW j \in 1 .. Len(p)
        PROVE  IF j <= Len(q) THEN p[j] = q[j] ELSE p[j] \notin ToSet(q)
    <2>1. CASE j = Len(r) + 1
      <3>1. ~(j <= Len(q))
        BY <1>1, <2>1 DEF Extended
      <3> QED
        BY <1>1, <2>1, <3>1
    <2>2. CASE j # Len(r) + 1
      <3>1. j \in 1 .. Len(r)
        BY <1>1, <2>2
      <3> QED
        BY <1>1, <3>1 DEF Extended
    <2> QED
      BY <2>1, <2>2
  <1>3. Len(q) <= Len(p)
    BY <1>1 DEF Extended
  <1> QED
    BY <1>2, <1>3 DEF Extended, p

LEMMA JoinedBehind ==
  ASSUME NEW q \in Seq(Tcb), NEW w \in Seq(Tcb), ToSet(q) \cap ToSet(w) = {}
  PROVE  Extended(q, q \o w)
  <1> DEFINE r == q \o w
  <1>1. /\ Len(r) = Len(q) + Len(w)
        /\ \A j \in 1 .. Len(r) : r[j] = IF j <= Len(q) THEN q[j] ELSE w[j - Len(q)]
        /\ Len(q) \in Nat /\ Len(w) \in Nat /\ DOMAIN w = 1 .. Len(w)
    BY ConcatProperties, LenProperties
  <1> HIDE DEF r
  <1>2. ASSUME NEW j \in 1 .. Len(r), ~(j <= Len(q))
        PROVE  r[j] \notin ToSet(q)
    <2>1. j - Len(q) \in 1 .. Len(w) /\ r[j] = w[j - Len(q)]
      BY <1>1, <1>2
    <2>2. r[j] \in ToSet(w)
      BY <1>1, <2>1 DEF ToSet
    <2> QED
      BY <2>2
  <1>3. Len(q) <= Len(r)
    BY <1>1
  <1> QED
    BY <1>1, <1>2, <1>3 DEF Extended, r

LEMMA ExtendedKept ==
  ASSUME NEW q \in Seq(Tcb), NEW r \in Seq(Tcb), Extended(q, r)
  PROVE  Kept(q, r) /\ Kept(q, scheduler_rest(r))
  <1>1. Len(q) \in Nat /\ Len(r) \in Nat
    BY LenProperties
  <1>2. Kept(q, r)
    <2>1. \A j \in 1 .. Len(r) : IF 0 + j <= Len(q) THEN r[j] = q[0 + j]
                                                    ELSE r[j] \notin ToSet(q)
      BY <1>1 DEF Extended
    <2> QED
      BY <2>1, KeptInOrder
  <1>3. ASSUME r # <<>>
        PROVE  Kept(q, Tail(r))
    <2> DEFINE v == Tail(r)
    <2>1. v \in Seq(Tcb) /\ Len(v) = Len(r) - 1 /\ \A j \in 1 .. Len(v) : v[j] = r[j + 1]
      BY <1>3, HeadTailProperties
    <2> HIDE DEF v
    <2>2. ASSUME NEW j \in 1 .. Len(v)
          PROVE  IF 1 + j <= Len(q) THEN v[j] = q[1 + j] ELSE v[j] \notin ToSet(q)
      <3>1. j + 1 \in 1 .. Len(r) /\ v[j] = r[j + 1] /\ 1 + j = j + 1
        BY <1>1, <2>1
      <3> QED
        BY <3>1 DEF Extended
    <2>3. Kept(q, v)
      BY <2>1, <2>2, KeptInOrder
    <2> QED
      BY <2>3 DEF v
  <1> QED
    BY <1>2, <1>3 DEF scheduler_rest

\* The first n threads leave a queue.
LEMMA LeftKept ==
  ASSUME NEW q \in Seq(Tcb), NEW n \in 0 .. Len(q)
  PROVE  Kept(q, Without(q, n))
  <1> DEFINE v == Without(q, n)
  <1>1. /\ v \in Seq(Tcb) /\ Len(v) = Len(q) - n
        /\ \A j \in 1 .. Len(q) - n : v[j] = q[n + j]
        /\ Len(q) \in Nat /\ n \in Nat
    BY SuffixOf, LenProperties
  <1> HIDE DEF v
  <1>2. \A j \in 1 .. Len(v) : IF n + j <= Len(q) THEN v[j] = q[n + j]
                                                  ELSE v[j] \notin ToSet(q)
    BY <1>1
  <1>3. Kept(q, v)
    BY <1>1, <1>2, KeptInOrder
  <1> QED
    BY <1>3 DEF v

LEMMA EmptiedKept == ASSUME NEW q PROVE Kept(q, <<>>)
  BY EmptyQueue DEF Kept

\* What NoOvertaking says of a step.
OrderStep ==
  halted' = "no" =>
    /\ Kept(ready_threads, ready_threads')
    /\ Kept(threads_waiting_for_input, threads_waiting_for_input')
    /\ \A s \in Sem : Kept(waiting_threads[s], waiting_threads'[s])

LEMMA OrderNext ==
  ASSUME NoTimedWaits
  PROVE  KernelInv /\ [Next]_vars => OrderStep
  <1> SUFFICES ASSUME KernelInv, [Next]_vars
               PROVE  OrderStep
    OBVIOUS
  <1> DEFINE c == thread_current
             q == ready_threads
             w == threads_waiting_for_input
             Rings == \A s \in Sem : Kept(waiting_threads[s], waiting_threads'[s])
  <1> USE DEF sched_vars, sem_vars, console_vars, input_vars
  <1>t. /\ q \in Seq(Tcb) /\ w \in Seq(Tcb) /\ waiting_threads \in [Sem -> Seq(Tcb)]
        /\ c \in Tcb /\ open \subseteq Sem
        /\ SleepersTyped /\ QueuesTyped /\ InputInv /\ OnlySleeps
    BY DEF KernelInv, PlaceInv, TypeInv, QueuesTyped, InputInv, CountInv, Tcb
  <1>p. /\ c \notin ToSet(q) /\ c \notin ToSet(w) /\ c \notin Waiters(Sem)
        /\ Waiters(Sem) \cap ToSet(q) = {} /\ ToSet(w) \cap ToSet(q) = {}
        /\ ToSet(sleepers) \cap ToSet(q) = {}
        /\ \A s \in Sem : ToSet(waiting_threads[s]) \subseteq Waiters(Sem)
    BY PlacesSeen DEF Linked, Waiters
  <1>q. Kept(q, q) /\ Kept(w, w) /\ Kept(q, scheduler_rest(q))
    BY <1>t, SameQueue, ExtendedKept
  <1>s. waiting_threads' = waiting_threads => Rings
    BY <1>t, SameQueue
  <1>r. Kept(q, scheduler_push(q, c)) /\ Kept(q, scheduler_rest(scheduler_push(q, c)))
    <2>1. scheduler_push(q, c) \in Seq(Tcb)
      BY <1>t, JoinQueue DEF scheduler_push
    <2>2. Extended(q, scheduler_push(q, c))
      BY <1>t, <1>p, SameQueue, PushedBehind
    <2> QED
      BY <1>t, <2>1, <2>2, ExtendedKept
  <1>n. \A p : scheduler_next(p) => ready_threads' = scheduler_rest(p)
    BY DEF scheduler_next
  <1>o. ASSUME NEW s \in Sem, NEW v, Kept(waiting_threads[s], v),
               waiting_threads' = [waiting_threads EXCEPT ![s] = v]
        PROVE  Rings
    <2> SUFFICES ASSUME NEW x \in Sem
                 PROVE  Kept(waiting_threads[x], waiting_threads'[x])
      OBVIOUS
    <2>1. CASE x = s
      BY <1>t, <1>o, <2>1
    <2>2. CASE x # s
      BY <1>t, <1>o, <2>2, SameQueue
    <2> QED
      BY <2>1, <2>2
  <1> HIDE DEF Rings
  <1>g. ASSUME Kept(q, ready_threads'), Kept(w, threads_waiting_for_input'), Rings
        PROVE  OrderStep
    BY <1>g DEF OrderStep, Rings
  <1> HIDE DEF q, w, c
  <1>1. ASSUME NEW end, Halt(end)
        PROVE  OrderStep
    BY <1>1 DEF Halt, Ends, OrderStep
  <1>2. CASE ThreadCreate
    <2>1. PICK t \in Thread \ live :
            \/ Halt("corrupt")
            \/ /\ t \notin ToSet(ready_threads)
               /\ ready_threads' = scheduler_push(ready_threads, t)
               /\ UNCHANGED <<sem_vars, console_vars>>
      BY <1>2 DEF ThreadCreate
    <2>2. CASE /\ t \notin ToSet(ready_threads)
               /\ ready_threads' = scheduler_push(ready_threads, t)
               /\ UNCHANGED <<sem_vars, console_vars>>
      <3>1. t \in Tcb /\ t \notin ToSet(q)
        BY <2>2 DEF Tcb, q
      <3>2. scheduler_push(q, t) \in Seq(Tcb) /\ Extended(q, scheduler_push(q, t))
        BY <1>t, <3>1, SameQueue, PushedBehind, JoinQueue DEF scheduler_push
      <3>3. Kept(q, ready_threads')
        BY <1>t, <2>2, <3>2, ExtendedKept DEF q
      <3> QED
        BY <1>g, <1>q, <1>s, <2>2, <3>3 DEF w
    <2> QED
      BY <1>1, <2>1, <2>2
  <1>3. CASE ThreadExit \/ KernelDispatch
    <2>1. CASE scheduler_next(ready_threads) /\ UNCHANGED <<sem_vars, console_vars>>
      BY <1>g, <1>q, <1>s, <1>n, <2>1 DEF q, w
    <2> QED
      BY <1>1, <1>3, <2>1 DEF ThreadExit, KernelDispatch
  <1>4. CASE ThreadDispatch \/ PutcRefused
    <2>1. CASE /\ scheduler_next(scheduler_push(ready_threads, thread_current))
               /\ UNCHANGED <<sem_vars, input_vars>>
      BY <1>g, <1>q, <1>r, <1>s, <1>n, <2>1 DEF q, w, c
    <2> QED
      BY <1>1, <1>4, <2>1 DEF ThreadDispatch, PutcRefused
  <1>5. CASE \/ ThreadCreateNoMemory \/ SemOpenNoMemory \/ Unserved \/ IllegalOperation
             \/ PutcAccepted \/ KeyPress \/ KernelCheck \/ Off \/ UNCHANGED vars
    <2>1. ASSUME UNCHANGED <<ready_threads, threads_waiting_for_input, waiting_threads>>
          PROVE  OrderStep
      BY <1>g, <1>q, <1>s, <2>1 DEF q, w
    <2> QED
      BY <1>1, <1>5, <2>1 DEF ThreadCreateNoMemory, SemOpenNoMemory, Unserved, unserved,
         IllegalOperation, PutcAccepted, KeyPress, KernelCheck, stop, Off, vars
  <1>6. CASE SemOpen
    <2>1. PICK s \in Sem \ open, init \in Inits :
            \/ Halt(sem_open_end)
            \/ sem_open(s, init) /\ UNCHANGED <<sched_vars, console_vars>>
      BY <1>6 DEF SemOpen
    <2>2. CASE sem_open(s, init) /\ UNCHANGED <<sched_vars, console_vars>>
      <3>1. Rings
        BY <1>o, <2>1, <2>2, EmptiedKept DEF sem_open
      <3> QED
        BY <1>g, <1>q, <2>2, <3>1 DEF q, w
    <2> QED
      BY <1>1, <2>1, <2>2
  <1>7. CASE SemClose
    <2>1. PICK s \in open :
            \/ Halt(sem_close_end(s))
            \/ sem_close(s) /\ UNCHANGED console_vars
      BY <1>7 DEF SemClose
    <2>2. CASE sem_close(s) /\ UNCHANGED console_vars
      <3>1. s \in Sem /\ waiting_threads[s] \in Seq(Tcb)
              /\ ToSet(q) \cap ToSet(waiting_threads[s]) = {}
        BY <1>t, <1>p
      <3>2. Rings
        BY <1>o, <2>2, <3>1, EmptiedKept DEF sem_close
      <3>3. q \o waiting_threads[s] \in Seq(Tcb) /\ Extended(q, q \o waiting_threads[s])
        BY <1>t, <3>1, JoinedBehind, JoinQueues
      <3>4. Kept(q, ready_threads')
        BY <1>t, <2>2, <3>3, ExtendedKept DEF sem_close, q
      <3> QED
        BY <1>g, <1>q, <2>2, <3>2, <3>4 DEF w
    <2> QED
      BY <1>1, <2>1, <2>2
  <1>8. CASE SemWait
    <2>1. PICK s \in open :
            \/ Halt(sem_wait_end(s))
            \/ sem_wait(s, code("SEM_WAIT")) /\ UNCHANGED console_vars
      BY <1>8 DEF SemWait
    <2>2. CASE sem_wait(s, code("SEM_WAIT")) /\ UNCHANGED console_vars
      <3> DEFINE v == waiting_threads[s]
      <3>1. s \in Sem /\ v \in Seq(Tcb) /\ c \notin ToSet(v)
        BY <1>t, <1>p
      <3>2. Kept(v, sem_push(v, c))
        <4>1. sem_push(v, c) \in Seq(Tcb) /\ sem_push(v, c) = scheduler_push(v, c)
          BY <1>t, <3>1, JoinQueue DEF sem_push, scheduler_push
        <4>2. Extended(v, scheduler_push(v, c))
          BY <1>t, <3>1, SameQueue, PushedBehind
        <4> QED
          BY <3>1, <4>1, <4>2, ExtendedKept
      <3>3. CASE sem_wait_blocks(s)
        <4>1. waiting_threads' = [waiting_threads EXCEPT ![s] = sem_push(v, c)]
          BY <2>2, <3>3 DEF sem_wait, c
        <4>2. Rings
          BY <1>o, <3>1, <3>2, <4>1
        <4> QED
          BY <1>g, <1>q, <1>n, <2>2, <3>3, <4>2 DEF sem_wait, q, w
      <3>4. CASE ~sem_wait_blocks(s)
        BY <1>g, <1>q, <1>s, <2>2, <3>4 DEF sem_wait, q, w
      <3> QED
        BY <3>3, <3>4
    <2> QED
      BY <1>1, <2>1, <2>2
  <1>9. CASE SemSignal
    <2>1. PICK s \in open :
            \/ Halt(sem_signal_end(s))
            \/ sem_signal(s) /\ UNCHANGED console_vars
      BY <1>9 DEF SemSignal, SignalOn
    <2>2. CASE sem_signal_unblocks(s) /\ sem_unblock_thread(s) /\ UNCHANGED console_vars
      <3> DEFINE v == waiting_threads[s]
                 t == Head(v)
      <3>1. s \in Sem /\ v \in Seq(Tcb) /\ v # <<>> /\ ToSet(v) \cap ToSet(q) = {}
        BY <1>t, <1>p, <2>2 DEF sem_signal_unblocks
      <3>2. t \in ToSet(v) /\ t \in Tcb
        BY <3>1, LeaveQueue, QueueIndices
      <3>3. Kept(v, Tail(v))
        BY <3>1, SameQueue, ExtendedKept DEF scheduler_rest
      <3>4. /\ waiting_threads' = [waiting_threads EXCEPT ![s] = Tail(v)]
            /\ ready_threads' = scheduler_push(q, t)
        BY <2>2 DEF sem_unblock_thread, q
      <3> HIDE DEF t
      <3>5. Rings
        BY <1>o, <3>1, <3>3, <3>4
      <3>6. scheduler_push(q, t) \in Seq(Tcb) /\ Extended(q, scheduler_push(q, t))
        BY <1>t, <3>1, <3>2, SameQueue, PushedBehind, JoinQueue DEF scheduler_push
      <3>7. Kept(q, ready_threads')
        BY <1>t, <3>4, <3>6, ExtendedKept
      <3> QED
        BY <1>g, <1>q, <2>2, <3>5, <3>7 DEF w
    <2>3. CASE UNCHANGED <<waiting_threads, ready_threads, console_vars>>
      BY <1>g, <1>q, <1>s, <2>3 DEF q, w
    <2> QED
      BY <1>1, <2>1, <2>2, <2>3 DEF sem_signal
  <1>10. CASE SemTimedWait
    BY <1>10 DEF SemTimedWait, Ecall, NoTimedWaits
  <1>11. CASE TimedSleep
    <2>1. PICK time \in Times :
            \/ Halt(timed_sleep_end(time))
            \/ UNCHANGED <<ready_threads, sem_vars, console_vars>>
            \/ scheduler_next(ready_threads) /\ UNCHANGED <<sem_vars, console_vars>>
      BY <1>11 DEF TimedSleep, SleepFor
    <2> QED
      BY <1>1, <1>g, <1>q, <1>s, <1>n, <2>1 DEF q, w
  <1>12. CASE TimerIrq
    <2>1. PICK k \in 0 .. Len(sleeping_threads) :
            \/ Halt(timer_end(k))
            \/ /\ scheduler_tick(k)
               /\ \/ scheduler_next(scheduler_push(ready_after_tick(k), thread_current))
                  \/ ready_threads' = ready_after_tick(k)
               /\ UNCHANGED <<sleeping_freed, console_vars>>
      BY <1>12 DEF TimerIrq
    <2>2. CASE /\ scheduler_tick(k)
               /\ \/ scheduler_next(scheduler_push(ready_after_tick(k), thread_current))
                  \/ ready_threads' = ready_after_tick(k)
               /\ UNCHANGED <<sleeping_freed, console_vars>>
      <3> DEFINE v == SubSeq(sleepers, 1, k)
                 r == ready_after_tick(k)
      <3>1. waiting_threads' = waiting_threads /\ r = q \o v
        BY <1>t, <2>1, <2>2, SleepersWake DEF ready_after_tick, q
      <3>2. v \in Seq(Tcb) /\ ToSet(v) \subseteq ToSet(sleepers)
        <4>1. sleepers \in Seq(Tcb) /\ k \in 0 .. Len(sleepers)
          BY <1>t, <2>1, NamesOf DEF sleepers, SleepersTyped
        <4> QED
          BY <4>1, SplitQueue
      <3> HIDE DEF v, r
      <3>3. r \in Seq(Tcb) /\ Extended(q, r)
        BY <1>t, <1>p, <3>1, <3>2, JoinQueues, JoinedBehind
      <3>4. scheduler_push(r, c) \in Seq(Tcb) /\ Extended(q, scheduler_push(r, c))
        <4>1. scheduler_push(r, c) \in Seq(Tcb)
          BY <1>t, <3>3, JoinQueue DEF scheduler_push
        <4> QED
          BY <1>t, <1>p, <3>3, <4>1, PushedBehind
      <3>5. Kept(q, ready_threads')
        <4>1. Kept(q, r) /\ Kept(q, scheduler_rest(scheduler_push(r, c)))
          BY <1>t, <3>3, <3>4, ExtendedKept
        <4> QED
          BY <1>n, <2>2, <4>1 DEF r, c
      <3> QED
        BY <1>g, <1>q, <1>s, <2>2, <3>1, <3>5 DEF w
    <2> QED
      BY <1>1, <2>1, <2>2
  <1>13. CASE Getc
    <2>1. CASE getc_block(code("GETC")) /\ UNCHANGED sem_vars
      <3>1. Append(w, c) = scheduler_push(w, c) /\ scheduler_push(w, c) \in Seq(Tcb)
        BY <1>t, JoinQueue DEF scheduler_push
      <3>2. Extended(w, scheduler_push(w, c))
        BY <1>t, <1>p, SameQueue, PushedBehind
      <3>3. Kept(w, threads_waiting_for_input')
        BY <1>t, <2>1, <3>1, <3>2, ExtendedKept DEF getc_block, w, c
      <3> QED
        BY <1>g, <1>q, <1>s, <1>n, <2>1, <3>3 DEF getc_block, q
    <2>2. CASE getc_take(code("GETC")) /\ UNCHANGED sem_vars
      BY <1>g, <1>q, <1>s, <2>2 DEF getc_take, q, w
    <2> QED
      BY <1>1, <1>13, <2>1, <2>2 DEF Getc
  <1>14. CASE HwIrq
    <2>1. CASE console_receive /\ typed' = typed /\ UNCHANGED sem_vars
      <3>1. unblocked_cnt \in 0 .. Len(w)
        BY <1>t, <2>1, ReceiveAdvances DEF w
      <3>2. unblocked \in Seq(Tcb) /\ ToSet(unblocked) \subseteq ToSet(w)
        BY <1>t, <3>1, SplitQueue DEF unblocked, w
      <3>3. q \o unblocked \in Seq(Tcb) /\ Extended(q, q \o unblocked)
        BY <1>t, <1>p, <3>2, JoinQueues, JoinedBehind
      <3>4. Kept(q, ready_threads')
        BY <1>t, <2>1, <3>3, ExtendedKept DEF console_receive, q
      <3>5. Kept(w, threads_waiting_for_input')
        BY <1>t, <2>1, <3>1, LeftKept DEF console_receive, still_waiting, Without, w
      <3> QED
        BY <1>g, <1>s, <2>1, <3>4, <3>5
    <2> QED
      BY <1>1, <1>14, <2>1 DEF HwIrq
  <1> QED
    BY <1>2, <1>3, <1>4, <1>5, <1>6, <1>7, <1>8, <1>9, <1>10, <1>11, <1>12, <1>13,
       <1>14 DEF Next, Syscall

\* First come, first served, for any number of threads and semaphores: in the
\* ready ring, in the ring of a semaphore and in the ring of getc no step puts
\* a thread ahead of one that stays, whether it wakes one thread, as
\* __sem_signal does, or many, as __sem_close, __scheduler_tick and
\* __console_receive do.
THEOREM NoOvertakingTheorem ==
  ASSUME NoTimedWaits
  PROVE  Spec => NoOvertaking
  <1>1. KernelInv /\ [Next]_vars => KernelInv'
    BY KernelInvNext
  <1>2. KernelInv /\ [Next]_vars =>
          [LET kept(q, r) == \A t \in ToSet(q) \cap ToSet(r), u \in Tcb :
                 Before(r, u, t) => Before(q, u, t)
           IN halted' = "no" =>
                /\ kept(ready_threads, ready_threads')
                /\ kept(threads_waiting_for_input, threads_waiting_for_input')
                /\ \A s \in Sem : kept(waiting_threads[s], waiting_threads'[s])]_vars
    BY OrderNext DEF OrderStep, Kept
  <1> QED
    BY <1>1, <1>2, KernelInvInit, PTL DEF Spec, NoOvertaking

-----------------------------------------------------------------------------
(* A wait returns its own outcome.                                         *)

\* The semaphores whose ring thread t leaves in a step.
Leaves(t) == {s \in Sem : /\ t \in ToSet(waiting_threads[s])
                          /\ t \notin ToSet(waiting_threads'[s])}

\* What WaitOutcome says of a step and a thread.
OutcomeStep(t) ==
  IF Leaves(t) = {}
  THEN a0'[t] # a0[t] => t = thread_current \/ Served(t)
  ELSE /\ t \in ToSet(ready_threads')
       /\ a0'[t] = IF Leaves(t) \subseteq open' THEN 0 ELSE SEM_CLOSED_EXTERNALLY

\* One ring is written: t leaves at most this one.
LEMMA LeavesOne ==
  ASSUME QueuesTyped, NEW s \in Sem, NEW w,
         waiting_threads' = [waiting_threads EXCEPT ![s] = w],
         NEW t
  PROVE  Leaves(t) = IF t \in ToSet(waiting_threads[s]) /\ t \notin ToSet(w) THEN {s} ELSE {}
  <1>1. waiting_threads'[s] = w /\ \A x \in Sem : x # s => waiting_threads'[x] = waiting_threads[x]
    BY DEF QueuesTyped
  <1> QED
    BY <1>1 DEF Leaves

LEMMA OutcomeNext ==
  ASSUME NoTimedWaits
  PROVE  KernelInv /\ [Next]_vars => (halted' = "no" => \A t \in Thread : OutcomeStep(t))
  <1> SUFFICES ASSUME KernelInv, [Next]_vars, halted' = "no", NEW t \in Thread
               PROVE  OutcomeStep(t)
    OBVIOUS
  <1> USE DEF sem_vars, console_vars, input_vars
  <1>t. /\ ready_threads \in Seq(Tcb) /\ threads_waiting_for_input \in Seq(Tcb)
        /\ waiting_threads \in [Sem -> Seq(Tcb)]
        /\ thread_current \in Tcb /\ t \in Tcb /\ open \subseteq Sem
        /\ SleepersTyped /\ QueuesTyped /\ InputInv /\ OnlySleeps
        /\ a0 \in [Tcb -> Results]
    BY DEF KernelInv, PlaceInv, TypeInv, QueuesTyped, InputInv, CountInv, ResultsTyped, Tcb
  <1>p. /\ NoDuplicates(threads_waiting_for_input)
        /\ \A s \in Sem : /\ NoDuplicates(waiting_threads[s])
                          /\ thread_current \notin ToSet(waiting_threads[s])
        /\ \A s \in Sem \ open : waiting_threads[s] = <<>>
    <2>1. \A s \in Sem : ToSet(waiting_threads[s]) \subseteq Waiters(Sem)
      BY DEF Waiters
    <2> QED
      BY <2>1, PlacesSeen DEF KernelInv, PlaceInv, RingsApart, ReaderInv, Linked
  <1>f. ASSUME waiting_threads' = waiting_threads, t # thread_current => a0'[t] = a0[t]
        PROVE  OutcomeStep(t)
    <2>1. Leaves(t) = {}
      BY <1>f DEF Leaves
    <2> QED
      BY <1>f, <2>1 DEF OutcomeStep
  <1>a. ASSUME NEW x, a0' = [a0 EXCEPT ![thread_current] = x]
        PROVE  t # thread_current => a0'[t] = a0[t]
    BY <1>a, <1>t
  <1>1. ASSUME NEW end, Halt(end)
        PROVE  FALSE
    BY <1>1 DEF Halt, Ends
  <1>2. CASE \/ ThreadCreate \/ ThreadCreateNoMemory \/ ThreadExit \/ ThreadDispatch
             \/ SemOpenNoMemory \/ TimedSleep
    BY <1>1, <1>2, <1>f, <1>a DEF ThreadCreate, ThreadCreateNoMemory, ThreadExit,
       ThreadDispatch, SemOpenNoMemory, TimedSleep, SleepFor
  <1>3. CASE \/ Unserved \/ IllegalOperation \/ PutcAccepted \/ PutcRefused
             \/ KeyPress \/ KernelDispatch \/ KernelCheck \/ Off \/ UNCHANGED vars
    BY <1>1, <1>3, <1>f, <1>a DEF Unserved, unserved, IllegalOperation, PutcAccepted,
       PutcRefused, KeyPress, KernelDispatch, KernelCheck, stop, Off, vars
  <1>4. CASE Getc
    BY <1>1, <1>4, <1>f, <1>a DEF Getc, getc_block, getc_take
  <1>5. CASE SemOpen
    <2>1. PICK s \in Sem \ open, init \in Inits : Halt(sem_open_end) \/ sem_open(s, init)
      BY <1>5 DEF SemOpen
    <2>2. CASE sem_open(s, init)
      <3>1. waiting_threads' = waiting_threads
        BY <1>t, <1>p, <2>2 DEF sem_open
      <3> QED
        BY <1>f, <1>a, <2>2, <3>1 DEF sem_open
    <2> QED
      BY <1>1, <2>1, <2>2
  <1>6. CASE SemClose
    <2>1. PICK s \in open : Halt(sem_close_end(s)) \/ sem_close(s)
      BY <1>6 DEF SemClose
    <2>2. CASE sem_close(s)
      <3> DEFINE w == waiting_threads[s]
      <3>1. s \in Sem /\ w \in Seq(Tcb) /\ thread_current \notin ToSet(w)
        BY <1>t, <1>p
      <3>2. Leaves(t) = IF t \in ToSet(w) THEN {s} ELSE {}
        <4>1. waiting_threads' = [waiting_threads EXCEPT ![s] = <<>>]
          BY <2>2 DEF sem_close
        <4> QED
          BY <1>t, <3>1, <4>1, LeavesOne, EmptyQueue
      <3>3. a0'[t] = CASE t = thread_current -> 0
                       [] t \in ToSet(w) -> SEM_CLOSED_EXTERNALLY
                       [] OTHER -> a0[t]
        BY <1>t, <2>2 DEF sem_close
      <3>4. CASE t \in ToSet(w)
        <4>1. t \in ToSet(ready_threads')
          BY <1>t, <2>2, <3>1, <3>4, JoinQueues DEF sem_close
        <4>2. a0'[t] = SEM_CLOSED_EXTERNALLY
          BY <3>1, <3>3, <3>4
        <4>3. s \notin open'
          BY <2>2 DEF sem_close
        <4> QED
          BY <3>2, <3>4, <4>1, <4>2, <4>3 DEF OutcomeStep
      <3>5. CASE t \notin ToSet(w)
        BY <3>2, <3>3, <3>5 DEF OutcomeStep
      <3> QED
        BY <3>4, <3>5
    <2> QED
      BY <1>1, <2>1, <2>2
  <1>7. CASE SemWait
    <2>1. PICK s \in open : Halt(sem_wait_end(s)) \/ sem_wait(s, code("SEM_WAIT"))
      BY <1>7 DEF SemWait
    <2>2. CASE sem_wait(s, code("SEM_WAIT")) /\ sem_wait_blocks(s)
      <3> DEFINE w == waiting_threads[s]
                 v == sem_push(w, thread_current)
      <3>1. s \in Sem /\ ToSet(v) = ToSet(w) \cup {thread_current}
        BY <1>t, JoinQueue DEF sem_push
      <3>2. waiting_threads' = [waiting_threads EXCEPT ![s] = v]
        BY <2>2 DEF sem_wait
      <3> HIDE DEF v
      <3>3. Leaves(t) = {}
        BY <1>t, <3>1, <3>2, LeavesOne
      <3>4. a0' = [a0 EXCEPT ![thread_current] = code("SEM_WAIT")]
        BY <2>2 DEF sem_wait
      <3> QED
        BY <1>a, <3>3, <3>4 DEF OutcomeStep
    <2>3. CASE sem_wait(s, code("SEM_WAIT")) /\ ~sem_wait_blocks(s)
      BY <1>f, <1>a, <2>3 DEF sem_wait
    <2> QED
      BY <1>1, <2>1, <2>2, <2>3
  <1>8. CASE SemSignal
    <2>1. PICK s \in open : Halt(sem_signal_end(s)) \/ (sem_signal(s) /\ open' = open)
      BY <1>8 DEF SemSignal, SignalOn
    <2>2. CASE sem_signal_unblocks(s) /\ sem_unblock_thread(s) /\ open' = open
      <3> DEFINE w == waiting_threads[s]
                 first == Head(w)
      <3>1. s \in Sem /\ w \in Seq(Tcb) /\ NoDuplicates(w) /\ w # <<>>
        BY <1>t, <1>p, <2>2 DEF sem_signal_unblocks
      <3>2. /\ first \in ToSet(w) /\ first \notin ToSet(Tail(w)) /\ first \in Tcb
            /\ ToSet(w) = ToSet(Tail(w)) \cup {first}
        BY <3>1, LeaveQueue, QueueIndices
      <3>3. /\ waiting_threads' = [waiting_threads EXCEPT ![s] = Tail(w)]
            /\ ready_threads' = scheduler_push(ready_threads, first)
            /\ a0' = [a0 EXCEPT ![first] = 0, ![thread_current] = 0]
        BY <2>2 DEF sem_unblock_thread
      <3> HIDE DEF first
      <3>4. Leaves(t) = IF t = first THEN {s} ELSE {}
        BY <1>t, <3>1, <3>2, <3>3, LeavesOne
      <3>5. CASE t = first
        <4>1. t \in ToSet(ready_threads')
          BY <1>t, <3>2, <3>3, <3>5, JoinQueue DEF scheduler_push
        <4>2. a0'[t] = 0 /\ s \in open'
          BY <1>t, <2>1, <2>2, <3>3, <3>5
        <4> QED
          BY <3>4, <3>5, <4>1, <4>2 DEF OutcomeStep
      <3>6. CASE t # first
        <4>1. t # thread_current => a0'[t] = a0[t]
          BY <1>t, <3>3, <3>6
        <4> QED
          BY <3>4, <3>6, <4>1 DEF OutcomeStep
      <3> QED
        BY <3>5, <3>6
    <2>3. CASE sem_signal(s) /\ ~sem_signal_unblocks(s)
      BY <1>f, <1>a, <2>3 DEF sem_signal
    <2> QED
      BY <1>1, <2>1, <2>2, <2>3 DEF sem_signal
  <1>9. CASE SemTimedWait
    BY <1>9 DEF SemTimedWait, Ecall, NoTimedWaits
  <1>10. CASE TimerIrq
    <2>1. PICK k \in 0 .. Len(sleeping_threads) :
            \/ Halt(timer_end(k))
            \/ scheduler_tick(k) /\ UNCHANGED <<a0, sleeping_freed>>
      BY <1>10 DEF TimerIrq
    <2>2. CASE scheduler_tick(k) /\ UNCHANGED <<a0, sleeping_freed>>
      <3>1. waiting_threads' = waiting_threads
        BY <1>t, <2>1, <2>2, SleepersWake
      <3> QED
        BY <1>f, <2>2, <3>1
    <2> QED
      BY <1>1, <2>1, <2>2
  <1>11. CASE HwIrq
    <2>1. CASE console_receive /\ typed' = typed /\ UNCHANGED sem_vars
      <3>1. unblocked_cnt \in 0 .. Len(threads_waiting_for_input)
        BY <1>t, <2>1, ReceiveAdvances
      <3>2. /\ ToSet(unblocked) \subseteq ToSet(threads_waiting_for_input)
            /\ ToSet(unblocked) \cap ToSet(still_waiting) = {}
        BY <1>t, <1>p, <3>1, SplitQueue DEF unblocked, still_waiting, Without
      <3>3. CASE t \in ToSet(unblocked)
        <4>1. Served(t)
          BY <2>1, <3>2, <3>3 DEF Served, console_receive
        <4>2. Leaves(t) = {}
          BY <2>1 DEF Leaves
        <4> QED
          BY <4>1, <4>2 DEF OutcomeStep
      <3>4. CASE t \notin ToSet(unblocked)
        <4>1. a0'[t] = a0[t]
          BY <1>t, <2>1, <3>4 DEF console_receive
        <4> QED
          BY <1>f, <2>1, <4>1
      <3> QED
        BY <3>3, <3>4
    <2> QED
      BY <1>1, <1>11, <2>1 DEF HwIrq
  <1> QED
    BY <1>2, <1>3, <1>4, <1>5, <1>6, <1>7, <1>8, <1>9, <1>10, <1>11 DEF Next, Syscall

\* For any number of threads and semaphores a thread leaves the ring of a
\* semaphore only into the ready ring, with 0 in its frame when __sem_signal
\* woke it and with the error when __sem_close did; no handler writes the
\* result of a thread that is neither calling nor being woken.
THEOREM WaitOutcomeTheorem ==
  ASSUME NoTimedWaits
  PROVE  Spec => WaitOutcome
  <1>1. KernelInv /\ [Next]_vars => KernelInv'
    BY KernelInvNext
  <1>2. KernelInv /\ [Next]_vars =>
          [halted' = "no" =>
             \A t \in Thread :
               LET left == {s \in Sem : /\ t \in ToSet(waiting_threads[s])
                                        /\ t \notin ToSet(waiting_threads'[s])}
               IN IF left = {}
                  THEN a0'[t] # a0[t] => t = thread_current \/ Served(t)
                  ELSE /\ t \in ToSet(ready_threads')
                       /\ a0'[t] = IF left \subseteq open' THEN 0
                                                           ELSE SEM_CLOSED_EXTERNALLY
          ]_vars
    BY OutcomeNext DEF OutcomeStep, Leaves
  <1> QED
    BY <1>1, <1>2, KernelInvInit, PTL DEF Spec, WaitOutcome

-----------------------------------------------------------------------------
(* Sums of deltas.  The order in which a sum takes its elements does not   *)
(* matter, so the sum up to an entry is the sum up to the one before it    *)
(* and the entry's delta.                                                  *)

\* Ticks from now until entry i of list s is over, before they are cut to the
\* width of time_t.
ticks(s, i) == MapThenSumSet(LAMBDA j : s[j].delta, 1 .. i)

LEMMA SmallSets ==
  ASSUME NEW S, IsFiniteSet(S), NEW n \in Nat, NEW T \in Small(S, n + 1), NEW x \in T
  PROVE  T \ {x} \in Small(S, n) /\ T \in SUBSET S /\ T \ {x} \in SUBSET S
  <1>1. T \in SUBSET S /\ IsFiniteSet(T) /\ Cardinality(T) <= n + 1
    BY FS_Subset DEF Small
  <1>2. Cardinality(T \ {x}) = Cardinality(T) - 1 /\ Cardinality(T) \in Nat
    BY <1>1, FS_RemoveElement, FS_CardinalityType
  <1> QED
    BY <1>1, <1>2 DEF Small

\* What is added up over S.
SameOn(S, d, e) == \A x \in S : d[x] = e[x]

LEMMA SumsAgree ==
  ASSUME NEW U, NEW S \in SUBSET U, IsFiniteSet(S), NEW d, NEW e, SameOn(S, d, e),
         NEW g, Sums(g, d, SUBSET S), NEW h, Sums(h, e, SUBSET U)
  PROVE  SameOn({S}, g, h)
  <1> DEFINE Agreed == {n \in Nat : \A T \in Small(S, n) : g[T] = h[T]}
  <1>0. \A T \in SUBSET S : g[T] = Unfold(g, d, T) /\ h[T] = Unfold(h, e, T)
    BY DEF Sums
  <1>1. 0 \in Agreed
    <2>1. \A T \in Small(S, 0) : T = {} /\ T \in SUBSET S
      BY FS_Subset, FS_EmptySet, FS_CardinalityType DEF Small
    <2>2. \A T \in Small(S, 0) : g[T] = 0 /\ h[T] = 0
      BY <1>0, <2>1 DEF Unfold
    <2> QED
      BY <2>2
  <1>2. ASSUME NEW n \in Nat, n \in Agreed
        PROVE  n + 1 \in Agreed
    <2>1. ASSUME NEW T \in Small(S, n + 1)
          PROVE  g[T] = h[T]
      <3>1. CASE T = {}
        BY <1>0, <3>1 DEF Unfold
      <3>2. CASE T # {}
        <4> DEFINE x == pick(T)
                   V == T \ {x}
        <4>1. x \in T
          BY <3>2, PickOne
        <4>2. V \in Small(S, n) /\ T \in SUBSET S
          BY <4>1, SmallSets
        <4>3. g[T] = d[x] + g[V] /\ h[T] = e[x] + h[V]
          BY <1>0, <3>2, <4>2 DEF Unfold
        <4>4. d[x] = e[x] /\ g[V] = h[V]
          BY <1>2, <4>1, <4>2 DEF SameOn
        <4> QED
          BY <4>3, <4>4
      <3> QED
        BY <3>1, <3>2
    <2> QED
      BY <2>1
  <1> HIDE DEF Agreed
  <1>3. Cardinality(S) \in Agreed
    BY <1>1, <1>2, InductiveSet, FS_CardinalityType
  <1> QED
    BY <1>3, FS_Subset DEF Agreed, Small, SameOn

\* The sum g of d over S, taking x first, for any x.
AnyFirst(g, d, S) == \A x \in S : g[S] = d[x] + g[S \ {x}]

LEMMA SumsInAnyOrder ==
  ASSUME NEW S, IsFiniteSet(S), NEW d \in [S -> Int], NEW g, Sums(g, d, SUBSET S)
  PROVE  AnyFirst(g, d, S)
  <1> DEFINE Free == {n \in Nat : \A T \in Small(S, n) : \A x \in T : g[T] = d[x] + g[T \ {x}]}
  <1>0. \A T \in SUBSET S : g[T] = Unfold(g, d, T) /\ g[T] \in Int
    BY SumsTyped DEF Sums
  <1>1. 0 \in Free
    <2>1. \A T \in Small(S, 0) : T = {}
      BY FS_Subset, FS_EmptySet, FS_CardinalityType DEF Small
    <2> QED
      BY <2>1
  <1>2. ASSUME NEW n \in Nat, n \in Free
        PROVE  n + 1 \in Free
    <2>1. ASSUME NEW T \in Small(S, n + 1), NEW x \in T
          PROVE  g[T] = d[x] + g[T \ {x}]
      <3> DEFINE y == pick(T)
                 X == T \ {x}
                 Y == T \ {y}
      <3>1. y \in T
        BY PickOne
      <3>2. X \in Small(S, n) /\ Y \in Small(S, n) /\ T \in SUBSET S
        BY <3>1, SmallSets
      <3>3. g[T] = d[y] + g[Y]
        BY <1>0, <3>1, <3>2 DEF Unfold
      <3>4. CASE x # y
        <4>1. x \in Y /\ y \in X /\ X \ {y} = Y \ {x} /\ Y \ {x} \in SUBSET S
          BY <3>1, <3>2, <3>4
        <4>2. g[Y] = d[x] + g[Y \ {x}] /\ g[X] = d[y] + g[X \ {y}]
          BY <1>2, <3>2, <4>1
        <4>3. g[Y \ {x}] \in Int /\ d[x] \in Int /\ d[y] \in Int
          BY <1>0, <3>1, <3>2, <4>1
        <4> DEFINE z == g[Y \ {x}]
        <4>4. g[T] = d[y] + (d[x] + z) /\ g[X] = d[y] + z
          BY <3>3, <4>1, <4>2
        <4>5. d[y] + (d[x] + z) = d[x] + (d[y] + z)
          <5> HIDE DEF z, y
          <5> QED BY <4>3 DEF z
        <4> HIDE DEF X, z, y
        <4>6. g[T] = d[x] + g[X]
          BY <4>4, <4>5
        <4> QED
          BY <4>6 DEF X
      <3> QED
        BY <3>3, <3>4
    <2> QED
      BY <2>1
  <1> HIDE DEF Free
  <1>3. Cardinality(S) \in Free
    BY <1>1, <1>2, InductiveSet, FS_CardinalityType
  <1> QED
    BY <1>3, FS_Subset DEF Free, Small, AnyFirst

LEMMA TicksSum ==
  ASSUME NEW s, NEW i \in Nat, \A j \in 1 .. i : s[j].delta \in Int
  PROVE  \E g : /\ Sums(g, [j \in 1 .. i |-> s[j].delta], SUBSET (1 .. i))
                /\ ticks(s, i) = g[1 .. i]
                /\ ticks(s, i) \in Int
  <1> DEFINE S == 1 .. i
             d == [j \in S |-> s[j].delta]
             g == CHOOSE h : Sums(h, d, SUBSET S)
  <1>1. IsFiniteSet(S) /\ d \in [S -> Int]
    BY FS_Interval
  <1>2. Sums(g, d, SUBSET S)
    <2> HIDE DEF d, S
    <2> QED BY <1>1, SumsExist
  <1>3. g[S] \in Int
    <2> HIDE DEF d, S
    <2> QED BY <1>1, <1>2, SumsTyped
  <1>4. MapThenSumSet(LAMBDA j : s[j].delta, S) = g[S]
    BY DEF MapThenSumSet, MapThenFoldSet, Sums, Unfold, pick
  <1>5. ticks(s, i) = g[S]
    BY <1>4 DEF ticks
  <1> HIDE DEF g
  <1> QED
    BY <1>2, <1>3, <1>5

LEMMA TicksFrom0 == \A s : ticks(s, 0) = 0
  <1> SUFFICES ASSUME NEW s PROVE ticks(s, 0) = 0
    OBVIOUS
  <1>1. 1 .. 0 = {}
    OBVIOUS
  <1>2. PICK g : Sums(g, [j \in 1 .. 0 |-> s[j].delta], SUBSET (1 .. 0)) /\ ticks(s, 0) = g[1 .. 0]
    BY <1>1, TicksSum
  <1> QED
    BY <1>1, <1>2 DEF Sums, Unfold

\* One element more.
LEMMA SumsOneMore ==
  ASSUME NEW U, IsFiniteSet(U), NEW x \in U, NEW d, NEW e \in [U -> Int],
         SameOn(U \ {x}, d, e),
         NEW g, Sums(g, d, SUBSET (U \ {x})), NEW h, Sums(h, e, SUBSET U)
  PROVE  h[U] = g[U \ {x}] + e[x]
  <1>1. IsFiniteSet(U \ {x}) /\ U \ {x} \subseteq U
    BY FS_Subset
  <1> DEFINE S == U \ {x}
  <1>2. g[S] = h[S]
    <2>1. IsFiniteSet(S) /\ S \in SUBSET U /\ SameOn(S, d, e) /\ Sums(g, d, SUBSET S)
      BY <1>1
    <2> HIDE DEF S
    <2>2. SameOn({S}, g, h)
      BY <2>1, SumsAgree
    <2> QED
      BY <2>2 DEF SameOn
  <1>3. h[U] = e[x] + h[U \ {x}]
    <2>1. AnyFirst(h, e, U)
      BY SumsInAnyOrder
    <2> QED
      BY <2>1 DEF AnyFirst
  <1>4. h[U \ {x}] \in Int /\ e[x] \in Int
    BY <1>1, SumsTyped
  <1> QED
    BY <1>2, <1>3, <1>4

\* One entry more.
LEMMA TicksAdd ==
  ASSUME NEW s, NEW i \in Nat, \A j \in 1 .. i + 1 : s[j].delta \in Int
  PROVE  ticks(s, i + 1) = ticks(s, i) + s[i + 1].delta
  <1> DEFINE S == 1 .. i
             U == 1 .. i + 1
             d == [j \in S |-> s[j].delta]
             e == [j \in U |-> s[j].delta]
  <1>1. /\ IsFiniteSet(U) /\ i + 1 \in U /\ U \ {i + 1} = S
        /\ i + 1 \in Nat /\ \A j \in S : s[j].delta \in Int
    BY FS_Interval
  <1>2. e \in [U -> Int] /\ SameOn(S, d, e) /\ e[i + 1] = s[i + 1].delta
    BY <1>1 DEF SameOn
  <1>3. PICK g : Sums(g, d, SUBSET S) /\ ticks(s, i) = g[S]
    BY <1>1, TicksSum
  <1>4. PICK h : Sums(h, e, SUBSET U) /\ ticks(s, i + 1) = h[U]
    BY <1>1, TicksSum
  <1> HIDE DEF d, e, S, U
  <1>5. h[U] = g[S] + e[i + 1]
    <2>1. SameOn(U \ {i + 1}, d, e) /\ Sums(g, d, SUBSET (U \ {i + 1}))
      BY <1>1, <1>2, <1>3
    <2>2. IsFiniteSet(U) /\ i + 1 \in U /\ e \in [U -> Int] /\ Sums(h, e, SUBSET U)
      BY <1>1, <1>2, <1>4
    <2>3. h[U] = g[U \ {i + 1}] + e[i + 1]
      BY <2>1, <2>2, SumsOneMore
    <2> QED
      BY <1>1, <2>3
  <1> QED
    BY <1>2, <1>3, <1>4, <1>5

-----------------------------------------------------------------------------
(* Sleeps last as long as asked.                                           *)

\* b has the totals of the first n deltas of s.
Totals(b, s, n) == b[0] = 0 /\ \A i \in 1 .. n : b[i] = b[i - 1] + s[i].delta

Deltas(s, n) == \A j \in 1 .. n : s[j].delta \in Int

LEMMA TicksUpTo ==
  ASSUME NEW s, NEW n \in Nat, Deltas(s, n)
  PROVE  /\ \A i \in 0 .. n : ticks(s, i) \in Int
         /\ \A i \in 1 .. n : ticks(s, i) = ticks(s, i - 1) + s[i].delta
  <1>1. ASSUME NEW i \in 0 .. n
        PROVE  ticks(s, i) \in Int
    <2>1. i \in Nat /\ \A j \in 1 .. i : s[j].delta \in Int
      BY DEF Deltas
    <2> QED
      BY <2>1, TicksSum
  <1>2. ASSUME NEW i \in 1 .. n
        PROVE  ticks(s, i) = ticks(s, i - 1) + s[i].delta
    <2> DEFINE m == i - 1
    <2>1. m \in Nat /\ m + 1 = i /\ \A j \in 1 .. m + 1 : s[j].delta \in Int
      BY DEF Deltas
    <2> HIDE DEF m
    <2>2. ticks(s, m + 1) = ticks(s, m) + s[m + 1].delta
      BY <2>1, TicksAdd
    <2> QED
      BY <2>1, <2>2 DEF m
  <1> QED
    BY <1>1, <1>2

\* The totals are unique.
LEMMA TicksAre ==
  ASSUME NEW s, NEW n \in Nat, Deltas(s, n), NEW b, Totals(b, s, n)
  PROVE  \A i \in 0 .. n : ticks(s, i) = b[i]
  <1> DEFINE Same == {i \in Nat : i <= n => ticks(s, i) = b[i]}
  <1>1. 0 \in Same
    BY TicksFrom0 DEF Totals
  <1>2. ASSUME NEW i \in Nat, i \in Same
        PROVE  i + 1 \in Same
    <2> SUFFICES ASSUME i + 1 <= n
                 PROVE  ticks(s, i + 1) = b[i + 1]
      OBVIOUS
    <2>1. i + 1 \in 1 .. n /\ i + 1 - 1 = i /\ ticks(s, i) = b[i]
      BY <1>2
    <2>2. ticks(s, i + 1) = ticks(s, i) + s[i + 1].delta
      BY <2>1, TicksUpTo
    <2>3. b[i + 1] = b[i] + s[i + 1].delta
      BY <2>1 DEF Totals
    <2> QED
      BY <2>1, <2>2, <2>3
  <1> HIDE DEF Same
  <1>3. Nat \subseteq Same
    BY <1>1, <1>2, InductiveSet
  <1> QED
    BY <1>3 DEF Same

\* The entries of the list are in the order in which they are due.
LEMMA TicksGrow ==
  ASSUME NEW s, NEW n \in Nat, \A j \in 1 .. n : s[j].delta \in Nat,
         NEW i \in 0 .. n, NEW j \in i .. n
  PROVE  ticks(s, i) <= ticks(s, j)
  <1> DEFINE Later == {m \in Nat : i + m <= n => ticks(s, i) <= ticks(s, i + m)}
  <1>0. Deltas(s, n)
    BY DEF Deltas
  <1>i. \A l \in 0 .. n : ticks(s, l) \in Int
    BY <1>0, TicksUpTo
  <1>1. 0 \in Later
    BY <1>i
  <1>2. ASSUME NEW m \in Nat, m \in Later
        PROVE  m + 1 \in Later
    <2> SUFFICES ASSUME i + (m + 1) <= n
                 PROVE  ticks(s, i) <= ticks(s, i + (m + 1))
      OBVIOUS
    <2> DEFINE l == i + m
    <2>1. l \in 0 .. n /\ l + 1 \in 1 .. n /\ l + 1 - 1 = l /\ i + (m + 1) = l + 1
      OBVIOUS
    <2>2. ticks(s, i) <= ticks(s, l)
      BY <1>2, <2>1
    <2> HIDE DEF l
    <2>3. ticks(s, l + 1) = ticks(s, l) + s[l + 1].delta
      BY <1>0, <2>1, TicksUpTo
    <2>4. ticks(s, i) \in Int /\ ticks(s, l) \in Int /\ s[l + 1].delta \in Nat
      BY <1>i, <2>1
    <2>5. ticks(s, i) <= ticks(s, l + 1)
      BY <2>2, <2>3, <2>4
    <2> QED
      BY <2>1, <2>5
  <1> HIDE DEF Later
  <1>3. Nat \subseteq Later
    BY <1>1, <1>2, InductiveSet
  <1>4. j - i \in Nat /\ i + (j - i) = j /\ j <= n
    OBVIOUS
  <1> QED
    BY <1>3, <1>4 DEF Later

LEMMA NoWrap == \A x \in Time : x % TIME_MOD = x
  BY KernelAssumption DEF Time

\* Every timeout is a sleep that is not over and shorter than time_t can count,
\* and no thread has two.
Sound(s) ==
  /\ s \in Seq(Sleeper)
  /\ NoDuplicates(names(s))
  /\ \A i \in 1 .. Len(s) : /\ s[i].semaphore = NULL
                            /\ ticks(s, i) \in 1 .. TIME_MOD - 1

\* The ticks left of each thread in list s.
left_in(s) ==
  [t \in Thread |->
     LET entries == {i \in DOMAIN s : s[i].thread = t /\ s[i].semaphore = NULL}
     IN IF entries = {} THEN 0 ELSE due(s, Min(entries))]

LEMMA LeftIn ==
  ASSUME NEW s, Sound(s), NEW t \in Thread
  PROVE  /\ \A i \in 1 .. Len(s) : s[i].thread = t => left_in(s)[t] = ticks(s, i)
         /\ (\A i \in 1 .. Len(s) : s[i].thread # t) => left_in(s)[t] = 0
  <1> DEFINE E == {i \in DOMAIN s : s[i].thread = t /\ s[i].semaphore = NULL}
  <1>1. Len(s) \in Nat /\ DOMAIN s = 1 .. Len(s)
    BY LenProperties DEF Sound
  <1>2. left_in(s)[t] = IF E = {} THEN 0 ELSE due(s, Min(E))
    BY DEF left_in
  <1>3. ASSUME NEW i \in 1 .. Len(s), s[i].thread = t
        PROVE  left_in(s)[t] = ticks(s, i)
    <2>1. E = {i}
      <3>1. \A j \in 1 .. Len(s) : names(s)[j] = s[j].thread
        BY <1>1 DEF names
      <3>2. DOMAIN names(s) = 1 .. Len(s)
        BY <1>1 DEF names
      <3>3. ASSUME NEW j \in 1 .. Len(s), s[j].thread = t
            PROVE  j = i
        BY <1>3, <3>1, <3>2, <3>3 DEF Sound, NoDuplicates
      <3> QED
        BY <1>1, <1>3, <3>3 DEF Sound
    <2>2. i \in Nat /\ {i} \in SUBSET Nat /\ {i} # {}
      BY <1>1
    <2>3. Min(E) = i
      BY <2>1, <2>2, LeastNatural
    <2>4. ticks(s, i) \in Time
      BY KernelAssumption DEF Sound, Time
    <2>5. due(s, i) = ticks(s, i) % TIME_MOD
      BY DEF due, ticks
    <2> QED
      BY <1>2, <2>1, <2>3, <2>4, <2>5, NoWrap
  <1>4. ASSUME \A i \in 1 .. Len(s) : s[i].thread # t
        PROVE  left_in(s)[t] = 0
    <2>1. E = {}
      BY <1>1, <1>4
    <2> QED
      BY <1>2, <2>1
  <1> QED
    BY <1>3, <1>4

\* The list after __scheduler_timeout, entry by entry.
LEMMA TimeoutEntries ==
  ASSUME SleepersTyped, NEW t, NEW time, NEW s, NEW p \in 1 .. Len(sleeping_threads) + 1,
         sleeping_threads' = timeout_linked(t, time, s, p)
  PROVE  LET old == sleeping_threads
             n == Len(sleeping_threads)
             new == sleeping_threads'
         IN /\ n \in Nat /\ DOMAIN new = 1 .. n + 1
            /\ \A i \in 1 .. n : /\ i < p => new[i] = old[i]
                                 /\ i >= p => new[i + 1].thread = old[i].thread
                                 /\ i > p => new[i + 1] = old[i]
            /\ new[p].thread = t
            /\ new[p].delta = IF p = 1 THEN time ELSE (time - due(old, p - 1)) % TIME_MOD
            /\ p <= n => new[p + 1].delta = (old[p].delta - new[p].delta) % TIME_MOD
  <1> DEFINE old == sleeping_threads
             n == Len(sleeping_threads)
             new == sleeping_threads'
             d == IF p = 1 THEN time ELSE (time - due(old, p - 1)) % TIME_MOD
  <1>1. n \in Nat
    BY SleeperFields
  <1>2. new = [i \in 1 .. n + 1 |->
                 CASE i < p     -> old[i]
                   [] i = p     -> [thread |-> t, semaphore |-> s, delta |-> d]
                   [] i = p + 1 -> with_delta(old[p], old[p].delta - d)
                   [] OTHER     -> old[i - 1]]
    BY DEF timeout_linked
  <1> HIDE DEF d, n, old, new
  <1>3. DOMAIN new = 1 .. n + 1
    BY <1>2
  <1>4. \A i \in 1 .. n : i < p => new[i] = old[i]
    BY <1>1, <1>2
  <1>5. new[p] = [thread |-> t, semaphore |-> s, delta |-> d]
    BY <1>1, <1>2 DEF n
  <1>6. ASSUME p <= n
        PROVE  new[p + 1] = with_delta(old[p], old[p].delta - d)
    <2>1. p + 1 \in 1 .. n + 1 /\ ~(p + 1 < p) /\ p + 1 # p
      BY <1>1, <1>6 DEF n
    <2> QED
      BY <1>2, <2>1
  <1>7. ASSUME NEW i \in 1 .. n, i > p
        PROVE  new[i + 1] = old[i]
    <2>1. i + 1 \in 1 .. n + 1 /\ ~(i + 1 < p) /\ i + 1 # p /\ i + 1 # p + 1 /\ i + 1 - 1 = i
      BY <1>1, <1>7 DEF n
    <2> QED
      BY <1>2, <2>1
  <1>8. ASSUME NEW i \in 1 .. n, i >= p
        PROVE  new[i + 1].thread = old[i].thread
    <2>1. CASE i = p
      BY <1>6, <1>8, <2>1 DEF with_delta
    <2>2. CASE i # p
      <3>1. i > p
        BY <1>1, <1>8, <2>2 DEF n
      <3> QED
        BY <1>7, <3>1
    <2> QED
      BY <2>1, <2>2
  <1>9. new[p].thread = t /\ new[p].delta = d
    BY <1>5
  <1>10. p <= n => new[p + 1].delta = (old[p].delta - new[p].delta) % TIME_MOD
    BY <1>6, <1>9 DEF with_delta
  <1> QED
    BY <1>1, <1>3, <1>4, <1>7, <1>8, <1>9, <1>10 DEF d, n, old, new

\* Every sleep in the list is not over and shorter than time_t can count.
SleepInv ==
  \A i \in 1 .. Len(sleeping_threads) : ticks(sleeping_threads, i) \in 1 .. TIME_MOD - 1

\* The ticks left of the entries of the list, as numbers.
LEMMA TicksLeft ==
  ASSUME SleepersTyped, SleepInv
  PROVE  LET s == sleeping_threads
             n == Len(sleeping_threads)
         IN /\ n \in Nat /\ DOMAIN s = 1 .. n
            /\ ticks(s, 0) = 0
            /\ \A i \in 0 .. n : ticks(s, i) \in Time /\ ticks(s, i) \in Int
            /\ \A i \in 1 .. n : /\ ticks(s, i) = ticks(s, i - 1) + s[i].delta
                                 /\ ticks(s, i) > 0
                                 /\ due(s, i) = ticks(s, i)
                                 /\ s[i].delta \in Time /\ s[i].delta \in Nat
  <1> DEFINE s == sleeping_threads
             n == Len(sleeping_threads)
  <1>1. n \in Nat /\ DOMAIN s = 1 .. n /\ \A i \in 1 .. n : s[i].delta \in Time
    BY SleeperFields
  <1>2. \A x \in Time : x \in Nat
    BY KernelAssumption DEF Time
  <1>3. Deltas(s, n)
    BY <1>1, <1>2 DEF Deltas
  <1>4. \A i \in 1 .. n : ticks(s, i) \in Time /\ ticks(s, i) > 0
    <2>1. \A x \in 1 .. TIME_MOD - 1 : x \in Time /\ x > 0
      BY KernelAssumption DEF Time
    <2> QED
      BY <2>1 DEF SleepInv
  <1>5. ticks(s, 0) = 0 /\ 0 \in Time
    BY KernelAssumption, TicksFrom0 DEF Time
  <1>6. \A i \in 0 .. n : ticks(s, i) \in Time
    <2>1. \A i \in 0 .. n : i = 0 \/ i \in 1 .. n
      BY <1>1
    <2> QED
      BY <1>4, <1>5, <2>1
  <1>7. \A i \in 1 .. n : due(s, i) = ticks(s, i)
    <2>1. \A i \in 1 .. n : due(s, i) = ticks(s, i) % TIME_MOD
      BY DEF due, ticks
    <2> QED
      BY <1>4, <2>1, NoWrap
  <1>8. \A i \in 1 .. n : ticks(s, i) = ticks(s, i - 1) + s[i].delta
    BY <1>1, <1>3, TicksUpTo
  <1> HIDE DEF s, n
  <1> QED
    BY <1>1, <1>2, <1>4, <1>5, <1>6, <1>7, <1>8 DEF s, n

\* __scheduler_timeout finds a place between an entry due no later and one due
\* no earlier.
LEMMA TimeoutBetween ==
  ASSUME SleepersTyped, SleepInv, NEW time \in Time,
         NEW p \in 1 .. Len(sleeping_threads) + 1, timeout_place(time, p)
  PROVE  /\ ticks(sleeping_threads, p - 1) <= time
         /\ p <= Len(sleeping_threads) => time <= ticks(sleeping_threads, p)
  <1> DEFINE s == sleeping_threads
             n == Len(sleeping_threads)
  <1>1. /\ n \in Nat /\ ticks(s, 0) = 0
        /\ \A i \in 1 .. n : /\ ticks(s, i) = ticks(s, i - 1) + s[i].delta
                             /\ due(s, i) = ticks(s, i) /\ ticks(s, i) \in Int
                             /\ s[i].delta \in Int
    BY TicksLeft
  <1>2. time \in Nat
    BY KernelAssumption DEF Time
  <1>3. n > 0 => ticks(s, 1) = s[1].delta
    <2> SUFFICES ASSUME n > 0 PROVE ticks(s, 1) = s[1].delta
      OBVIOUS
    <2>1. 1 \in 1 .. n /\ 1 - 1 = 0
      BY <1>1
    <2>2. ticks(s, 1) = 0 + s[1].delta /\ s[1].delta \in Int
      BY <1>1, <2>1
    <2> QED
      BY <2>2
  <1>e. s = <<>> => n = 0
    BY EmptySeq
  <1>4. CASE p = 1
    <2>1. p <= n => s # <<>>
      BY <1>1, <1>4, <1>e
    <2>2. p <= n => time < s[1].delta
      BY <1>4, <2>1 DEF timeout_place
    <2>3. p <= n => s[1].delta \in Int /\ ticks(s, 1) = s[1].delta
      BY <1>1, <1>3, <1>4
    <2>4. p <= n => time <= ticks(s, p)
      BY <1>2, <1>4, <2>2, <2>3
    <2>5. p - 1 = 0
      BY <1>4
    <2> QED
      BY <1>1, <1>2, <2>4, <2>5
  <1>5. CASE p # 1
    <2>1. /\ s # <<>> /\ ~(time < s[1].delta)
          /\ p <= n => due(s, p) >= time
          /\ \A q \in 2 .. p - 1 : due(s, q) < time
      BY <1>5 DEF timeout_place
    <2>2. n > 0 /\ p - 1 \in 1 .. n
      BY <1>1, <1>5
    <2>3. CASE p = 2
      <3>1. 1 \in 1 .. n /\ p - 1 = 1
        BY <2>2, <2>3
      <3>2. ticks(s, p - 1) <= time
        BY <1>1, <1>2, <1>3, <2>1, <2>2, <3>1
      <3> QED
        BY <1>1, <1>5, <2>1, <3>2
    <2>4. CASE p # 2
      <3>1. p - 1 \in 2 .. p - 1
        BY <1>5, <2>4
      <3>2. ticks(s, p - 1) < time
        BY <1>1, <2>1, <2>2, <3>1
      <3>3. ticks(s, p - 1) \in Int
        BY <1>1, <2>2
      <3> QED
        BY <1>1, <1>2, <1>5, <2>1, <3>2, <3>3
    <2> QED
      BY <2>3, <2>4
  <1> QED
    BY <1>4, <1>5

\* __scheduler_timeout gives the new entry its time and changes nobody else's.
LEMMA TimeoutTicks ==
  ASSUME SleepersTyped, SleepInv, NEW t, NEW time \in Time, NEW s,
         NEW p \in 1 .. Len(sleeping_threads) + 1, timeout_place(time, p),
         sleeping_threads' = timeout_linked(t, time, s, p)
  PROVE  \A i \in 1 .. Len(sleeping_threads) + 1 :
           ticks(sleeping_threads', i) = IF i < p THEN ticks(sleeping_threads, i)
                                         ELSE IF i = p THEN time
                                         ELSE ticks(sleeping_threads, i - 1)
  <1> DEFINE old == sleeping_threads
             n == Len(sleeping_threads)
             new == sleeping_threads'
             b == [i \in 0 .. n + 1 |-> IF i < p THEN ticks(old, i)
                                        ELSE IF i = p THEN time
                                        ELSE ticks(old, i - 1)]
  <1>1. /\ n \in Nat /\ ticks(old, 0) = 0
        /\ \A i \in 0 .. n : ticks(old, i) \in Time /\ ticks(old, i) \in Int
        /\ \A i \in 1 .. n : /\ ticks(old, i) = ticks(old, i - 1) + old[i].delta
                             /\ due(old, i) = ticks(old, i)
                             /\ old[i].delta \in Int
    BY TicksLeft
  <1>2. /\ \A i \in 1 .. n : /\ i < p => new[i] = old[i]
                             /\ i > p => new[i + 1] = old[i]
        /\ new[p].delta = IF p = 1 THEN time ELSE (time - due(old, p - 1)) % TIME_MOD
        /\ p <= n => new[p + 1].delta = (old[p].delta - new[p].delta) % TIME_MOD
    BY TimeoutEntries
  <1>3. ticks(old, p - 1) <= time /\ (p <= n => time <= ticks(old, p))
    BY TimeoutBetween
  <1>4. time \in Nat /\ \A x \in Time : x \in Nat /\ \A y \in Time : y <= x => x - y \in Time
    BY KernelAssumption DEF Time
  <1> HIDE DEF old, new, b
  <1>p. p \in 1 .. n + 1 /\ p - 1 \in 0 .. n
    BY <1>1 DEF n
  <1> HIDE DEF n
  <1>5. new[p].delta = time - ticks(old, p - 1)
    <2>1. CASE p = 1
      BY <1>1, <1>2, <1>4, <2>1
    <2>2. CASE p # 1
      <3>1. p - 1 \in 1 .. n
        BY <1>1, <1>p, <2>2
      <3>2. new[p].delta = (time - ticks(old, p - 1)) % TIME_MOD
        BY <1>1, <1>2, <2>2, <3>1
      <3>3. time - ticks(old, p - 1) \in Time
        BY <1>1, <1>3, <1>4, <1>p
      <3> QED
        BY <3>2, <3>3, NoWrap
    <2> QED
      BY <2>1, <2>2
  <1>6. ASSUME p <= n
        PROVE  new[p + 1].delta = ticks(old, p) - time
    <2>1. p \in 1 .. n /\ p \in 0 .. n
      BY <1>1, <1>6, <1>p
    <2>2. /\ ticks(old, p) = ticks(old, p - 1) + old[p].delta
          /\ ticks(old, p) \in Time /\ ticks(old, p) \in Int
          /\ ticks(old, p - 1) \in Int /\ old[p].delta \in Int
      BY <1>1, <1>p, <2>1
    <2>3. old[p].delta - new[p].delta = ticks(old, p) - time
      BY <1>4, <1>5, <2>2
    <2>4. ticks(old, p) - time \in Time
      BY <1>3, <1>4, <1>6, <2>2
    <2> QED
      BY <1>2, <1>6, <2>3, <2>4, NoWrap
  <1>7. ASSUME NEW i \in 1 .. n + 1
        PROVE  b[i] = b[i - 1] + new[i].delta /\ new[i].delta \in Int
    <2>0. i \in 0 .. n + 1 /\ i - 1 \in 0 .. n + 1
      BY <1>1
    <2>1. CASE i < p
      <3>1. i \in 1 .. n /\ i - 1 < p /\ new[i] = old[i]
        BY <1>1, <1>2, <1>p, <2>1
      <3>2. b[i] = ticks(old, i) /\ b[i - 1] = ticks(old, i - 1)
        BY <2>0, <2>1, <3>1 DEF b
      <3> QED
        BY <1>1, <3>1, <3>2
    <2>2. CASE i = p
      <3>1. b[i] = time /\ b[i - 1] = ticks(old, p - 1)
        <4>1. i - 1 < p /\ ~(i < p)
          BY <1>p, <2>2
        <4> QED
          BY <2>0, <2>2, <4>1 DEF b
      <3>2. ticks(old, p - 1) \in Int
        BY <1>1, <1>p
      <3> QED
        BY <1>4, <1>5, <2>2, <3>1, <3>2
    <2>3. CASE i = p + 1
      <3>1. p <= n /\ p \in 0 .. n
        BY <1>1, <1>p, <2>3
      <3>2. b[i] = ticks(old, p) /\ b[i - 1] = time
        <4>1. i - 1 = p /\ ~(i < p) /\ i # p /\ ~(p < p)
          BY <1>p, <2>3
        <4> QED
          BY <2>0, <4>1 DEF b
      <3>3. ticks(old, p) \in Int
        BY <1>1, <3>1
      <3> QED
        BY <1>4, <1>6, <2>3, <3>1, <3>2, <3>3
    <2>4. CASE i > p + 1
      <3> DEFINE j == i - 1
      <3>1. j \in 1 .. n /\ j > p /\ j + 1 = i /\ j - 1 > p - 1 /\ i - 2 = j - 1
        BY <1>1, <1>p, <2>4
      <3>2. new[i] = old[j]
        BY <1>2, <3>1
      <3>3. b[i] = ticks(old, j) /\ b[i - 1] = ticks(old, j - 1)
        <4>1. ~(i < p) /\ i # p /\ ~(i - 1 < p) /\ i - 1 # p /\ i - 1 - 1 = j - 1
          BY <1>p, <2>4
        <4> QED
          BY <2>0, <4>1 DEF b
      <3> HIDE DEF j
      <3> QED
        BY <1>1, <3>1, <3>2, <3>3
    <2> QED
      BY <1>1, <1>p, <2>1, <2>2, <2>3, <2>4
  <1>8. n + 1 \in Nat /\ b[0] = 0
    BY <1>1, <1>p DEF b
  <1>9. Deltas(new, n + 1) /\ Totals(b, new, n + 1)
    BY <1>7, <1>8 DEF Deltas, Totals
  <1>10. \A i \in 0 .. n + 1 : ticks(new, i) = b[i]
    BY <1>8, <1>9, TicksAre
  <1> QED
    BY <1>8, <1>10 DEF b, n, old, new

\* A tick ends the sleeps with one tick left and takes one from all others.
LEMMA TickTicks ==
  ASSUME SleepersTyped, SleepInv, NEW k \in 0 .. Len(sleeping_threads), expired(k),
         sleeping_threads' = SubSeq(aged, k + 1, Len(aged))
  PROVE  LET old == sleeping_threads
             n == Len(sleeping_threads)
             new == sleeping_threads'
         IN /\ n \in Nat /\ Len(new) = n - k
            /\ \A i \in 1 .. k : ticks(old, i) = 1
            /\ \A i \in 1 .. n - k : /\ new[i].thread = old[k + i].thread
                                     /\ ticks(new, i) = ticks(old, k + i) - 1
                                     /\ ticks(new, i) > 0
  <1> DEFINE old == sleeping_threads
             n == Len(sleeping_threads)
             new == sleeping_threads'
             b == [i \in 0 .. n - k |-> IF i = 0 THEN 0 ELSE ticks(old, k + i) - 1]
  <1>1. /\ n \in Nat /\ ticks(old, 0) = 0
        /\ \A i \in 0 .. n : ticks(old, i) \in Int
        /\ \A i \in 1 .. n : /\ ticks(old, i) = ticks(old, i - 1) + old[i].delta
                             /\ ticks(old, i) > 0
                             /\ ticks(old, i) \in Time
                             /\ old[i].delta \in Nat
    <2>1. n \in Nat /\ ticks(old, 0) = 0
      BY TicksLeft
    <2>2. \A i \in 0 .. n : ticks(old, i) \in Time /\ ticks(old, i) \in Int
      BY TicksLeft
    <2>3. \A i \in 1 .. n : /\ ticks(old, i) = ticks(old, i - 1) + old[i].delta
                             /\ ticks(old, i) > 0
                             /\ old[i].delta \in Nat
      BY TicksLeft
    <2> HIDE DEF n, old
    <2>4. \A i \in 1 .. n : i \in 0 .. n
      BY <2>1
    <2> QED
      BY <2>1, <2>2, <2>3, <2>4
  <1>2. /\ Len(aged) = n /\ aged \in Seq(Sleeper)
        /\ \A i \in 1 .. n : /\ aged[i].thread = old[i].thread
                             /\ i # 1 => aged[i].delta = old[i].delta
    BY AgedTyped
  <1>3. ASSUME n > 0
        PROVE  aged[1].delta = ticks(old, 1) - 1 /\ ticks(old, 1) = old[1].delta
    <2>1. 1 \in 1 .. n /\ 1 - 1 = 0 /\ 1 \in 0 .. n
      BY <1>1, <1>3
    <2>2. ticks(old, 1) = 0 + old[1].delta /\ old[1].delta \in Nat
      BY <1>1, <2>1
    <2>3. ticks(old, 1) = old[1].delta
      BY <2>2
    <2>4. aged[1].delta = (old[1].delta - 1) % TIME_MOD
      <3>1. 1 \in DOMAIN old
        BY <2>1, SleeperFields
      <3> QED
        BY <3>1 DEF aged, with_delta
    <2>5. ticks(old, 1) \in Time /\ ticks(old, 1) > 0
      BY <1>1, <2>1
    <2>6. \A x \in Time : x > 0 => x - 1 \in Time
      BY KernelAssumption DEF Time
    <2> QED
      BY <2>3, <2>4, <2>5, <2>6, NoWrap
  <1>4. /\ new \in Seq(Sleeper) /\ Len(new) = n - k
        /\ \A i \in 1 .. n - k : new[i] = aged[k + i]
    <2>1. new = Without(aged, k)
      BY DEF Without
    <2> QED
      BY <1>2, <2>1, SuffixOf
  <1>5. /\ \A i \in 1 .. k : aged[i].delta = 0
        /\ k < n => aged[k + 1].delta # 0
    BY <1>2 DEF expired
  <1> HIDE DEF old, new, b
  <1>k. k \in 0 .. n
    BY DEF n
  <1> HIDE DEF n
  <1>6. \A i \in 1 .. k : ticks(old, i) = 1
    <2> DEFINE One == {i \in Nat : i + 1 <= k => ticks(old, i + 1) = 1}
    <2>1. 0 \in One
      <3> SUFFICES ASSUME 1 <= k PROVE ticks(old, 1) = 1
        OBVIOUS
      <3>1. n > 0 /\ 1 \in 1 .. k /\ 1 \in 0 .. n
        BY <1>1, <1>k
      <3> QED
        BY <1>1, <1>3, <1>5, <3>1
    <2>2. ASSUME NEW i \in Nat, i \in One
          PROVE  i + 1 \in One
      <3> SUFFICES ASSUME i + 1 + 1 <= k PROVE ticks(old, i + 1 + 1) = 1
        OBVIOUS
      <3> DEFINE j == i + 1
      <3>1. j \in Nat /\ j + 1 \in 1 .. n /\ j + 1 \in 1 .. k /\ j + 1 # 1
        BY <1>1, <1>k
      <3>2. ticks(old, j) = 1
        BY <2>2
      <3> HIDE DEF j
      <3>3. old[j + 1].delta = 0
        BY <1>2, <1>5, <3>1
      <3>4. ticks(old, j + 1) = 1
        <4> DEFINE m == j + 1
        <4>1. m \in 1 .. n /\ m - 1 = j
          BY <3>1
        <4>2. ticks(old, m) = 1 + old[m].delta /\ old[m].delta = 0
          <5> HIDE DEF m
          <5>1. ticks(old, m) = ticks(old, m - 1) + old[m].delta
            BY <1>1, <4>1
          <5>2. ticks(old, m - 1) = 1
            BY <4>1, <3>2
          <5> QED
            BY <5>1, <5>2, <3>3 DEF m
        <4> QED
          BY <4>2
      <3> QED
        BY <3>4 DEF j
    <2> HIDE DEF One
    <2>3. Nat \subseteq One
      BY <2>1, <2>2, InductiveSet
    <2>4. \A i \in 1 .. k : i - 1 \in Nat /\ i - 1 + 1 = i /\ i <= k
      OBVIOUS
    <2> QED
      BY <2>3, <2>4 DEF One
  <1>7. ASSUME NEW i \in 1 .. n - k
        PROVE  /\ b[i] = b[i - 1] + new[i].delta
               /\ new[i].delta \in Int
               /\ new[i].thread = old[k + i].thread
    <2>1. /\ k + i \in 1 .. n /\ k + i \in 0 .. n /\ i \in 0 .. n - k /\ i - 1 \in 0 .. n - k
          /\ k + i - 1 \in 0 .. n
      BY <1>1, <1>k
    <2>2. new[i] = aged[k + i] /\ new[i].thread = old[k + i].thread
      BY <1>2, <1>4, <2>1
    <2>3. b[i] = ticks(old, k + i) - 1
      BY <2>1 DEF b
    <2>4. CASE i = 1 /\ k = 0
      <3>1. n > 0 /\ k + i = 1
        BY <1>1, <2>1, <2>4
      <3>2. new[i].delta = ticks(old, 1) - 1 /\ ticks(old, 1) \in Int
        BY <1>1, <1>3, <2>1, <2>2, <3>1
      <3>3. b[i - 1] = 0
        BY <2>1, <2>4 DEF b
      <3> QED
        BY <2>2, <2>3, <3>1, <3>2, <3>3
    <2>5. CASE ~(i = 1 /\ k = 0)
      <3>1. k + i # 1
        BY <1>k, <2>5
      <3> DEFINE p == k + i
      <3>p. p \in 1 .. n /\ p # 1 /\ new[i] = aged[p]
        BY <2>1, <2>2, <3>1
      <3> HIDE DEF p
      <3>a. aged[p].delta = old[p].delta
        BY <1>2, <3>p
      <3>b. old[p].delta \in Nat /\ ticks(old, p) = ticks(old, p - 1) + old[p].delta
        BY <1>1, <3>p
      <3>2. new[i].delta = old[k + i].delta /\ old[k + i].delta \in Int
        BY <3>p, <3>a, <3>b DEF p
      <3>3. ticks(old, k + i) = ticks(old, k + i - 1) + old[k + i].delta
        BY <3>b DEF p
      <3>4. ticks(old, k + i - 1) \in Int
        BY <1>1, <2>1
      <3>5. b[i - 1] = ticks(old, k + i - 1) - 1
        <4>1. CASE i = 1
          <5>1. k + i - 1 = k /\ k \in 1 .. k
            BY <1>k, <2>5, <4>1
          <5>2. ticks(old, k) = 1
            BY <1>6, <5>1
          <5>3. b[i - 1] = 0
            BY <2>1, <4>1 DEF b
          <5> QED
            BY <5>1, <5>2, <5>3
        <4>2. CASE i # 1
          <5>1. i - 1 # 0 /\ k + (i - 1) = k + i - 1
            BY <1>k, <4>2
          <5> QED
            BY <2>1, <5>1 DEF b
        <4> QED
          BY <4>1, <4>2
      <3>6. b[i] = b[i - 1] + new[i].delta
        BY <2>3, <3>2, <3>3, <3>4, <3>5
      <3> QED
        BY <2>2, <3>2, <3>6
    <2> QED
      BY <2>4, <2>5
  <1>8. n - k \in Nat /\ b[0] = 0
    BY <1>1, <1>k DEF b
  <1>9. \A i \in 0 .. n - k : ticks(new, i) = b[i]
    <2>1. Deltas(new, n - k) /\ Totals(b, new, n - k)
      BY <1>7, <1>8 DEF Deltas, Totals
    <2> QED
      BY <1>8, <2>1, TicksAre
  <1>10. \A i \in 1 .. n - k : ticks(new, i) = ticks(old, k + i) - 1
    <2>1. \A i \in 1 .. n - k : i \in 0 .. n - k /\ i # 0
      OBVIOUS
    <2> QED
      BY <1>9, <2>1 DEF b
  <1>11. ASSUME NEW i \in 1 .. n - k
         PROVE  ticks(new, i) > 0
    <2>1. 1 \in 1 .. n - k /\ k < n /\ k + 1 \in 1 .. n /\ k + 1 \in 0 .. n
            /\ k + i \in k + 1 .. n /\ k + i \in 0 .. n
      BY <1>1, <1>k
    <2>2. new[1].delta # 0 /\ new[1].delta \in Int
      BY <1>4, <1>5, <1>7, <2>1
    <2>3. ticks(new, 1) = new[1].delta
      <3>1. b[1] = b[0] + new[1].delta
        BY <1>7, <2>1
      <3>2. 1 \in 0 .. n - k
        BY <2>1
      <3> QED
        BY <1>8, <1>9, <2>2, <3>1, <3>2
    <2>4. ticks(old, k + 1) - 1 # 0
      BY <1>10, <2>1, <2>2, <2>3
    <2>5. ticks(old, k + 1) <= ticks(old, k + i)
      <3>1. \A j \in 1 .. n : old[j].delta \in Nat
        BY <1>1
      <3> QED
        BY <1>1, <2>1, <3>1, TicksGrow
    <2>6. ticks(old, k + 1) \in Int /\ ticks(old, k + i) \in Int /\ ticks(old, k + 1) > 0
      BY <1>1, <2>1
    <2> QED
      BY <1>10, <2>4, <2>5, <2>6
  <1> QED
    BY <1>1, <1>4, <1>6, <1>7, <1>10, <1>11 DEF n, old, new

\* The list is sound.
LEMMA SleepersSound == KernelInv /\ SleepInv => Sound(sleeping_threads)
  <1>1. ASSUME KernelInv, SleepInv
        PROVE  Sound(sleeping_threads)
    <2>1. SleepersTyped /\ OnlySleeps /\ NoDuplicates(sleepers)
      BY <1>1 DEF KernelInv, TypeInv, PlaceInv
    <2>2. DOMAIN sleeping_threads = 1 .. Len(sleeping_threads)
      BY <2>1, SleeperFields
    <2> QED
      BY <1>1, <2>1, <2>2 DEF Sound, SleepersTyped, OnlySleeps, SleepInv, sleepers
  <1> QED
    BY <1>1

LEMMA StillSound ==
  ASSUME KernelInv', SleepInv'
  PROVE  Sound(sleeping_threads')
  <1>1. /\ sleeping_threads' \in Seq(Sleeper)
        /\ \A i \in DOMAIN sleeping_threads' : sleeping_threads'[i].semaphore = NULL
        /\ NoDuplicates(names(sleeping_threads'))
    BY DEF KernelInv, TypeInv, PlaceInv, SleepersTyped, OnlySleeps, sleepers
  <1>2. DOMAIN sleeping_threads' = 1 .. Len(sleeping_threads')
    BY <1>1, LenProperties
  <1> QED
    BY <1>1, <1>2 DEF Sound, SleepInv

\* g has one tick less than f for everybody who sleeps.
OneLess(f, g) == g = [t \in Thread |-> IF f[t] = 0 THEN 0 ELSE f[t] - 1]

\* A tick of the kernel takes one tick from every sleeper.
LEMMA TickServesSleeps ==
  ASSUME KernelInv, SleepInv, KernelInv', NEW k \in 0 .. Len(sleeping_threads), expired(k),
         scheduler_tick(k)
  PROVE  SleepInv' /\ OneLess(remaining, remaining')
  <1> DEFINE old == sleeping_threads
             n == Len(sleeping_threads)
             new == sleeping_threads'
  <1>0. SleepersTyped
    BY DEF KernelInv, TypeInv
  <1>1. /\ n \in Nat /\ Len(new) = n - k
        /\ \A i \in 1 .. k : ticks(old, i) = 1
        /\ \A i \in 1 .. n - k : /\ new[i].thread = old[k + i].thread
                                 /\ ticks(new, i) = ticks(old, k + i) - 1
                                 /\ ticks(new, i) > 0
    BY <1>0, TickTicks DEF scheduler_tick
  <1>2. \A i \in 1 .. n : ticks(old, i) \in 1 .. TIME_MOD - 1
    BY DEF SleepInv
  <1>3. SleepInv'
    <2> SUFFICES ASSUME NEW i \in 1 .. n - k
                 PROVE  ticks(new, i) \in 1 .. TIME_MOD - 1
      BY <1>1 DEF SleepInv
    <2>1. k + i \in 1 .. n
      BY <1>1
    <2> QED
      BY <1>1, <1>2, <2>1, KernelAssumption
  <1>4. Sound(old) /\ Sound(new)
    BY <1>3, SleepersSound, StillSound
  <1>5. remaining = left_in(old) /\ remaining' = left_in(new)
    BY DEF remaining, left_in
  <1>k. k \in 0 .. n
    OBVIOUS
  <1> HIDE DEF old, n, new
  <1>6. ASSUME NEW t \in Thread
        PROVE  left_in(new)[t] = IF left_in(old)[t] = 0 THEN 0 ELSE left_in(old)[t] - 1
    <2>1. CASE \A i \in 1 .. n : old[i].thread # t
      <3>1. \A i \in 1 .. Len(new) : new[i].thread # t
        <4>1. \A i \in 1 .. n - k : k + i \in 1 .. n
          BY <1>1, <1>k
        <4> QED
          BY <1>1, <2>1, <4>1
      <3>2. left_in(old)[t] = 0
        BY <1>4, <2>1, LeftIn DEF n, old
      <3>3. left_in(new)[t] = 0
        BY <1>4, <3>1, LeftIn
      <3> QED
        BY <3>2, <3>3
    <2>2. ASSUME NEW i \in 1 .. n, old[i].thread = t
          PROVE  left_in(new)[t] = IF left_in(old)[t] = 0 THEN 0 ELSE left_in(old)[t] - 1
      <3>1. left_in(old)[t] = ticks(old, i) /\ ticks(old, i) \in 1 .. TIME_MOD - 1
        BY <1>2, <1>4, <2>2, LeftIn DEF n, old
      <3>2. CASE i > k
        <4>1. i - k \in 1 .. n - k /\ k + (i - k) = i
          BY <1>1, <1>k, <3>2
        <4>2. new[i - k].thread = t /\ ticks(new, i - k) = ticks(old, i) - 1
          BY <1>1, <2>2, <4>1
        <4>3. left_in(new)[t] = ticks(new, i - k)
          BY <1>1, <1>4, <4>1, <4>2, LeftIn
        <4>4. ticks(old, i) # 0
          BY <3>1
        <4> QED
          BY <3>1, <4>2, <4>3, <4>4
      <3>3. CASE ~(i > k)
        <4>1. i \in 1 .. k
          BY <1>k, <3>3
        <4>2. \A j \in 1 .. Len(new) : new[j].thread # t
          <5> SUFFICES ASSUME NEW j \in 1 .. n - k
                       PROVE  new[j].thread # t
            BY <1>1
          <5>1. k + j \in 1 .. n /\ k + j # i
            BY <1>1, <1>k, <4>1
          <5>2. old[k + j].thread # t
            <6>1. DOMAIN old = 1 .. n
              BY <1>0, SleeperFields DEF old, n
            <6>2. \A x, y \in 1 .. n : old[x].thread = old[y].thread => x = y
              BY <1>4, <6>1 DEF Sound, NoDuplicates, names
            <6> QED
              BY <2>2, <5>1, <6>2
          <5> QED
            BY <1>1, <5>2
        <4>3. left_in(new)[t] = 0
          BY <1>4, <4>2, LeftIn
        <4>4. left_in(old)[t] = 1
          BY <1>1, <3>1, <4>1
        <4> QED
          BY <4>3, <4>4
      <3> QED
        BY <3>2, <3>3
    <2> QED
      BY <2>1, <2>2
  <1>7. left_in(new) = [t \in Thread |-> IF left_in(old)[t] = 0 THEN 0
                                                                ELSE left_in(old)[t] - 1]
    <2>1. left_in(new) = [t \in Thread |-> left_in(new)[t]]
      BY DEF left_in
    <2> QED
      BY <1>6, <2>1
  <1>8. OneLess(remaining, remaining')
    BY <1>5, <1>7 DEF OneLess
  <1> QED
    BY <1>3, <1>8

\* A call of time_sleep gets its ticks, and everybody else keeps theirs.
LEMMA TimeoutServesSleeps ==
  ASSUME KernelInv, SleepInv, KernelInv', NEW t \in Thread, t \notin ToSet(sleepers),
         NEW time \in Time \ {0}, scheduler_timeout(t, time, NULL)
  PROVE  SleepInv' /\ remaining' = [remaining EXCEPT ![t] = time]
  <1> DEFINE old == sleeping_threads
             n == Len(sleeping_threads)
             new == sleeping_threads'
  <1>0. SleepersTyped /\ time \in Time /\ time # 0
    BY DEF KernelInv, TypeInv
  <1>1. PICK p \in 1 .. n + 1 :
          timeout_place(time, p) /\ new = timeout_linked(t, time, NULL, p)
    BY DEF scheduler_timeout
  <1>2. /\ n \in Nat /\ DOMAIN new = 1 .. n + 1
        /\ \A i \in 1 .. n : /\ i < p => new[i] = old[i]
                             /\ i >= p => new[i + 1].thread = old[i].thread
        /\ new[p].thread = t
    BY <1>0, <1>1, TimeoutEntries
  <1>3. \A i \in 1 .. n + 1 : ticks(new, i) = IF i < p THEN ticks(old, i)
                                              ELSE IF i = p THEN time
                                              ELSE ticks(old, i - 1)
    BY <1>0, <1>1, TimeoutTicks
  <1>4. Len(new) = n + 1
    <2>1. new \in Seq(Sleeper)
      BY DEF KernelInv, TypeInv, SleepersTyped
    <2>2. Len(new) \in Nat /\ DOMAIN new = 1 .. Len(new)
      BY <2>1, LenProperties
    <2> HIDE DEF new, n
    <2> QED
      BY <1>2, <2>2
  <1>5. \A i \in 1 .. n : ticks(old, i) \in 1 .. TIME_MOD - 1
    BY DEF SleepInv
  <1>6. SleepInv'
    <2> SUFFICES ASSUME NEW i \in 1 .. n + 1
                 PROVE  ticks(new, i) \in 1 .. TIME_MOD - 1
      BY <1>4 DEF SleepInv
    <2> HIDE DEF old, n, new
    <2>1. CASE i < p
      <3>1. i \in 1 .. n
        BY <1>2, <2>1
      <3> QED
        BY <1>3, <1>5, <2>1, <3>1
    <2>2. CASE i = p
      <3>1. time \in 1 .. TIME_MOD - 1
        BY <1>0, KernelAssumption DEF Time
      <3> QED
        BY <1>3, <2>2, <3>1
    <2>3. CASE i > p
      <3>1. i - 1 \in 1 .. n /\ ~(i < p) /\ i # p
        BY <1>2, <2>3
      <3> QED
        BY <1>3, <1>5, <3>1
    <2> QED
      BY <2>1, <2>2, <2>3
  <1>7. Sound(old) /\ Sound(new)
    BY <1>6, SleepersSound, StillSound
  <1>8. remaining = left_in(old) /\ remaining' = left_in(new)
    BY DEF remaining, left_in
  <1>9. \A i \in 1 .. n : old[i].thread # t
    <2>1. \A i \in 1 .. n : sleepers[i] = old[i].thread /\ i \in DOMAIN sleepers
      BY <1>0, SleeperFields DEF sleepers, names
    <2> QED
      BY <2>1 DEF ToSet
  <1>10. left_in(old)[t] = 0
    BY <1>7, <1>9, LeftIn
  <1> HIDE DEF old, n, new
  <1>11. left_in(new)[t] = time
    <2>1. p \in 1 .. Len(new) /\ ~(p < p)
      BY <1>4
    <2>2. ticks(new, p) = time
      BY <1>3, <2>1
    <2> QED
      BY <1>2, <1>7, <2>1, <2>2, LeftIn
  <1>12. ASSUME NEW u \in Thread, u # t
         PROVE  left_in(new)[u] = left_in(old)[u]
    <2>1. CASE \A i \in 1 .. n : old[i].thread # u
      <3>1. ASSUME NEW j \in 1 .. n + 1
            PROVE  new[j].thread # u
        <4>1. CASE j < p
          <5>1. j \in 1 .. n
            BY <1>2, <4>1
          <5> QED
            BY <1>2, <2>1, <4>1, <5>1
        <4>2. CASE j = p
          BY <1>2, <1>12, <4>2
        <4>3. CASE j > p
          <5>1. j - 1 \in 1 .. n /\ j - 1 >= p /\ j - 1 + 1 = j
            BY <1>2, <4>3
          <5>2. new[j].thread = old[j - 1].thread
            BY <1>2, <5>1
          <5> QED
            BY <2>1, <5>1, <5>2
        <4> QED
          BY <4>1, <4>2, <4>3
      <3>2. left_in(old)[u] = 0
        BY <1>7, <2>1, LeftIn DEF n, old
      <3>3. left_in(new)[u] = 0
        BY <1>4, <1>7, <3>1, LeftIn
      <3> QED
        BY <3>2, <3>3
    <2>2. ASSUME NEW i \in 1 .. n, old[i].thread = u
          PROVE  left_in(new)[u] = left_in(old)[u]
      <3>1. left_in(old)[u] = ticks(old, i)
        BY <1>7, <2>2, LeftIn DEF n, old
      <3>2. CASE i < p
        <4>1. i \in 1 .. n + 1 /\ new[i].thread = u /\ ticks(new, i) = ticks(old, i)
          BY <1>2, <1>3, <2>2, <3>2
        <4> QED
          BY <1>4, <1>7, <3>1, <4>1, LeftIn
      <3>3. CASE ~(i < p)
        <4>1. /\ i + 1 \in 1 .. n + 1 /\ i >= p /\ ~(i + 1 < p) /\ i + 1 # p
              /\ i + 1 - 1 = i
          BY <1>2, <3>3
        <4>2. new[i + 1].thread = u /\ ticks(new, i + 1) = ticks(old, i)
          BY <1>2, <1>3, <2>2, <4>1
        <4> QED
          BY <1>4, <1>7, <3>1, <4>1, <4>2, LeftIn
      <3> QED
        BY <3>2, <3>3
    <2> QED
      BY <2>1, <2>2
  <1>13. left_in(new) = [left_in(old) EXCEPT ![t] = time]
    <2>1. /\ left_in(new) = [u \in Thread |-> left_in(new)[u]]
          /\ left_in(old) = [u \in Thread |-> left_in(old)[u]]
      BY DEF left_in
    <2> QED
      BY <1>11, <1>12, <2>1
  <1>14. remaining' = [remaining EXCEPT ![t] = time]
    BY <1>8, <1>13
  <1> QED
    BY <1>6, <1>14

\* While the machine runs, the list keeps for each sleeper what it is owed.
OwedInv == halted = "no" => owed = remaining

\* The history takes no part in the steps of Kernel.
LEMMA SleepNextIsNext == [SleepNext]_sleep_vars => [Next]_vars
  <1> SUFFICES ASSUME [SleepNext]_sleep_vars
               PROVE  [Next]_vars
    OBVIOUS
  <1>1. CASE \E time \in Times : Asks(time)
    BY <1>1 DEF Asks, TimedSleep, Next, Syscall
  <1>2. CASE Ticks
    BY <1>2 DEF Ticks, Next
  <1>3. CASE OtherCalls
    BY <1>3 DEF OtherCalls, Next, Syscall
  <1>4. CASE UNCHANGED sleep_vars
    BY <1>4 DEF sleep_vars
  <1> QED
    BY <1>1, <1>2, <1>3, <1>4 DEF SleepNext

\* A machine that has stopped stays so.
LEMMA StaysOff == [Next]_vars /\ halted' = "no" => halted = "no"
  <1> SUFFICES ASSUME [Next]_vars, halted # "no"
               PROVE  halted' = halted
    OBVIOUS
  <1>1. ~Syscall
    BY DEF Syscall, Ecall, ThreadCreate, ThreadCreateNoMemory, ThreadExit, ThreadDispatch,
       SemOpen, SemOpenNoMemory, SemClose, SemWait, SemSignal, SemTimedWait, TimedSleep,
       Unserved, unserved, IllegalOperation, Getc, PutcAccepted, PutcRefused, EcallPutc
  <1>2. ~(TimerIrq \/ KeyPress \/ HwIrq \/ KernelDispatch \/ KernelCheck)
    BY DEF TimerIrq, KeyPress, HwIrq, Interruptible, KernelDispatch, KernelCheck
  <1> QED
    BY <1>1, <1>2 DEF Next, Off, vars

LEMMA SleepStep ==
  ASSUME NoTimedWaits
  PROVE  KernelInv /\ SleepInv /\ OwedInv /\ [SleepNext]_sleep_vars => SleepInv' /\ OwedInv'
  <1> SUFFICES ASSUME KernelInv, SleepInv, OwedInv, [SleepNext]_sleep_vars
               PROVE  SleepInv' /\ OwedInv'
    OBVIOUS
  <1> USE DEF timeout_vars
  <1>n. [Next]_vars
    BY SleepNextIsNext
  <1>0. KernelInv'
    BY <1>n, KernelInvNext
  <1>on. halted' = "no" => halted = "no" /\ owed = remaining
    BY <1>n, StaysOff DEF OwedInv
  <1>s. ASSUME sleeping_threads' = sleeping_threads
        PROVE  SleepInv' /\ remaining' = remaining
    BY <1>s DEF SleepInv, remaining
  <1>f. ASSUME sleeping_threads' = sleeping_threads, owed' = owed
        PROVE  SleepInv' /\ OwedInv'
    BY <1>on, <1>s, <1>f DEF OwedInv
  <1>1. ASSUME NEW end, Halt(end)
        PROVE  SleepInv' /\ OwedInv'
    <2>1. sleeping_threads' = sleeping_threads /\ halted' # "no"
      BY <1>1 DEF Halt, Ends
    <2> QED
      BY <1>s, <2>1 DEF OwedInv
  <1>2. CASE /\ \/ ThreadCreate \/ ThreadCreateNoMemory \/ ThreadExit \/ ThreadDispatch
                \/ SemOpen \/ SemOpenNoMemory \/ SemClose \/ SemWait
             /\ UNCHANGED owed
    BY <1>f, <1>1, <1>2 DEF ThreadCreate, ThreadCreateNoMemory, ThreadExit,
       ThreadDispatch, SemOpen, SemOpenNoMemory, SemClose, sem_close, SemWait
  <1>3. CASE /\ \/ Unserved \/ IllegalOperation \/ Getc \/ PutcAccepted \/ PutcRefused
                \/ KeyPress \/ HwIrq \/ KernelDispatch \/ KernelCheck \/ Off \/ UNCHANGED vars
             /\ UNCHANGED owed
    BY <1>f, <1>1, <1>3 DEF Unserved, unserved, IllegalOperation, Getc, PutcAccepted,
       PutcRefused, KeyPress, HwIrq, KernelDispatch, KernelCheck, stop, Off, vars
  <1>4. CASE SemSignal /\ UNCHANGED owed
    <2>1. PICK s \in open : Halt(sem_signal_end(s)) \/ sem_signal(s)
      BY <1>4 DEF SemSignal, SignalOn
    <2>2. CASE sem_signal(s)
      <3>1. CASE sem_signal_unblocks(s) /\ sem_unblock_thread(s)
        <4>1. waiting_threads[s] \in Seq(Tcb) /\ waiting_threads[s] # <<>>
          BY <3>1 DEF KernelInv, TypeInv, QueuesTyped, sem_signal_unblocks
        <4>2. Head(waiting_threads[s]) \in Tcb
          BY <4>1, LeaveQueue, QueueIndices
        <4>3. time_left[Head(waiting_threads[s])] # 0
          BY <4>2 DEF KernelInv, SliceInv
        <4> QED
          BY <1>f, <1>4, <3>1, <4>3 DEF sem_unblock_thread
      <3> QED
        BY <1>f, <1>4, <2>2, <3>1 DEF sem_signal
    <2> QED
      BY <1>1, <2>1, <2>2
  <1>5. CASE SemTimedWait
    BY <1>5 DEF SemTimedWait, Ecall, NoTimedWaits
  <1>6. ASSUME NEW time \in Times, Asks(time)
        PROVE  SleepInv' /\ OwedInv'
    <2>1. /\ thread_current \in Thread /\ thread_current \notin ToSet(sleepers)
          /\ time \in Time /\ owed' = [owed EXCEPT ![thread_current] = time]
      BY <1>6, PlacesSeen, CallsAssumption DEF Asks, Ecall
    <2>2. \/ Halt(timed_sleep_end(time))
          \/ time = 0 /\ sleeping_threads' = sleeping_threads
          \/ time # 0 /\ scheduler_timeout(thread_current, time, NULL)
      BY <1>6 DEF Asks, SleepFor
    <2>3. CASE time # 0 /\ scheduler_timeout(thread_current, time, NULL)
      <3>1. SleepInv' /\ remaining' = [remaining EXCEPT ![thread_current] = time]
        BY <1>0, <2>1, <2>3, TimeoutServesSleeps
      <3> QED
        BY <1>on, <2>1, <3>1 DEF OwedInv
    <2>4. CASE time = 0 /\ sleeping_threads' = sleeping_threads
      <3>1. remaining[thread_current] = 0
        <4>1. Sound(sleeping_threads) /\ remaining = left_in(sleeping_threads)
          BY SleepersSound DEF remaining, left_in
        <4>2. \A i \in 1 .. Len(sleeping_threads) :
                sleeping_threads[i].thread # thread_current
          <5>1. DOMAIN sleeping_threads = 1 .. Len(sleeping_threads)
            BY SleeperFields DEF KernelInv, TypeInv
          <5> QED
            BY <2>1, <5>1 DEF ToSet, sleepers, names
        <4> QED
          BY <2>1, <4>1, <4>2, LeftIn
      <3>2. [remaining EXCEPT ![thread_current] = time] = remaining
        BY <2>1, <2>4, <3>1 DEF remaining
      <3> QED
        BY <1>on, <1>s, <2>1, <2>4, <3>2 DEF OwedInv
    <2> QED
      BY <1>1, <2>2, <2>3, <2>4
  <1>7. CASE Ticks
    <2>1. PICK k \in 0 .. Len(sleeping_threads) :
            expired(k) /\ (Halt(timer_end(k)) \/ scheduler_tick(k))
      BY <1>7 DEF Ticks, TimerIrq
    <2>2. CASE scheduler_tick(k)
      <3>1. SleepInv' /\ OneLess(remaining, remaining')
        BY <1>0, <2>1, <2>2, TickServesSleeps
      <3>2. OneLess(owed, owed')
        BY <1>7 DEF Ticks, OneLess
      <3> QED
        BY <1>on, <3>1, <3>2 DEF OwedInv, OneLess
    <2> QED
      BY <1>1, <2>1, <2>2
  <1> QED
    BY <1>2, <1>3, <1>4, <1>5, <1>6, <1>7 DEF SleepNext, OtherCalls, sleep_vars

\* What is owed, from the list: who has ticks left sleeps and is in no other place.
PromisesHold ==
  \A t \in Thread :
    /\ remaining[t] = owed[t]
    /\ t \in Asleep <=> owed[t] > 0
    /\ owed[t] > 0 => t \notin ToSet(ready_threads) \cup {thread_current}

LEMMA PromisesKept ==
  ASSUME KernelInv, SleepInv, OwedInv, halted = "no"
  PROVE  PromisesHold
  <1> SUFFICES ASSUME NEW t \in Thread
               PROVE  /\ remaining[t] = owed[t]
                      /\ t \in Asleep <=> owed[t] > 0
                      /\ owed[t] > 0 => t \notin ToSet(ready_threads) \cup {thread_current}
    BY DEF PromisesHold
  <1>1. Sound(sleeping_threads) /\ remaining = left_in(sleeping_threads)
    BY SleepersSound DEF remaining, left_in
  <1>2. Asleep = ToSet(sleepers)
    BY AllAsleep DEF KernelInv, TypeInv, PlaceInv
  <1>3. DOMAIN sleeping_threads = 1 .. Len(sleeping_threads)
    BY SleeperFields DEF KernelInv, TypeInv
  <1>4. t \in Asleep <=> \E i \in 1 .. Len(sleeping_threads) : sleeping_threads[i].thread = t
    BY <1>2, <1>3 DEF ToSet, sleepers, names
  <1>5. t \in Asleep <=> remaining[t] > 0
    <2>1. ASSUME NEW i \in 1 .. Len(sleeping_threads), sleeping_threads[i].thread = t
          PROVE  remaining[t] > 0
      <3>1. remaining[t] = ticks(sleeping_threads, i)
        BY <1>1, <2>1, LeftIn
      <3>2. ticks(sleeping_threads, i) \in 1 .. TIME_MOD - 1
        BY DEF SleepInv
      <3> QED
        BY <3>1, <3>2
    <2>2. ASSUME t \notin Asleep
          PROVE  remaining[t] = 0
      BY <1>1, <1>4, <2>2, LeftIn
    <2> QED
      BY <1>4, <2>1, <2>2
  <1>6. t \in Asleep => t \notin ToSet(ready_threads) \cup {thread_current}
    BY <1>2, PlacesSeen
  <1> QED
    BY <1>5, <1>6 DEF OwedInv

\* A thread that is owed no more ticks was woken, and is ready or runs.
Woken ==
  halted' = "no" =>
    \A t \in Thread : owed[t] > 0 /\ owed'[t] = 0 =>
      t \in ToSet(ready_threads') \cup {thread_current'}

LEMMA WokenByTick ==
  ASSUME NoTimedWaits
  PROVE  KernelInv /\ SleepInv /\ OwedInv /\ [SleepNext]_sleep_vars => Woken
  <1> SUFFICES ASSUME KernelInv, SleepInv, OwedInv, [SleepNext]_sleep_vars, halted' = "no",
                      NEW t \in Thread, owed[t] > 0, owed'[t] = 0
               PROVE  t \in ToSet(ready_threads') \cup {thread_current'}
    BY DEF Woken
  <1>1. [Next]_vars /\ KernelInv' /\ halted = "no" /\ SleepInv' /\ OwedInv'
    BY SleepNextIsNext, KernelInvNext, StaysOff, SleepStep
  <1>2. t \in Asleep /\ t # thread_current
    BY <1>1, PromisesKept DEF PromisesHold
  <1>3. Ticks
    <2>1. owed = remaining /\ DOMAIN owed = Thread
      BY <1>1 DEF OwedInv, remaining
    <2>2. ASSUME NEW time \in Times, Asks(time)
          PROVE  FALSE
      <3>1. owed'[t] = owed[t]
        BY <1>2, <2>1, <2>2 DEF Asks
      <3> QED
        BY <3>1
    <2>3. ~(OtherCalls \/ UNCHANGED sleep_vars)
      BY DEF OtherCalls, sleep_vars
    <2> QED
      BY <2>2, <2>3 DEF SleepNext
  <1>4. t \notin ToSet(sleepers')
    <2>1. Sound(sleeping_threads') /\ remaining' = left_in(sleeping_threads')
      BY <1>1, StillSound DEF remaining, left_in
    <2>2. remaining'[t] = 0
      BY <1>1 DEF OwedInv
    <2>3. DOMAIN sleeping_threads' = 1 .. Len(sleeping_threads')
      BY <2>1, LenProperties DEF Sound
    <2>4. ASSUME NEW i \in 1 .. Len(sleeping_threads'), sleeping_threads'[i].thread = t
          PROVE  FALSE
      <3>1. remaining'[t] = ticks(sleeping_threads', i)
        BY <2>1, <2>4, LeftIn
      <3>2. ticks(sleeping_threads', i) \in 1 .. TIME_MOD - 1
        BY <2>1, <2>4 DEF Sound
      <3> QED
        BY <2>2, <3>1, <3>2
    <2> QED
      BY <2>3, <2>4 DEF ToSet, sleepers, names
  <1>5. t \in live /\ t \notin Waiters(Sem) /\ t \notin ToSet(threads_waiting_for_input)
    <2>1. t \in ToSet(sleepers)
      BY <1>2, AllAsleep DEF KernelInv, TypeInv, PlaceInv
    <2> QED
      BY <2>1, PlacesSeen DEF Linked
  <1>6. /\ live' = live /\ threads_waiting_for_input' = threads_waiting_for_input
        /\ \A s \in Sem : waiting_threads'[s] \in {waiting_threads[s], <<>>}
    <2>1. PICK k \in 0 .. Len(sleeping_threads) :
            \/ Halt(timer_end(k))
            \/ scheduler_tick(k) /\ UNCHANGED <<live, console_vars>>
      BY <1>3 DEF Ticks, TimerIrq
    <2>2. ~Halt(timer_end(k))
      BY DEF Halt, Ends
    <2> QED
      BY <2>1, <2>2 DEF scheduler_tick, console_vars, input_vars
  <1>7. t \notin Waiters(Sem)'
    <2>1. ASSUME NEW s \in Sem
          PROVE  ToSet(waiting_threads'[s]) \subseteq ToSet(waiting_threads[s])
      BY <1>6, EmptyQueue DEF ToSet
    <2> QED
      BY <1>5, <2>1 DEF Waiters
  <1>8. live' \subseteq {thread_current'} \cup ToSet(ready_threads') \cup Waiters(Sem)'
                          \cup ToSet(threads_waiting_for_input') \cup ToSet(sleepers')
    BY <1>1 DEF KernelInv, PlaceInv, ThreadsApart, Apart
  <1> QED
    BY <1>4, <1>5, <1>6, <1>7, <1>8

\* The delta list of scheduler.c keeps every promise of time_sleep, for any
\* number of sleepers, any times and any interleaving of calls and ticks:
\* __scheduler_timeout gives the caller the ticks it asked for and changes nobody
\* else's, and __scheduler_tick takes one tick from every sleeper and makes
\* exactly those ready that have none left.  No sum of deltas wraps around the
\* width of time_t.
THEOREM SleepsAsLongAsAskedTheorem ==
  ASSUME NoTimedWaits
  PROVE  SleepSpec => SleepsAsLongAsAsked
  <1>1. SleepInit => KernelInv /\ SleepInv /\ OwedInv
    <2> SUFFICES ASSUME SleepInit
                 PROVE  SleepInv /\ OwedInv
      BY KernelInvInit DEF SleepInit
    <2>1. sleeping_threads = <<>> /\ Len(sleeping_threads) = 0 /\ DOMAIN sleeping_threads = {}
      BY EmptySeq, LenProperties DEF SleepInit, Init
    <2>2. remaining = [t \in Thread |-> 0]
      BY <2>1 DEF remaining
    <2> QED
      BY <2>1, <2>2 DEF SleepInv, OwedInv, SleepInit
  <1>2. KernelInv /\ [SleepNext]_sleep_vars => KernelInv'
    BY KernelInvNext, SleepNextIsNext
  <1>3. KernelInv /\ SleepInv /\ OwedInv /\ [SleepNext]_sleep_vars => SleepInv' /\ OwedInv'
    BY SleepStep
  <1>4. KernelInv /\ SleepInv /\ OwedInv =>
          (halted = "no" =>
             \A t \in Thread :
               /\ remaining[t] = owed[t]
               /\ t \in Asleep <=> owed[t] > 0
               /\ owed[t] > 0 => t \notin ToSet(ready_threads) \cup {thread_current})
    BY PromisesKept DEF PromisesHold
  <1>5. KernelInv /\ SleepInv /\ OwedInv /\ [SleepNext]_sleep_vars =>
          [halted' = "no" =>
             \A t \in Thread : owed[t] > 0 /\ owed'[t] = 0 =>
               t \in ToSet(ready_threads') \cup {thread_current'}]_sleep_vars
    BY WokenByTick DEF Woken
  <1> QED
    BY <1>1, <1>2, <1>3, <1>4, <1>5, PTL DEF SleepSpec, SleepsAsLongAsAsked
=============================================================================
