------------------------ MODULE ProducerConsumerProofs ------------------------
(***************************************************************************)
(* Proofs about the producer and consumer test, for any number of threads  *)
(* and any size of the buffer.                                             *)
(***************************************************************************)
EXTENDS ProducerConsumer, TLAPS, FiniteSetTheorems, SequenceTheorems,
        FunctionTheorems

-----------------------------------------------------------------------------
(* The inductive invariant.                                                *)

\* Where main() is before, during and after the run of the threads.
Before == {"entered", "done"}
During == {"create", "join"}
After == {"cnt", "cnt_lock", "cnt_count", "cnt_unlock", "cnt_done", "print"}
Deleting == {"delete", "done"}

\* Where a thread can be.
ThreadLabel ==
  {"new", "loop", "end", "over",
   "put", "put_lock", "put_store", "put_advance", "put_unlock", "put_item",
   "get", "get_lock", "get_load", "get_advance", "get_unlock", "get_space",
   "cnt", "cnt_lock", "cnt_count", "cnt_unlock", "cnt_done"}

\* How many threads are at one of the labels L.
At(L) == Cardinality({t \in Thread : pc[t] \in L})

\* Between the wait that takes a unit and the step that passes it on.
Claim == {"put_lock", "put_store", "put_advance"}
Stored == {"put_unlock", "put_item"}
Due == {"get_lock", "get_load", "get_advance"}
Got == {"get_unlock", "get_space"}
Locked == {"put_store", "put_advance", "put_unlock", "cnt_count", "cnt_unlock"}

\* Where a thread that waits on s will go on.
resume(s) ==
  CASE s = "spaceAvailable" -> {"put_lock"}
    [] s = "itemAvailable"  -> {"get_lock"}
    [] s = "mutexTail"      -> {"put_store", "cnt_count"}
    [] s = "mutexHead"      -> {"get_load", "cnt_lock"}
    [] s = "waitForAll"     -> {"join"}

Typed ==
  /\ threadNum \in 0 .. MaxThreads
  /\ n \in 0 .. MaxSize
  /\ head \in 0 .. n
  /\ tail \in 0 .. n
  /\ buffer \in [0 .. MaxSize -> Value \cup {UNSET}]
  /\ pc \in [Thread -> ThreadLabel \cup Before \cup During \cup After \cup Deleting]
  /\ \A t \in 0 .. MaxThreads : pc[t] \in ThreadLabel
  /\ ret \in [Thread -> Int]
  /\ joined \in Nat
  /\ open \subseteq Sem
  /\ val \in [Sem -> Int]
  /\ waiting_threads \in [Sem -> Seq(Thread)]

\* The phases of main().
Phase ==
  \/ /\ pc[MAIN] \in Before
     /\ open = {} /\ joined = 0 /\ head = tail
     /\ \A s \in Sem : waiting_threads[s] = <<>>
     /\ \A t \in 0 .. MaxThreads : pc[t] = "new"
     /\ pc[MAIN] = "done" => refused
  \/ /\ pc[MAIN] \in During
     /\ open = Sem /\ ~refused
     /\ \A t \in threadNum + 1 .. MaxThreads : pc[t] = "new"
  \/ /\ pc[MAIN] \in After \cup Deleting
     /\ ~refused
     /\ \A t \in 0 .. threadNum : pc[t] = "over"
     /\ \A t \in threadNum + 1 .. MaxThreads : pc[t] = "new"
     /\ pc[MAIN] \in After => {"mutexHead", "mutexTail"} \subseteq open

\* The units of a semaphore are where they should be: left in it, or with the
\* threads between their two calls, or in the buffer.
Units ==
  /\ val["spaceAvailable"] + At(Claim) + cnt + At(Got) = n
  /\ val["itemAvailable"] + At(Due) + At(Stored) = cnt
  /\ val["mutexTail"] + At(Locked) = 1
  /\ val["waitForAll"] + joined = At({"over"})

\* A negative value counts the waiting threads, which wait in one place and
\* have yet to go on.
Queued ==
  \A s \in Sem :
    /\ Len(waiting_threads[s]) = IF val[s] < 0 THEN -val[s] ELSE 0
    /\ \A j \in DOMAIN waiting_threads[s] :
         /\ pc[waiting_threads[s][j]] \in resume(s)
         /\ \A k \in DOMAIN waiting_threads[s] :
              waiting_threads[s][j] = waiting_threads[s][k] => j = k

\* The item that is about to count has been stored, and what main() counted
\* is still there.
Shown ==
  /\ \A t \in 0 .. MaxThreads : pc[t] = "put_advance" => buffer[tail] \in Value
  /\ pc[MAIN] \in {"cnt_unlock", "cnt_done"} => ret[MAIN] = cnt
  /\ pc[MAIN] = "print" => cnt > 0

PCInv ==
  /\ Typed
  /\ Phase
  /\ pc[MAIN] \in During => Units /\ Queued
  /\ Shown

-----------------------------------------------------------------------------
(* Arithmetic of the buffer.                                               *)

LEMMA ModSmall == \A c \in Int, x \in Int : 0 <= x /\ x < c => x % c = x
OBVIOUS

LEMMA ModOnce == \A c \in Int, x \in Int : c <= x /\ x < 2 * c => x % c = x - c
OBVIOUS

LEMMA ModBelow == \A c \in Int, x \in Int : -c <= x /\ x < 0 => x % c = x + c
OBVIOUS

\* One step round the buffer.
LEMMA Turn ==
  ASSUME NEW m \in Nat, NEW x \in 0 .. m
  PROVE  (x + 1) % (m + 1) = IF x = m THEN 0 ELSE x + 1
<1>1. CASE x = m
  <2>1. m + 1 <= x + 1 /\ x + 1 < 2 * (m + 1) /\ x + 1 \in Int /\ m + 1 \in Int
    BY <1>1
  <2>2. (x + 1) % (m + 1) = (x + 1) - (m + 1)
    BY <2>1, ModOnce
  <2> QED BY <1>1, <2>2
<1>2. CASE x # m
  <2>1. 0 <= x + 1 /\ x + 1 < m + 1 /\ x + 1 \in Int /\ m + 1 \in Int
    BY <1>2
  <2> QED BY <1>2, <2>1, ModSmall
<1> QED BY <1>1, <1>2

-----------------------------------------------------------------------------
(* Threads at labels.                                                      *)

LEMMA Threads ==
  /\ IsFiniteSet(Thread) /\ MAIN \in Thread
  /\ \A t : t \in Thread <=> t = MAIN \/ t \in 0 .. MaxThreads
  /\ MAIN \notin 0 .. MaxThreads
<1>1. MaxThreads \in Nat
  BY EnteredAssumption
<1>2. IsFiniteSet(-1 .. MaxThreads)
  BY <1>1, FS_Interval
<1>3. \A t : t \in -1 .. MaxThreads <=> t = -1 \/ t \in 0 .. MaxThreads
  BY <1>1
<1> QED BY <1>1, <1>2, <1>3 DEF Thread, MAIN

LEMMA AtFinite ==
  ASSUME NEW f, NEW L
  PROVE  /\ IsFiniteSet({t \in Thread : f[t] \in L})
         /\ Cardinality({t \in Thread : f[t] \in L}) \in Nat
<1>1. IsFiniteSet({t \in Thread : f[t] \in L})
  BY Threads, FS_Subset
<1> QED BY <1>1, FS_CardinalityType

\* One thread goes from one label to another.
LEMMA AtMoves ==
  ASSUME NEW f, DOMAIN f = Thread, NEW t \in Thread, NEW to, NEW L
  PROVE  Cardinality({u \in Thread : [f EXCEPT ![t] = to][u] \in L}) =
           Cardinality({u \in Thread : f[u] \in L})
             + (IF to \in L THEN 1 ELSE 0) - (IF f[t] \in L THEN 1 ELSE 0)
<1> DEFINE g == [f EXCEPT ![t] = to]
           F == {u \in Thread : f[u] \in L}
           G == {u \in Thread : g[u] \in L}
<1>1. g[t] = to /\ \A u \in Thread : u # t => g[u] = f[u]
  OBVIOUS
<1>2. /\ IsFiniteSet(F) /\ IsFiniteSet(G)
      /\ Cardinality(F) \in Nat /\ Cardinality(G) \in Nat
  BY AtFinite
<1>3. (t \in G <=> to \in L) /\ (t \in F <=> f[t] \in L)
  BY <1>1
<1> HIDE DEF g
<1>4. CASE t \in F /\ t \in G
  <2>1. F = G
    BY <1>1, <1>4
  <2> QED BY <1>2, <1>3, <1>4, <2>1 DEF g
<1>5. CASE t \notin F /\ t \notin G
  <2>1. F = G
    BY <1>1, <1>5
  <2> QED BY <1>2, <1>3, <1>5, <2>1 DEF g
<1>6. CASE t \in F /\ t \notin G
  <2>1. G = F \ {t}
    BY <1>1, <1>6
  <2> HIDE DEF F, G
  <2>2. Cardinality(G) = Cardinality(F) - 1
    BY <1>2, <1>6, <2>1, FS_RemoveElement
  <2> QED BY <1>2, <1>3, <1>6, <2>2 DEF g, F, G
<1>7. CASE t \notin F /\ t \in G
  <2>1. G = F \cup {t}
    BY <1>1, <1>7
  <2> HIDE DEF F, G
  <2>2. Cardinality(G) = Cardinality(F) + 1
    BY <1>2, <1>7, <2>1, FS_AddElement
  <2> QED BY <1>2, <1>3, <1>7, <2>2 DEF g, F, G
<1> QED BY <1>4, <1>5, <1>6, <1>7

\* The same, for the counts of the invariant.
LEMMA Counts ==
  ASSUME Typed, NEW t \in Thread, NEW to, pc' = [pc EXCEPT ![t] = to], NEW L
  PROVE  /\ At(L) \in Nat
         /\ At(L)' = At(L) + (IF to \in L THEN 1 ELSE 0)
                           - (IF pc[t] \in L THEN 1 ELSE 0)
<1>1. DOMAIN pc = Thread
  BY DEF Typed
<1>2. At(L) \in Nat
  BY AtFinite DEF At
<1>3. At(L)' = Cardinality({u \in Thread : [pc EXCEPT ![t] = to][u] \in L})
  BY DEF At
<1> QED BY <1>1, <1>2, <1>3, AtMoves DEF At

\* A sequence without repetition has as many elements as its length.
LEMMA Elements ==
  ASSUME NEW S, NEW q \in Seq(S),
         \A j, k \in DOMAIN q : q[j] = q[k] => j = k
  PROVE  /\ IsFiniteSet({q[j] : j \in DOMAIN q})
         /\ Cardinality({q[j] : j \in DOMAIN q}) = Len(q)
<1> DEFINE Q == {q[j] : j \in DOMAIN q}
<1>1. DOMAIN q = 1 .. Len(q) /\ Len(q) \in Nat
  BY LenProperties
<1>2. q \in Bijection(1 .. Len(q), Q)
  <2>1. q \in [1 .. Len(q) -> Q]
    BY <1>1
  <2>2. q \in Injection(1 .. Len(q), Q)
    BY <1>1, <2>1, Fun_IsInj
  <2>3. q \in Surjection(1 .. Len(q), Q)
    BY <1>1, <2>1 DEF Surjection
  <2> QED BY <2>2, <2>3 DEF Bijection
<1>3. ExistsBijection(1 .. Len(q), Q)
  BY <1>2 DEF ExistsBijection
<1>4. IsFiniteSet(1 .. Len(q)) /\ Cardinality(1 .. Len(q)) = Len(q)
  BY <1>1, FS_Interval
<1> QED BY <1>3, <1>4, FS_Bijection

-----------------------------------------------------------------------------
(* What the semaphore calls do to the queues.                              *)

SemTyped ==
  /\ open \subseteq Sem
  /\ val \in [Sem -> Int]
  /\ waiting_threads \in [Sem -> Seq(Thread)]

\* The queue of one semaphore, its value and the labels of the threads in it.
QueuedAt(s, q, v, at) ==
  /\ Len(q) = IF v < 0 THEN -v ELSE 0
  /\ \A j \in DOMAIN q :
       /\ at[q[j]] \in resume(s)
       /\ \A k \in DOMAIN q : q[j] = q[k] => j = k

LEMMA QueuedEach ==
  Queued <=> \A s \in Sem : QueuedAt(s, waiting_threads[s], val[s], pc)
BY DEF Queued, QueuedAt

\* A thread that is in no queue changes its label.
LEMMA QueueKept ==
  ASSUME NEW s, NEW q \in Seq(Thread), NEW v, NEW at, DOMAIN at = Thread,
         QueuedAt(s, q, v, at), NEW t \in Thread, NEW to,
         \A j \in DOMAIN q : q[j] # t
  PROVE  QueuedAt(s, q, v, [at EXCEPT ![t] = to])
<1>1. \A j \in DOMAIN q : q[j] \in Thread
  BY ElementOfSeq, LenProperties
<1>2. \A j \in DOMAIN q : [at EXCEPT ![t] = to][q[j]] = at[q[j]]
  BY <1>1
<1> QED BY <1>2 DEF QueuedAt

\* A thread queues, or finds a unit.
LEMMA QueueJoined ==
  ASSUME NEW s, NEW q \in Seq(Thread), NEW v \in Int, NEW at, DOMAIN at = Thread,
         QueuedAt(s, q, v, at), NEW t \in Thread, NEW to \in resume(s),
         \A j \in DOMAIN q : q[j] # t
  PROVE  QueuedAt(s, IF v > 0 THEN q ELSE Append(q, t), v - 1, [at EXCEPT ![t] = to])
<1> DEFINE at2 == [at EXCEPT ![t] = to]
<1>1. QueuedAt(s, q, v, at2) /\ at2[t] = to
  BY QueueKept
<1>2. Len(q) \in Nat /\ DOMAIN q = 1 .. Len(q)
  BY LenProperties
<1> HIDE DEF at2
<1>3. CASE v > 0
  BY <1>1, <1>3 DEF QueuedAt, at2
<1>4. CASE ~(v > 0)
  <2> DEFINE r == Append(q, t)
  <2>1. /\ Len(r) = Len(q) + 1 /\ r[Len(q) + 1] = t
        /\ \A j \in 1 .. Len(q) : r[j] = q[j]
        /\ DOMAIN r = 1 .. Len(q) + 1
    BY AppendProperties
  <2> HIDE DEF r
  <2>2. \A j \in DOMAIN r : j = Len(q) + 1 \/ j \in DOMAIN q
    BY <1>2, <2>1
  <2>3. Len(r) = IF v - 1 < 0 THEN -(v - 1) ELSE 0
    BY <1>1, <1>2, <1>4, <2>1 DEF QueuedAt
  <2>4. \A j \in DOMAIN r : at2[r[j]] \in resume(s)
    BY <1>1, <1>2, <2>1, <2>2 DEF QueuedAt
  <2>5. \A j, k \in DOMAIN r : r[j] = r[k] => j = k
    BY <1>1, <1>2, <2>1, <2>2 DEF QueuedAt
  <2> QED BY <1>4, <2>3, <2>4, <2>5 DEF QueuedAt, r, at2
<1> QED BY <1>3, <1>4

\* The first of the queue gets the unit.
LEMMA QueueServed ==
  ASSUME NEW s, NEW q \in Seq(Thread), NEW v \in Int, NEW at, DOMAIN at = Thread,
         QueuedAt(s, q, v, at), NEW t \in Thread, NEW to,
         \A j \in DOMAIN q : q[j] # t
  PROVE  QueuedAt(s, IF q = <<>> THEN q ELSE Tail(q), v + 1, [at EXCEPT ![t] = to])
<1> DEFINE at2 == [at EXCEPT ![t] = to]
<1>1. QueuedAt(s, q, v, at2)
  BY QueueKept
<1>2. Len(q) \in Nat /\ DOMAIN q = 1 .. Len(q)
  BY LenProperties
<1> HIDE DEF at2
<1>3. CASE q = <<>>
  <2>1. Len(q) = 0 /\ DOMAIN q = {}
    BY <1>2, <1>3, EmptySeq
  <2> QED BY <1>1, <1>3, <2>1 DEF QueuedAt, at2
<1>4. CASE q # <<>>
  <2> DEFINE r == Tail(q)
  <2>1. /\ Len(r) = Len(q) - 1 /\ r \in Seq(Thread)
        /\ \A j \in 1 .. Len(q) - 1 : r[j] = q[j + 1]
    BY <1>4, HeadTailProperties
  <2>2. Len(q) > 0
    BY <1>2, <1>4, EmptySeq
  <2> HIDE DEF r
  <2>3. DOMAIN r = 1 .. Len(q) - 1
    BY <2>1, LenProperties
  <2>4. \A j \in DOMAIN r : j \in Int /\ j + 1 \in DOMAIN q /\ r[j] = q[j + 1]
    BY <1>2, <2>1, <2>3
  <2>5. Len(r) = IF v + 1 < 0 THEN -(v + 1) ELSE 0
    BY <1>1, <1>2, <2>1, <2>2 DEF QueuedAt
  <2>6. \A j \in DOMAIN r : at2[r[j]] \in resume(s)
    BY <1>1, <2>4 DEF QueuedAt
  <2>7. \A j, k \in DOMAIN r : r[j] = r[k] => j = k
    BY <1>1, <2>4 DEF QueuedAt
  <2> QED BY <1>4, <2>5, <2>6, <2>7 DEF QueuedAt, r, at2
<1> QED BY <1>3, <1>4

LEMMA NotQueued ==
  ASSUME NEW t, Semaphores!Free(t), NEW s \in Sem
  PROVE  \A j \in DOMAIN waiting_threads[s] : waiting_threads[s][j] # t
BY DEF Semaphores!Free

\* A step of t that is not a call.
LEMMA PlainQueued ==
  ASSUME Typed, Queued, NEW t \in Thread, NEW from, NEW to, Goes(t, from, to),
         UNCHANGED sem_vars
  PROVE  Queued' /\ SemTyped'
<1>1. /\ DOMAIN pc = Thread /\ waiting_threads \in [Sem -> Seq(Thread)] /\ SemTyped
  BY DEF Typed, SemTyped
<1>2. /\ pc' = [pc EXCEPT ![t] = to] /\ Semaphores!Free(t)
      /\ waiting_threads' = waiting_threads /\ val' = val /\ open' = open
  BY DEF Goes, sem_vars
<1>3. ASSUME NEW s \in Sem
      PROVE  QueuedAt(s, waiting_threads[s], val[s], [pc EXCEPT ![t] = to])
  BY <1>1, <1>2, QueuedEach, QueueKept, NotQueued
<1>4. Queued'
  BY <1>2, <1>3 DEF Queued, QueuedAt
<1> QED BY <1>1, <1>2, <1>4 DEF SemTyped

\* A step of t that waits.
LEMMA WaitQueued ==
  ASSUME Typed, Queued, NEW t \in Thread, NEW from, NEW s \in Sem,
         NEW to \in resume(s), Goes(t, from, to), Semaphores!Wait(t, s)
  PROVE  Queued' /\ SemTyped' /\ open' = open /\ val' = [val EXCEPT ![s] = @ - 1]
<1>1. /\ DOMAIN pc = Thread /\ waiting_threads \in [Sem -> Seq(Thread)] /\ open \subseteq Sem
      /\ val \in [Sem -> Int]
  BY DEF Typed
<1>2. /\ pc' = [pc EXCEPT ![t] = to] /\ Semaphores!Free(t) /\ open' = open
      /\ val' = [val EXCEPT ![s] = @ - 1]
      /\ waiting_threads' = IF val[s] > 0
                            THEN waiting_threads
                            ELSE [waiting_threads EXCEPT ![s] = Append(@, t)]
  BY DEF Goes, Semaphores!Wait
<1>3. /\ val' \in [Sem -> Int] /\ val'[s] = val[s] - 1
      /\ \A r \in Sem : r # s => val'[r] = val[r]
  BY <1>1, <1>2
<1>4. /\ waiting_threads'[s] = IF val[s] > 0 THEN waiting_threads[s]
                               ELSE Append(waiting_threads[s], t)
      /\ \A r \in Sem : r # s => waiting_threads'[r] = waiting_threads[r]
  BY <1>1, <1>2
<1>5. waiting_threads' \in [Sem -> Seq(Thread)]
  BY <1>1, <1>2, AppendProperties
<1>6. ASSUME NEW r \in Sem
      PROVE  QueuedAt(r, waiting_threads'[r], val'[r], [pc EXCEPT ![t] = to])
  <2>1. /\ waiting_threads[r] \in Seq(Thread) /\ val[r] \in Int
        /\ QueuedAt(r, waiting_threads[r], val[r], pc)
        /\ \A j \in DOMAIN waiting_threads[r] : waiting_threads[r][j] # t
    BY <1>1, <1>2, QueuedEach, NotQueued
  <2>2. CASE r = s
    <3>1. QueuedAt(s, IF val[s] > 0 THEN waiting_threads[s]
                      ELSE Append(waiting_threads[s], t), val[s] - 1,
                   [pc EXCEPT ![t] = to])
      BY <1>1, <2>1, <2>2, QueueJoined
    <3> QED BY <1>3, <1>4, <2>2, <3>1
  <2>3. CASE r # s
    BY <1>1, <1>3, <1>4, <2>1, <2>3, QueueKept
  <2> QED BY <2>2, <2>3
<1>7. Queued'
  BY <1>2, <1>6 DEF Queued, QueuedAt
<1> QED BY <1>1, <1>2, <1>3, <1>5, <1>7 DEF SemTyped

\* A step of t that signals.
LEMMA SignalQueued ==
  ASSUME Typed, Queued, NEW t \in Thread, NEW from, NEW s \in Sem,
         NEW to, Goes(t, from, to), Semaphores!Signal(s)
  PROVE  Queued' /\ SemTyped' /\ open' = open /\ val' = [val EXCEPT ![s] = @ + 1]
<1>1. /\ DOMAIN pc = Thread /\ waiting_threads \in [Sem -> Seq(Thread)] /\ open \subseteq Sem
      /\ val \in [Sem -> Int]
  BY DEF Typed
<1>2. /\ pc' = [pc EXCEPT ![t] = to] /\ Semaphores!Free(t) /\ open' = open
      /\ val' = [val EXCEPT ![s] = @ + 1]
      /\ waiting_threads' = IF waiting_threads[s] = <<>>
                            THEN waiting_threads
                            ELSE [waiting_threads EXCEPT ![s] = Tail(@)]
  BY DEF Goes, Semaphores!Signal
<1>3. /\ val' \in [Sem -> Int] /\ val'[s] = val[s] + 1
      /\ \A r \in Sem : r # s => val'[r] = val[r]
  BY <1>1, <1>2
<1>4. /\ waiting_threads'[s] = IF waiting_threads[s] = <<>> THEN waiting_threads[s]
                               ELSE Tail(waiting_threads[s])
      /\ \A r \in Sem : r # s => waiting_threads'[r] = waiting_threads[r]
  BY <1>1, <1>2
<1>5. waiting_threads' \in [Sem -> Seq(Thread)]
  <2>1. waiting_threads[s] # <<>> => Tail(waiting_threads[s]) \in Seq(Thread)
    BY <1>1, HeadTailProperties
  <2> QED BY <1>1, <1>2, <2>1
<1>6. ASSUME NEW r \in Sem
      PROVE  QueuedAt(r, waiting_threads'[r], val'[r], [pc EXCEPT ![t] = to])
  <2>1. /\ waiting_threads[r] \in Seq(Thread) /\ val[r] \in Int
        /\ QueuedAt(r, waiting_threads[r], val[r], pc)
        /\ \A j \in DOMAIN waiting_threads[r] : waiting_threads[r][j] # t
    BY <1>1, <1>2, QueuedEach, NotQueued
  <2>2. CASE r = s
    <3>1. QueuedAt(s, IF waiting_threads[s] = <<>> THEN waiting_threads[s]
                      ELSE Tail(waiting_threads[s]), val[s] + 1,
                   [pc EXCEPT ![t] = to])
      BY <1>1, <2>1, <2>2, QueueServed
    <3> QED BY <1>3, <1>4, <2>2, <3>1
  <2>3. CASE r # s
    BY <1>1, <1>3, <1>4, <2>1, <2>3, QueueKept
  <2> QED BY <2>2, <2>3
<1>7. Queued'
  BY <1>2, <1>6 DEF Queued, QueuedAt
<1> QED BY <1>1, <1>2, <1>3, <1>5, <1>7 DEF SemTyped

-----------------------------------------------------------------------------
(* What the counts say.                                                    *)

\* Beside those that wait on s there are the threads T that do not.
LEMMA Waiters ==
  ASSUME Typed, Queued, NEW s \in Sem, NEW T \in SUBSET Thread, NEW L,
         resume(s) \subseteq L, \A t \in T : pc[t] \in L /\ pc[t] \notin resume(s)
  PROVE  /\ Len(waiting_threads[s]) + Cardinality(T) <= At(L)
         /\ Len(waiting_threads[s]) = IF val[s] < 0 THEN -val[s] ELSE 0
         /\ val[s] \in Int /\ At(L) \in Nat /\ Cardinality(T) \in Nat
<1> DEFINE q == waiting_threads[s]
           W == {q[j] : j \in DOMAIN q}
           A == {t \in Thread : pc[t] \in L}
<1>1. q \in Seq(Thread) /\ val[s] \in Int /\ QueuedAt(s, q, val[s], pc)
  BY QueuedEach DEF Typed
<1>2. /\ Len(q) = IF val[s] < 0 THEN -val[s] ELSE 0
      /\ \A j \in DOMAIN q : pc[q[j]] \in resume(s)
      /\ \A j, k \in DOMAIN q : q[j] = q[k] => j = k
  BY <1>1 DEF QueuedAt
<1>3. \A j \in DOMAIN q : q[j] \in Thread
  BY <1>1, ElementOfSeq, LenProperties
<1>4. IsFiniteSet(W) /\ Cardinality(W) = Len(q) /\ Len(q) \in Nat
  BY <1>1, <1>2, Elements, LenProperties
<1>5. IsFiniteSet(T) /\ Cardinality(T) \in Nat
  BY Threads, FS_Subset, FS_CardinalityType
<1>6. W \cap T = {} /\ W \cup T \in SUBSET A
  BY <1>2, <1>3
<1>7. IsFiniteSet(A) /\ Cardinality(A) \in Nat
  BY AtFinite
<1> HIDE DEF W, A
<1>8. Cardinality(W \cup T) = Cardinality(W) + Cardinality(T)
  <2>1. Cardinality(W \cap T) = 0
    BY <1>6, FS_EmptySet
  <2>2. Cardinality(W \cup T) = Cardinality(W) + Cardinality(T) - Cardinality(W \cap T)
    BY <1>4, <1>5, FS_Union
  <2> QED BY <1>4, <1>5, <2>1, <2>2
<1>9. Cardinality(W \cup T) <= Cardinality(A)
  BY <1>6, <1>7, FS_Subset
<1> QED BY <1>1, <1>2, <1>4, <1>5, <1>7, <1>8, <1>9 DEF At, A

LEMMA Resumes ==
  /\ resume("spaceAvailable") = {"put_lock"}
  /\ resume("itemAvailable") = {"get_lock"}
  /\ resume("mutexTail") = {"put_store", "cnt_count"}
  /\ resume("mutexHead") = {"get_load", "cnt_lock"}
  /\ resume("waitForAll") = {"join"}
BY DEF resume

LEMMA AtNat == ASSUME NEW L PROVE At(L) \in Nat
BY AtFinite DEF At

LEMMA CntRange == Typed => /\ cnt \in Int /\ 0 <= cnt /\ cnt <= n /\ n \in Nat
                           /\ cap \in Nat /\ cap = n + 1
<1> SUFFICES ASSUME Typed
             PROVE  cnt \in Int /\ 0 <= cnt /\ cnt <= n /\ n \in Nat /\ cap = n + 1
  BY DEF cap
<1>1. head \in 0 .. n /\ tail \in 0 .. n /\ n \in Nat
  BY EnteredAssumption DEF Typed
<1> QED BY <1>1 DEF cnt, cap

\* A producer that has stored an item finds a place for it.
LEMMA Room ==
  ASSUME Typed, Units, Queued, NEW t \in Thread, pc[t] = "put_advance"
  PROVE  cnt < n
<1>1. /\ Len(waiting_threads["spaceAvailable"]) + Cardinality({t}) <= At(Claim)
      /\ Len(waiting_threads["spaceAvailable"]) =
           IF val["spaceAvailable"] < 0 THEN -val["spaceAvailable"] ELSE 0
      /\ val["spaceAvailable"] \in Int /\ At(Claim) \in Nat
  <2>1. "spaceAvailable" \in Sem /\ {t} \in SUBSET Thread
    BY DEF Sem
  <2>2. /\ resume("spaceAvailable") \subseteq Claim
        /\ \A x \in {t} : pc[x] \in Claim /\ pc[x] \notin resume("spaceAvailable")
    BY Resumes DEF Claim
  <2> QED BY <2>1, <2>2, Waiters
<1>2. Cardinality({t}) = 1
  BY FS_Singleton
<1>3. At(Got) \in Nat /\ cnt \in Int /\ n \in Int
  BY AtNat, CntRange
<1>4. val["spaceAvailable"] + At(Claim) + cnt + At(Got) = n
  BY DEF Units
<1> QED BY <1>1, <1>2, <1>3, <1>4

\* The consumer finds an item.
LEMMA Something ==
  ASSUME Typed, Units, Queued, NEW t \in Thread, pc[t] = "get_advance"
  PROVE  cnt > 0
<1>1. /\ Len(waiting_threads["itemAvailable"]) + Cardinality({t}) <= At(Due)
      /\ Len(waiting_threads["itemAvailable"]) =
           IF val["itemAvailable"] < 0 THEN -val["itemAvailable"] ELSE 0
      /\ val["itemAvailable"] \in Int /\ At(Due) \in Nat
  <2>1. "itemAvailable" \in Sem /\ {t} \in SUBSET Thread
    BY DEF Sem
  <2>2. /\ resume("itemAvailable") \subseteq Due
        /\ \A x \in {t} : pc[x] \in Due /\ pc[x] \notin resume("itemAvailable")
    BY Resumes DEF Due
  <2> QED BY <2>1, <2>2, Waiters
<1>2. Cardinality({t}) = 1
  BY FS_Singleton
<1>3. At(Stored) \in Nat /\ cnt \in Int
  BY AtNat, CntRange
<1>4. val["itemAvailable"] + At(Due) + At(Stored) = cnt
  BY DEF Units
<1> QED BY <1>1, <1>2, <1>3, <1>4

\* mutexTail lets one producer move tail.
LEMMA OneMoves ==
  ASSUME Typed, Units, Queued, NEW t \in Thread, NEW u \in Thread,
         pc[t] = "put_advance", pc[u] = "put_advance"
  PROVE  t = u
<1>0. SUFFICES ASSUME t # u PROVE FALSE
  OBVIOUS
<1>1. /\ Len(waiting_threads["mutexTail"]) + Cardinality({t, u}) <= At(Locked)
      /\ Len(waiting_threads["mutexTail"]) =
           IF val["mutexTail"] < 0 THEN -val["mutexTail"] ELSE 0
      /\ val["mutexTail"] \in Int /\ At(Locked) \in Nat
  <2>1. "mutexTail" \in Sem /\ {t, u} \in SUBSET Thread
    BY DEF Sem
  <2>2. /\ resume("mutexTail") \subseteq Locked
        /\ \A x \in {t, u} : pc[x] \in Locked /\ pc[x] \notin resume("mutexTail")
    BY Resumes DEF Locked
  <2> QED BY <2>1, <2>2, Waiters
<1>2. Cardinality({t, u}) = 2
  <2>1. IsFiniteSet({t}) /\ Cardinality({t}) = 1
    BY FS_Singleton
  <2>2. {t, u} = {t} \cup {u} /\ u \notin {t}
    BY <1>0
  <2> QED BY <2>1, <2>2, FS_AddElement
<1>3. val["mutexTail"] + At(Locked) = 1
  BY DEF Units
<1> QED BY <1>1, <1>2, <1>3

\* When main() has waited for all threads and goes on, they are over.
LEMMA AllOver ==
  ASSUME Typed, Units, Queued, Phase, pc[MAIN] = "join", Semaphores!Free(MAIN), joined = all
  PROVE  \A t \in 0 .. threadNum : pc[t] = "over"
<1> DEFINE q == waiting_threads["waitForAll"]
           O == {t \in Thread : pc[t] \in {"over"}}
<1>1. /\ q \in Seq(Thread) /\ QueuedAt("waitForAll", q, val["waitForAll"], pc)
      /\ val["waitForAll"] \in Int /\ threadNum \in Nat
  BY QueuedEach, EnteredAssumption DEF Typed, Sem
<1>2. DOMAIN q = {}
  <2>1. SUFFICES ASSUME NEW j \in DOMAIN q PROVE FALSE
    OBVIOUS
  <2>2. pc[q[j]] = "join" /\ q[j] \in Thread
    BY <1>1, ElementOfSeq, LenProperties DEF QueuedAt, resume
  <2>3. q[j] = MAIN
    BY <2>2, Threads DEF Typed, ThreadLabel
  <2> QED BY <2>3, NotQueued DEF Sem
<1>3. ~(val["waitForAll"] < 0)
  <2>1. Len(q) = 0
    <3>1. Len(q) \in Nat /\ DOMAIN q = 1 .. Len(q)
      BY <1>1, LenProperties
    <3>2. ~(1 \in 1 .. Len(q))
      BY <1>2, <3>1
    <3> QED BY <3>1, <3>2
  <2> QED BY <1>1, <2>1 DEF QueuedAt
<1>4. Cardinality(O) >= threadNum + 1 /\ Cardinality(O) \in Nat /\ IsFiniteSet(O)
  <2>1. val["waitForAll"] + joined = Cardinality(O)
    BY DEF Units, At
  <2>2. joined = threadNum + 1
    BY DEF all
  <2>3. Cardinality(O) \in Nat /\ IsFiniteSet(O)
    BY AtFinite
  <2> QED BY <1>1, <1>3, <2>1, <2>2, <2>3
<1>5. O \subseteq 0 .. threadNum
  <2> SUFFICES ASSUME NEW t \in Thread, pc[t] = "over" PROVE t \in 0 .. threadNum
    OBVIOUS
  <2>1. t \in 0 .. MaxThreads /\ MaxThreads \in Nat
    BY Threads, EnteredAssumption
  <2>2. ~(t \in threadNum + 1 .. MaxThreads)
    BY DEF Phase, Before, After, Deleting
  <2> QED BY <1>1, <2>1, <2>2
<1>6. IsFiniteSet(0 .. threadNum) /\ Cardinality(0 .. threadNum) = threadNum + 1
  BY <1>1, FS_Interval
<1> HIDE DEF O
<1>7. Cardinality(O) <= Cardinality(0 .. threadNum)
      /\ (Cardinality(0 .. threadNum) = Cardinality(O) => 0 .. threadNum = O)
  BY <1>5, <1>6, FS_Subset
<1>8. 0 .. threadNum = O
  BY <1>1, <1>4, <1>6, <1>7
<1> QED BY <1>8 DEF O

-----------------------------------------------------------------------------
(* The units of the semaphores.                                            *)

change(L, from, to) == (IF to \in L THEN 1 ELSE 0) - (IF from \in L THEN 1 ELSE 0)

unit(s, r, d) == IF r = s THEN d ELSE 0

\* A thread that goes from one label to the other, adds d units to s and c items
\* to the buffer leaves the books balanced.
Balance(from, to, s, d, c) ==
  /\ unit(s, "spaceAvailable", d) + change(Claim, from, to) + change(Got, from, to) + c = 0
  /\ unit(s, "itemAvailable", d) + change(Due, from, to) + change(Stored, from, to) = c
  /\ unit(s, "mutexTail", d) + change(Locked, from, to) = 0
  /\ unit(s, "waitForAll", d) = change({"over"}, from, to)

Moves(t, from, to) == pc[t] = from /\ pc' = [pc EXCEPT ![t] = to]

Adds(s, d) == \A r \in Sem : val'[r] = val[r] + unit(s, r, d)

LEMMA Changes ==
  ASSUME Typed, NEW t \in Thread, NEW to, pc' = [pc EXCEPT ![t] = to], NEW L
  PROVE  /\ At(L) \in Int /\ change(L, pc[t], to) \in Int
         /\ At(L)' = At(L) + change(L, pc[t], to)
<1>1. At(L) \in Nat /\ At(L)' = At(L) + (IF to \in L THEN 1 ELSE 0)
                                      - (IF pc[t] \in L THEN 1 ELSE 0)
  BY Counts
<1> QED BY <1>1 DEF change

LEMMA CallUnits ==
  ASSUME Typed, Units, NEW t \in Thread, NEW from, NEW to, Moves(t, from, to),
         NEW s \in Sem, NEW d \in Int, Adds(s, d), NEW c \in Int, cnt' = cnt + c,
         n' = n, joined' = joined, Balance(from, to, s, d, c)
  PROVE  Units'
<1>0. /\ pc' = [pc EXCEPT ![t] = to] /\ Balance(pc[t], to, s, d, c)
      /\ \A r \in Sem : val'[r] = val[r] + unit(s, r, d)
  BY DEF Moves, Adds
<1>1. cnt \in Int /\ n \in Int /\ joined \in Int
  BY CntRange DEF Typed
<1>2. /\ val["spaceAvailable"] \in Int /\ val["itemAvailable"] \in Int
      /\ val["mutexTail"] \in Int /\ val["waitForAll"] \in Int
      /\ val'["spaceAvailable"] = val["spaceAvailable"] + unit(s, "spaceAvailable", d)
      /\ val'["itemAvailable"] = val["itemAvailable"] + unit(s, "itemAvailable", d)
      /\ val'["mutexTail"] = val["mutexTail"] + unit(s, "mutexTail", d)
      /\ val'["waitForAll"] = val["waitForAll"] + unit(s, "waitForAll", d)
  BY <1>0 DEF Typed, Sem
<1>3. \A r : unit(s, r, d) \in Int
  BY DEF unit
<1>4. /\ At(Claim) \in Int /\ change(Claim, pc[t], to) \in Int
      /\ At(Claim)' = At(Claim) + change(Claim, pc[t], to)
      /\ At(Got) \in Int /\ change(Got, pc[t], to) \in Int
      /\ At(Got)' = At(Got) + change(Got, pc[t], to)
  BY <1>0, Changes
<1>5. /\ At(Due) \in Int /\ change(Due, pc[t], to) \in Int
      /\ At(Due)' = At(Due) + change(Due, pc[t], to)
      /\ At(Stored) \in Int /\ change(Stored, pc[t], to) \in Int
      /\ At(Stored)' = At(Stored) + change(Stored, pc[t], to)
  BY <1>0, Changes
<1>6. /\ At(Locked) \in Int /\ change(Locked, pc[t], to) \in Int
      /\ At(Locked)' = At(Locked) + change(Locked, pc[t], to)
      /\ At({"over"}) \in Int /\ change({"over"}, pc[t], to) \in Int
      /\ At({"over"})' = At({"over"}) + change({"over"}, pc[t], to)
  BY <1>0, Changes
<1>7. (val["spaceAvailable"] + At(Claim) + cnt + At(Got) = n)'
  <2>1. /\ unit(s, "spaceAvailable", d) + change(Claim, pc[t], to) + change(Got, pc[t], to) + c = 0
        /\ val["spaceAvailable"] + At(Claim) + cnt + At(Got) = n
        /\ unit(s, "spaceAvailable", d) \in Int
    BY <1>0, <1>3 DEF Balance, Units
  <2> QED BY <1>1, <1>2, <1>4, <2>1
<1>8. (val["itemAvailable"] + At(Due) + At(Stored) = cnt)'
  <2>1. /\ unit(s, "itemAvailable", d) + change(Due, pc[t], to) + change(Stored, pc[t], to) = c
        /\ val["itemAvailable"] + At(Due) + At(Stored) = cnt
        /\ unit(s, "itemAvailable", d) \in Int
    BY <1>0, <1>3 DEF Balance, Units
  <2> QED BY <1>1, <1>2, <1>5, <2>1
<1>9. (val["mutexTail"] + At(Locked) = 1)'
  BY <1>0, <1>2, <1>3, <1>6 DEF Units, Balance
<1>10. (val["waitForAll"] + joined = At({"over"}))'
  BY <1>0, <1>1, <1>2, <1>3, <1>6 DEF Units, Balance
<1> QED BY <1>7, <1>8, <1>9, <1>10 DEF Units

-----------------------------------------------------------------------------
(* Steps of a thread.                                                      *)

\* A thread that is created and not over runs between Enter and Joined.
LEMMA Running ==
  ASSUME PCInv, NEW t \in 0 .. MaxThreads, pc[t] \notin {"new", "over"}
  PROVE  /\ Typed /\ Units /\ Queued /\ Shown /\ pc[MAIN] \in During /\ open = Sem
         /\ t \in Thread /\ t # MAIN /\ t \notin threadNum + 1 .. MaxThreads
         /\ ~refused
         /\ \A u \in threadNum + 1 .. MaxThreads : pc[u] = "new"
<1>1. t \in Thread /\ t # MAIN /\ Typed /\ Shown /\ Phase
  BY Threads DEF PCInv
<1>2. t \in 0 .. threadNum \/ t \in threadNum + 1 .. MaxThreads
  BY <1>1, EnteredAssumption DEF Typed
<1>3. /\ pc[MAIN] \in During /\ open = Sem /\ ~refused
      /\ \A u \in threadNum + 1 .. MaxThreads : pc[u] = "new"
  BY <1>1, <1>2 DEF Phase
<1> QED BY <1>1, <1>3 DEF PCInv

LEMMA LaterThreads ==
  ASSUME Typed
  PROVE  /\ \A u \in threadNum + 1 .. MaxThreads : u \in Thread /\ u \in 0 .. MaxThreads
         /\ \A u \in 0 .. threadNum : u \in Thread /\ u \in 0 .. MaxThreads
         /\ \A u \in 0 .. MaxThreads : u \in 0 .. threadNum \/ u \in threadNum + 1 .. MaxThreads
<1>1. threadNum \in Nat /\ MaxThreads \in Nat /\ threadNum <= MaxThreads
  BY EnteredAssumption DEF Typed
<1> QED BY <1>1, Threads

LEMMA ThreadStep ==
  ASSUME PCInv, NEW t \in 0 .. MaxThreads, NEW from, from \notin {"new", "over"},
         NEW to \in ThreadLabel, Goes(t, from, to), joined' = joined, open' = open,
         SemTyped', Queued', Units',
         head' \in 0 .. n, tail' \in 0 .. n, ret' \in [Thread -> Int],
         buffer' \in [0 .. MaxSize -> Value \cup {UNSET}],
         \A u \in 0 .. MaxThreads : pc'[u] = "put_advance" => buffer'[tail'] \in Value
  PROVE  PCInv'
<1>1. /\ pc[t] = from /\ pc' = [pc EXCEPT ![t] = to] /\ n' = n /\ threadNum' = threadNum
  BY DEF Goes
<1>2. /\ Typed /\ pc[MAIN] \in During /\ open = Sem /\ t \in Thread /\ t # MAIN
      /\ t \notin threadNum + 1 .. MaxThreads /\ ~refused
      /\ \A u \in threadNum + 1 .. MaxThreads : pc[u] = "new"
  BY <1>1, Running
<1>3. /\ DOMAIN pc = Thread /\ MAIN \in Thread
      /\ pc'[MAIN] = pc[MAIN] /\ pc'[t] = to
      /\ \A u \in Thread : u # t => pc'[u] = pc[u]
  BY <1>1, <1>2, Threads DEF Typed
<1>4. Typed'
  <2>1. \A u \in 0 .. MaxThreads : pc'[u] \in ThreadLabel
    BY <1>2, <1>3, Threads DEF Typed
  <2>2. pc' \in [Thread -> ThreadLabel \cup Before \cup During \cup After \cup Deleting]
    BY <1>1, <1>2 DEF Typed
  <2> QED BY <1>1, <1>2, <2>1, <2>2 DEF Typed, SemTyped
<1>5. Phase'
  <2>1. \A u \in threadNum + 1 .. MaxThreads : u \in Thread
    BY <1>2, LaterThreads
  <2>2. \A u \in threadNum + 1 .. MaxThreads : pc'[u] = "new"
    BY <1>2, <1>3, <2>1
  <2>3. refused' = refused
    BY <1>1 DEF refused
  <2> QED BY <1>1, <1>2, <1>3, <2>2, <2>3 DEF Phase
<1>6. Shown'
  BY <1>2, <1>3 DEF Shown, During
<1> QED BY <1>4, <1>5, <1>6 DEF PCInv

\* Steps that leave the buffer alone.
LEMMA QuietStep ==
  ASSUME PCInv, NEW t \in 0 .. MaxThreads, NEW from, from \notin {"new", "over"},
         NEW to \in ThreadLabel, to # "put_advance", Goes(t, from, to),
         joined' = joined, open' = open, UNCHANGED buffer_vars,
         ret' \in [Thread -> Int], SemTyped', Queued', Units'
  PROVE  PCInv'
<1>1. /\ pc[t] = from /\ pc' = [pc EXCEPT ![t] = to]
      /\ head' = head /\ tail' = tail /\ buffer' = buffer
  BY DEF Goes, buffer_vars
<1>2. Typed /\ Shown
  BY DEF PCInv
<1>3. ASSUME NEW u \in 0 .. MaxThreads, pc'[u] = "put_advance"
      PROVE  buffer'[tail'] \in Value
  <2>1. u \in Thread /\ DOMAIN pc = Thread
    BY <1>2, Threads DEF Typed
  <2>2. pc[u] = "put_advance"
    BY <1>1, <1>3, <2>1
  <2> QED BY <1>1, <1>2, <2>2 DEF Shown
<1>4. /\ head' \in 0 .. n /\ tail' \in 0 .. n
      /\ buffer' \in [0 .. MaxSize -> Value \cup {UNSET}]
  BY <1>1, <1>2 DEF Typed
<1> QED BY <1>3, <1>4, ThreadStep

LEMMA WaitsStep ==
  ASSUME PCInv, NEW t \in 0 .. MaxThreads, NEW from, from \notin {"new", "over"},
         NEW s \in Sem, NEW to \in ThreadLabel, to \in resume(s), to # "put_advance",
         Waits(t, from, to, s), Balance(from, to, s, -1, 0)
  PROVE  PCInv'
<1>1. /\ Goes(t, from, to) /\ Semaphores!Wait(t, s) /\ UNCHANGED buffer_vars
      /\ ret' = ret /\ joined' = joined
      /\ pc[t] = from /\ pc' = [pc EXCEPT ![t] = to]
      /\ n' = n /\ head' = head /\ tail' = tail
  BY DEF Waits, Goes, buffer_vars
<1>2. Typed /\ Units /\ Queued /\ t \in Thread
  BY <1>1, Running
<1>3. Queued' /\ SemTyped' /\ open' = open /\ val' = [val EXCEPT ![s] = @ - 1]
  BY <1>1, <1>2, WaitQueued
<1>4. Adds(s, -1)
  BY <1>2, <1>3 DEF Typed, unit, Adds
<1>5. Units'
  <2>1. n' = n /\ joined' = joined /\ cnt' = cnt + 0 /\ Moves(t, from, to) /\ Balance(from, to, s, -1, 0)
    BY <1>1, <1>2, CntRange DEF Moves, cnt, cap
  <2> QED BY <1>2, <1>4, <2>1, CallUnits
<1>6. ret' \in [Thread -> Int]
  BY <1>1, <1>2 DEF Typed
<1> QED BY <1>1, <1>3, <1>5, <1>6, QuietStep

LEMMA SignalsStep ==
  ASSUME PCInv, NEW t \in 0 .. MaxThreads, NEW from, from \notin {"new", "over"},
         NEW s \in Sem, NEW to \in ThreadLabel, to # "put_advance",
         Signals(t, from, to, s), Balance(from, to, s, 1, 0)
  PROVE  PCInv'
<1>1. /\ Goes(t, from, to) /\ Semaphores!Signal(s) /\ UNCHANGED buffer_vars
      /\ ret' = ret /\ joined' = joined
      /\ pc[t] = from /\ pc' = [pc EXCEPT ![t] = to]
      /\ n' = n /\ head' = head /\ tail' = tail
  BY DEF Signals, Goes, buffer_vars
<1>2. Typed /\ Units /\ Queued /\ t \in Thread
  BY <1>1, Running
<1>3. Queued' /\ SemTyped' /\ open' = open /\ val' = [val EXCEPT ![s] = @ + 1]
  BY <1>1, <1>2, SignalQueued
<1>4. Adds(s, 1)
  BY <1>2, <1>3 DEF Typed, unit, Adds
<1>5. Units'
  <2>1. n' = n /\ joined' = joined /\ cnt' = cnt + 0 /\ Moves(t, from, to) /\ Balance(from, to, s, 1, 0)
    BY <1>1, <1>2, CntRange DEF Moves, cnt, cap
  <2> QED BY <1>2, <1>4, <2>1, CallUnits
<1>6. ret' \in [Thread -> Int]
  BY <1>1, <1>2 DEF Typed
<1> QED BY <1>1, <1>3, <1>5, <1>6, QuietStep

\* A step without a call leaves the queues as they are, and the units too if
\* the books balance.
LEMMA PlainStep ==
  ASSUME PCInv, NEW t \in 0 .. MaxThreads, NEW from, from \notin {"new", "over"},
         NEW to, Goes(t, from, to), UNCHANGED sem_vars, joined' = joined,
         NEW c \in Int, cnt' = cnt + c, Balance(from, to, "mutexHead", 0, c)
  PROVE  Queued' /\ SemTyped' /\ open' = open /\ Units'
<1>1. /\ pc[t] = from /\ Moves(t, from, to) /\ n' = n
      /\ open' = open /\ val' = val
  BY DEF Goes, sem_vars, Moves
<1>2. Typed /\ Units /\ Queued /\ t \in Thread
  BY <1>1, Running
<1>3. Queued' /\ SemTyped'
  BY <1>2, PlainQueued
<1>4. Adds("mutexHead", 0)
  BY <1>1, <1>2 DEF Typed, unit, Adds
<1>5. "mutexHead" \in Sem
  BY DEF Sem
<1>6. Units'
  BY <1>1, <1>2, <1>4, <1>5, CallUnits
<1> QED BY <1>1, <1>3, <1>6

LEMMA QuietPlainStep ==
  ASSUME PCInv, NEW t \in 0 .. MaxThreads, NEW from, from \notin {"new", "over"},
         NEW to \in ThreadLabel, to # "put_advance", Goes(t, from, to),
         UNCHANGED <<sem_vars, buffer_vars>>, joined' = joined, ret' \in [Thread -> Int],
         Balance(from, to, "mutexHead", 0, 0)
  PROVE  PCInv'
<1>1. UNCHANGED sem_vars /\ UNCHANGED buffer_vars
  OBVIOUS
<1>2. cnt' = cnt + 0
  BY CntRange DEF buffer_vars, Goes, cnt, cap, PCInv
<1>3. Queued' /\ SemTyped' /\ open' = open /\ Units'
  BY <1>1, <1>2, PlainStep
<1> QED BY <1>1, <1>3, QuietStep

-----------------------------------------------------------------------------
(* put, get and getCnt of a thread.                                        *)

LEMMA PutBalance ==
  /\ Balance("put", "put_lock", "spaceAvailable", -1, 0)
  /\ Balance("put_lock", "put_store", "mutexTail", -1, 0)
  /\ Balance("put_store", "put_advance", "mutexHead", 0, 0)
  /\ Balance("put_advance", "put_unlock", "mutexHead", 0, 1)
  /\ Balance("put_unlock", "put_item", "mutexTail", 1, 0)
  /\ Balance("put_item", "end", "itemAvailable", 1, 0)
  /\ Balance("put_item", "loop", "itemAvailable", 1, 0)
BY DEF Balance, unit, change, Claim, Got, Due, Stored, Locked

LEMMA GetBalance ==
  /\ Balance("get", "get_lock", "itemAvailable", -1, 0)
  /\ Balance("get_lock", "get_load", "mutexHead", -1, 0)
  /\ Balance("get_load", "get_advance", "mutexHead", 0, 0)
  /\ Balance("get_advance", "get_unlock", "mutexHead", 0, -1)
  /\ Balance("get_unlock", "get_space", "mutexHead", 1, 0)
  /\ Balance("get_space", "loop", "spaceAvailable", 1, 0)
BY DEF Balance, unit, change, Claim, Got, Due, Stored, Locked

LEMMA CntBalance ==
  /\ Balance("cnt", "cnt_lock", "mutexHead", -1, 0)
  /\ Balance("cnt_lock", "cnt_count", "mutexTail", -1, 0)
  /\ Balance("cnt_count", "cnt_unlock", "mutexHead", 0, 0)
  /\ Balance("cnt_unlock", "cnt_done", "mutexTail", 1, 0)
  /\ Balance("cnt_done", "get", "mutexHead", 1, 0)
  /\ Balance("cnt_done", "end", "mutexHead", 1, 0)
BY DEF Balance, unit, change, Claim, Got, Due, Stored, Locked

LEMMA LoopBalance ==
  /\ \A to \in {"put", "get", "cnt", "end"} : Balance("loop", to, "mutexHead", 0, 0)
  /\ Balance("end", "over", "waitForAll", 1, 0)
BY DEF Balance, unit, change, Claim, Got, Due, Stored, Locked

LEMMA SemNames ==
  /\ "spaceAvailable" \in Sem /\ "itemAvailable" \in Sem /\ "mutexTail" \in Sem
  /\ "mutexHead" \in Sem /\ "waitForAll" \in Sem
BY DEF Sem

LEMMA TailMoves ==
  ASSUME Typed, cnt < n, tail' = (tail + 1) % cap, head' = head, n' = n
  PROVE  tail' \in 0 .. n /\ cnt' = cnt + 1
<1>1. head \in 0 .. n /\ tail \in 0 .. n /\ n \in Nat /\ cap = n + 1 /\ cap' = cap
  BY CntRange DEF Typed, cap
<1>2. tail' = IF tail = n THEN 0 ELSE tail + 1
  BY <1>1, Turn
<1> QED BY <1>1, <1>2 DEF cnt

LEMMA HeadMoves ==
  ASSUME Typed, cnt > 0, head' = (head + 1) % cap, tail' = tail, n' = n
  PROVE  head' \in 0 .. n /\ cnt' = cnt - 1
<1>1. head \in 0 .. n /\ tail \in 0 .. n /\ n \in Nat /\ cap = n + 1 /\ cap' = cap
  BY CntRange DEF Typed, cap
<1>2. head' = IF head = n THEN 0 ELSE head + 1
  BY <1>1, Turn
<1> QED BY <1>1, <1>2 DEF cnt

LEMMA ItemTyped ==
  ASSUME NEW t \in 0 .. MaxThreads
  PROVE  item(t) \in Value
BY EnteredAssumption DEF item, Value, BANG

LEMMA PutStoreStep ==
  ASSUME PCInv, NEW t \in 0 .. MaxThreads, PutStore(t)
  PROVE  PCInv'
<1>1. /\ Goes(t, "put_store", "put_advance") /\ UNCHANGED sem_vars
      /\ buffer' = [buffer EXCEPT ![tail] = item(t)]
      /\ head' = head /\ tail' = tail /\ ret' = ret /\ joined' = joined
      /\ pc[t] = "put_store" /\ n' = n
  BY DEF PutStore, Goes
<1>2. Typed /\ item(t) \in Value /\ cnt' = cnt + 0
  BY <1>1, CntRange, ItemTyped DEF PCInv, cnt, cap
<1>3. Queued' /\ SemTyped' /\ open' = open /\ Units'
  BY <1>1, <1>2, PlainStep, PutBalance
<1>4. /\ buffer'[tail'] \in Value /\ buffer' \in [0 .. MaxSize -> Value \cup {UNSET}]
      /\ head' \in 0 .. n /\ tail' \in 0 .. n /\ ret' \in [Thread -> Int]
  <2>1. tail \in 0 .. MaxSize
    BY <1>2, EnteredAssumption DEF Typed
  <2> QED BY <1>1, <1>2, <2>1 DEF Typed
<1> QED BY <1>1, <1>3, <1>4, ThreadStep DEF ThreadLabel

LEMMA PutAdvanceStep ==
  ASSUME PCInv, NEW t \in 0 .. MaxThreads, PutAdvance(t)
  PROVE  PCInv' /\ cnt < n /\ cnt' = cnt + 1 /\ buffer[tail] \in Value
<1>1. /\ Goes(t, "put_advance", "put_unlock") /\ UNCHANGED sem_vars
      /\ tail' = (tail + 1) % cap
      /\ head' = head /\ buffer' = buffer /\ ret' = ret /\ joined' = joined
      /\ pc[t] = "put_advance" /\ n' = n /\ pc' = [pc EXCEPT ![t] = "put_unlock"]
  BY DEF PutAdvance, Goes
<1>2. Typed /\ Units /\ Queued /\ Shown /\ t \in Thread
  BY <1>1, Running
<1>3. cnt < n
  BY <1>1, <1>2, Room
<1>4. tail' \in 0 .. n /\ cnt' = cnt + 1
  BY <1>1, <1>2, <1>3, TailMoves
<1>5. Queued' /\ SemTyped' /\ open' = open /\ Units'
  BY <1>1, <1>4, PlainStep, PutBalance
<1>6. \A u \in 0 .. MaxThreads : pc'[u] # "put_advance"
  <2> SUFFICES ASSUME NEW u \in 0 .. MaxThreads, pc'[u] = "put_advance" PROVE FALSE
    OBVIOUS
  <2>1. u \in Thread /\ DOMAIN pc = Thread
    BY <1>2, Threads DEF Typed
  <2>2. u # t /\ pc[u] = "put_advance"
    BY <1>1, <2>1
  <2> QED BY <1>1, <1>2, <2>1, <2>2, OneMoves
<1>7. /\ buffer' \in [0 .. MaxSize -> Value \cup {UNSET}]
      /\ head' \in 0 .. n /\ ret' \in [Thread -> Int]
  BY <1>1, <1>2 DEF Typed
<1>8. PCInv'
  BY <1>1, <1>4, <1>5, <1>6, <1>7, ThreadStep DEF ThreadLabel
<1> QED BY <1>1, <1>2, <1>3, <1>4, <1>8 DEF Shown

LEMMA PutStep ==
  ASSUME PCInv, NEW t \in 0 .. MaxThreads, Put(t)
  PROVE  PCInv'
<1>1. CASE Waits(t, "put", "put_lock", "spaceAvailable")
  BY <1>1, WaitsStep, PutBalance, SemNames, Resumes DEF ThreadLabel
<1>2. CASE Waits(t, "put_lock", "put_store", "mutexTail")
  BY <1>2, WaitsStep, PutBalance, SemNames, Resumes DEF ThreadLabel
<1>3. CASE PutStore(t)
  BY <1>3, PutStoreStep
<1>4. CASE PutAdvance(t)
  BY <1>4, PutAdvanceStep
<1>5. CASE Signals(t, "put_unlock", "put_item", "mutexTail")
  BY <1>5, SignalsStep, PutBalance, SemNames DEF ThreadLabel
<1>6. CASE Signals(t, "put_item", after_put(t), "itemAvailable")
  <2>1. after_put(t) \in {"end", "loop"}
    BY DEF after_put
  <2> QED BY <1>6, <2>1, SignalsStep, PutBalance, SemNames DEF ThreadLabel
<1> QED BY <1>1, <1>2, <1>3, <1>4, <1>5, <1>6 DEF Put

LEMMA GetAdvanceStep ==
  ASSUME PCInv, NEW t \in 0 .. MaxThreads, GetAdvance(t)
  PROVE  PCInv' /\ cnt > 0 /\ cnt' = cnt - 1
<1>1. /\ Goes(t, "get_advance", "get_unlock") /\ UNCHANGED sem_vars
      /\ head' = (head + 1) % cap
      /\ tail' = tail /\ buffer' = buffer /\ ret' = ret /\ joined' = joined
      /\ pc[t] = "get_advance" /\ n' = n /\ pc' = [pc EXCEPT ![t] = "get_unlock"]
  BY DEF GetAdvance, Goes
<1>2. Typed /\ Units /\ Queued /\ Shown /\ t \in Thread
  BY <1>1, Running
<1>3. cnt > 0
  BY <1>1, <1>2, Something
<1>4. head' \in 0 .. n /\ cnt' = cnt - 1 /\ cnt' = cnt + (-1)
  BY <1>1, <1>2, <1>3, HeadMoves, CntRange
<1>5. Queued' /\ SemTyped' /\ open' = open /\ Units'
  BY <1>1, <1>4, PlainStep, GetBalance
<1>6. \A u \in 0 .. MaxThreads : pc'[u] = "put_advance" => buffer'[tail'] \in Value
  <2> SUFFICES ASSUME NEW u \in 0 .. MaxThreads, pc'[u] = "put_advance"
               PROVE  buffer'[tail'] \in Value
    OBVIOUS
  <2>1. u \in Thread /\ DOMAIN pc = Thread
    BY <1>2, Threads DEF Typed
  <2>2. pc[u] = "put_advance"
    BY <1>1, <2>1
  <2> QED BY <1>1, <1>2, <2>2 DEF Shown
<1>7. /\ buffer' \in [0 .. MaxSize -> Value \cup {UNSET}]
      /\ tail' \in 0 .. n /\ ret' \in [Thread -> Int]
  BY <1>1, <1>2 DEF Typed
<1>8. PCInv'
  BY <1>1, <1>4, <1>5, <1>6, <1>7, ThreadStep DEF ThreadLabel
<1> QED BY <1>3, <1>4, <1>8

LEMMA GetStep ==
  ASSUME PCInv, NEW t \in 0 .. MaxThreads, Get(t)
  PROVE  PCInv'
<1>1. CASE Waits(t, "get", "get_lock", "itemAvailable")
  BY <1>1, WaitsStep, GetBalance, SemNames, Resumes DEF ThreadLabel
<1>2. CASE Waits(t, "get_lock", "get_load", "mutexHead")
  BY <1>2, WaitsStep, GetBalance, SemNames, Resumes DEF ThreadLabel
<1>3. CASE GetLoad(t)
  <2>1. /\ Goes(t, "get_load", "get_advance") /\ UNCHANGED <<sem_vars, buffer_vars>>
        /\ joined' = joined /\ ret' = [ret EXCEPT ![t] = buffer[head]]
    BY <1>3 DEF GetLoad
  <2>2. ret' \in [Thread -> Int]
    <3>1. Typed
      BY DEF PCInv
    <3>2. head \in 0 .. MaxSize /\ buffer[head] \in Value \cup {UNSET}
      BY <3>1, EnteredAssumption DEF Typed
    <3>3. buffer[head] \in Int
      BY <3>2, EnteredAssumption DEF Value, UNSET, BANG
    <3> QED BY <2>1, <3>1, <3>3 DEF Typed
  <2> QED BY <2>1, <2>2, QuietPlainStep, GetBalance DEF ThreadLabel
<1>4. CASE GetAdvance(t)
  BY <1>4, GetAdvanceStep
<1>5. CASE Signals(t, "get_unlock", "get_space", "mutexHead")
  BY <1>5, SignalsStep, GetBalance, SemNames DEF ThreadLabel
<1>6. CASE Signals(t, "get_space", "loop", "spaceAvailable")
  BY <1>6, SignalsStep, GetBalance, SemNames DEF ThreadLabel
<1> QED BY <1>1, <1>2, <1>3, <1>4, <1>5, <1>6 DEF Get

LEMMA CntStep ==
  ASSUME PCInv, NEW t \in 0 .. MaxThreads, GetCnt(t)
  PROVE  PCInv'
<1>1. CASE Waits(t, "cnt", "cnt_lock", "mutexHead")
  BY <1>1, WaitsStep, CntBalance, SemNames, Resumes DEF ThreadLabel
<1>2. CASE Waits(t, "cnt_lock", "cnt_count", "mutexTail")
  BY <1>2, WaitsStep, CntBalance, SemNames, Resumes DEF ThreadLabel
<1>3. CASE Count(t)
  <2>1. /\ Goes(t, "cnt_count", "cnt_unlock") /\ UNCHANGED <<sem_vars, buffer_vars>>
        /\ joined' = joined /\ ret' = [ret EXCEPT ![t] = cnt]
    BY <1>3 DEF Count
  <2>2. ret' \in [Thread -> Int]
    BY <2>1, CntRange DEF Typed, PCInv
  <2> QED BY <2>1, <2>2, QuietPlainStep, CntBalance DEF ThreadLabel
<1>4. CASE Signals(t, "cnt_unlock", "cnt_done", "mutexTail")
  BY <1>4, SignalsStep, CntBalance, SemNames DEF ThreadLabel
<1>5. CASE Signals(t, "cnt_done", after_cnt(t), "mutexHead")
  <2>1. after_cnt(t) \in {"end", "get"}
    BY Threads DEF after_cnt
  <2> QED BY <1>5, <2>1, SignalsStep, CntBalance, SemNames DEF ThreadLabel
<1> QED BY <1>1, <1>2, <1>3, <1>4, <1>5 DEF GetCnt

\* The loops of the threads.
LEMMA LoopStep ==
  ASSUME PCInv, NEW t \in 0 .. MaxThreads, NEW to \in {"put", "get", "cnt", "end"},
         Goes(t, "loop", to), UNCHANGED <<sem_vars, buffer_vars, ret, joined>>
  PROVE  PCInv'
<1>1. UNCHANGED <<sem_vars, buffer_vars>> /\ joined' = joined /\ ret' = ret
  OBVIOUS
<1>2. ret' \in [Thread -> Int] /\ to \in ThreadLabel /\ to # "put_advance"
  BY <1>1 DEF Typed, PCInv, ThreadLabel
<1> QED BY <1>1, <1>2, QuietPlainStep, LoopBalance

LEMMA EndStep ==
  ASSUME PCInv, NEW t \in 0 .. MaxThreads, End(t)
  PROVE  PCInv'
BY SignalsStep, LoopBalance, SemNames DEF ThreadLabel, End

LEMMA ThreadsStep ==
  ASSUME PCInv, KeyTyped \/ EscapeTyped \/ \E t \in Started : Producer(t) \/ Consumer(t)
  PROVE  PCInv'
<1>0. 0 \in 0 .. MaxThreads /\ \A t \in Started : t \in 0 .. MaxThreads
  BY EnteredAssumption DEF PCInv, Typed, Started
<1>1. CASE KeyTyped
  BY <1>0, <1>1, LoopStep DEF KeyTyped, KEYBOARD
<1>2. CASE EscapeTyped
  BY <1>0, <1>2, LoopStep DEF EscapeTyped, KEYBOARD
<1>3. ASSUME NEW t \in 0 .. MaxThreads, Producer(t)
      PROVE  PCInv'
  <2>1. CASE ProducerLoop(t)
    <3>1. (IF threadEnd THEN "end" ELSE "put") \in {"put", "get", "cnt", "end"}
      OBVIOUS
    <3>2. /\ Goes(t, "loop", IF threadEnd THEN "end" ELSE "put")
          /\ UNCHANGED <<sem_vars, buffer_vars, ret, joined>>
      BY <2>1 DEF ProducerLoop
    <3> QED BY <3>1, <3>2, LoopStep
  <2> QED BY <1>3, <2>1, PutStep, EndStep DEF Producer
<1>4. ASSUME NEW t \in 0 .. MaxThreads, Consumer(t)
      PROVE  PCInv'
  <2>1. CASE ConsumerLoop(t)
    <3>1. (IF threadEnd THEN "cnt" ELSE "get") \in {"put", "get", "cnt", "end"}
      OBVIOUS
    <3>2. /\ Goes(t, "loop", IF threadEnd THEN "cnt" ELSE "get")
          /\ UNCHANGED <<sem_vars, buffer_vars, ret, joined>>
      BY <2>1 DEF ConsumerLoop
    <3> QED BY <3>1, <3>2, LoopStep
  <2> QED BY <1>4, <2>1, GetStep, CntStep, EndStep DEF Consumer
<1> QED BY <1>0, <1>1, <1>2, <1>3, <1>4

-----------------------------------------------------------------------------
(* Steps of main() while the threads run.                                  *)

\* main() goes on to another label of this phase.
LEMMA MainStep ==
  ASSUME PCInv, pc[MAIN] \in During, NEW to \in During,
         pc' = [pc EXCEPT ![MAIN] = to], UNCHANGED <<threadNum, n, buffer_vars, ret>>,
         joined' \in Nat, open' = open, SemTyped', Queued', Units'
  PROVE  PCInv'
<1>0. /\ threadNum' = threadNum /\ n' = n /\ ret' = ret
      /\ head' = head /\ tail' = tail /\ buffer' = buffer
  BY DEF buffer_vars
<1>1. Typed /\ Phase /\ Shown
  BY DEF PCInv
<1>2. /\ DOMAIN pc = Thread /\ pc'[MAIN] = to
      /\ \A u \in 0 .. MaxThreads : u \in Thread /\ pc'[u] = pc[u]
  BY <1>1, Threads DEF Typed
<1>3. Typed'
  <2>1. pc' \in [Thread -> ThreadLabel \cup Before \cup During \cup After \cup Deleting]
    BY <1>1 DEF Typed
  <2> QED BY <1>0, <1>1, <1>2, <2>1 DEF Typed, SemTyped
<1>4. Phase'
  <2>1. /\ open = Sem /\ ~refused
        /\ \A u \in threadNum + 1 .. MaxThreads : pc[u] = "new"
    BY <1>1 DEF Phase, During, Before, After, Deleting
  <2>2. \A u \in threadNum + 1 .. MaxThreads : pc'[u] = "new"
    BY <1>1, <1>2, <2>1, LaterThreads
  <2>3. refused' = refused
    BY <1>0 DEF refused
  <2> QED BY <1>0, <1>2, <2>1, <2>2, <2>3 DEF Phase
<1>5. Shown'
  BY <1>0, <1>1, <1>2 DEF Shown, During
<1> QED BY <1>3, <1>4, <1>5 DEF PCInv

LEMMA CreatedStep ==
  ASSUME PCInv, Created
  PROVE  PCInv'
<1>1. /\ Goes(MAIN, "create", "join") /\ UNCHANGED sem_vars /\ UNCHANGED buffer_vars
      /\ ret' = ret /\ joined' = joined /\ pc[MAIN] = "create" /\ Moves(MAIN, "create", "join")
      /\ threadNum' = threadNum /\ n' = n /\ pc' = [pc EXCEPT ![MAIN] = "join"]
      /\ head' = head /\ tail' = tail /\ val' = val /\ open' = open
  BY DEF Created, Goes, Moves, buffer_vars, sem_vars
<1>2. Typed /\ Units /\ Queued /\ MAIN \in Thread
  BY <1>1, Threads DEF PCInv, During
<1>3. Queued' /\ SemTyped'
  BY <1>1, <1>2, PlainQueued
<1>4. Adds("mutexHead", 0) /\ "mutexHead" \in Sem
  BY <1>1, <1>2 DEF Typed, unit, Adds, Sem
<1>5. cnt' = cnt + 0
  BY <1>1, <1>2, CntRange DEF cnt, cap
<1>6. Balance("create", "join", "mutexHead", 0, 0)
  BY DEF Balance, unit, change, Claim, Got, Due, Stored, Locked
<1>7. Units'
  BY <1>1, <1>2, <1>4, <1>5, <1>6, CallUnits
<1>8. joined' \in Nat /\ UNCHANGED <<threadNum, n, buffer_vars, ret>>
  BY <1>1, <1>2 DEF Typed
<1>9. pc[MAIN] \in During /\ "join" \in During
  BY <1>1 DEF During
<1> QED BY <1>1, <1>3, <1>7, <1>8, <1>9, MainStep

LEMMA JoinStep ==
  ASSUME PCInv, Join
  PROVE  PCInv'
<1>1. /\ Goes(MAIN, "join", "join") /\ Semaphores!Wait(MAIN, "waitForAll")
      /\ UNCHANGED buffer_vars /\ ret' = ret /\ joined' = joined + 1 /\ pc[MAIN] = "join"
      /\ threadNum' = threadNum /\ n' = n /\ pc' = [pc EXCEPT ![MAIN] = "join"]
      /\ head' = head /\ tail' = tail
  BY DEF Join, Goes, buffer_vars
<1>2. Typed /\ Units /\ Queued /\ MAIN \in Thread /\ "waitForAll" \in Sem
  BY <1>1, Threads, SemNames DEF PCInv, During
<1>3. /\ Queued' /\ SemTyped' /\ open' = open /\ val' = [val EXCEPT !["waitForAll"] = @ - 1]
  <2>1. "join" \in resume("waitForAll")
    BY Resumes
  <2> QED BY <1>1, <1>2, <2>1, WaitQueued
<1>4. /\ val'["waitForAll"] = val["waitForAll"] - 1 /\ val["waitForAll"] \in Int
      /\ val'["spaceAvailable"] = val["spaceAvailable"]
      /\ val'["itemAvailable"] = val["itemAvailable"]
      /\ val'["mutexTail"] = val["mutexTail"]
  BY <1>2, <1>3 DEF Typed, Sem
<1>5. pc' = pc /\ cnt' = cnt
  BY <1>1, <1>2 DEF cnt, cap, Typed
<1>6. \A L : At(L)' = At(L)
  BY <1>5 DEF At
<1>7. joined \in Nat
  BY <1>2 DEF Typed
<1>8. Units'
  BY <1>1, <1>2, <1>4, <1>5, <1>6, <1>7 DEF Units
<1>9. joined' \in Nat /\ UNCHANGED <<threadNum, n, buffer_vars, ret>>
  BY <1>1, <1>7
<1>10. pc[MAIN] \in During /\ "join" \in During
  BY <1>1 DEF During
<1> QED BY <1>1, <1>3, <1>8, <1>9, <1>10, MainStep

LEMMA CreateStep ==
  ASSUME PCInv, Create
  PROVE  PCInv'
<1>1. PICK t \in Started : pc[t] = "new" /\ pc' = [pc EXCEPT ![t] = "loop"]
  BY DEF Create
<1>2. /\ pc[MAIN] = "create" /\ threadNum' = threadNum /\ n' = n
      /\ head' = head /\ tail' = tail /\ buffer' = buffer /\ ret' = ret /\ joined' = joined
      /\ open' = open /\ val' = val /\ waiting_threads' = waiting_threads
  BY DEF Create, sem_vars, buffer_vars
<1>3. /\ Typed /\ Units /\ Queued /\ Shown /\ open = Sem /\ ~refused
      /\ \A u \in threadNum + 1 .. MaxThreads : pc[u] = "new"
  BY <1>2 DEF PCInv, Phase, During, Before, After, Deleting
<1>4. /\ t \in Thread /\ t \in 0 .. MaxThreads /\ t # MAIN /\ MAIN \in Thread
      /\ t \notin threadNum + 1 .. MaxThreads /\ DOMAIN pc = Thread
  <2>1. threadNum \in Nat /\ t \in 0 .. threadNum /\ DOMAIN pc = Thread
    BY <1>3, EnteredAssumption DEF Typed, Started
  <2> QED BY <1>3, <2>1, LaterThreads, Threads
<1>5. /\ pc'[t] = "loop" /\ pc'[MAIN] = "create" /\ \A u \in Thread : u # t => pc'[u] = pc[u]
  BY <1>1, <1>2, <1>4
<1>6. Queued'
  <2>1. ASSUME NEW s \in Sem
        PROVE  QueuedAt(s, waiting_threads[s], val[s], [pc EXCEPT ![t] = "loop"])
    <3>1. waiting_threads[s] \in Seq(Thread) /\ QueuedAt(s, waiting_threads[s], val[s], pc)
      BY <1>3, QueuedEach DEF Typed
    <3>2. "new" \notin resume(s)
      BY Resumes DEF Sem
    <3>3. \A j \in DOMAIN waiting_threads[s] : waiting_threads[s][j] # t
      BY <1>1, <3>1, <3>2 DEF QueuedAt
    <3> QED BY <1>4, <3>1, <3>3, QueueKept
  <2> QED BY <1>1, <1>2, <2>1 DEF Queued, QueuedAt
<1>7. Units'
  <2>1. Adds("mutexHead", 0) /\ "mutexHead" \in Sem
    BY <1>2, <1>3 DEF Typed, unit, Adds, Sem
  <2>2. cnt' = cnt + 0
    BY <1>2, <1>3, CntRange DEF cnt, cap
  <2>3. Balance("new", "loop", "mutexHead", 0, 0)
    BY DEF Balance, unit, change, Claim, Got, Due, Stored, Locked
  <2>4. Moves(t, "new", "loop")
    BY <1>1 DEF Moves
  <2> QED BY <1>2, <1>3, <1>4, <2>1, <2>2, <2>3, <2>4, CallUnits
<1>8. Typed'
  <2>1. \A u \in 0 .. MaxThreads : pc'[u] \in ThreadLabel
    BY <1>3, <1>5, Threads DEF Typed, ThreadLabel
  <2>2. pc' \in [Thread -> ThreadLabel \cup Before \cup During \cup After \cup Deleting]
    BY <1>1, <1>3 DEF Typed, ThreadLabel
  <2> QED BY <1>2, <1>3, <2>1, <2>2 DEF Typed
<1>9. Phase'
  <2>1. \A u \in threadNum + 1 .. MaxThreads : pc'[u] = "new"
    BY <1>3, <1>4, <1>5, LaterThreads
  <2>2. refused' = refused
    BY <1>2 DEF refused
  <2> QED BY <1>2, <1>3, <1>5, <2>1, <2>2 DEF Phase, During
<1>10. Shown'
  <2>1. \A u \in 0 .. MaxThreads : u \in Thread
    BY Threads
  <2> QED BY <1>2, <1>3, <1>5, <2>1 DEF Shown
<1> QED BY <1>6, <1>7, <1>8, <1>9, <1>10 DEF PCInv

-----------------------------------------------------------------------------
(* main() before and after the threads run.                                *)

LEMMA EnterStep ==
  ASSUME PCInv, Enter
  PROVE  PCInv'
<1>1. /\ pc[MAIN] = "entered" /\ threadNum' = threadNum /\ n' = n
      /\ head' = head /\ tail' = tail /\ buffer' = buffer /\ ret' = ret /\ joined' = joined
  BY DEF Enter, buffer_vars, Goes
<1>2. /\ Typed /\ open = {} /\ joined = 0 /\ head = tail
      /\ \A s \in Sem : waiting_threads[s] = <<>>
      /\ \A t \in 0 .. MaxThreads : pc[t] = "new"
  BY <1>1 DEF PCInv, Phase, During, Before, After, Deleting
<1>3. refused' = refused /\ DOMAIN pc = Thread /\ MAIN \in Thread
  BY <1>1, <1>2, Threads DEF refused, Typed
<1>4. CASE refused
  <2>1. /\ pc' = [pc EXCEPT ![MAIN] = "done"] /\ open' = open /\ val' = val
        /\ waiting_threads' = waiting_threads
    BY <1>4 DEF Enter, Goes, sem_vars
  <2>2. pc'[MAIN] = "done" /\ \A t \in 0 .. MaxThreads : pc'[t] = pc[t]
    BY <1>3, <2>1, Threads
  <2>3. pc' \in [Thread -> ThreadLabel \cup Before \cup During \cup After \cup Deleting]
    BY <1>2, <2>1 DEF Typed, Before
  <2>4. Typed'
    BY <1>1, <1>2, <2>1, <2>2, <2>3 DEF Typed
  <2>5. Phase'
    BY <1>1, <1>2, <1>3, <1>4, <2>1, <2>2 DEF Phase, Before
  <2>6. Shown' /\ pc'[MAIN] \notin During
    BY <1>2, <2>2 DEF Shown, During
  <2> QED BY <2>4, <2>5, <2>6 DEF PCInv
<1>5. CASE ~refused
  <2>1. /\ pc' = [pc EXCEPT ![MAIN] = "create"] /\ open' = Sem
        /\ val' = [itemAvailable |-> 0, spaceAvailable |-> n, mutexHead |-> 1,
                   mutexTail |-> 1, waitForAll |-> 0]
        /\ waiting_threads' = waiting_threads
    BY <1>5 DEF Enter, Goes
  <2>2. pc'[MAIN] = "create" /\ \A t \in 0 .. MaxThreads : pc'[t] = "new"
    BY <1>2, <1>3, <2>1, Threads
  <2>3. pc' \in [Thread -> ThreadLabel \cup Before \cup During \cup After \cup Deleting]
    BY <1>2, <2>1 DEF Typed, During
  <2>4. n \in Int /\ n >= 0
    BY <1>2, CntRange
  <2>5. val' \in [Sem -> Int] /\ \A s \in Sem : val'[s] >= 0
    BY <2>1, <2>4 DEF Sem
  <2>6. Typed'
    BY <1>1, <1>2, <2>1, <2>2, <2>3, <2>5 DEF Typed, ThreadLabel
  <2>7. Phase'
    <3>1. \A t \in threadNum + 1 .. MaxThreads : pc'[t] = "new"
      BY <1>2, <2>2, LaterThreads
    <3> QED BY <1>1, <1>3, <1>5, <2>1, <2>2, <3>1 DEF Phase, During
  <2>8. Units'
    <3>1. ASSUME NEW L, "new" \notin L, "create" \notin L
          PROVE  At(L)' = 0
      <4>1. {t \in Thread : pc'[t] \in L} = {}
        BY <2>2, <3>1, Threads
      <4> QED BY <4>1, FS_EmptySet DEF At
    <3>2. /\ At(Claim)' = 0 /\ At(Got)' = 0 /\ At(Due)' = 0 /\ At(Stored)' = 0
          /\ At(Locked)' = 0 /\ At({"over"})' = 0
      BY <3>1 DEF Claim, Got, Due, Stored, Locked
    <3>3. cnt' = 0
      BY <1>1, <1>2 DEF cnt, Typed
    <3> QED BY <1>1, <1>2, <2>1, <2>4, <3>2, <3>3 DEF Units
  <2>9. Queued'
    <3>1. \A s \in Sem : Len(waiting_threads'[s]) = 0 /\ DOMAIN waiting_threads'[s] = {}
      BY <1>2, <2>1
    <3> QED BY <2>5, <3>1 DEF Queued
  <2>10. Shown'
    BY <2>2 DEF Shown
  <2> QED BY <2>6, <2>7, <2>8, <2>9, <2>10 DEF PCInv
<1> QED BY <1>4, <1>5

LEMMA CallTyped ==
  ASSUME Typed, NEW s \in Sem, NEW t \in Thread,
         Semaphores!Wait(t, s) \/ Semaphores!Signal(s) \/ Semaphores!Close(s)
  PROVE  /\ SemTyped'
         /\ Semaphores!Wait(t, s) \/ Semaphores!Signal(s) => open' = open
         /\ Semaphores!Close(s) => open' = open \ {s}
<1>1. /\ waiting_threads \in [Sem -> Seq(Thread)] /\ open \subseteq Sem
      /\ val \in [Sem -> Int] /\ waiting_threads[s] \in Seq(Thread)
  BY DEF Typed
<1>2. /\ Append(waiting_threads[s], t) \in Seq(Thread)
      /\ waiting_threads[s] # <<>> => Tail(waiting_threads[s]) \in Seq(Thread)
      /\ <<>> \in Seq(Thread)
  BY <1>1, AppendProperties, HeadTailProperties, EmptySeq
<1>3. CASE Semaphores!Wait(t, s)
  BY <1>1, <1>2, <1>3 DEF Semaphores!Wait, Semaphores!Close, SemTyped
<1>4. CASE Semaphores!Signal(s)
  BY <1>1, <1>2, <1>4 DEF Semaphores!Signal, Semaphores!Close, SemTyped
<1>5. CASE Semaphores!Close(s)
  BY <1>1, <1>2, <1>5 DEF Semaphores!Wait, Semaphores!Signal, Semaphores!Close, SemTyped
<1> QED BY <1>3, <1>4, <1>5

\* All threads are over.
Alone ==
  /\ Typed /\ ~refused
  /\ \A t \in 0 .. threadNum : pc[t] = "over"
  /\ \A t \in threadNum + 1 .. MaxThreads : pc[t] = "new"

LEMMA AfterAlone ==
  ASSUME PCInv, pc[MAIN] \in After
  PROVE  Alone /\ {"mutexHead", "mutexTail"} \subseteq open /\ Shown
BY DEF PCInv, Phase, After, During, Before, Alone

LEMMA LateStep ==
  ASSUME Alone, NEW from, NEW to \in After \cup Deleting, Goes(MAIN, from, to), SemTyped',
         joined' = joined, head' \in 0 .. n, tail' = tail, buffer' = buffer,
         ret' \in [Thread -> Int],
         to \in After => {"mutexHead", "mutexTail"} \subseteq open',
         to \in {"cnt_unlock", "cnt_done"} => ret'[MAIN] = cnt',
         to = "print" => cnt' > 0
  PROVE  PCInv'
<1>1. pc' = [pc EXCEPT ![MAIN] = to] /\ threadNum' = threadNum /\ n' = n
  BY DEF Goes
<1>2. Typed /\ ~refused /\ refused' = refused
  BY <1>1 DEF Alone, refused
<1>3. /\ pc'[MAIN] = to /\ \A t \in 0 .. MaxThreads : pc'[t] = pc[t]
      /\ pc' \in [Thread -> ThreadLabel \cup Before \cup During \cup After \cup Deleting]
  BY <1>1, <1>2, Threads DEF Typed
<1>4. Typed'
  BY <1>1, <1>2, <1>3 DEF Typed, SemTyped
<1>5. /\ \A t \in 0 .. threadNum : pc'[t] = "over"
      /\ \A t \in threadNum + 1 .. MaxThreads : pc'[t] = "new"
  BY <1>2, <1>3, LaterThreads DEF Alone
<1>6. Phase'
  BY <1>1, <1>2, <1>3, <1>5 DEF Phase
<1>7. \A t \in 0 .. MaxThreads : pc'[t] # "put_advance"
  BY <1>2, <1>5, LaterThreads
<1>8. Shown'
  BY <1>3, <1>7 DEF Shown
<1>9. pc'[MAIN] \notin During
  BY <1>3 DEF During, After, Deleting
<1> QED BY <1>4, <1>6, <1>8, <1>9 DEF PCInv

LEMMA JoinedStep ==
  ASSUME PCInv, Joined
  PROVE  PCInv'
<1>1. /\ joined = all /\ Goes(MAIN, "join", "cnt") /\ Semaphores!Close("waitForAll")
      /\ head' = head /\ tail' = tail /\ buffer' = buffer /\ ret' = ret /\ joined' = joined
      /\ pc[MAIN] = "join" /\ Semaphores!Free(MAIN)
  BY DEF Joined, Goes, buffer_vars
<1>2. /\ Typed /\ Units /\ Queued /\ Phase /\ open = Sem /\ ~refused
      /\ \A u \in threadNum + 1 .. MaxThreads : pc[u] = "new"
  BY <1>1 DEF PCInv, Phase, During, Before, After, Deleting
<1>3. Alone
  BY <1>1, <1>2, AllOver DEF Alone
<1>4. SemTyped' /\ open' = open \ {"waitForAll"}
  BY <1>1, <1>2, CallTyped, Threads, SemNames
<1>5. {"mutexHead", "mutexTail"} \subseteq open'
  BY <1>2, <1>4, SemNames
<1>6. head' \in 0 .. n /\ ret' \in [Thread -> Int]
  BY <1>1, <1>2 DEF Typed
<1>7. "cnt" \in After \cup Deleting
  BY DEF After
<1> QED BY <1>1, <1>3, <1>4, <1>5, <1>6, <1>7, LateStep

LEMMA MainCntStep ==
  ASSUME PCInv, GetCnt(MAIN)
  PROVE  PCInv'
<1>0. /\ pc[MAIN] \in {"cnt", "cnt_lock", "cnt_count", "cnt_unlock", "cnt_done"}
      /\ joined' = joined /\ head' = head /\ tail' = tail /\ buffer' = buffer /\ n' = n
  BY DEF GetCnt, Waits, Signals, Count, Goes, buffer_vars
<1>1. pc[MAIN] \in After
  BY <1>0 DEF After
<1>2. Alone /\ {"mutexHead", "mutexTail"} \subseteq open /\ Shown /\ MAIN \in Thread
  BY <1>1, AfterAlone, Threads
<1>3. /\ Typed /\ head' \in 0 .. n /\ cnt' = cnt /\ ret \in [Thread -> Int]
      /\ cnt \in Int /\ 0 <= cnt
  BY <1>0, <1>2, CntRange DEF Alone, Typed, cnt, cap
<1>4. CASE Waits(MAIN, "cnt", "cnt_lock", "mutexHead")
  <2>1. Goes(MAIN, "cnt", "cnt_lock") /\ Semaphores!Wait(MAIN, "mutexHead") /\ ret' = ret
    BY <1>4 DEF Waits
  <2>2. SemTyped' /\ open' = open
    BY <1>2, <1>3, <2>1, CallTyped, SemNames
  <2>3. "cnt_lock" \in After \cup Deleting
    BY DEF After
  <2> QED BY <1>0, <1>2, <1>3, <2>1, <2>2, <2>3, LateStep
<1>5. CASE Waits(MAIN, "cnt_lock", "cnt_count", "mutexTail")
  <2>1. Goes(MAIN, "cnt_lock", "cnt_count") /\ Semaphores!Wait(MAIN, "mutexTail") /\ ret' = ret
    BY <1>5 DEF Waits
  <2>2. SemTyped' /\ open' = open
    BY <1>2, <1>3, <2>1, CallTyped, SemNames
  <2>3. "cnt_count" \in After \cup Deleting
    BY DEF After
  <2> QED BY <1>0, <1>2, <1>3, <2>1, <2>2, <2>3, LateStep
<1>6. CASE Count(MAIN)
  <2>1. /\ Goes(MAIN, "cnt_count", "cnt_unlock") /\ UNCHANGED sem_vars
        /\ ret' = [ret EXCEPT ![MAIN] = cnt]
    BY <1>6 DEF Count
  <2>2. SemTyped' /\ open' = open
    BY <1>3, <2>1 DEF sem_vars, SemTyped, Typed
  <2>3. "cnt_unlock" \in After \cup Deleting
    BY DEF After
  <2>4. ret' \in [Thread -> Int] /\ ret'[MAIN] = cnt'
    BY <1>2, <1>3, <2>1
  <2> QED BY <1>0, <1>2, <1>3, <2>1, <2>2, <2>3, <2>4, LateStep
<1>7. CASE Signals(MAIN, "cnt_unlock", "cnt_done", "mutexTail")
  <2>1. /\ Goes(MAIN, "cnt_unlock", "cnt_done") /\ Semaphores!Signal("mutexTail") /\ ret' = ret
        /\ pc[MAIN] = "cnt_unlock"
    BY <1>7 DEF Signals, Goes
  <2>2. SemTyped' /\ open' = open
    BY <1>2, <1>3, <2>1, CallTyped, SemNames
  <2>3. "cnt_done" \in After \cup Deleting
    BY DEF After
  <2>4. ret'[MAIN] = cnt'
    BY <1>2, <1>3, <2>1 DEF Shown
  <2> QED BY <1>0, <1>2, <1>3, <2>1, <2>2, <2>3, <2>4, LateStep
<1>8. CASE Signals(MAIN, "cnt_done", after_cnt(MAIN), "mutexHead")
  <2>1. /\ Goes(MAIN, "cnt_done", after_cnt(MAIN)) /\ Semaphores!Signal("mutexHead")
        /\ ret' = ret /\ pc[MAIN] = "cnt_done"
    BY <1>8 DEF Signals, Goes
  <2>2. SemTyped' /\ open' = open
    BY <1>2, <1>3, <2>1, CallTyped, SemNames
  <2>3. ret[MAIN] = cnt
    BY <1>2, <2>1 DEF Shown
  <2>4. after_cnt(MAIN) \in {"delete", "print"} /\ (after_cnt(MAIN) = "print" => cnt' > 0)
    BY <1>3, <2>3 DEF after_cnt
  <2>5. after_cnt(MAIN) \in After \cup Deleting
    BY <2>4 DEF After, Deleting
  <2> QED BY <1>0, <1>2, <1>3, <2>1, <2>2, <2>4, <2>5, LateStep
<1> QED BY <1>4, <1>5, <1>6, <1>7, <1>8 DEF GetCnt

LEMMA PrintRestStep ==
  ASSUME PCInv, PrintRest
  PROVE  PCInv' /\ cnt > 0 /\ cnt' = cnt - 1
<1>1. /\ Goes(MAIN, "print", "cnt") /\ head' = (head + 1) % cap
      /\ UNCHANGED sem_vars /\ n' = n /\ pc[MAIN] = "print"
      /\ joined' = joined /\ tail' = tail /\ buffer' = buffer /\ ret' = ret
  BY DEF PrintRest, Goes
<1>2. /\ Alone /\ Typed /\ {"mutexHead", "mutexTail"} \subseteq open /\ Shown
  BY <1>1, AfterAlone DEF After, Alone
<1>3. cnt > 0
  BY <1>1, <1>2 DEF Shown
<1>4. head' \in 0 .. n /\ cnt' = cnt - 1
  BY <1>1, <1>2, <1>3, HeadMoves
<1>5. SemTyped' /\ open' = open /\ ret' \in [Thread -> Int]
  BY <1>1, <1>2 DEF sem_vars, SemTyped, Typed
<1>6. "cnt" \in After \cup Deleting
  BY DEF After
<1>7. PCInv'
  BY <1>1, <1>2, <1>4, <1>5, <1>6, LateStep
<1> QED BY <1>3, <1>4, <1>7

LEMMA DeleteStep ==
  ASSUME PCInv, Delete
  PROVE  PCInv'
<1>1. /\ pc[MAIN] = "delete" /\ joined' = joined /\ head' = head /\ tail' = tail
      /\ buffer' = buffer /\ ret' = ret
      /\ \E to \in {"delete", "done"} : Goes(MAIN, "delete", to)
      /\ UNCHANGED sem_vars \/ \E s \in open : Semaphores!Close(s)
  BY DEF Delete, Goes, buffer_vars
<1>2. PICK to \in {"delete", "done"} : Goes(MAIN, "delete", to)
  BY <1>1
<1>3. Alone
  BY <1>1 DEF PCInv, Phase, Deleting, After, During, Before, Alone
<1>4. Typed /\ head' \in 0 .. n /\ ret' \in [Thread -> Int]
  BY <1>1, <1>3 DEF Alone, Typed
<1>5. SemTyped'
  <2>1. CASE UNCHANGED sem_vars
    BY <1>4, <2>1 DEF Typed, SemTyped, sem_vars
  <2>2. CASE \E s \in open : Semaphores!Close(s)
    BY <1>4, <2>2, CallTyped, Threads DEF Typed
  <2> QED BY <1>1, <2>1, <2>2
<1>6. to \in After \cup Deleting /\ to \notin After
      /\ to \notin {"cnt_unlock", "cnt_done"} /\ to # "print"
  BY DEF After, Deleting
<1> QED BY <1>1, <1>2, <1>3, <1>4, <1>5, <1>6, LateStep

-----------------------------------------------------------------------------
(* The invariant holds.                                                    *)

LEMMA PCInvInit == Init => PCInv
<1> SUFFICES ASSUME Init PROVE PCInv
  OBVIOUS
<1>1. /\ open = {} /\ val = [s \in Sem |-> 0] /\ waiting_threads = [s \in Sem |-> <<>>]
      /\ threadNum \in 0 .. MaxThreads /\ n \in 0 .. MaxSize /\ head = 0 /\ tail = 0
      /\ buffer = [j \in 0 .. MaxSize |-> UNSET] /\ ret = [t \in Thread |-> 0] /\ joined = 0
      /\ pc = [t \in Thread |-> IF t = MAIN THEN "entered" ELSE "new"]
  BY DEF Init, Semaphores!CountingInit
<1>2. pc[MAIN] = "entered" /\ \A t \in 0 .. MaxThreads : pc[t] = "new"
  BY <1>1, Threads
<1>3. pc \in [Thread -> ThreadLabel \cup Before \cup During \cup After \cup Deleting]
  BY <1>1 DEF ThreadLabel, Before
<1>4. Typed
  <2>1. 0 \in 0 .. n
    BY <1>1, EnteredAssumption
  <2>2. waiting_threads \in [Sem -> Seq(Thread)]
    BY <1>1, EmptySeq
  <2> QED BY <1>1, <1>2, <1>3, <2>1, <2>2 DEF Typed, ThreadLabel
<1>5. Phase
  BY <1>1, <1>2 DEF Phase, Before
<1> QED BY <1>2, <1>4, <1>5 DEF PCInv, Shown, During

LEMMA PCInvNext == PCInv /\ [Next]_vars => PCInv'
<1> SUFFICES ASSUME PCInv, [Next]_vars PROVE PCInv'
  OBVIOUS
<1>1. CASE Main
  BY <1>1, EnterStep, CreateStep, CreatedStep, JoinStep, JoinedStep, MainCntStep,
     PrintRestStep, DeleteStep DEF Main
<1>2. CASE KeyTyped \/ EscapeTyped \/ \E t \in Started : Producer(t) \/ Consumer(t)
  BY <1>2, ThreadsStep
<1>3. CASE Done \/ UNCHANGED vars
  <2>1. /\ UNCHANGED <<open, val, waiting_threads, threadNum, n, buffer, head, tail>>
        /\ UNCHANGED <<pc, ret, joined>>
    BY <1>3 DEF Done, vars, sem_vars, buffer_vars
  <2>2. cnt' = cnt /\ refused' = refused /\ \A L : At(L)' = At(L)
    BY <2>1 DEF cnt, cap, refused, At
  <2>3. Typed' /\ Phase' /\ Shown'
    BY <2>1, <2>2 DEF PCInv, Typed, Phase, Shown
  <2>4. pc'[MAIN] \in During => Units' /\ Queued'
    BY <2>1, <2>2 DEF PCInv, Units, Queued
  <2> QED BY <2>3, <2>4 DEF PCInv
<1> QED BY <1>1, <1>2, <1>3 DEF Next

-----------------------------------------------------------------------------
(* The buffer as a queue.                                                  *)

\* How many places lie from h to t, and the place of the k-th item from h, in
\* a buffer with places 0 to m.
gap(h, t, m) == IF t >= h THEN t - h ELSE m + 1 - h + t

slot(h, k, m) == IF h + k - 1 <= m THEN h + k - 1 ELSE h + k - 1 - (m + 1)

row(b, h, t, m) == [k \in 1 .. gap(h, t, m) |-> b[slot(h, k, m)]]

LEMMA GapRange ==
  ASSUME NEW m \in Nat, NEW h \in 0 .. m, NEW t \in 0 .. m
  PROVE  gap(h, t, m) \in 0 .. m /\ (t - h) % (m + 1) = gap(h, t, m)
<1>1. gap(h, t, m) \in 0 .. m
  BY DEF gap
<1>2. CASE t >= h
  <2>1. 0 <= t - h /\ t - h < m + 1 /\ t - h \in Int /\ m + 1 \in Int
    BY <1>2
  <2> QED BY <1>1, <1>2, <2>1, ModSmall DEF gap
<1>3. CASE ~(t >= h)
  <2>1. -(m + 1) <= t - h /\ t - h < 0 /\ t - h \in Int /\ m + 1 \in Int
    BY <1>3
  <2>2. (t - h) % (m + 1) = (t - h) + (m + 1)
    BY <2>1, ModBelow
  <2> QED BY <1>1, <1>3, <2>2 DEF gap
<1> QED BY <1>2, <1>3

LEMMA SlotRange ==
  ASSUME NEW m \in Nat, NEW h \in 0 .. m, NEW k \in 1 .. m + 1
  PROVE  slot(h, k, m) \in 0 .. m /\ (h + k - 1) % (m + 1) = slot(h, k, m)
<1>1. slot(h, k, m) \in 0 .. m
  BY DEF slot
<1>2. CASE h + k - 1 <= m
  <2>1. 0 <= h + k - 1 /\ h + k - 1 < m + 1 /\ h + k - 1 \in Int /\ m + 1 \in Int
    BY <1>2
  <2> QED BY <1>1, <1>2, <2>1, ModSmall DEF slot
<1>3. CASE ~(h + k - 1 <= m)
  <2>1. m + 1 <= h + k - 1 /\ h + k - 1 < 2 * (m + 1) /\ h + k - 1 \in Int /\ m + 1 \in Int
    BY <1>3
  <2>2. (h + k - 1) % (m + 1) = (h + k - 1) - (m + 1)
    BY <2>1, ModOnce
  <2> QED BY <1>1, <1>3, <2>2 DEF slot
<1> QED BY <1>2, <1>3

\* The place at t is behind the row.
LEMMA InRow ==
  ASSUME NEW m \in Nat, NEW h \in 0 .. m, NEW t \in 0 .. m
  PROVE  \A k \in 1 .. gap(h, t, m) : slot(h, k, m) \in 0 .. m /\ slot(h, k, m) # t
BY GapRange DEF gap, slot

LEMMA RowIs ==
  ASSUME NEW b, NEW m \in Nat, NEW h \in 0 .. m, NEW t \in 0 .. m
  PROVE  [k \in 1 .. (t - h) % (m + 1) |-> b[(h + k - 1) % (m + 1)]] = row(b, h, t, m)
<1>1. gap(h, t, m) \in 0 .. m /\ (t - h) % (m + 1) = gap(h, t, m)
  BY GapRange
<1>2. \A k \in 1 .. gap(h, t, m) : k \in 1 .. m + 1
  BY <1>1
<1>3. \A k \in 1 .. gap(h, t, m) : (h + k - 1) % (m + 1) = slot(h, k, m)
  BY <1>2, SlotRange
<1> QED BY <1>1, <1>3 DEF row

\* The place behind place k.
behind(k, m) == IF k = m THEN 0 ELSE k + 1

\* b is a buffer with items of S in places 0 to M, of which the first m + 1
\* are used.
Placed(S, M, b, m, h, t) ==
  /\ M \in Nat /\ b \in [0 .. M -> S] /\ m \in Nat /\ m <= M
  /\ h \in 0 .. m /\ t \in 0 .. m

LEMMA RowTyped ==
  ASSUME NEW S, NEW M, NEW b, NEW m, NEW h, NEW t, Placed(S, M, b, m, h, t)
  PROVE  /\ row(b, h, t, m) \in Seq(S) /\ Len(row(b, h, t, m)) = gap(h, t, m)
         /\ \A k \in 1 .. gap(h, t, m) : row(b, h, t, m)[k] = b[slot(h, k, m)]
<1>0. /\ M \in Nat /\ b \in [0 .. M -> S] /\ m \in Nat /\ m <= M
      /\ h \in 0 .. m /\ t \in 0 .. m
  BY DEF Placed
<1>1. gap(h, t, m) \in Nat
  BY <1>0 DEF gap
<1>2. \A k \in 1 .. gap(h, t, m) : slot(h, k, m) \in 0 .. M
  BY <1>0, InRow
<1>3. \A k \in 1 .. gap(h, t, m) : b[slot(h, k, m)] \in S
  BY <1>0, <1>2
<1>4. row(b, h, t, m) \in [1 .. gap(h, t, m) -> S]
  BY <1>3 DEF row
<1> QED BY <1>1, <1>4 DEF row

LEMMA RowStored ==
  ASSUME NEW b, NEW c, NEW m \in Nat, NEW h \in 0 .. m, NEW t \in 0 .. m,
         \A j \in 0 .. m : j # t => c[j] = b[j]
  PROVE  row(c, h, t, m) = row(b, h, t, m)
<1>1. \A k \in 1 .. gap(h, t, m) : slot(h, k, m) # t /\ slot(h, k, m) \in 0 .. m
  BY InRow
<1>2. \A k \in 1 .. gap(h, t, m) : c[slot(h, k, m)] = b[slot(h, k, m)]
  BY <1>1
<1> QED BY <1>2 DEF row

LEMMA RowGrows ==
  ASSUME NEW S, NEW M, NEW b, NEW m, NEW h, NEW t, Placed(S, M, b, m, h, t),
         gap(h, t, m) < m, NEW u, u = behind(t, m), NEW q, q = row(b, h, t, m), NEW v, v = b[t]
  PROVE  row(b, h, u, m) = Append(q, v)
<1> DEFINE r == row(b, h, u, m)
           g == gap(h, t, m)
<1>0. /\ M \in Nat /\ b \in [0 .. M -> S] /\ m \in Nat /\ m <= M
      /\ h \in 0 .. m /\ t \in 0 .. m
  BY DEF Placed
<1>1. g \in 0 .. m /\ g \in Nat /\ u \in 0 .. m /\ v \in S
  BY <1>0 DEF gap, behind
<1>2. gap(h, u, m) = g + 1
  BY <1>0, <1>1 DEF gap, behind
<1>3. slot(h, g + 1, m) = t
  BY <1>0, <1>1 DEF gap, slot
<1>4. q \in Seq(S) /\ Len(q) = g /\ \A k \in 1 .. g : q[k] = b[slot(h, k, m)]
  BY RowTyped
<1>5. r \in Seq(S) /\ Len(r) = g + 1 /\ \A k \in 1 .. g + 1 : r[k] = b[slot(h, k, m)]
  <2>1. Placed(S, M, b, m, h, u)
    BY <1>0, <1>1 DEF Placed
  <2>2. /\ r \in Seq(S) /\ Len(r) = gap(h, u, m)
        /\ \A k \in 1 .. gap(h, u, m) : r[k] = b[slot(h, k, m)]
    BY <2>1, RowTyped
  <2> HIDE DEF r, g
  <2> QED BY <1>2, <2>2
<1> HIDE DEF r, g
<1>6. /\ Append(q, v) \in Seq(S) /\ Len(Append(q, v)) = g + 1
      /\ \A k \in 1 .. g : Append(q, v)[k] = q[k]
      /\ Append(q, v)[g + 1] = v
  BY <1>1, <1>4, AppendProperties
<1>7. \A k \in 1 .. g + 1 : Append(q, v)[k] = r[k]
  <2> SUFFICES ASSUME NEW k \in 1 .. g + 1 PROVE Append(q, v)[k] = r[k]
    OBVIOUS
  <2>1. k = g + 1 \/ k \in 1 .. g
    BY <1>1
  <2> QED BY <1>3, <1>4, <1>5, <1>6, <2>1
<1>8. DOMAIN r = 1 .. g + 1 /\ DOMAIN Append(q, v) = 1 .. g + 1
  BY <1>5, <1>6, LenProperties
<1>9. r = Append(q, v)
  BY <1>5, <1>6, <1>7, <1>8, SeqEqual
<1> QED BY <1>9 DEF r

LEMMA RowShrinks ==
  ASSUME NEW S, NEW M, NEW b, NEW m, NEW h, NEW t, Placed(S, M, b, m, h, t),
         gap(h, t, m) > 0, NEW u, u = behind(h, m)
  PROVE  row(b, h, t, m) # <<>> /\ row(b, u, t, m) = Tail(row(b, h, t, m))
<1> DEFINE q == row(b, h, t, m)
           r == row(b, u, t, m)
           g == gap(h, t, m)
<1>0. /\ M \in Nat /\ b \in [0 .. M -> S] /\ m \in Nat /\ m <= M
      /\ h \in 0 .. m /\ t \in 0 .. m
  BY DEF Placed
<1>1. g \in 1 .. m /\ u \in 0 .. m
  BY <1>0 DEF gap, behind
<1>2. gap(u, t, m) = g - 1
  BY <1>0, <1>1 DEF gap, behind
<1>3. \A k \in 1 .. g - 1 : slot(u, k, m) = slot(h, k + 1, m)
  BY <1>0, <1>1 DEF slot, behind
<1>4. q \in Seq(S) /\ Len(q) = g /\ \A k \in 1 .. g : q[k] = b[slot(h, k, m)]
  BY RowTyped
<1>5. r \in Seq(S) /\ Len(r) = g - 1 /\ \A k \in 1 .. g - 1 : r[k] = b[slot(u, k, m)]
  <2>1. Placed(S, M, b, m, u, t)
    BY <1>0, <1>1 DEF Placed
  <2>2. /\ r \in Seq(S) /\ Len(r) = gap(u, t, m)
        /\ \A k \in 1 .. gap(u, t, m) : r[k] = b[slot(u, k, m)]
    BY <2>1, RowTyped
  <2> HIDE DEF r, g
  <2> QED BY <1>2, <2>2
<1> HIDE DEF q, r, g
<1>6. q # <<>>
  BY <1>1, <1>4
<1>7. /\ Tail(q) \in Seq(S) /\ Len(Tail(q)) = g - 1
      /\ \A k \in 1 .. g - 1 : Tail(q)[k] = q[k + 1]
  BY <1>4, <1>6, HeadTailProperties
<1>8. \A k \in 1 .. g - 1 : r[k] = Tail(q)[k]
  <2>1. \A k \in 1 .. g - 1 : k + 1 \in 1 .. g
    BY <1>1
  <2> QED BY <1>3, <1>4, <1>5, <1>7, <2>1
<1>9. r = Tail(q)
  BY <1>5, <1>7, <1>8, SeqEqual
<1> QED BY <1>6, <1>9 DEF q, r

LEMMA ItemsRow ==
  ASSUME Typed
  PROVE  items = row(buffer, head, tail, n) /\ cnt = gap(head, tail, n)
<1>1. n \in Nat /\ head \in 0 .. n /\ tail \in 0 .. n
  BY CntRange DEF Typed
<1>2. items = [k \in 1 .. (tail - head) % (n + 1) |-> buffer[(head + k - 1) % (n + 1)]]
  BY DEF items, cap
<1>3. items = row(buffer, head, tail, n)
  BY <1>1, <1>2, RowIs
<1>4. cnt = gap(head, tail, n)
  BY <1>1 DEF cnt, gap, cap
<1> QED BY <1>3, <1>4

LEMMA ItemsRowNext ==
  ASSUME n' \in Nat, head' \in 0 .. n', tail' \in 0 .. n'
  PROVE  items' = row(buffer', head', tail', n')
<1>1. items' = [k \in 1 .. (tail' - head') % (n' + 1) |-> buffer'[(head' + k - 1) % (n' + 1)]]
  BY DEF items, cap
<1> QED BY <1>1, RowIs

\* Which steps touch the buffer.
LEMMA BufferSteps ==
  ASSUME PCInv, [Next]_vars
  PROVE  \/ UNCHANGED <<buffer, head, tail, n>>
         \/ \E t \in 0 .. MaxThreads : PutStore(t) \/ PutAdvance(t) \/ GetAdvance(t)
         \/ PrintRest
<1>0. \A t \in Started : t \in 0 .. MaxThreads
  BY EnteredAssumption DEF PCInv, Typed, Started
<1>1. \A t, from, to, s : Waits(t, from, to, s) \/ Signals(t, from, to, s) =>
        UNCHANGED <<buffer, head, tail, n>>
  BY DEF Waits, Signals, Goes, buffer_vars
<1>2. ASSUME NEW t PROVE GetCnt(t) => UNCHANGED <<buffer, head, tail, n>>
  BY <1>1 DEF GetCnt, Count, Goes, buffer_vars
<1>3. ASSUME NEW t \in 0 .. MaxThreads, Producer(t) \/ Consumer(t)
      PROVE  UNCHANGED <<buffer, head, tail, n>> \/ PutStore(t) \/ PutAdvance(t)
               \/ GetAdvance(t)
  <2>1. Put(t) => UNCHANGED <<buffer, head, tail, n>> \/ PutStore(t) \/ PutAdvance(t)
    BY <1>1 DEF Put
  <2>2. GetLoad(t) => UNCHANGED <<buffer, head, tail, n>>
    BY DEF GetLoad, Goes, buffer_vars
  <2>3. Get(t) => UNCHANGED <<buffer, head, tail, n>> \/ GetAdvance(t)
    BY <1>1, <2>2 DEF Get
  <2>4. End(t) \/ ProducerLoop(t) \/ ConsumerLoop(t) => UNCHANGED <<buffer, head, tail, n>>
    BY <1>1 DEF End, ProducerLoop, ConsumerLoop, Goes, buffer_vars
  <2> QED BY <1>2, <1>3, <2>1, <2>3, <2>4 DEF Producer, Consumer
<1>4. CASE Main
  <2>1. Enter \/ Create \/ Created \/ Join \/ Joined \/ Delete =>
          UNCHANGED <<buffer, head, tail, n>>
    BY DEF Enter, Create, Created, Join, Joined, Delete, Goes, buffer_vars
  <2> QED BY <1>2, <1>4, <2>1 DEF Main
<1>5. CASE KeyTyped \/ EscapeTyped \/ Done \/ UNCHANGED vars
  BY <1>5 DEF KeyTyped, EscapeTyped, Done, vars, Goes, buffer_vars
<1>6. CASE \E t \in Started : Producer(t) \/ Consumer(t)
  BY <1>0, <1>3, <1>6
<1> QED BY <1>4, <1>5, <1>6 DEF Next

LEMMA StepQueues ==
  PCInv /\ [Next]_vars => [Queue!Next]_<<items, n>>
<1> SUFFICES ASSUME PCInv, [Next]_vars
             PROVE  Queue!Next \/ UNCHANGED <<items, n>>
  OBVIOUS
<1> DEFINE S == Value \cup {UNSET}
<1>1. /\ Typed /\ n \in Nat /\ n <= MaxSize /\ MaxSize \in Nat /\ head \in 0 .. n
      /\ tail \in 0 .. n /\ buffer \in [0 .. MaxSize -> S] /\ tail \in 0 .. MaxSize
  BY CntRange, EnteredAssumption DEF PCInv, Typed
<1>2. items = row(buffer, head, tail, n) /\ cnt = gap(head, tail, n)
  BY <1>1, ItemsRow
<1> HIDE DEF S
<1>9. Placed(S, MaxSize, buffer, n, head, tail)
  BY <1>1 DEF Placed
<1>3. CASE UNCHANGED <<buffer, head, tail, n>>
  BY <1>3 DEF items, cap
<1>4. ASSUME NEW t \in 0 .. MaxThreads, PutStore(t)
      PROVE  UNCHANGED <<items, n>>
  <2>1. /\ buffer' = [buffer EXCEPT ![tail] = item(t)] /\ head' = head /\ tail' = tail
        /\ n' = n
    BY <1>4 DEF PutStore, Goes
  <2>2. items' = row(buffer', head, tail, n)
    BY <1>1, <2>1, ItemsRowNext
  <2>3. row(buffer', head, tail, n) = row(buffer, head, tail, n)
    <3>1. \A j \in 0 .. n : j \in 0 .. MaxSize
      BY <1>1
    <3>2. \A j \in 0 .. n : j # tail => buffer'[j] = buffer[j]
      BY <1>1, <2>1, <3>1
    <3> QED BY <1>1, <3>2, RowStored
  <2> QED BY <1>2, <2>1, <2>2, <2>3
<1>5. ASSUME NEW t \in 0 .. MaxThreads, PutAdvance(t)
      PROVE  Queue!Next
  <2>1. buffer' = buffer /\ head' = head /\ tail' = (tail + 1) % cap /\ n' = n
    BY <1>5 DEF PutAdvance, Goes
  <2>2. cnt < n /\ buffer[tail] \in Value
    BY <1>5, PutAdvanceStep
  <2>3. tail' = behind(tail, n) /\ tail' \in 0 .. n
    BY <1>1, <2>1, Turn DEF cap, behind
  <2>4. items' = row(buffer, head, tail', n)
    BY <1>1, <2>1, <2>3, ItemsRowNext
  <2>5. row(buffer, head, tail', n) = Append(items, buffer[tail])
    <3>1. gap(head, tail, n) < n
      BY <1>2, <2>2
    <3> QED BY <1>1, <1>2, <1>9, <2>3, <3>1, RowGrows
  <2>6. Len(items) < n
    <3>1. Len(row(buffer, head, tail, n)) = gap(head, tail, n)
      BY <1>9, RowTyped
    <3> QED BY <1>2, <2>2, <3>1
  <2> QED BY <1>2, <2>1, <2>2, <2>4, <2>5, <2>6 DEF Queue!Next, Queue!Put
<1>6. ASSUME buffer' = buffer, tail' = tail, head' = (head + 1) % cap, n' = n, cnt > 0
      PROVE  Queue!Next
  <2>1. head' = behind(head, n) /\ head' \in 0 .. n
    BY <1>1, <1>6, Turn DEF cap, behind
  <2>2. items' = row(buffer, head', tail, n)
    BY <1>1, <1>6, <2>1, ItemsRowNext
  <2>3. /\ row(buffer, head, tail, n) # <<>>
        /\ row(buffer, head', tail, n) = Tail(row(buffer, head, tail, n))
    BY <1>2, <1>6, <1>9, <2>1, RowShrinks
  <2> QED BY <1>2, <1>6, <2>2, <2>3 DEF Queue!Next, Queue!Take
<1>7. ASSUME NEW t \in 0 .. MaxThreads, GetAdvance(t)
      PROVE  Queue!Next
  BY <1>6, <1>7, GetAdvanceStep DEF GetAdvance, Goes
<1>8. CASE PrintRest
  BY <1>6, <1>8, PrintRestStep DEF PrintRest, Goes
<1> QED BY <1>3, <1>4, <1>5, <1>7, <1>8, BufferSteps

-----------------------------------------------------------------------------
(* The theorems, for any number of threads and any size of the buffer that *)
(* the user may enter.                                                     *)

\* main() closes the semaphores and deletes the buffer only when every thread
\* has made its last call: the units of waitForAll are counted exactly, and
\* nobody uses a semaphore that is not open.
THEOREM NoUseAfterDeleteTheorem == Spec => []NoUseAfterDelete
<1>1. PCInv => NoUseAfterDelete
  <2> SUFFICES ASSUME PCInv PROVE NoUseAfterDelete
    OBVIOUS
  <2>1. Typed /\ Phase
    BY DEF PCInv
  <2>2. \A t \in Started : t \in 0 .. threadNum
    BY DEF Started
  <2>3. ASSUME NEW t \in Thread
        PROVE  used(t) \subseteq open
    <3>1. used(t) \subseteq Sem
      BY DEF used, Sem
    <3>2. CASE pc[MAIN] \in During
      BY <2>1, <3>1, <3>2 DEF Phase, During, Before, After, Deleting
    <3>3. CASE pc[MAIN] \notin During
      <4>1. t # MAIN => pc[t] \in {"new", "over"}
        BY <2>1, <3>3, Threads, LaterThreads DEF Phase
      <4>2. pc[MAIN] \in Before \cup Deleting \/
              (pc[MAIN] \in After /\ {"mutexHead", "mutexTail"} \subseteq open)
        BY <2>1, <3>3 DEF Phase
      <4>3. CASE t # MAIN
        BY <4>1, <4>3 DEF used
      <4>4. CASE t = MAIN /\ pc[MAIN] \in Before \cup Deleting
        BY <4>4 DEF used, Before, Deleting
      <4>5. CASE t = MAIN /\ pc[MAIN] \in After /\ {"mutexHead", "mutexTail"} \subseteq open
        BY <4>5 DEF used, After
      <4> QED BY <4>2, <4>3, <4>4, <4>5
    <3> QED BY <3>2, <3>3
  <2>4. pc[MAIN] \in {"cnt", "print", "delete", "done"} /\ ~refused =>
          \A t \in 0 .. threadNum : pc[t] = "over"
    BY <2>1 DEF Phase, Before, During
  <2> QED BY <2>2, <2>3, <2>4 DEF NoUseAfterDelete
<1> QED BY <1>1, PCInvInit, PCInvNext, PTL DEF Spec

\* The bounded buffer of test/buffer.cpp, preempted anywhere, is a bounded
\* queue: a put step appends one item where there is room, a get step or the
\* destructor takes the oldest, and no other step changes the items.
THEOREM BufferIsQueueTheorem == Spec => BufferIsQueue
<1>1. Init => Queue!Init
  <2> SUFFICES ASSUME Init PROVE Queue!Init
    OBVIOUS
  <2>1. head = 0 /\ tail = 0 /\ n \in Nat
    BY EnteredAssumption DEF Init
  <2>2. (tail - head) % cap = 0
    BY <2>1, GapRange DEF cap, gap
  <2>3. items = <<>>
    BY <2>2 DEF items
  <2> QED BY <2>1, <2>3 DEF Queue!Init
<1> QED BY <1>1, PCInvInit, PCInvNext, StepQueues, PTL
       DEF Spec, BufferIsQueue, Queue!Spec
=============================================================================
