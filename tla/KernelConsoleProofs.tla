------------------------- MODULE KernelConsoleProofs -------------------------
(***************************************************************************)
(* Theorems about the console of Kernel and about the types of its state,  *)
(* for every number of threads, every size of the buffers and all calls.   *)
(***************************************************************************)
EXTENDS KernelProofs

-----------------------------------------------------------------------------
(* Sequences cut in two.                                                   *)

\* What is left of s without its first n elements.
Without(s, n) == SubSeq(s, n + 1, Len(s))

LEMMA SuffixOf ==
  ASSUME NEW S, NEW s \in Seq(S), NEW n \in 0 .. Len(s)
  PROVE  /\ Without(s, n) \in Seq(S)
         /\ Len(Without(s, n)) = Len(s) - n
         /\ \A i \in 1 .. Len(s) - n : Without(s, n)[i] = s[n + i]
  <1> DEFINE m == n + 1
  <1>1. Len(s) \in Nat /\ m \in Int /\ \A i \in m .. Len(s) : s[i] \in S
    BY LenProperties, ElementOfSeq
  <1>2. /\ SubSeq(s, m, Len(s)) \in Seq(S)
        /\ Len(SubSeq(s, m, Len(s))) = IF m <= Len(s) THEN Len(s) - m + 1 ELSE 0
        /\ \A i \in 1 .. Len(s) - m + 1 : SubSeq(s, m, Len(s))[i] = s[m + i - 1]
    BY <1>1, SubSeqProperties
  <1>3. Len(SubSeq(s, m, Len(s))) = Len(s) - n
    BY <1>1, <1>2
  <1>4. \A i \in 1 .. Len(s) - n : i \in 1 .. Len(s) - m + 1 /\ m + i - 1 = n + i
    BY <1>1
  <1> QED
    BY <1>2, <1>3, <1>4 DEF Without

\* The first n elements of s.
LEMMA PrefixOf ==
  ASSUME NEW S, NEW s \in Seq(S), NEW n \in 0 .. Len(s)
  PROVE  LET t == SubSeq(s, 1, n)
         IN /\ t \in Seq(S)
            /\ Len(t) = n
            /\ \A i \in 1 .. n : t[i] = s[i]
  <1>1. Len(s) \in Nat /\ \A i \in 1 .. n : s[i] \in S
    BY LenProperties, ElementOfSeq
  <1>2. /\ SubSeq(s, 1, n) \in Seq(S)
        /\ Len(SubSeq(s, 1, n)) = IF 1 <= n THEN n - 1 + 1 ELSE 0
        /\ \A i \in 1 .. n - 1 + 1 : SubSeq(s, 1, n)[i] = s[1 + i - 1]
    BY <1>1, SubSeqProperties
  <1>3. \A i \in 1 .. n : i \in 1 .. n - 1 + 1 /\ 1 + i - 1 = i
    OBVIOUS
  <1> QED
    BY <1>2, <1>3

\* k elements move from the front of t to the end of s, then the first u
\* elements are taken away: the two still make one sequence.
LEMMA MovedAlong ==
  ASSUME NEW s \in Seq(Nat), NEW t \in Seq(Nat), NEW k \in 0 .. Len(t),
         NEW u \in 0 .. Len(s) + k
  PROVE  LET r == s \o SubSeq(t, 1, k)
             s1 == Without(r, u)
             t1 == Without(t, k)
         IN /\ r \in Seq(Nat) /\ Len(r) = Len(s) + k
            /\ \A i \in 1 .. Len(r) : r[i] = (s \o t)[i]
            /\ s1 \in Seq(Nat) /\ t1 \in Seq(Nat)
            /\ Len(s1) = Len(r) - u
            /\ Len(s1 \o t1) = Len(s \o t) - u
            /\ \A i \in 1 .. Len(s1 \o t1) : (s1 \o t1)[i] = (s \o t)[i + u]
  <1> DEFINE p == SubSeq(t, 1, k)
             t1 == Without(t, k)
             r == s \o p
             s1 == Without(r, u)
  <1>1. Len(s) \in Nat /\ Len(t) \in Nat
    BY LenProperties
  <1>2. p \in Seq(Nat) /\ Len(p) = k /\ \A i \in 1 .. k : p[i] = t[i]
    BY PrefixOf
  <1>3. t1 \in Seq(Nat) /\ Len(t1) = Len(t) - k /\ \A i \in 1 .. Len(t) - k : t1[i] = t[k + i]
    BY SuffixOf
  <1> HIDE DEF p, t1
  <1>4. /\ r \in Seq(Nat) /\ Len(r) = Len(s) + k
        /\ \A i \in 1 .. Len(s) + k : r[i] = IF i <= Len(s) THEN s[i] ELSE p[i - Len(s)]
    BY <1>2, ConcatProperties
  <1>5. /\ Len(s \o t) = Len(s) + Len(t)
        /\ \A i \in 1 .. Len(s) + Len(t) :
             (s \o t)[i] = IF i <= Len(s) THEN s[i] ELSE t[i - Len(s)]
    BY ConcatProperties
  <1> HIDE DEF r
  <1>6. ASSUME NEW i \in 1 .. Len(r)
        PROVE  r[i] = (s \o t)[i]
    <2>1. i \in 1 .. Len(s) + k /\ i \in 1 .. Len(s) + Len(t)
      BY <1>1, <1>4
    <2>2. CASE i <= Len(s)
      BY <1>4, <1>5, <2>1, <2>2
    <2>3. CASE ~(i <= Len(s))
      <3>1. i - Len(s) \in 1 .. k
        BY <1>1, <2>1, <2>3
      <3> QED
        BY <1>2, <1>4, <1>5, <2>1, <2>3, <3>1
    <2> QED
      BY <2>2, <2>3
  <1>7. s1 \in Seq(Nat) /\ Len(s1) = Len(r) - u /\ \A i \in 1 .. Len(r) - u : s1[i] = r[u + i]
    <2>1. u \in 0 .. Len(r)
      BY <1>4
    <2> QED
      BY <1>4, <2>1, SuffixOf
  <1> HIDE DEF s1
  <1>8. /\ Len(s1 \o t1) = Len(s1) + Len(t1)
        /\ \A i \in 1 .. Len(s1) + Len(t1) :
             (s1 \o t1)[i] = IF i <= Len(s1) THEN s1[i] ELSE t1[i - Len(s1)]
    BY <1>3, <1>7, ConcatProperties
  <1>9. Len(s1 \o t1) = Len(s \o t) - u
    BY <1>1, <1>3, <1>4, <1>5, <1>7, <1>8
  <1>10. ASSUME NEW i \in 1 .. Len(s1 \o t1)
         PROVE  (s1 \o t1)[i] = (s \o t)[i + u]
    <2>0. Len(s1 \o t1) = Len(s) + Len(t) - u /\ Len(s1) = Len(s) + k - u
      BY <1>4, <1>5, <1>7, <1>9
    <2>1. CASE i <= Len(s1)
      <3>1. i \in 1 .. Len(s1) /\ u + i \in 1 .. Len(r) /\ i + u = u + i
        BY <1>1, <1>4, <2>0, <2>1
      <3>2. (s1 \o t1)[i] = s1[i] /\ s1[i] = r[u + i]
        BY <1>7, <1>8, <2>1, <3>1
      <3> QED
        BY <1>6, <3>1, <3>2
    <2>2. CASE ~(i <= Len(s1))
      <3>1. i - Len(s1) \in 1 .. Len(t1)
        BY <1>1, <1>3, <2>0, <2>2
      <3>2. k + (i - Len(s1)) = i + u - Len(s) /\ i + u \in 1 .. Len(s) + Len(t)
              /\ ~(i + u <= Len(s))
        BY <1>1, <2>0, <2>2
      <3>3. (s1 \o t1)[i] = t1[i - Len(s1)]
        BY <1>8, <2>2
      <3>4. t1[i - Len(s1)] = t[k + (i - Len(s1))]
        BY <1>3, <3>1
      <3> QED
        BY <1>5, <3>2, <3>3, <3>4
    <2> QED
      BY <2>1, <2>2
  <1> QED
    BY <1>3, <1>4, <1>6, <1>7, <1>9, <1>10 DEF p, t1, r, s1

-----------------------------------------------------------------------------
(* Queues of threads, and the threads in them.                             *)

LEMMA QueueIndices ==
  ASSUME NEW q \in Seq(Tcb)
  PROVE  /\ Len(q) \in Nat /\ DOMAIN q = 1 .. Len(q)
         /\ \A t : t \in ToSet(q) <=> \E i \in 1 .. Len(q) : q[i] = t
         /\ ToSet(q) \subseteq Tcb
  <1>1. Len(q) \in Nat /\ DOMAIN q = 1 .. Len(q) /\ \A i \in 1 .. Len(q) : q[i] \in Tcb
    BY LenProperties, ElementOfSeq
  <1> QED
    BY <1>1 DEF ToSet

LEMMA EmptyQueue == ToSet(<<>>) = {} /\ NoDuplicates(<<>>) /\ <<>> \in Seq(Tcb)
  <1>1. <<>> \in Seq(Tcb) /\ Len(<<>>) = 0
    BY EmptySeq
  <1> QED
    BY <1>1, LenProperties DEF ToSet, NoDuplicates

\* A thread goes last in a queue.
LEMMA JoinQueue ==
  ASSUME NEW q \in Seq(Tcb), NEW t \in Tcb
  PROVE  /\ Append(q, t) \in Seq(Tcb)
         /\ ToSet(Append(q, t)) = ToSet(q) \cup {t}
         /\ NoDuplicates(q) /\ t \notin ToSet(q) => NoDuplicates(Append(q, t))
  <1> DEFINE r == Append(q, t)
  <1>1. /\ r \in Seq(Tcb) /\ Len(r) = Len(q) + 1
        /\ \A i \in 1 .. Len(q) : r[i] = q[i]
        /\ r[Len(q) + 1] = t
    BY AppendProperties
  <1> HIDE DEF r
  <1>2. Len(q) \in Nat /\ DOMAIN q = 1 .. Len(q) /\ DOMAIN r = 1 .. Len(q) + 1
    BY <1>1, LenProperties
  <1>3. ToSet(r) = ToSet(q) \cup {t}
    BY <1>1, <1>2 DEF ToSet
  <1>4. ASSUME NoDuplicates(q), t \notin ToSet(q)
        PROVE  NoDuplicates(r)
    <2> SUFFICES ASSUME NEW i \in 1 .. Len(q) + 1, NEW j \in 1 .. Len(q) + 1, r[i] = r[j]
                 PROVE  i = j
      BY <1>2 DEF NoDuplicates
    <2>1. \A n \in 1 .. Len(q) : r[n] # t
      BY <1>1, <1>2, <1>4 DEF ToSet
    <2>2. CASE i \in 1 .. Len(q) /\ j \in 1 .. Len(q)
      BY <1>1, <1>2, <1>4, <2>2 DEF NoDuplicates
    <2>3. CASE i = Len(q) + 1 \/ j = Len(q) + 1
      BY <1>1, <1>2, <2>1, <2>3
    <2> QED
      BY <1>2, <2>2, <2>3
  <1> QED
    BY <1>1, <1>3, <1>4 DEF r

\* The first thread leaves a queue.
LEMMA LeaveQueue ==
  ASSUME NEW q \in Seq(Tcb), q # <<>>
  PROVE  /\ Head(q) \in ToSet(q)
         /\ Tail(q) \in Seq(Tcb)
         /\ ToSet(q) = ToSet(Tail(q)) \cup {Head(q)}
         /\ NoDuplicates(q) => NoDuplicates(Tail(q)) /\ Head(q) \notin ToSet(Tail(q))
  <1> DEFINE r == Tail(q)
  <1>1. /\ r \in Seq(Tcb) /\ Len(r) = Len(q) - 1
        /\ \A i \in 1 .. Len(r) : r[i] = q[i + 1]
        /\ Len(q) \in Nat /\ Len(q) >= 1
        /\ Head(q) = q[1]
    BY HeadTailProperties, EmptySeq
  <1> HIDE DEF r
  <1>2. DOMAIN q = 1 .. Len(q) /\ DOMAIN r = 1 .. Len(q) - 1
    BY <1>1, LenProperties
  <1>3. \A i \in 1 .. Len(q) - 1 : r[i] = q[i + 1] /\ i + 1 \in 1 .. Len(q)
    BY <1>1
  <1>4. \A i \in 1 .. Len(q) : i = 1 \/ (i - 1 \in 1 .. Len(q) - 1 /\ i - 1 + 1 = i)
    BY <1>1
  <1>5. ToSet(q) = ToSet(r) \cup {Head(q)}
    <2>1. ASSUME NEW i \in 1 .. Len(q)
          PROVE  q[i] \in ToSet(r) \cup {q[1]}
      <3>1. CASE i - 1 \in 1 .. Len(q) - 1 /\ i - 1 + 1 = i
        <4>1. r[i - 1] = q[i]
          BY <1>3, <3>1
        <4> QED
          BY <1>2, <3>1, <4>1 DEF ToSet
      <3> QED
        BY <1>4, <3>1
    <2>2. \A i \in 1 .. Len(q) - 1 : r[i] \in ToSet(q)
      BY <1>2, <1>3 DEF ToSet
    <2>3. q[1] \in ToSet(q)
      BY <1>1, <1>2 DEF ToSet
    <2> QED
      BY <1>1, <1>2, <2>1, <2>2, <2>3 DEF ToSet
  <1>6. ASSUME NoDuplicates(q)
        PROVE  NoDuplicates(r) /\ Head(q) \notin ToSet(r)
    <2>1. \A i \in 1 .. Len(q) - 1 : r[i] # q[1]
      <3>1. \A i \in 1 .. Len(q) - 1 : 1 # i + 1 /\ 1 \in 1 .. Len(q)
        BY <1>1
      <3> QED
        BY <1>2, <1>3, <1>6, <3>1 DEF NoDuplicates
    <2>2. ASSUME NEW i \in 1 .. Len(q) - 1, NEW j \in 1 .. Len(q) - 1, r[i] = r[j]
          PROVE  i = j
      <3>1. i + 1 = j + 1
        BY <1>2, <1>3, <1>6, <2>2 DEF NoDuplicates
      <3> QED
        BY <1>1, <3>1
    <2> QED
      BY <1>1, <1>2, <2>1, <2>2 DEF NoDuplicates, ToSet
  <1> QED
    BY <1>1, <1>5, <1>6 DEF r

\* One queue is put behind another.
LEMMA JoinQueues ==
  ASSUME NEW q \in Seq(Tcb), NEW p \in Seq(Tcb)
  PROVE  /\ q \o p \in Seq(Tcb)
         /\ ToSet(q \o p) = ToSet(q) \cup ToSet(p)
         /\ NoDuplicates(q) /\ NoDuplicates(p) /\ ToSet(q) \cap ToSet(p) = {}
              => NoDuplicates(q \o p)
  <1> DEFINE r == q \o p
  <1>1. /\ r \in Seq(Tcb) /\ Len(r) = Len(q) + Len(p)
        /\ \A i \in 1 .. Len(q) + Len(p) : r[i] = IF i <= Len(q) THEN q[i] ELSE p[i - Len(q)]
    BY ConcatProperties
  <1> HIDE DEF r
  <1>2. /\ Len(q) \in Nat /\ DOMAIN q = 1 .. Len(q)
        /\ Len(p) \in Nat /\ DOMAIN p = 1 .. Len(p)
        /\ DOMAIN r = 1 .. Len(q) + Len(p)
    BY <1>1, LenProperties
  <1>3. ASSUME NEW i \in 1 .. Len(q) + Len(p)
        PROVE  \/ i \in 1 .. Len(q) /\ r[i] = q[i]
               \/ i - Len(q) \in 1 .. Len(p) /\ r[i] = p[i - Len(q)] /\ i > Len(q)
    <2>1. CASE i <= Len(q)
      BY <1>1, <1>2, <2>1
    <2>2. CASE ~(i <= Len(q))
      <3>1. i - Len(q) \in 1 .. Len(p) /\ i > Len(q)
        BY <1>2, <2>2
      <3> QED
        BY <1>1, <2>2, <3>1
    <2> QED
      BY <2>1, <2>2
  <1>4. ToSet(r) = ToSet(q) \cup ToSet(p)
    <2>1. \A i \in 1 .. Len(q) : i \in 1 .. Len(q) + Len(p) /\ r[i] = q[i]
      BY <1>1, <1>2
    <2>2. ASSUME NEW i \in 1 .. Len(p)
          PROVE  p[i] \in ToSet(r)
      <3>1. Len(q) + i \in 1 .. Len(q) + Len(p) /\ ~(Len(q) + i <= Len(q))
              /\ Len(q) + i - Len(q) = i
        BY <1>2
      <3>2. r[Len(q) + i] = p[i]
        BY <1>1, <3>1
      <3> QED
        BY <1>2, <3>1, <3>2 DEF ToSet
    <2> QED
      BY <1>2, <1>3, <2>1, <2>2 DEF ToSet
  <1>5. ASSUME NoDuplicates(q), NoDuplicates(p), ToSet(q) \cap ToSet(p) = {}
        PROVE  NoDuplicates(r)
    <2> SUFFICES ASSUME NEW i \in 1 .. Len(q) + Len(p), NEW j \in 1 .. Len(q) + Len(p),
                        r[i] = r[j]
                 PROVE  i = j
      BY <1>2 DEF NoDuplicates
    <2>1. \A n \in 1 .. Len(q), m \in 1 .. Len(p) : q[n] # p[m]
      BY <1>2, <1>5 DEF ToSet
    <2>2. \A n, m \in 1 .. Len(q) : q[n] = q[m] => n = m
      BY <1>2, <1>5 DEF NoDuplicates
    <2>3. \A n, m \in 1 .. Len(p) : p[n] = p[m] => n = m
      BY <1>2, <1>5 DEF NoDuplicates
    <2>4. CASE i \in 1 .. Len(q) /\ j \in 1 .. Len(q) /\ r[i] = q[i] /\ r[j] = q[j]
      BY <2>2, <2>4
    <2>5. CASE /\ i - Len(q) \in 1 .. Len(p) /\ r[i] = p[i - Len(q)]
               /\ j - Len(q) \in 1 .. Len(p) /\ r[j] = p[j - Len(q)]
      <3>1. i - Len(q) = j - Len(q)
        BY <2>3, <2>5
      <3> QED
        BY <1>2, <3>1
    <2> QED
      BY <1>3, <2>1, <2>4, <2>5
  <1> QED
    BY <1>1, <1>4, <1>5 DEF r

\* The first n threads leave a queue together.
LEMMA SplitQueue ==
  ASSUME NEW q \in Seq(Tcb), NEW n \in 0 .. Len(q)
  PROVE  /\ SubSeq(q, 1, n) \in Seq(Tcb) /\ Without(q, n) \in Seq(Tcb)
         /\ ToSet(q) = ToSet(SubSeq(q, 1, n)) \cup ToSet(Without(q, n))
         /\ NoDuplicates(q) => /\ NoDuplicates(SubSeq(q, 1, n))
                               /\ NoDuplicates(Without(q, n))
                               /\ ToSet(SubSeq(q, 1, n)) \cap ToSet(Without(q, n)) = {}
  <1> DEFINE f == SubSeq(q, 1, n)
             r == Without(q, n)
  <1>1. /\ f \in Seq(Tcb) /\ Len(f) = n /\ \A i \in 1 .. n : f[i] = q[i]
    BY PrefixOf
  <1>2. /\ r \in Seq(Tcb) /\ Len(r) = Len(q) - n
        /\ \A i \in 1 .. Len(q) - n : r[i] = q[n + i]
    BY SuffixOf
  <1> HIDE DEF f, r
  <1>3. /\ Len(q) \in Nat /\ DOMAIN q = 1 .. Len(q)
        /\ DOMAIN f = 1 .. n /\ DOMAIN r = 1 .. Len(q) - n
    BY <1>1, <1>2, LenProperties
  <1>4. \A i \in 1 .. n : i \in 1 .. Len(q)
    BY <1>3
  <1>5. \A i \in 1 .. Len(q) - n : n + i \in 1 .. Len(q) /\ \A j \in 1 .. n : j # n + i
    BY <1>3
  <1>6. ToSet(q) = ToSet(f) \cup ToSet(r)
    <2>1. ASSUME NEW i \in 1 .. Len(q)
          PROVE  q[i] \in ToSet(f) \cup ToSet(r)
      <3>1. CASE i \in 1 .. n
        BY <1>1, <1>3, <3>1 DEF ToSet
      <3>2. CASE i \notin 1 .. n
        <4>1. i - n \in 1 .. Len(q) - n /\ n + (i - n) = i
          BY <1>3, <3>2
        <4>2. r[i - n] = q[i]
          BY <1>2, <4>1
        <4> QED
          BY <1>3, <4>1, <4>2 DEF ToSet
      <3> QED
        BY <3>1, <3>2
    <2> QED
      BY <1>1, <1>2, <1>3, <1>4, <1>5, <2>1 DEF ToSet
  <1>7. ASSUME NoDuplicates(q)
        PROVE  NoDuplicates(f) /\ NoDuplicates(r) /\ ToSet(f) \cap ToSet(r) = {}
    <2>1. \A i, j \in 1 .. Len(q) : q[i] = q[j] => i = j
      BY <1>3, <1>7 DEF NoDuplicates
    <2>2. NoDuplicates(f)
      BY <1>1, <1>3, <1>4, <2>1 DEF NoDuplicates
    <2>3. ASSUME NEW i \in 1 .. Len(q) - n, NEW j \in 1 .. Len(q) - n, r[i] = r[j]
          PROVE  i = j
      <3>1. n + i = n + j
        BY <1>2, <1>5, <2>1, <2>3
      <3> QED
        BY <1>3, <3>1
    <2>4. \A i \in 1 .. n, j \in 1 .. Len(q) - n : f[i] # r[j]
      BY <1>1, <1>2, <1>4, <1>5, <2>1
    <2> QED
      BY <1>3, <2>2, <2>3, <2>4 DEF NoDuplicates, ToSet
  <1> QED
    BY <1>1, <1>2, <1>6, <1>7 DEF f, r

-----------------------------------------------------------------------------
(* Input: what is typed reaches the threads in order.                      *)

\* Besides the order: everything not yet given to a thread has been typed, and
\* no more is typed than the bound allows, so what a0 receives is a character.
InputInv ==
  /\ console_receive_buffer \in Seq(Nat)
  /\ rx_data \in Seq(Nat)
  /\ threads_waiting_for_input \in Seq(Tcb)
  /\ typed \in 0 .. MaxTyped
  /\ Len(pending) <= typed
  /\ InputInOrder
  /\ NoReaderWaitsWithInput

LEMMA InputFrame ==
  ASSUME InputInv, UNCHANGED input_vars
  PROVE  InputInv'
  BY DEF InputInv, InputInOrder, NoReaderWaitsWithInput, pending, input_vars

LEMMA InputInit == Init => InputInv
  <1> SUFFICES ASSUME Init
               PROVE  InputInv
    OBVIOUS
  <1>1. pending = <<>> /\ Len(pending) = 0 /\ DOMAIN pending = {}
    <2>1. <<>> \in Seq(Nat) /\ Len(<<>>) = 0
      BY EmptySeq
    <2>2. pending = <<>>
      BY <2>1, ConcatEmptySeq DEF Init, pending
    <2> QED
      BY <2>1, <2>2, LenProperties
  <1> QED
    BY <1>1, EmptySeq, ConsoleAssumption, CallsAssumption
       DEF Init, InputInv, InputInOrder, NoReaderWaitsWithInput

\* Characters that move on: u of them are handed out, the others keep their
\* places in the stream.
LEMMA InputAdvances ==
  ASSUME InputInv, typed' = typed,
         NEW u \in 0 .. Len(pending),
         console_receive_buffer' \in Seq(Nat),
         rx_data' \in Seq(Nat),
         Len(console_receive_buffer') <= CONSOLE_BUFFER_SIZE,
         Len(pending') = Len(pending) - u,
         \A i \in 1 .. Len(pending') : pending'[i] = pending[i + u],
         threads_waiting_for_input' \in Seq(Tcb),
         threads_waiting_for_input' # <<>> => console_receive_buffer' = <<>>
  PROVE  InputInv'
  <1>1. pending \in Seq(Nat) /\ pending' \in Seq(Nat)
    BY ConcatProperties DEF pending, InputInv
  <1>2. Len(pending) \in Nat /\ DOMAIN pending = 1 .. Len(pending)
          /\ Len(pending') \in Nat /\ DOMAIN pending' = 1 .. Len(pending')
    BY <1>1, LenProperties
  <1>3. ASSUME NEW i \in 1 .. Len(pending')
        PROVE  pending'[i] = char(typed - Len(pending') + i)
    <2>1. i + u \in 1 .. Len(pending) /\ typed \in Int
      BY <1>2, CallsAssumption DEF InputInv
    <2>2. pending[i + u] = char(typed - Len(pending) + (i + u))
      BY <1>2, <2>1 DEF InputInv, InputInOrder
    <2>3. typed - Len(pending) + (i + u) = typed - Len(pending') + i
      BY <1>2, <2>1
    <2> QED
      BY <2>2, <2>3
  <1>4. typed \in 0 .. MaxTyped /\ Len(pending') <= typed
    BY <1>2, CallsAssumption DEF InputInv
  <1> QED
    BY <1>2, <1>3, <1>4 DEF InputInv, InputInOrder, NoReaderWaitsWithInput

\* __console_receive, as far as the characters are concerned.
LEMMA ReceiveAdvances ==
  ASSUME InputInv, console_receive, typed' = typed
  PROVE  /\ InputInv'
         /\ received \in Seq(Nat)
         /\ \A i \in 1 .. Len(received) : received[i] = pending[i]
         /\ unblocked_cnt \in 0 .. Len(received)
         /\ unblocked_cnt \in 0 .. Len(threads_waiting_for_input)
         /\ Len(received) <= Len(pending)
  <1> DEFINE crb == console_receive_buffer
             rx == rx_data
             w == threads_waiting_for_input
  <1>1. crb \in Seq(Nat) /\ rx \in Seq(Nat) /\ w \in Seq(Tcb)
          /\ Len(crb) \in Nat /\ Len(rx) \in Nat /\ Len(w) \in Nat
          /\ Len(crb) <= CONSOLE_BUFFER_SIZE
    BY LenProperties DEF InputInv, InputInOrder
  <1>2. received_len \in 0 .. Len(rx) /\ Len(crb) + received_len <= CONSOLE_BUFFER_SIZE
    BY <1>1, ConsoleAssumption DEF received_len
  <1>3. /\ received \in Seq(Nat) /\ Len(received) = Len(crb) + received_len
        /\ \A i \in 1 .. Len(received) : received[i] = pending[i]
    BY <1>1, <1>2, MovedAlong DEF received, pending
  <1>4. unblocked_cnt \in 0 .. Len(received) /\ unblocked_cnt \in 0 .. Len(w)
    BY <1>1, <1>3, <1>2 DEF unblocked_cnt
  <1>5. /\ console_receive_buffer' \in Seq(Nat) /\ rx_data' \in Seq(Nat)
        /\ Len(console_receive_buffer') = Len(received) - unblocked_cnt
        /\ Len(pending') = Len(pending) - unblocked_cnt
        /\ \A i \in 1 .. Len(pending') : pending'[i] = pending[i + unblocked_cnt]
    <2>1. unblocked_cnt \in 0 .. Len(crb) + received_len
      BY <1>3, <1>4
    <2>2. /\ console_receive_buffer' = Without(received, unblocked_cnt)
          /\ rx_data' = Without(rx_data, received_len)
      BY DEF console_receive, unread, Without
    <2>3. LET r == crb \o SubSeq(rx, 1, received_len)
              s1 == Without(r, unblocked_cnt)
              t1 == Without(rx, received_len)
          IN /\ s1 \in Seq(Nat) /\ t1 \in Seq(Nat)
             /\ Len(s1) = Len(r) - unblocked_cnt
             /\ Len(s1 \o t1) = Len(crb \o rx) - unblocked_cnt
             /\ \A i \in 1 .. Len(s1 \o t1) :
                  (s1 \o t1)[i] = (crb \o rx)[i + unblocked_cnt]
      <3> HIDE DEF crb, rx
      <3> QED
        BY <1>1, <1>2, <2>1, MovedAlong
    <2> QED
      BY <2>2, <2>3 DEF received, pending
  <1>6. threads_waiting_for_input' \in Seq(Tcb)
          /\ Len(threads_waiting_for_input') = Len(w) - unblocked_cnt
    BY <1>1, <1>4, SuffixOf DEF console_receive, still_waiting, Without
  <1>7. threads_waiting_for_input' # <<>> => console_receive_buffer' = <<>>
    <2>1. Len(console_receive_buffer') = 0 \/ Len(threads_waiting_for_input') = 0
      BY <1>1, <1>2, <1>3, <1>5, <1>6 DEF unblocked_cnt
    <2> QED
      BY <1>5, <1>6, <2>1, EmptySeq
  <1>8. Len(console_receive_buffer') <= CONSOLE_BUFFER_SIZE
    BY <1>1, <1>2, <1>3, <1>4, <1>5, ConsoleAssumption
  <1>9. Len(received) <= Len(pending) /\ unblocked_cnt \in 0 .. Len(pending)
    <2>1. Len(pending) = Len(crb) + Len(rx)
      BY <1>1, ConcatProperties DEF pending
    <2> QED
      BY <1>1, <1>2, <1>3, <1>4, <2>1
  <1>10. InputInv'
    BY <1>5, <1>6, <1>7, <1>8, <1>9, InputAdvances
  <1> QED
    BY <1>3, <1>4, <1>9, <1>10

LEMMA InputNext == CountInv /\ InputInv /\ [Next]_vars => InputInv'
  <1> SUFFICES ASSUME CountInv, InputInv, [Next]_vars
               PROVE  InputInv'
    OBVIOUS
  <1> USE DEF console_vars
  <1>1. ASSUME NEW end, Halt(end)
        PROVE  InputInv'
    BY <1>1, InputFrame DEF Halt
  <1>2. CASE \/ ThreadCreate \/ ThreadCreateNoMemory \/ ThreadExit \/ ThreadDispatch
             \/ SemOpen \/ SemOpenNoMemory \/ SemClose \/ SemWait \/ SemSignal
             \/ SemTimedWait
    BY <1>1, <1>2, InputFrame DEF ThreadCreate, ThreadCreateNoMemory, ThreadExit,
       ThreadDispatch, SemOpen, SemOpenNoMemory, SemClose, SemWait, SemSignal, SignalOn,
       SemTimedWait
  <1>3. CASE \/ TimedSleep \/ Unserved \/ IllegalOperation \/ PutcAccepted \/ PutcRefused
             \/ TimerIrq \/ KernelDispatch \/ KernelCheck
    BY <1>1, <1>3, InputFrame DEF TimedSleep, SleepFor, Unserved, unserved, IllegalOperation,
       PutcAccepted, PutcRefused, TimerIrq, KernelDispatch, KernelCheck, stop
  <1>t. /\ console_receive_buffer \in Seq(Nat) /\ rx_data \in Seq(Nat)
        /\ threads_waiting_for_input \in Seq(Tcb)
        /\ typed \in Nat /\ MaxTyped \in Nat
    BY CallsAssumption DEF InputInv
  <1>4. CASE Getc
    <2>1. CASE getc_block(code("GETC")) /\ getc_blocks /\ UNCHANGED <<rx_data, typed>>
      <3>1. thread_current \in Tcb
        BY DEF CountInv, Tcb
      <3>2. threads_waiting_for_input' \in Seq(Tcb)
        BY <1>t, <2>1, <3>1, AppendProperties DEF getc_block
      <3> QED
        BY <2>1, <3>2 DEF getc_block, getc_blocks, InputInv, InputInOrder,
           NoReaderWaitsWithInput, pending
    <2>2. CASE getc_take(code("GETC")) /\ ~getc_blocks /\ UNCHANGED <<rx_data, typed>>
      <3> DEFINE crb == console_receive_buffer
      <3>1. /\ crb # <<>>
            /\ console_receive_buffer' = Tail(crb)
            /\ rx_data' = rx_data
        BY <2>2 DEF getc_take, getc_blocks
      <3>2. /\ Tail(crb) \in Seq(Nat) /\ Len(Tail(crb)) = Len(crb) - 1
            /\ \A i \in 1 .. Len(Tail(crb)) : Tail(crb)[i] = crb[i + 1]
            /\ Len(crb) \in Nat /\ Len(crb) >= 1 /\ Len(rx_data) \in Nat
        BY <1>t, <3>1, HeadTailProperties, LenProperties, EmptySeq
      <3>3. /\ Len(pending) = Len(crb) + Len(rx_data)
            /\ \A i \in 1 .. Len(crb) + Len(rx_data) :
                 pending[i] = IF i <= Len(crb) THEN crb[i] ELSE rx_data[i - Len(crb)]
        BY <1>t, ConcatProperties DEF pending
      <3>4. /\ Len(pending') = Len(crb) - 1 + Len(rx_data)
            /\ \A i \in 1 .. Len(crb) - 1 + Len(rx_data) :
                 pending'[i] = IF i <= Len(crb) - 1 THEN Tail(crb)[i]
                                                    ELSE rx_data[i - (Len(crb) - 1)]
        BY <1>t, <3>1, <3>2, ConcatProperties DEF pending
      <3> HIDE DEF crb
      <3>5. ASSUME NEW i \in 1 .. Len(pending')
            PROVE  pending'[i] = pending[i + 1]
        <4>1. i \in 1 .. Len(crb) - 1 + Len(rx_data) /\ i + 1 \in 1 .. Len(crb) + Len(rx_data)
                /\ i - (Len(crb) - 1) = i + 1 - Len(crb)
          BY <3>2, <3>4
        <4>2. CASE i <= Len(crb) - 1
          <5>1. i \in 1 .. Len(Tail(crb)) /\ i + 1 <= Len(crb)
            BY <3>2, <4>1, <4>2
          <5> QED
            BY <3>2, <3>3, <3>4, <4>1, <4>2, <5>1
        <4>3. CASE ~(i <= Len(crb) - 1)
          <5>1. ~(i + 1 <= Len(crb))
            BY <3>2, <4>1, <4>3
          <5> QED
            BY <3>3, <3>4, <4>1, <4>3, <5>1
        <4> QED
          BY <4>2, <4>3
      <3>6. Len(pending') = Len(pending) - 1 /\ 1 \in 0 .. Len(pending)
        BY <3>2, <3>3, <3>4
      <3>7. Len(console_receive_buffer') <= CONSOLE_BUFFER_SIZE
        BY <3>1, <3>2, ConsoleAssumption DEF InputInv, InputInOrder, crb
      <3>8. threads_waiting_for_input' = <<>>
        BY <2>2, <3>1 DEF InputInv, NoReaderWaitsWithInput, getc_take, crb
      <3>9. threads_waiting_for_input' \in Seq(Tcb) /\ console_receive_buffer' \in Seq(Nat)
              /\ rx_data' \in Seq(Nat) /\ typed' = typed
        BY <1>t, <2>2, <3>1, <3>2, <3>8, EmptySeq
      <3> QED
        BY <3>5, <3>6, <3>7, <3>8, <3>9, InputAdvances
    <2> QED
      BY <1>1, <1>4, <2>1, <2>2 DEF Getc
  <1>5. CASE KeyPress
    <2> DEFINE c == char(typed + 1)
    <2>1. /\ typed' = typed + 1 /\ typed < MaxTyped
          /\ rx_data' = Append(rx_data, c)
          /\ UNCHANGED <<console_receive_buffer, threads_waiting_for_input>>
      BY <1>5 DEF KeyPress
    <2>2. c \in Nat /\ c = char(typed + 1)
      BY <1>t DEF char
    <2> HIDE DEF c
    <2>3. rx_data' \in Seq(Nat) /\ rx_data' = rx_data \o <<c>> /\ <<c>> \in Seq(Nat)
      BY <1>t, <2>1, <2>2, AppendProperties, AppendIsConcat
    <2>4. pending \in Seq(Nat) /\ Len(pending) \in Nat
      BY <1>t, ConcatProperties, LenProperties DEF pending
    <2>5. pending' = Append(pending, c)
      <3>1. pending' = pending \o <<c>>
        BY <1>t, <2>1, <2>3, ConcatAssociative DEF pending
      <3> QED
        BY <2>2, <2>4, <3>1, AppendIsConcat
    <2>6. /\ Len(pending') = Len(pending) + 1
          /\ pending' \in Seq(Nat)
          /\ \A i \in 1 .. Len(pending) : pending'[i] = pending[i]
          /\ pending'[Len(pending) + 1] = c
      BY <2>2, <2>4, <2>5, AppendProperties
    <2>7. ASSUME NEW i \in DOMAIN pending'
          PROVE  pending'[i] = char(typed' - Len(pending') + i)
      <3>1. i \in 1 .. Len(pending) + 1
        BY <2>6, LenProperties
      <3>2. typed' - Len(pending') + i = typed - Len(pending) + i
        BY <1>t, <2>1, <2>4, <2>6, <3>1
      <3>3. CASE i \in 1 .. Len(pending)
        <4>1. i \in DOMAIN pending
          BY <2>4, <3>3, LenProperties
        <4> QED
          BY <2>6, <3>2, <3>3, <4>1 DEF InputInv, InputInOrder
      <3>4. CASE i = Len(pending) + 1
        <4>1. typed - Len(pending) + i = typed + 1
          BY <1>t, <2>4, <3>4
        <4> QED
          BY <2>2, <2>6, <3>2, <3>4, <4>1
      <3> QED
        BY <2>4, <3>1, <3>3, <3>4
    <2>8. typed' \in 0 .. MaxTyped /\ Len(pending') <= typed'
      BY <1>t, <2>1, <2>4, <2>6 DEF InputInv
    <2> QED
      BY <2>1, <2>3, <2>7, <2>8 DEF InputInv, InputInOrder, NoReaderWaitsWithInput
  <1>6. CASE HwIrq
    BY <1>1, <1>6, ReceiveAdvances DEF HwIrq
  <1>7. CASE Off \/ UNCHANGED vars
    BY <1>7, InputFrame DEF Off, vars
  <1> QED
    BY <1>2, <1>3, <1>4, <1>5, <1>6, <1>7 DEF Next, Syscall

-----------------------------------------------------------------------------
(* Output: what putc accepts reaches the device in order.                  *)

OutputInv ==
  /\ console_send_buffer \in Seq(Nat)
  /\ tx_data \in Nat
  /\ put \in Nat
  /\ OutputInOrder

LEMMA OutputFrame ==
  ASSUME OutputInv, UNCHANGED output_vars
  PROVE  OutputInv'
  BY DEF OutputInv, OutputInOrder, output_vars

LEMMA OutputInit == Init => OutputInv
  <1>1. <<>> \in Seq(Nat) /\ Len(<<>>) = 0 /\ \A i \in DOMAIN <<>> : FALSE
    BY EmptySeq, LenProperties
  <1> QED
    BY <1>1, ConsoleAssumption DEF Init, OutputInv, OutputInOrder

\* The device takes the first n characters of the buffer.
LEMMA Sent ==
  ASSUME OutputInv, NEW n \in sendable
  PROVE  /\ unsent(n) \in Seq(Nat)
         /\ Len(unsent(n)) = Len(console_send_buffer) - n
         /\ last_sent(n) = tx_data + n
         /\ \A i \in 1 .. Len(console_send_buffer) - n :
              unsent(n)[i] = last_sent(n) + i
  <1> DEFINE b == console_send_buffer
  <1>1. /\ b \in Seq(Nat) /\ Len(b) \in Nat /\ DOMAIN b = 1 .. Len(b)
        /\ n \in 0 .. Len(b) /\ tx_data \in Nat
        /\ \A i \in 1 .. Len(b) : b[i] = tx_data + i
    BY LenProperties DEF OutputInv, OutputInOrder, sendable
  <1>2. /\ unsent(n) \in Seq(Nat) /\ Len(unsent(n)) = Len(b) - n
        /\ \A i \in 1 .. Len(b) - n : unsent(n)[i] = b[n + i]
    BY <1>1, SuffixOf DEF unsent, Without
  <1>3. last_sent(n) = tx_data + n
    BY <1>1 DEF last_sent
  <1>4. ASSUME NEW i \in 1 .. Len(b) - n
        PROVE  unsent(n)[i] = last_sent(n) + i
    <2>1. n + i \in 1 .. Len(b) /\ tx_data + (n + i) = tx_data + n + i
      BY <1>1
    <2> QED
      BY <1>1, <1>2, <1>3, <2>1
  <1> QED
    BY <1>2, <1>3, <1>4

\* __console_send keeps the order.
LEMMA SendAdvances ==
  ASSUME OutputInv, NEW n \in sendable, console_send(n), put' = put
  PROVE  OutputInv'
  <1>1. /\ console_send_buffer' \in Seq(Nat)
        /\ Len(console_send_buffer') = Len(console_send_buffer) - n
        /\ tx_data' = tx_data + n
        /\ \A i \in 1 .. Len(console_send_buffer) - n :
             console_send_buffer'[i] = tx_data' + i
    BY Sent DEF console_send
  <1>2. /\ n \in 0 .. Len(console_send_buffer) /\ Len(console_send_buffer) \in Nat
        /\ tx_data \in Nat /\ put \in Nat
        /\ Len(console_send_buffer) <= CONSOLE_BUFFER_SIZE
        /\ tx_data + Len(console_send_buffer) = put
    BY LenProperties DEF OutputInv, OutputInOrder, sendable
  <1>3. DOMAIN console_send_buffer' = 1 .. Len(console_send_buffer) - n
    BY <1>1, LenProperties
  <1>4. /\ Len(console_send_buffer') <= CONSOLE_BUFFER_SIZE
        /\ tx_data' + Len(console_send_buffer') = put'
        /\ tx_data' \in Nat
    <2>1. \A l, x, p \in Nat : x + l = p /\ n \in 0 .. l
            => l - n <= l /\ x + n + (l - n) = p /\ x + n \in Nat
      OBVIOUS
    <2> DEFINE l == Len(console_send_buffer)
    <2>2. l - n <= l /\ tx_data + n + (l - n) = put /\ tx_data + n \in Nat /\ l \in Nat
      BY <1>2, <2>1
    <2>3. l - n <= CONSOLE_BUFFER_SIZE
      BY <1>2, <2>2, ConsoleAssumption
    <2> QED
      BY <1>1, <2>2, <2>3
  <1> QED
    BY <1>1, <1>2, <1>3, <1>4 DEF OutputInv, OutputInOrder

\* __putc stores one more character behind those the device has not taken.
LEMMA StoreAdvances ==
  ASSUME OutputInv, NEW n \in sendable, ~putc_full(n), putc_store(n)
  PROVE  OutputInv'
  <1> DEFINE b == console_send_buffer
             m == Len(b) - n
  <1>1. /\ unsent(n) \in Seq(Nat) /\ Len(unsent(n)) = m
        /\ tx_data' = tx_data + n /\ put' = put + 1
        /\ \A i \in 1 .. m : unsent(n)[i] = tx_data' + i
        /\ console_send_buffer' = Append(unsent(n), put + 1)
    BY Sent DEF putc_store
  <1>2. /\ n \in 0 .. Len(b) /\ Len(b) \in Nat
        /\ tx_data \in Nat /\ put \in Nat /\ put + 1 \in Nat
        /\ Len(b) <= CONSOLE_BUFFER_SIZE
        /\ tx_data + Len(b) = put
    BY LenProperties DEF OutputInv, OutputInOrder, sendable
  <1>3. /\ console_send_buffer' \in Seq(Nat)
        /\ Len(console_send_buffer') = m + 1
        /\ \A i \in 1 .. m : console_send_buffer'[i] = tx_data' + i
        /\ console_send_buffer'[m + 1] = put + 1
    BY <1>1, <1>2, AppendProperties
  <1>4. DOMAIN console_send_buffer' = 1 .. m + 1
    BY <1>3, LenProperties
  <1>5. m + 1 <= CONSOLE_BUFFER_SIZE
    BY <1>2, ConsoleAssumption DEF putc_full
  <1>6. tx_data' + (m + 1) = put' /\ tx_data' \in Nat /\ put' \in Nat /\ m \in Nat
    <2>1. \A l, x, p \in Nat : x + l = p /\ n \in 0 .. l
            => x + n + (l - n + 1) = p + 1 /\ x + n \in Nat /\ l - n \in Nat
      OBVIOUS
    <2> QED
      BY <1>1, <1>2, <2>1
  <1> HIDE DEF m
  <1>7. \A i \in 1 .. m + 1 : console_send_buffer'[i] = tx_data' + i
    <2>1. \A i \in 1 .. m + 1 : i \in 1 .. m \/ i = m + 1
      BY <1>6
    <2>2. put + 1 = tx_data' + (m + 1)
      BY <1>1, <1>6
    <2> QED
      BY <1>3, <2>1, <2>2
  <1> QED
    BY <1>3, <1>4, <1>5, <1>6, <1>7 DEF OutputInv, OutputInOrder

LEMMA OutputNext == OutputInv /\ [Next]_vars => OutputInv'
  <1> SUFFICES ASSUME OutputInv, [Next]_vars
               PROVE  OutputInv'
    OBVIOUS
  <1> USE DEF console_vars
  <1>1. ASSUME NEW end, Halt(end)
        PROVE  OutputInv'
    BY <1>1, OutputFrame DEF Halt
  <1>2. CASE \/ ThreadCreate \/ ThreadCreateNoMemory \/ ThreadExit \/ ThreadDispatch
             \/ SemOpen \/ SemOpenNoMemory \/ SemClose \/ SemWait \/ SemSignal
             \/ SemTimedWait
    BY <1>1, <1>2, OutputFrame DEF ThreadCreate, ThreadCreateNoMemory, ThreadExit,
       ThreadDispatch, SemOpen, SemOpenNoMemory, SemClose, SemWait, SemSignal, SignalOn,
       SemTimedWait
  <1>3. CASE \/ TimedSleep \/ Unserved \/ IllegalOperation \/ Getc \/ PutcRefused
             \/ TimerIrq \/ KeyPress \/ KernelDispatch
    BY <1>1, <1>3, OutputFrame DEF TimedSleep, SleepFor, Unserved, unserved, IllegalOperation,
       Getc, PutcRefused, TimerIrq, KeyPress, KernelDispatch
  <1>4. CASE PutcAccepted
    BY <1>4, StoreAdvances DEF PutcAccepted
  <1>5. CASE HwIrq
    BY <1>1, <1>5, SendAdvances DEF HwIrq
  <1>6. CASE KernelCheck
    BY <1>6, SendAdvances, OutputFrame DEF KernelCheck, stop
  <1>7. CASE Off \/ UNCHANGED vars
    BY <1>7, OutputFrame DEF Off, vars
  <1> QED
    BY <1>2, <1>3, <1>4, <1>5, <1>6, <1>7 DEF Next, Syscall

\* However reads and interrupts alternate, for any size of the buffer and any
\* number of threads, __console_receive and __getc lose, double and move no
\* character typed.
THEOREM InputInOrderTheorem == Spec => []InputInOrder
  <1>1. InputInv => InputInOrder
    BY DEF InputInv
  <1> QED
    BY <1>1, CountInit, CountNext, InputInit, InputNext, PTL DEF Spec

\* No thread stays blocked in __getc while the receive buffer has a character
\* it could take: every one that comes in is handed out by the interrupt.
THEOREM NoReaderWaitsWithInputTheorem == Spec => []NoReaderWaitsWithInput
  <1>1. InputInv => NoReaderWaitsWithInput
    BY DEF InputInv
  <1> QED
    BY <1>1, CountInit, CountNext, InputInit, InputNext, PTL DEF Spec

\* However many characters the device takes at a time, for any size of the
\* buffer, __putc and __console_send pass on every accepted character once and
\* in order.
THEOREM OutputInOrderTheorem == Spec => []OutputInOrder
  <1>1. OutputInv => OutputInOrder
    BY DEF OutputInv
  <1> QED
    BY <1>1, OutputInit, OutputNext, PTL DEF Spec

-----------------------------------------------------------------------------
(* Sums over finite sets.  MapThenSumSet takes away one element of the set *)
(* after the other; that this ends with an integer needs induction on the  *)
(* number of elements.                                                     *)

\* The element taken away.
pick(T) == CHOOSE x \in T : TRUE

\* One unfolding of the sum of d over T, where g has the sums of smaller sets.
Unfold(g, d, T) == IF T = {} THEN 0 ELSE d[pick(T)] + g[T \ {pick(T)}]

\* g has the sum of d over each set of D.
Sums(g, d, D) == g = [T \in D |-> Unfold(g, d, T)]

Small(S, n) == {T \in SUBSET S : Cardinality(T) <= n}

LEMMA PickOne == \A T : T # {} => pick(T) \in T
  BY DEF pick

LEMMA WithoutPick ==
  ASSUME NEW S, IsFiniteSet(S), NEW T \in SUBSET S, T # {}
  PROVE  /\ pick(T) \in S
         /\ T \ {pick(T)} \in SUBSET S
         /\ Cardinality(T \ {pick(T)}) = Cardinality(T) - 1
         /\ Cardinality(T) \in Nat \ {0}
  <1>1. IsFiniteSet(T)
    BY FS_Subset
  <1> QED
    BY <1>1, PickOne, FS_RemoveElement, FS_CardinalityType, FS_EmptySet

LEMMA SumsExist ==
  ASSUME NEW S, IsFiniteSet(S), NEW d \in [S -> Int]
  PROVE  \E g : Sums(g, d, SUBSET S)
  <1> DEFINE Claim(n) == \E g \in [Small(S, n) -> Int] : Sums(g, d, Small(S, n))
  <1>1. Claim(0)
    <2> DEFINE g == [T \in Small(S, 0) |-> 0]
    <2>1. \A T \in Small(S, 0) : T = {}
      BY FS_Subset, FS_EmptySet, FS_CardinalityType DEF Small
    <2>2. g = [T \in Small(S, 0) |-> Unfold(g, d, T)]
      BY <2>1 DEF Unfold
    <2> QED
      BY <2>2 DEF Sums
  <1>2. ASSUME NEW n \in Nat, n # 0, Claim(n - 1)
        PROVE  Claim(n)
    <2>1. PICK g \in [Small(S, n - 1) -> Int] : Sums(g, d, Small(S, n - 1))
      BY <1>2
    <2> DEFINE h == [T \in Small(S, n) |-> Unfold(g, d, T)]
    <2>2. ASSUME NEW T \in Small(S, n), T # {}
          PROVE  T \ {pick(T)} \in Small(S, n - 1) /\ T \ {pick(T)} \in Small(S, n)
                   /\ d[pick(T)] \in Int
      BY <1>2, <2>2, WithoutPick DEF Small
    <2>3. ASSUME NEW T \in Small(S, n)
          PROVE  h[T] \in Int /\ h[T] = Unfold(h, d, T)
      <3>1. CASE T = {}
        BY <3>1 DEF Unfold
      <3>2. CASE T # {}
        <4> DEFINE U == T \ {pick(T)}
        <4>1. g[U] \in Int /\ g[U] = Unfold(g, d, U) /\ h[U] = Unfold(g, d, U)
          BY <2>1, <2>2, <3>2 DEF Sums
        <4>2. h[T] = d[pick(T)] + g[U]
          BY <3>2 DEF Unfold
        <4> QED
          BY <2>2, <3>2, <4>1, <4>2 DEF Unfold
      <3> QED
        BY <3>1, <3>2
    <2> QED
      BY <2>3 DEF Sums
  <1> HIDE DEF Claim
  <1> DEFINE Good == {n \in Nat : Claim(n)}
  <1>3. ASSUME NEW n \in Nat, n \in Good
        PROVE  n + 1 \in Good
    <2>1. n + 1 \in Nat /\ n + 1 # 0 /\ n + 1 - 1 = n
      OBVIOUS
    <2> QED
      BY <1>2, <1>3, <2>1
  <1>g. 0 \in Good
    BY <1>1
  <1> HIDE DEF Good
  <1>6. Nat \subseteq Good
    BY <1>3, <1>g, InductiveSet
  <1>4. Claim(Cardinality(S))
    BY <1>6, FS_CardinalityType DEF Good
  <1>5. Small(S, Cardinality(S)) = SUBSET S
    BY FS_Subset DEF Small
  <1> QED
    BY <1>4, <1>5 DEF Claim

LEMMA SumsTyped ==
  ASSUME NEW S, IsFiniteSet(S), NEW d \in [S -> Int], NEW g, Sums(g, d, SUBSET S)
  PROVE  \A T \in SUBSET S : g[T] \in Int
  <1> DEFINE Typed == {n \in Nat : \A T \in Small(S, n) : g[T] \in Int}
  <1>0. \A T \in SUBSET S : g[T] = Unfold(g, d, T)
    BY DEF Sums
  <1>1. 0 \in Typed
    <2>1. \A T \in Small(S, 0) : T = {} /\ T \in SUBSET S
      BY FS_Subset, FS_EmptySet, FS_CardinalityType DEF Small
    <2>2. \A T \in Small(S, 0) : g[T] = 0
      BY <1>0, <2>1 DEF Unfold
    <2> QED
      BY <2>2
  <1>2. ASSUME NEW n \in Nat, n \in Typed
        PROVE  n + 1 \in Typed
    <2>1. ASSUME NEW T \in Small(S, n + 1), T # {}
          PROVE  g[T] \in Int
      <3>1. T \in SUBSET S /\ Cardinality(T) <= n + 1
        BY DEF Small
      <3>2. pick(T) \in S /\ T \ {pick(T)} \in Small(S, n)
        BY <2>1, <3>1, WithoutPick DEF Small
      <3>3. g[T \ {pick(T)}] \in Int /\ d[pick(T)] \in Int
        BY <1>2, <3>2
      <3>4. g[T] = d[pick(T)] + g[T \ {pick(T)}]
        BY <1>0, <2>1, <3>1 DEF Unfold
      <3> QED
        BY <3>3, <3>4
    <2>2. g[{}] = 0
      BY <1>0 DEF Unfold
    <2>3. ASSUME NEW T \in Small(S, n + 1)
          PROVE  g[T] \in Int
      <3>1. CASE T = {}
        BY <2>2, <3>1
      <3> QED
        BY <2>1, <3>1
    <2> QED
      BY <2>3
  <1> HIDE DEF Typed
  <1>3. Cardinality(S) \in Typed
    BY <1>1, <1>2, InductiveSet, FS_CardinalityType
  <1> QED
    BY <1>3, FS_Subset DEF Typed, Small

LEMMA DueIsTime ==
  ASSUME NEW s, NEW i \in Nat, \A j \in 1 .. i : s[j].delta \in Int
  PROVE  due(s, i) \in Time
  <1> DEFINE S == 1 .. i
             d == [j \in S |-> s[j].delta]
             g == CHOOSE h : Sums(h, d, SUBSET S)
  <1>1. IsFiniteSet(S) /\ d \in [S -> Int]
    BY FS_Interval
  <1>2. Sums(g, d, SUBSET S)
    <2> HIDE DEF d, S
    <2> QED BY <1>1, SumsExist
  <1>3. g[S] \in Int
    <2> HIDE DEF d, S
    <2> QED BY <1>1, <1>2, SumsTyped
  <1>4. MapThenSumSet(LAMBDA j : s[j].delta, S) = g[S]
    BY DEF MapThenSumSet, MapThenFoldSet, Sums, Unfold, pick
  <1> QED
    BY <1>3, <1>4, KernelAssumption DEF due, Time

-----------------------------------------------------------------------------
(* The types of the kernel's state.                                        *)

\* A function over 1 .. n is a sequence of n elements.
LEMMA FunctionIsSeq ==
  ASSUME NEW S, NEW n \in Nat, NEW f \in [1 .. n -> S]
  PROVE  f \in Seq(S) /\ Len(f) = n
  <1>1. f \in Seq(S)
    BY SeqDef
  <1>2. Len(f) \in Nat /\ 1 .. Len(f) = 1 .. n
    BY <1>1, LenProperties
  <1> QED
    BY <1>1, <1>2

LEMMA TicksWrap == \A d \in Int : d % TIME_MOD \in Time
  BY KernelAssumption DEF Time

LEMMA TimesAreInts == \A d \in Time : d \in Int
  BY KernelAssumption DEF Time

LEMMA EntryTyped ==
  ASSUME NEW e \in Sleeper, NEW d \in Int
  PROVE  with_delta(e, d) \in Sleeper
  BY TicksWrap DEF with_delta, Sleeper

SleepersTyped ==
  /\ sleeping_threads \in Seq(Sleeper)
  /\ sleeping_freed \in BOOLEAN

LEMMA SleeperFields ==
  ASSUME SleepersTyped
  PROVE  /\ Len(sleeping_threads) \in Nat
         /\ DOMAIN sleeping_threads = 1 .. Len(sleeping_threads)
         /\ \A i \in 1 .. Len(sleeping_threads) :
              /\ sleeping_threads[i] \in Sleeper
              /\ sleeping_threads[i].thread \in Tcb
              /\ sleeping_threads[i].semaphore \in Sem \cup {NULL}
              /\ sleeping_threads[i].delta \in Time
              /\ sleeping_threads[i].delta \in Int
  <1>1. /\ Len(sleeping_threads) \in Nat
        /\ DOMAIN sleeping_threads = 1 .. Len(sleeping_threads)
        /\ \A i \in 1 .. Len(sleeping_threads) : sleeping_threads[i] \in Sleeper
    BY LenProperties, ElementOfSeq DEF SleepersTyped
  <1>2. \A e \in Sleeper : /\ e.thread \in Tcb /\ e.semaphore \in Sem \cup {NULL}
                           /\ e.delta \in Time
    BY DEF Sleeper
  <1> QED
    BY <1>1, <1>2, TimesAreInts

\* __scheduler_timeout links one entry, and changes the delta of the next.
LEMMA TimeoutTyped ==
  ASSUME SleepersTyped, NEW t \in Tcb, NEW time \in Time, NEW s \in Sem \cup {NULL},
         scheduler_timeout(t, time, s)
  PROVE  SleepersTyped'
  <1> DEFINE old == sleeping_threads
             n == Len(sleeping_threads)
  <1>1. PICK p \in 1 .. n + 1 : sleeping_threads' = timeout_linked(t, time, s, p)
    BY DEF scheduler_timeout
  <1> DEFINE delta == IF p = 1 THEN time ELSE (time - due(old, p - 1)) % TIME_MOD
             entry == [thread |-> t, semaphore |-> s, delta |-> delta]
  <1>2. n \in Nat /\ \A i \in 1 .. n : old[i] \in Sleeper /\ old[i].delta \in Int
    BY SleeperFields
  <1>3. delta \in Time
    <2>1. CASE p # 1
      <3>1. p - 1 \in Nat /\ \A j \in 1 .. p - 1 : j \in 1 .. n
        BY <1>2, <2>1
      <3>2. due(old, p - 1) \in Time
        BY <1>2, <3>1, DueIsTime
      <3>3. time - due(old, p - 1) \in Int
        BY <3>2, TimesAreInts
      <3> QED
        BY <2>1, <3>3, TicksWrap
    <2> QED
      BY <2>1
  <1>4. entry \in Sleeper
    BY <1>3 DEF Sleeper
  <1> HIDE DEF entry
  <1>5. ASSUME NEW i \in 1 .. n + 1
        PROVE  (CASE i < p     -> old[i]
                  [] i = p     -> entry
                  [] i = p + 1 -> with_delta(old[p], old[p].delta - delta)
                  [] OTHER     -> old[i - 1]) \in Sleeper
    <2>1. CASE i < p
      <3>1. i \in 1 .. n
        BY <1>2, <2>1
      <3> QED
        BY <1>2, <2>1, <3>1
    <2>2. CASE i = p
      BY <1>4, <2>2
    <2>3. CASE i = p + 1
      <3>1. p \in 1 .. n /\ ~(i < p) /\ i # p
        BY <1>2, <2>3
      <3>2. old[p].delta - delta \in Int
        <4> HIDE DEF delta
        <4> QED
          BY <1>2, <1>3, <3>1, TimesAreInts
      <3>3. with_delta(old[p], old[p].delta - delta) \in Sleeper
        <4> HIDE DEF delta
        <4> QED
          BY <1>2, <3>1, <3>2, EntryTyped
      <3> QED
        BY <2>3, <3>1, <3>3
    <2>4. CASE i > p + 1
      <3>1. i - 1 \in 1 .. n /\ ~(i < p) /\ i # p /\ i # p + 1
        BY <1>2, <2>4
      <3> QED
        BY <1>2, <3>1
    <2> QED
      BY <1>2, <2>1, <2>2, <2>3, <2>4
  <1>6. sleeping_threads' =
          [i \in 1 .. n + 1 |->
             CASE i < p     -> old[i]
               [] i = p     -> entry
               [] i = p + 1 -> with_delta(old[p], old[p].delta - delta)
               [] OTHER     -> old[i - 1]]
    BY <1>1 DEF timeout_linked, entry
  <1>7. sleeping_threads' \in [1 .. n + 1 -> Sleeper] /\ n + 1 \in Nat
    BY <1>2, <1>5, <1>6
  <1> HIDE DEF n
  <1>8. sleeping_threads' \in Seq(Sleeper)
    BY <1>7, FunctionIsSeq
  <1> QED
    BY <1>8 DEF scheduler_timeout, SleepersTyped

\* __scheduler_remove_timeout unlinks one entry.
LEMMA RemoveTyped ==
  ASSUME SleepersTyped, NEW t, scheduler_remove_timeout(t)
  PROVE  SleepersTyped'
  <1> DEFINE old == sleeping_threads
             n == Len(sleeping_threads)
  <1>1. n \in Nat /\ \A i \in 1 .. n : old[i] \in Sleeper /\ old[i].delta \in Int
    BY SleeperFields
  <1>2. PICK i \in 1 .. n : sleeping_threads' = timeout_unlinked(i)
    BY SleeperFields DEF scheduler_remove_timeout
  <1>3. ASSUME NEW j \in 1 .. n - 1
        PROVE  (CASE j < i  -> old[j]
                  [] j = i  -> with_delta(old[j + 1], old[j + 1].delta + old[i].delta)
                  [] OTHER  -> old[j + 1]) \in Sleeper
    <2>1. j \in 1 .. n /\ j + 1 \in 1 .. n
      BY <1>1
    <2>2. old[j] \in Sleeper /\ old[j + 1] \in Sleeper
            /\ old[j + 1].delta + old[i].delta \in Int
      BY <1>1, <2>1
    <2>3. with_delta(old[j + 1], old[j + 1].delta + old[i].delta) \in Sleeper
      BY <2>2, EntryTyped
    <2> QED
      BY <2>2, <2>3
  <1>4. sleeping_threads' \in [1 .. n - 1 -> Sleeper] /\ n - 1 \in Nat
    BY <1>1, <1>2, <1>3 DEF timeout_unlinked
  <1> HIDE DEF n
  <1>5. sleeping_threads' \in Seq(Sleeper)
    BY <1>4, FunctionIsSeq
  <1>6. sleeping_freed' \in BOOLEAN
    BY DEF scheduler_remove_timeout
  <1> QED
    BY <1>5, <1>6 DEF SleepersTyped

\* The list once its first delta has been counted down.
LEMMA AgedTyped ==
  ASSUME SleepersTyped
  PROVE  /\ aged \in Seq(Sleeper)
         /\ Len(aged) = Len(sleeping_threads)
         /\ \A i \in 1 .. Len(sleeping_threads) :
              /\ aged[i].thread = sleeping_threads[i].thread
              /\ aged[i].semaphore = sleeping_threads[i].semaphore
              /\ i # 1 => aged[i] = sleeping_threads[i]
  <1> DEFINE old == sleeping_threads
             n == Len(sleeping_threads)
  <1>1. /\ n \in Nat /\ DOMAIN old = 1 .. n
        /\ \A i \in 1 .. n : old[i] \in Sleeper /\ old[i].delta \in Int
    BY SleeperFields
  <1>2. \A i \in 1 .. n : aged[i] = IF i = 1 THEN with_delta(old[1], old[1].delta - 1)
                                             ELSE old[i]
    BY <1>1 DEF aged
  <1>3. 1 \in 1 .. n => with_delta(old[1], old[1].delta - 1) \in Sleeper
    BY <1>1, EntryTyped
  <1>4. aged \in [1 .. n -> Sleeper]
    <2>1. \A i \in 1 .. n : aged[i] \in Sleeper
      BY <1>1, <1>2, <1>3
    <2> QED
      BY <1>1, <2>1 DEF aged
  <1>5. aged \in Seq(Sleeper) /\ Len(aged) = n
    <2> HIDE DEF n
    <2> QED
      BY <1>1, <1>4, FunctionIsSeq
  <1> QED
    BY <1>2, <1>5 DEF with_delta

LEMMA SleepersNext == CountInv /\ SleepersTyped /\ open \subseteq Sem /\ [Next]_vars => SleepersTyped'
  <1> SUFFICES ASSUME CountInv, SleepersTyped, open \subseteq Sem, [Next]_vars
               PROVE  SleepersTyped'
    OBVIOUS
  <1> USE DEF timeout_vars
  <1>f. ASSUME UNCHANGED timeout_vars
        PROVE  SleepersTyped'
    BY <1>f DEF SleepersTyped
  <1>1. ASSUME NEW end, Halt(end)
        PROVE  SleepersTyped'
    BY <1>f, <1>1 DEF Halt
  <1>c. thread_current \in Tcb
    BY DEF CountInv, Tcb
  <1>2. CASE \/ ThreadCreate \/ ThreadCreateNoMemory \/ ThreadExit \/ ThreadDispatch
             \/ SemOpen \/ SemOpenNoMemory \/ SemClose \/ SemWait \/ Unserved
             \/ IllegalOperation
    BY <1>f, <1>1, <1>2 DEF ThreadCreate, ThreadCreateNoMemory, ThreadExit,
       ThreadDispatch, SemOpen, SemOpenNoMemory, SemClose, sem_close, SemWait, Unserved,
       unserved, IllegalOperation
  <1>3. CASE \/ Getc \/ PutcAccepted \/ PutcRefused \/ KeyPress \/ HwIrq
             \/ KernelDispatch \/ KernelCheck \/ Off \/ UNCHANGED vars
    BY <1>f, <1>1, <1>3 DEF Getc, PutcAccepted, PutcRefused, KeyPress, HwIrq,
       KernelDispatch, KernelCheck, stop, Off, vars
  <1>4. CASE SemSignal
    BY <1>f, <1>1, <1>4, RemoveTyped DEF SemSignal, SignalOn, sem_signal, sem_unblock_thread
  <1>5. CASE SemTimedWait
    BY <1>c, <1>1, <1>5, TimeoutTyped, CallsAssumption DEF SemTimedWait, sem_timed_wait
  <1>6. CASE TimedSleep
    BY <1>c, <1>f, <1>1, <1>6, TimeoutTyped, CallsAssumption DEF TimedSleep, SleepFor
  <1>7. CASE TimerIrq
    <2>1. PICK k \in 0 .. Len(sleeping_threads) :
            \/ Halt(timer_end(k))
            \/ scheduler_tick(k) /\ sleeping_freed' = sleeping_freed
      BY <1>7 DEF TimerIrq
    <2>2. Without(aged, k) \in Seq(Sleeper)
      BY AgedTyped, SuffixOf
    <2> QED
      BY <1>1, <2>1, <2>2 DEF scheduler_tick, Without, SleepersTyped
  <1> QED
    BY <1>2, <1>3, <1>4, <1>5, <1>6, <1>7 DEF Next, Syscall

QueuesTyped ==
  /\ ready_threads \in Seq(Tcb)
  /\ open \subseteq Sem
  /\ val \in [Sem -> Int]
  /\ waiting_threads \in [Sem -> Seq(Tcb)]
  /\ sem_cnt \in Nat

\* __scheduler_next takes a thread from a queue q.
LEMMA NextTyped ==
  ASSUME NEW q \in Seq(Tcb), scheduler_next(q)
  PROVE  ready_threads' \in Seq(Tcb)
  BY LeaveQueue DEF scheduler_next, scheduler_rest

\* The threads of the first k entries go behind the ready ones.
LEMMA WokenTyped ==
  ASSUME SleepersTyped, ready_threads \in Seq(Tcb), NEW k \in 0 .. Len(sleeping_threads)
  PROVE  /\ [i \in 1 .. k |-> sleeping_threads[i].thread] \in Seq(Tcb)
         /\ ready_after_tick(k) \in Seq(Tcb)
  <1> DEFINE w == [i \in 1 .. k |-> sleeping_threads[i].thread]
  <1>1. w \in [1 .. k -> Tcb] /\ k \in Nat
    BY SleeperFields
  <1>2. w \in Seq(Tcb)
    BY <1>1, FunctionIsSeq
  <1> HIDE DEF w
  <1>3. ready_threads \o w \in Seq(Tcb)
    BY <1>2, JoinQueues
  <1> QED
    BY <1>2, <1>3 DEF w, ready_after_tick

LEMMA QueuesNext ==
  CountInv /\ InputInv /\ SleepersTyped /\ QueuesTyped /\ [Next]_vars => QueuesTyped'
  <1> SUFFICES ASSUME CountInv, InputInv, SleepersTyped, QueuesTyped, [Next]_vars
               PROVE  QueuesTyped'
    OBVIOUS
  <1> USE DEF sem_vars, sched_vars
  <1>f. ASSUME UNCHANGED sem_vars, ready_threads' \in Seq(Tcb)
        PROVE  QueuesTyped'
    BY <1>f DEF QueuesTyped
  <1>r. ready_threads \in Seq(Tcb) /\ thread_current \in Tcb
          /\ scheduler_push(ready_threads, thread_current) \in Seq(Tcb)
    BY JoinQueue DEF QueuesTyped, CountInv, Tcb, scheduler_push
  <1>1. ASSUME NEW end, Halt(end)
        PROVE  QueuesTyped'
    BY <1>f, <1>r, <1>1 DEF Halt
  <1>2. CASE ThreadCreate
    <2>1. \A t \in Thread : scheduler_push(ready_threads, t) \in Seq(Tcb)
      BY <1>r, JoinQueue DEF scheduler_push, Tcb
    <2> QED
      BY <1>f, <1>1, <1>2, <2>1 DEF ThreadCreate
  <1>3. CASE \/ ThreadExit \/ ThreadDispatch \/ PutcRefused \/ KernelDispatch
    BY <1>f, <1>r, <1>1, <1>3, NextTyped DEF ThreadExit, ThreadDispatch, PutcRefused,
       KernelDispatch
  <1>4. CASE \/ ThreadCreateNoMemory \/ SemOpenNoMemory \/ Unserved \/ IllegalOperation
             \/ PutcAccepted \/ KeyPress \/ KernelCheck \/ Off \/ UNCHANGED vars
    BY <1>f, <1>r, <1>1, <1>4 DEF ThreadCreateNoMemory, SemOpenNoMemory, Unserved,
       unserved, IllegalOperation, PutcAccepted, KeyPress, KernelCheck, stop, Off, vars
  <1>5. CASE Getc \/ TimedSleep
    BY <1>f, <1>r, <1>1, <1>5, NextTyped DEF Getc, getc_block, getc_take, TimedSleep, SleepFor
  <1>6. CASE HwIrq
    <2>1. CASE console_receive /\ typed' = typed /\ UNCHANGED sem_vars
      <3>1. unblocked \in Seq(Tcb)
        BY <2>1, ReceiveAdvances, SplitQueue DEF unblocked, InputInv
      <3> QED
        BY <1>f, <1>r, <2>1, <3>1, JoinQueues DEF console_receive
    <2> QED
      BY <1>1, <1>6, <2>1 DEF HwIrq
  <1>7. CASE SemOpen
    <2>1. \A init \in Inits : as_i32(init) \in Int
      BY CallsAssumption, SemaphoreAssumption DEF as_i32
    <2>2. <<>> \in Seq(Tcb)
      BY EmptyQueue
    <2>3. PICK s \in Sem \ open, init \in Inits :
            \/ Halt(sem_open_end)
            \/ sem_open(s, init) /\ ready_threads' = ready_threads
      BY <1>7 DEF SemOpen
    <2>4. CASE sem_open(s, init) /\ ready_threads' = ready_threads
      <3>1. sem_cnt' \in Nat /\ open' \subseteq Sem /\ ready_threads' \in Seq(Tcb)
        BY <2>3, <2>4 DEF sem_open, QueuesTyped
      <3>2. val' \in [Sem -> Int] /\ waiting_threads' \in [Sem -> Seq(Tcb)]
        BY <2>1, <2>2, <2>3, <2>4 DEF sem_open, QueuesTyped
      <3> QED
        BY <3>1, <3>2 DEF QueuesTyped
    <2> QED
      BY <1>1, <2>3, <2>4
  <1>8. CASE SemClose
    <2>1. PICK s \in open : Halt(sem_close_end(s)) \/ sem_close(s)
      BY <1>8 DEF SemClose
    <2>2. ready_threads \o waiting_threads[s] \in Seq(Tcb) /\ <<>> \in Seq(Tcb)
      BY JoinQueues, EmptyQueue DEF QueuesTyped
    <2> QED
      BY <1>1, <2>1, <2>2 DEF sem_close, QueuesTyped
  <1>9. CASE SemWait \/ SemTimedWait
    <2>1. PICK s \in open, c \in {code("SEM_WAIT"), code("SEM_TIMED_WAIT")} :
            \/ \E end : Halt(end)
            \/ sem_wait(s, c) /\ UNCHANGED <<open, sem_cnt>>
      BY <1>9 DEF SemWait, SemTimedWait, sem_timed_wait
    <2>2. CASE sem_wait(s, c) /\ UNCHANGED <<open, sem_cnt>>
      <3>1. s \in Sem /\ waiting_threads[s] \in Seq(Tcb)
              /\ sem_push(waiting_threads[s], thread_current) \in Seq(Tcb)
        BY <1>r, JoinQueue DEF QueuesTyped, sem_push
      <3>2. ready_threads' \in Seq(Tcb)
        BY <1>r, <2>2, NextTyped DEF sem_wait
      <3>3. waiting_threads' \in [Sem -> Seq(Tcb)]
        BY <2>2, <3>1 DEF sem_wait, QueuesTyped
      <3>4. val' \in [Sem -> Int]
        BY <2>2, <3>1 DEF sem_wait, QueuesTyped
      <3> QED
        BY <2>2, <3>2, <3>3, <3>4 DEF QueuesTyped
    <2> QED
      BY <1>1, <2>1, <2>2
  <1>10. CASE SemSignal
    <2>1. PICK s \in open : \/ Halt(sem_signal_end(s))
                            \/ sem_signal(s) /\ UNCHANGED <<open, sem_cnt>>
      BY <1>10 DEF SemSignal, SignalOn
    <2>2. CASE sem_signal(s) /\ UNCHANGED <<open, sem_cnt>>
      <3>1. s \in Sem /\ val' \in [Sem -> Int]
        BY <2>2 DEF sem_signal, QueuesTyped
      <3>2. CASE sem_signal_unblocks(s) /\ sem_unblock_thread(s)
        <4> DEFINE w == waiting_threads[s]
        <4>1. w \in Seq(Tcb) /\ w # <<>>
          BY <3>1, <3>2 DEF QueuesTyped, sem_signal_unblocks
        <4>2. Tail(w) \in Seq(Tcb) /\ Head(w) \in Tcb
          BY <4>1, HeadTailProperties
        <4>3. ready_threads' \in Seq(Tcb)
          BY <1>r, <3>2, <4>2, JoinQueue DEF sem_unblock_thread, scheduler_push
        <4>4. waiting_threads' \in [Sem -> Seq(Tcb)]
          BY <3>1, <3>2, <4>2 DEF sem_unblock_thread, QueuesTyped
        <4> QED
          BY <2>2, <3>1, <4>3, <4>4 DEF QueuesTyped
      <3>3. CASE UNCHANGED <<waiting_threads, ready_threads>>
        BY <2>2, <3>1, <3>3 DEF QueuesTyped
      <3> QED
        BY <2>2, <3>2, <3>3 DEF sem_signal
    <2> QED
      BY <1>1, <2>1, <2>2
  <1>11. CASE TimerIrq
    <2>1. PICK k \in 0 .. Len(sleeping_threads) :
            \/ Halt(timer_end(k))
            \/ /\ scheduler_tick(k) /\ UNCHANGED <<open, sem_cnt>>
               /\ \/ scheduler_next(scheduler_push(ready_after_tick(k), thread_current))
                  \/ ready_threads' = ready_after_tick(k)
      BY <1>11 DEF TimerIrq
    <2>2. CASE /\ scheduler_tick(k) /\ UNCHANGED <<open, sem_cnt>>
               /\ \/ scheduler_next(scheduler_push(ready_after_tick(k), thread_current))
                  \/ ready_threads' = ready_after_tick(k)
      <3>1. ready_after_tick(k) \in Seq(Tcb)
        BY <1>r, WokenTyped
      <3>2. scheduler_push(ready_after_tick(k), thread_current) \in Seq(Tcb)
        BY <1>r, <3>1, JoinQueue DEF scheduler_push
      <3>3. ready_threads' \in Seq(Tcb)
        BY <2>2, <3>1, <3>2, NextTyped
      <3>4. val' \in [Sem -> Int] /\ waiting_threads' \in [Sem -> Seq(Tcb)]
        BY <2>2, EmptyQueue DEF scheduler_tick, QueuesTyped
      <3> QED
        BY <2>2, <3>3, <3>4 DEF QueuesTyped
    <2> QED
      BY <1>1, <2>1, <2>2
  <1> QED
    BY <1>2, <1>3, <1>4, <1>5, <1>6, <1>7, <1>8, <1>9, <1>10, <1>11 DEF Next, Syscall

SlicesTyped == time_left \in [Tcb -> Time]

LEMMA SlicesNext == CountInv /\ SlicesTyped /\ [Next]_vars => SlicesTyped'
  <1> SUFFICES ASSUME CountInv, SlicesTyped, [Next]_vars
               PROVE  SlicesTyped'
    OBVIOUS
  <1> USE DEF sched_vars
  <1>1. ASSUME NEW end, Halt(end)
        PROVE  SlicesTyped'
    BY <1>1 DEF Halt, SlicesTyped
  <1>c. thread_current \in Tcb
    BY DEF CountInv, Tcb
  <1>r. \A left \in [Tcb -> Time] : \A T : renewed_slice(left, T) \in [Tcb -> Time]
    BY KernelAssumption DEF renewed_slice, Time
  <1>2. CASE ThreadCreate \/ ThreadDispatch \/ PutcRefused \/ HwIrq
    BY <1>1, <1>2, <1>r DEF ThreadCreate, ThreadDispatch, PutcRefused, HwIrq,
       console_receive, SlicesTyped
  <1>3. CASE \/ ThreadCreateNoMemory \/ ThreadExit \/ SemOpen \/ SemOpenNoMemory
             \/ SemWait \/ TimedSleep \/ Unserved \/ IllegalOperation
             \/ Getc \/ PutcAccepted \/ KeyPress
    BY <1>1, <1>3 DEF ThreadCreateNoMemory, ThreadExit, SemOpen, SemOpenNoMemory,
       SemWait, TimedSleep, SleepFor, Unserved, unserved, IllegalOperation, Getc, PutcAccepted,
       KeyPress, SlicesTyped
  <1>4. CASE SemClose
    BY <1>1, <1>4, <1>r DEF SemClose, sem_close, SlicesTyped
  <1>5. CASE SemSignal
    BY <1>1, <1>5, <1>r DEF SemSignal, SignalOn, sem_signal, sem_unblock_thread, SlicesTyped
  <1>6. CASE SemTimedWait
    <2>1. 0 \in Time
      BY KernelAssumption DEF Time
    <2> QED
      BY <1>1, <1>c, <1>6, <2>1 DEF SemTimedWait, sem_timed_wait, SlicesTyped
  <1>7. CASE TimerIrq
    <2>1. PICK k \in 0 .. Len(sleeping_threads) :
            \/ Halt(timer_end(k))
            \/ time_left' = renewed_slice(slices_after_tick(k), {thread_current})
            \/ time_left' = slices_after_tick(k)
      BY <1>7 DEF TimerIrq
    <2> DEFINE left == renewed_slice(time_left, woken(k))
    <2>2. left \in [Tcb -> Time]
      BY <1>r DEF SlicesTyped
    <2>3. slices_after_tick(k) =
            [left EXCEPT ![thread_current] = (left[thread_current] - 1) % TIME_MOD]
      BY DEF slices_after_tick
    <2> HIDE DEF left
    <2>4. (left[thread_current] - 1) % TIME_MOD \in Time
      <3>1. left[thread_current] \in Int
        BY <1>c, <2>2, TimesAreInts
      <3> QED
        BY <3>1, TicksWrap
    <2>5. slices_after_tick(k) \in [Tcb -> Time]
      BY <2>2, <2>3, <2>4
    <2> QED
      BY <1>1, <1>r, <2>1, <2>5 DEF SlicesTyped
  <1>8. CASE KernelDispatch \/ KernelCheck \/ Off \/ UNCHANGED vars
    BY <1>1, <1>8 DEF KernelDispatch, KernelCheck, stop, Off, vars, SlicesTyped
  <1> QED
    BY <1>2, <1>3, <1>4, <1>5, <1>6, <1>7, <1>8 DEF Next, Syscall

\* The codes, errors and characters a handler writes to a0.
LEMMA ResultValues ==
  /\ 0 \in Results /\ -1 \in Results /\ -2 \in Results
  /\ \A call \in Wrappers : code(call) \in Results
  /\ \A i \in 1 .. MaxTyped : char(i) \in Results
  BY DEF Results, SEM_CLOSED_EXTERNALLY, SEM_WAIT_TIMEOUT

LEMMA WrapperNames ==
  /\ "GETC" \in Wrappers /\ "PUTC" \in Wrappers /\ "SEM_WAIT" \in Wrappers
  /\ "SEM_TIMED_WAIT" \in Wrappers
  BY DEF Wrappers, console_codes, sem_codes

\* A character that is still on its way has been typed.
LEMMA PendingTyped ==
  ASSUME InputInv
  PROVE  \A i \in 1 .. Len(pending) : pending[i] \in Results
  <1> SUFFICES ASSUME NEW i \in 1 .. Len(pending)
               PROVE  pending[i] \in Results
    OBVIOUS
  <1>1. pending \in Seq(Nat)
    BY ConcatProperties DEF pending, InputInv
  <1>2. Len(pending) \in Nat /\ DOMAIN pending = 1 .. Len(pending)
    BY <1>1, LenProperties
  <1>3. typed - Len(pending) + i \in 1 .. MaxTyped
    BY <1>2, CallsAssumption DEF InputInv
  <1>4. pending[i] = char(typed - Len(pending) + i)
    BY <1>2 DEF InputInv, InputInOrder
  <1> QED
    BY <1>3, <1>4, ResultValues

\* The character __console_receive hands to an unblocked thread.
LEMMA HandedOut ==
  ASSUME InputInv, NEW t \in ToSet(unblocked),
         unblocked_cnt \in 0 .. Len(threads_waiting_for_input),
         unblocked_cnt \in 0 .. Len(received),
         Len(received) <= Len(pending),
         \A i \in 1 .. Len(received) : received[i] = pending[i]
  PROVE  \E i \in 1 .. unblocked_cnt :
           /\ threads_waiting_for_input[i] = t
           /\ handed(t) = pending[i]
           /\ i \in 1 .. Len(pending)
  <1>1. /\ unblocked \in Seq(Tcb) /\ Len(unblocked) = unblocked_cnt
        /\ \A i \in 1 .. unblocked_cnt : unblocked[i] = threads_waiting_for_input[i]
    BY PrefixOf DEF unblocked, InputInv
  <1>2. DOMAIN unblocked = 1 .. unblocked_cnt
    BY <1>1, LenProperties
  <1> DEFINE i == CHOOSE j \in DOMAIN unblocked : unblocked[j] = t
  <1>3. i \in 1 .. unblocked_cnt /\ unblocked[i] = t
    BY <1>2 DEF ToSet
  <1>4. handed(t) = received[i]
    BY DEF handed
  <1> HIDE DEF i
  <1>5. Len(received) \in Nat /\ Len(pending) \in Nat
    <2>1. pending \in Seq(Nat)
      BY ConcatProperties DEF pending, InputInv
    <2>2. console_receive_buffer \in Seq(Nat) /\ rx_data \in Seq(Nat)
      BY DEF InputInv
    <2>3. received_len \in 0 .. Len(rx_data)
      BY <2>2, LenProperties, ConsoleAssumption DEF received_len, InputInv, InputInOrder
    <2>4. received \in Seq(Nat)
      BY <2>2, <2>3, PrefixOf, ConcatProperties DEF received
    <2> QED
      BY <2>1, <2>4, LenProperties
  <1>6. i \in 1 .. Len(received) /\ i \in 1 .. Len(pending)
    BY <1>3, <1>5
  <1> QED
    BY <1>1, <1>3, <1>4, <1>6

ResultsTyped == a0 \in [Tcb -> Results]

LEMMA ResultsNext ==
  CountInv /\ InputInv /\ ResultsTyped /\ [Next]_vars => ResultsTyped'
  <1> SUFFICES ASSUME CountInv, InputInv, ResultsTyped, [Next]_vars
               PROVE  ResultsTyped'
    OBVIOUS
  <1>1. ASSUME NEW end, Halt(end)
        PROVE  ResultsTyped'
    BY <1>1 DEF Halt, ResultsTyped
  <1>c. thread_current \in Tcb
    BY DEF CountInv, Tcb
  <1>w. ASSUME NEW r \in Results, a0' = [a0 EXCEPT ![thread_current] = r]
        PROVE  ResultsTyped'
    BY <1>c, <1>w DEF ResultsTyped
  <1>2. CASE \/ ThreadCreate \/ ThreadCreateNoMemory \/ SemOpen \/ SemOpenNoMemory
             \/ TimedSleep
    BY <1>1, <1>w, <1>2, ResultValues DEF ThreadCreate, ThreadCreateNoMemory, SemOpen,
       sem_open, SemOpenNoMemory, TimedSleep, SleepFor, THREAD_CREATE_NO_MEMORY,
       SEM_CREATE_NO_MEMORY
  <1>3. CASE \/ ThreadExit \/ ThreadDispatch \/ IllegalOperation \/ TimerIrq \/ KeyPress
             \/ KernelDispatch \/ KernelCheck \/ Off \/ UNCHANGED vars
    BY <1>1, <1>3 DEF ThreadExit, ThreadDispatch, IllegalOperation, TimerIrq, KeyPress,
       KernelDispatch, KernelCheck, stop, Off, vars, ResultsTyped
  <1>4. CASE PutcAccepted \/ PutcRefused \/ Unserved
    <2>1. code("PUTC") \in Results
      BY ResultValues, WrapperNames
    <2>2. CASE Unserved
      BY <1>w, <2>2, ResultValues DEF Unserved, unserved
    <2>3. CASE PutcAccepted \/ PutcRefused
      BY <1>1, <1>w, <2>1, <2>3 DEF PutcAccepted, PutcRefused
    <2> QED
      BY <1>4, <2>2, <2>3
  <1>5. CASE SemWait \/ SemTimedWait
    <2>1. code("SEM_WAIT") \in Results /\ code("SEM_TIMED_WAIT") \in Results
      BY ResultValues, WrapperNames
    <2> QED
      BY <1>1, <1>w, <1>5, <2>1, ResultValues DEF SemWait, SemTimedWait, sem_timed_wait,
         sem_wait
  <1>6. CASE SemClose
    BY <1>1, <1>6, ResultValues DEF SemClose, sem_close, ResultsTyped,
       SEM_CLOSED_EXTERNALLY
  <1>7. CASE SemSignal
    <2>1. PICK s \in open :
            \/ Halt(sem_signal_end(s))
            \/ \E t : a0' = [a0 EXCEPT ![t] = 0, ![thread_current] = 0]
            \/ \E r \in {0, -1} : a0' = [a0 EXCEPT ![thread_current] = r]
      BY <1>7 DEF SemSignal, SignalOn, sem_signal, sem_unblock_thread, SEM_SIGNAL_NO_THREADS
    <2> QED
      BY <1>1, <1>c, <2>1, ResultValues DEF ResultsTyped
  <1>8. CASE Getc
    <2>1. code("GETC") \in Results
      BY ResultValues, WrapperNames
    <2>2. ~getc_blocks => Head(console_receive_buffer) \in Results
      <3>1. console_receive_buffer \in Seq(Nat) /\ rx_data \in Seq(Nat)
        BY DEF InputInv
      <3>2. CASE console_receive_buffer # <<>>
        <4>1. Len(console_receive_buffer) \in Nat \ {0} /\ Len(rx_data) \in Nat
                /\ Head(console_receive_buffer) = console_receive_buffer[1]
          BY <3>1, <3>2, EmptySeq, LenProperties
        <4>2. Len(pending) = Len(console_receive_buffer) + Len(rx_data)
                /\ \A i \in 1 .. Len(console_receive_buffer) + Len(rx_data) :
                     pending[i] = IF i <= Len(console_receive_buffer)
                                  THEN console_receive_buffer[i]
                                  ELSE rx_data[i - Len(console_receive_buffer)]
          BY <3>1, ConcatProperties DEF pending
        <4>3. 1 \in 1 .. Len(pending) /\ pending[1] = Head(console_receive_buffer)
          BY <4>1, <4>2
        <4> QED
          BY <4>3, PendingTyped
      <3> QED
        BY <3>2 DEF getc_blocks
    <2> QED
      BY <1>1, <1>w, <1>8, <2>1, <2>2 DEF Getc, getc_block, getc_take
  <1>9. CASE HwIrq
    <2>1. CASE console_receive /\ typed' = typed
      <3>1. \A t \in ToSet(unblocked) : handed(t) \in Results
        BY <2>1, ReceiveAdvances, HandedOut, PendingTyped
      <3> QED
        BY <2>1, <3>1 DEF console_receive, ResultsTyped
    <2> QED
      BY <1>1, <1>9, <2>1 DEF HwIrq
  <1> QED
    BY <1>2, <1>3, <1>4, <1>5, <1>6, <1>7, <1>8, <1>9 DEF Next, Syscall

LoopTyped ==
  /\ halted \in Ends \cup {"no"}
  /\ km_pc \in {"boot", "check", "window"}
  /\ repeats \subseteq Thread

LEMMA LoopNext == LoopTyped /\ [Next]_vars => LoopTyped'
  <1> SUFFICES ASSUME LoopTyped, [Next]_vars
               PROVE  LoopTyped'
    OBVIOUS
  <1> USE DEF console_vars, LoopTyped
  <1>1. ASSUME NEW end, Halt(end)
        PROVE  LoopTyped'
    BY <1>1 DEF Halt
  <1>2. CASE \/ ThreadCreate \/ ThreadCreateNoMemory \/ ThreadExit \/ ThreadDispatch
             \/ SemOpen \/ SemOpenNoMemory \/ SemClose \/ SemWait \/ SemSignal
             \/ SemTimedWait
    BY <1>1, <1>2 DEF ThreadCreate, ThreadCreateNoMemory, ThreadExit,
       ThreadDispatch, SemOpen, SemOpenNoMemory, SemClose, SemWait, SemSignal, SignalOn,
       SemTimedWait, Handled
  <1>3. CASE \/ TimedSleep \/ Unserved \/ IllegalOperation \/ Getc
             \/ TimerIrq \/ KeyPress \/ KernelDispatch
    BY <1>1, <1>3 DEF TimedSleep, SleepFor, Unserved, unserved, IllegalOperation, Getc, TimerIrq,
       KeyPress, KernelDispatch, Handled
  <1>4. CASE PutcAccepted \/ PutcRefused
    BY <1>1, <1>4 DEF PutcAccepted, PutcRefused, EcallPutc, Ecall, Handled
  <1>5. CASE HwIrq \/ KernelCheck \/ Off \/ UNCHANGED vars
    BY <1>1, <1>5 DEF HwIrq, KernelCheck, stop, Off, vars, Handled, Ends
  <1> QED
    BY <1>2, <1>3, <1>4, <1>5 DEF Next, Syscall

\* Each of the parts needs the others' types.
TypeInv ==
  /\ CountInv /\ InputInv /\ OutputInv
  /\ SleepersTyped /\ QueuesTyped /\ SlicesTyped /\ ResultsTyped /\ LoopTyped

LEMMA TypeInit == Init => TypeInv
  <1>1. Init => SleepersTyped
    BY EmptySeq DEF Init, SleepersTyped
  <1>2. Init => QueuesTyped
    <2>1. \A t \in Thread : <<t>> \in Seq(Tcb)
      BY EmptyQueue, JoinQueue DEF Tcb
    <2> QED
      BY <2>1, EmptyQueue DEF Init, QueuesTyped
  <1>3. Init => SlicesTyped
    BY KernelAssumption DEF Init, SlicesTyped, Time
  <1>4. Init => ResultsTyped
    BY ResultValues DEF Init, ResultsTyped
  <1>5. Init => LoopTyped
    BY DEF Init, LoopTyped
  <1> QED
    BY <1>1, <1>2, <1>3, <1>4, <1>5, CountInit, InputInit, OutputInit DEF TypeInv

LEMMA TypeNext == TypeInv /\ [Next]_vars => TypeInv'
  <1>1. QueuesTyped => open \subseteq Sem
    BY DEF QueuesTyped
  <1> QED
    BY <1>1, CountNext, InputNext, OutputNext, SleepersNext, QueuesNext, SlicesNext,
       ResultsNext, LoopNext DEF TypeInv

LEMMA TypeInvImplies == TypeInv => TypeOK
  <1>1. CountInv => live \subseteq Thread /\ thread_current \in Tcb /\ user_thread_count \in Nat
    BY KernelAssumption, FS_Subset, FS_CardinalityType DEF CountInv, Tcb
  <1>2. InputInv => typed \in Nat
    BY CallsAssumption DEF InputInv
  <1> QED
    BY <1>1, <1>2 DEF TypeInv, TypeOK, InputInv, OutputInv, SleepersTyped, QueuesTyped,
       SlicesTyped, ResultsTyped, LoopTyped

\* The kernel's state keeps the types its structs give it, whatever the threads
\* call, timed waits included: every queue holds thread structs, every delta
\* and time slice is a time_t, and a0 holds a code, an error or a character
\* that was really typed.
THEOREM TypeOKTheorem == Spec => []TypeOK
  BY TypeInit, TypeNext, TypeInvImplies, PTL DEF Spec

-----------------------------------------------------------------------------
(* A reader that is woken has its own character.                           *)

\* No thread is linked twice in the ring of getc.
ReaderInv == NoDuplicates(threads_waiting_for_input)

LEMMA ReaderNext == TypeInv /\ ReaderInv /\ [Next]_vars => ReaderInv'
  <1> SUFFICES ASSUME TypeInv, ReaderInv, [Next]_vars
               PROVE  ReaderInv'
    OBVIOUS
  <1> USE DEF console_vars, input_vars
  <1>f. ASSUME threads_waiting_for_input' = threads_waiting_for_input
        PROVE  ReaderInv'
    BY <1>f DEF ReaderInv, NoDuplicates
  <1>1. ASSUME NEW end, Halt(end)
        PROVE  ReaderInv'
    BY <1>f, <1>1 DEF Halt
  <1>2. CASE \/ ThreadCreate \/ ThreadCreateNoMemory \/ ThreadExit \/ ThreadDispatch
             \/ SemOpen \/ SemOpenNoMemory \/ SemClose \/ SemWait \/ SemSignal
             \/ SemTimedWait
    BY <1>f, <1>1, <1>2 DEF ThreadCreate, ThreadCreateNoMemory, ThreadExit,
       ThreadDispatch, SemOpen, SemOpenNoMemory, SemClose, SemWait, SemSignal, SignalOn,
       SemTimedWait
  <1>3. CASE \/ TimedSleep \/ Unserved \/ IllegalOperation \/ PutcAccepted \/ PutcRefused
             \/ TimerIrq \/ KernelDispatch \/ KernelCheck \/ KeyPress \/ Off
             \/ UNCHANGED vars
    BY <1>f, <1>1, <1>3 DEF TimedSleep, SleepFor, Unserved, unserved, IllegalOperation,
       PutcAccepted, PutcRefused, TimerIrq, KernelDispatch, KernelCheck, stop, KeyPress,
       Off, vars
  <1>w. threads_waiting_for_input \in Seq(Tcb) /\ thread_current \in Tcb
    BY DEF TypeInv, InputInv, CountInv, Tcb
  <1>4. CASE Getc
    <2>1. CASE Handled(getc_end) /\ getc_blocks /\ getc_block(code("GETC"))
      <3>1. thread_current \notin ToSet(threads_waiting_for_input)
        BY <2>1 DEF Handled, getc_end, Then, LinkEnd, Linked
      <3> QED
        BY <1>w, <2>1, <3>1, JoinQueue DEF getc_block, ReaderInv
    <2> QED
      BY <1>f, <1>1, <1>4, <2>1 DEF Getc, getc_take
  <1>5. CASE HwIrq
    <2>1. CASE console_receive /\ typed' = typed
      <3>1. unblocked_cnt \in 0 .. Len(threads_waiting_for_input)
        BY <2>1, ReceiveAdvances DEF TypeInv
      <3> QED
        BY <1>w, <2>1, <3>1, SplitQueue DEF console_receive, still_waiting, Without,
           ReaderInv
    <2> QED
      BY <1>1, <1>5, <2>1 DEF HwIrq
  <1> QED
    BY <1>2, <1>3, <1>4, <1>5 DEF Next, Syscall

\* The threads leave the ring of getc only in __console_receive.
LEMMA ServedByReceive ==
  ASSUME TypeInv, [Next]_vars, NEW t, Served(t)
  PROVE  console_receive /\ typed' = typed
  <1> USE DEF console_vars, input_vars
  <1>f. threads_waiting_for_input' # threads_waiting_for_input
    BY DEF Served
  <1>1. \A end : ~Halt(end)
    BY <1>f DEF Halt
  <1>2. ~(\/ ThreadCreate \/ ThreadCreateNoMemory \/ ThreadExit \/ ThreadDispatch
          \/ SemOpen \/ SemOpenNoMemory \/ SemClose \/ SemWait \/ SemSignal
          \/ SemTimedWait)
    BY <1>f, <1>1 DEF ThreadCreate, ThreadCreateNoMemory, ThreadExit,
       ThreadDispatch, SemOpen, SemOpenNoMemory, SemClose, SemWait, SemSignal, SignalOn,
       SemTimedWait
  <1>3. ~(\/ TimedSleep \/ Unserved \/ IllegalOperation \/ PutcAccepted \/ PutcRefused
          \/ TimerIrq \/ KernelDispatch \/ KernelCheck \/ KeyPress \/ Off
          \/ UNCHANGED vars)
    BY <1>f, <1>1 DEF TimedSleep, SleepFor, Unserved, unserved, IllegalOperation,
       PutcAccepted, PutcRefused, TimerIrq, KernelDispatch, KernelCheck, stop, KeyPress,
       Off, vars
  <1>4. ~Getc
    <2>1. threads_waiting_for_input \in Seq(Tcb) /\ thread_current \in Tcb
      BY DEF TypeInv, InputInv, CountInv, Tcb
    <2>2. ~getc_block(code("GETC"))
      BY <2>1, JoinQueue DEF getc_block, Served
    <2> QED
      BY <1>f, <1>1, <2>2 DEF Getc, getc_take
  <1> QED
    BY <1>1, <1>2, <1>3, <1>4 DEF Next, Syscall, HwIrq

LEMMA ServedWithChar ==
  ASSUME TypeInv, ReaderInv, [Next]_vars,
         NEW i \in DOMAIN threads_waiting_for_input,
         NEW t, t = threads_waiting_for_input[i], Served(t)
  PROVE  t \in ToSet(ready_threads') /\ a0'[t] = char(typed - Len(pending) + i)
  <1> DEFINE w == threads_waiting_for_input
             n == unblocked_cnt
  <1>1. console_receive /\ typed' = typed
    BY ServedByReceive
  <1>2. /\ n \in 0 .. Len(received) /\ n \in 0 .. Len(w)
        /\ Len(received) <= Len(pending)
        /\ \A j \in 1 .. Len(received) : received[j] = pending[j]
        /\ InputInv /\ w \in Seq(Tcb)
    BY <1>1, ReceiveAdvances DEF TypeInv, InputInv
  <1>3. t \in ToSet(unblocked)
    BY <1>1, <1>2, SplitQueue DEF Served, console_receive, still_waiting, unblocked,
       Without
  <1>4. t \in ToSet(ready_threads')
    <2>1. ready_threads \in Seq(Tcb) /\ unblocked \in Seq(Tcb)
      BY <1>2, SplitQueue DEF TypeInv, QueuesTyped, unblocked
    <2> QED
      BY <1>1, <1>3, <2>1, JoinQueues DEF console_receive
  <1>5. PICK j \in 1 .. n : w[j] = t /\ handed(t) = pending[j] /\ j \in 1 .. Len(pending)
    BY <1>2, <1>3, HandedOut
  <1>6. j = i
    <2>1. j \in DOMAIN w
      BY <1>2, <1>5, LenProperties
    <2> QED
      BY <1>5, <2>1 DEF ReaderInv, NoDuplicates
  <1>7. a0'[t] = pending[i]
    <2>1. t \in Tcb
      BY <1>2, ElementOfSeq, LenProperties
    <2> QED
      BY <1>1, <1>3, <1>5, <1>6, <2>1 DEF console_receive
  <1>8. pending[i] = char(typed - Len(pending) + i)
    <2>1. pending \in Seq(Nat)
      BY <1>2, ConcatProperties DEF pending, InputInv
    <2>2. i \in DOMAIN pending
      BY <1>5, <1>6, <2>1, LenProperties
    <2> QED
      BY <1>2, <2>2 DEF InputInv, InputInOrder
  <1> QED
    BY <1>4, <1>7, <1>8

\* The threads __console_receive unblocks are the first ones of the ring, each
\* is made ready and finds in its a0 the character typed for it, for any
\* number of readers and of characters in one interrupt.
THEOREM ReaderGetsCharTheorem == Spec => ReaderGetsChar
  <1>1. Init => ReaderInv
    BY EmptyQueue DEF Init, ReaderInv
  <1>2. TypeInv /\ ReaderInv /\ [Next]_vars =>
          [\A i \in DOMAIN threads_waiting_for_input :
             LET t == threads_waiting_for_input[i]
             IN Served(t) => /\ t \in ToSet(ready_threads')
                             /\ a0'[t] = char(typed - Len(pending) + i)]_vars
    BY ServedWithChar
  <1> QED
    BY <1>1, <1>2, TypeInit, TypeNext, ReaderNext, PTL DEF Spec, ReaderGetsChar
=============================================================================
