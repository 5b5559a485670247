----------------------------- MODULE RingProofs -----------------------------
(***************************************************************************)
(* The rings of Ring hold their queues, for any number of nodes and        *)
(* semaphores.                                                             *)
(***************************************************************************)
EXTENDS Ring, SequenceTheorems, TLAPS

Ptr == [Node -> Node \cup {NULL}]

Distinct(q) == \A i, j \in 1 .. Len(q) : q[i] = q[j] => i = j

-----------------------------------------------------------------------------
(* What the pointer operations do to one ring.                             *)

\* A ring is not touched by writes to the pointers of other nodes.
LEMMA HoldsElsewhere ==
  ASSUME NEW q \in Seq(Node), NEW h,
         NEW nx \in Ptr, NEW pv \in Ptr, NEW nx2 \in Ptr, NEW pv2 \in Ptr,
         Holds(q, h, nx, pv),
         \A i \in 1 .. Len(q) : nx2[q[i]] = nx[q[i]] /\ pv2[q[i]] = pv[q[i]]
  PROVE  Holds(q, h, nx2, pv2)
BY DEF Holds, after, before

\* A node linked to itself is a ring of one.
LEMMA HoldsAlone ==
  ASSUME NEW n \in Node, NEW nx \in Ptr, NEW pv \in Ptr
  PROVE  Holds(<<n>>, n, [nx EXCEPT ![n] = n], [pv EXCEPT ![n] = n])
BY DEF Holds, after, before, Ptr

\* list_insert in front of the node at place p, or of the head when p is past
\* the last place, puts the new node at place p.
LEMMA HoldsInserted ==
  ASSUME NEW q \in Seq(Node), q # <<>>, Distinct(q),
         NEW nx \in Ptr, NEW pv \in Ptr, Holds(q, q[1], nx, pv),
         NEW n \in Node, \A i \in 1 .. Len(q) : q[i] # n,
         NEW p \in 1 .. Len(q) + 1
  PROVE  LET h == q[IF p > Len(q) THEN 1 ELSE p]
         IN Holds(inserted(q, p, n), IF p = 1 THEN n ELSE q[1],
                  [nx EXCEPT ![n] = h, ![pv[h]] = n],
                  [pv EXCEPT ![n] = pv[h], ![h] = n])
<1> DEFINE len == Len(q)
           k == IF p > len THEN 1 ELSE p
           h == q[k]
           b == q[before(k, len)]
           r == inserted(q, p, n)
           nx2 == [nx EXCEPT ![n] = h, ![pv[h]] = n]
           pv2 == [pv EXCEPT ![n] = pv[h], ![h] = n]
<1>1. /\ len \in Nat \ {0} /\ k \in 1 .. len /\ before(k, len) \in 1 .. len
      /\ h \in Node /\ b \in Node /\ h # n /\ b # n
  BY DEF before
<1>2. pv[h] = b
  BY <1>1 DEF Holds
<1>3. Len(r) = len + 1 /\ r # <<>> /\ r[1] = IF p = 1 THEN n ELSE q[1]
  BY <1>1 DEF inserted
<1>4. ASSUME NEW i \in 1 .. len + 1
      PROVE  nx2[r[i]] = r[after(i, len + 1)] /\ pv2[r[i]] = r[before(i, len + 1)]
  <2>1. CASE i = p
    BY <1>1, <1>2, <2>1 DEF inserted, after, before, Ptr
  <2>2. CASE i < p
    <3>1. r[i] = q[i] /\ i \in 1 .. len /\ q[i] # n /\ q[i] \in Node
      BY <2>2, <1>1 DEF inserted
    <3>2. nx[q[i]] = q[after(i, len)] /\ pv[q[i]] = q[before(i, len)]
      BY <3>1 DEF Holds
    <3>3. nx2[r[i]] = IF i = before(k, len) THEN n ELSE q[after(i, len)]
      BY <1>1, <1>2, <3>1, <3>2 DEF Distinct, Ptr
    <3>4. pv2[r[i]] = IF i = k THEN n ELSE q[before(i, len)]
      BY <1>1, <1>2, <3>1, <3>2 DEF Distinct, Ptr
    <3>5. i \in Int /\ p \in Int /\ i <= len /\ after(i, len + 1) = i + 1
      BY <1>1, <2>2, <3>1 DEF after
    <3>6. r[i + 1] = IF i + 1 = p THEN n ELSE q[i + 1]
      BY <1>1, <2>2, <3>5 DEF inserted
    <3>7. r[before(i, len + 1)] = IF i # 1 THEN q[i - 1] ELSE IF p > len THEN n ELSE q[len]
      BY <1>1, <2>2, <3>5 DEF inserted, before
    <3>8. nx2[r[i]] = r[i + 1]
      BY <1>1, <2>2, <3>3, <3>5, <3>6 DEF after, before
    <3>9. pv2[r[i]] = r[before(i, len + 1)]
      BY <1>1, <2>2, <3>4, <3>5, <3>7 DEF before
    <3> QED BY <3>5, <3>8, <3>9
  <2>3. CASE i > p
    <3> DEFINE j == i - 1
    <3>1. r[i] = q[j] /\ j \in 1 .. len /\ q[j] # n /\ q[j] \in Node
      BY <2>3, <1>1 DEF inserted
    <3>2. nx[q[j]] = q[after(j, len)] /\ pv[q[j]] = q[before(j, len)]
      BY <3>1 DEF Holds
    <3>3. nx2[r[i]] = IF j = before(k, len) THEN n ELSE q[after(j, len)]
      BY <1>1, <1>2, <3>1, <3>2 DEF Distinct, Ptr
    <3>4. pv2[r[i]] = IF j = k THEN n ELSE q[before(j, len)]
      BY <1>1, <1>2, <3>1, <3>2 DEF Distinct, Ptr
    <3>5. k = p /\ i - 1 >= p /\ p \in Int /\ i \in Int
      BY <2>3, <1>1
    <3>6. r[after(i, len + 1)] = IF i = len + 1 THEN IF p = 1 THEN n ELSE q[1]
                                              ELSE q[i]
      <4>1. CASE i = len + 1
        BY <1>3, <4>1 DEF after
      <4>2. CASE i # len + 1
        <5>1. i + 1 \in 1 .. len + 1 /\ ~(i + 1 < p) /\ i + 1 # p /\ i + 1 - 1 = i
          BY <1>1, <3>5, <4>2
        <5> QED BY <4>2, <5>1 DEF inserted, after
      <4> QED BY <4>1, <4>2
    <3>7. r[before(i, len + 1)] = IF i - 1 = p THEN n ELSE q[i - 2]
      BY <1>1, <3>5 DEF inserted, before
    <3>8. nx2[r[i]] = r[after(i, len + 1)]
      BY <1>1, <3>1, <3>3, <3>5, <3>6 DEF after, before
    <3>9. pv2[r[i]] = r[before(i, len + 1)]
      BY <1>1, <3>1, <3>4, <3>5, <3>7 DEF before
    <3> QED BY <3>8, <3>9
  <2> QED BY <2>1, <2>2, <2>3
<1> QED BY <1>3, <1>4 DEF Holds

\* Appending is inserting past the last place.
LEMMA AppendInserts ==
  ASSUME NEW q \in Seq(Node), NEW n \in Node
  PROVE  Append(q, n) = inserted(q, Len(q) + 1, n)
<1> DEFINE a == Append(q, n)
           b == inserted(q, Len(q) + 1, n)
<1>1. a = [i \in 1 .. Len(a) |-> a[i]] /\ Len(a) = Len(q) + 1
  BY AppendProperties, LenProperties
<1>2. \A i \in 1 .. Len(q) + 1 : a[i] = b[i]
  BY AppendProperties DEF inserted
<1>3. b = [i \in 1 .. Len(q) + 1 |-> b[i]]
  BY DEF inserted
<1> QED BY <1>1, <1>2, <1>3

\* Unlinking the head of a ring of several leaves the others, in order.
LEMMA HoldsUnlinked ==
  ASSUME NEW q \in Seq(Node), q # <<>>, Distinct(q),
         NEW nx \in Ptr, NEW pv \in Ptr, Holds(q, q[1], nx, pv),
         nx[q[1]] # q[1]
  PROVE  LET h == q[1]
         IN Holds(Tail(q), nx[h], [nx EXCEPT ![pv[h]] = nx[h]],
                                  [pv EXCEPT ![nx[h]] = pv[h]])
<1> DEFINE len == Len(q)
           h == q[1]
           t == Tail(q)
           nx2 == [nx EXCEPT ![pv[h]] = nx[h]]
           pv2 == [pv EXCEPT ![nx[h]] = pv[h]]
<1>1. len \in Nat /\ len > 1 /\ nx[h] = q[2] /\ pv[h] = q[len]
  BY DEF Holds, after, before
<1>2. /\ Len(t) = len - 1 /\ t # <<>>
      /\ \A i \in 1 .. len - 1 : t[i] = q[i + 1] /\ t[i] \in Node
  <2>1. t \in Seq(Node) /\ Len(t) = len - 1 /\ \A i \in 1 .. Len(t) : t[i] = q[i + 1]
    BY HeadTailProperties
  <2> HIDE DEF t
  <2> QED BY <1>1, <2>1
<1>3. ASSUME NEW i \in 1 .. len - 1
      PROVE  nx2[t[i]] = t[after(i, len - 1)] /\ pv2[t[i]] = t[before(i, len - 1)]
  <2>1. /\ i + 1 \in 2 .. len /\ t[i] = q[i + 1] /\ q[i + 1] \in Node
        /\ nx[q[i + 1]] = q[after(i + 1, len)] /\ pv[q[i + 1]] = q[before(i + 1, len)]
    BY <1>1, <1>2 DEF Holds
  <2>2. nx2[t[i]] = IF i + 1 = len THEN q[2] ELSE q[i + 2]
    BY <1>1, <2>1 DEF Distinct, Ptr, after
  <2>3. pv2[t[i]] = IF i = 1 THEN q[len] ELSE q[i]
    BY <1>1, <2>1 DEF Distinct, Ptr, before
  <2> QED BY <1>1, <1>2, <2>2, <2>3 DEF after, before
<1>4. nx[h] = t[1]
  BY <1>1, <1>2
<1>5. Holds(t, nx[h], nx2, pv2)
  <2> HIDE DEF t, nx2, pv2
  <2> QED BY <1>2, <1>3, <1>4 DEF Holds
<1> QED BY <1>5

\* A ring whose head is its own next has no other node.
LEMMA HoldsOne ==
  ASSUME NEW q \in Seq(Node), q # <<>>, Distinct(q),
         NEW nx \in Ptr, NEW pv \in Ptr, Holds(q, q[1], nx, pv),
         nx[q[1]] = q[1]
  PROVE  Tail(q) = <<>>
BY DEF Holds, Distinct, after

\* The loop of __sem_close ends with the last node that is left.
LEMMA WalkEnd ==
  ASSUME NEW w \in Seq(Node), NEW first, NEW t, NEW nx \in Ptr,
         WalkAt(w, first, t, nx)
  PROVE  /\ nx[t] = first <=> Len(w) = 1
         /\ nx[t] = first => Tail(w) = <<>>
         /\ nx[t] # first => nx[t] = w[2] /\ Len(w) > 1
<1> DEFINE len == Len(w)
<1>1. w # <<>> /\ t = w[1]
  BY DEF WalkAt
<1>2. len \in Nat \ {0}
  BY <1>1, EmptySeq
<1>3. /\ \A i \in 1 .. len : nx[w[i]] = IF i = len THEN first ELSE w[i + 1]
      /\ \A i \in 2 .. len : w[i] # first
  BY DEF WalkAt
<1> HIDE DEF len
<1>4. nx[t] = IF 1 = len THEN first ELSE w[2]
  BY <1>1, <1>2, <1>3
<1>5. nx[t] = first <=> len = 1
  BY <1>2, <1>3, <1>4
<1>6. Tail(w) \in Seq(Node) /\ Len(Tail(w)) = Len(w) - 1 /\ w # <<>>
  BY HeadTailProperties DEF WalkAt
<1>7. Len(Tail(w)) = 0 => Tail(w) = <<>>
  BY <1>6, EmptySeq
<1> QED BY <1>2, <1>4, <1>5, <1>6, <1>7 DEF len

\* Until then the next node is the first of those left.
LEMMA WalkGoesOn ==
  ASSUME NEW w \in Seq(Node), NEW first, NEW t, NEW nx \in Ptr, NEW nx2 \in Ptr,
         WalkAt(w, first, t, nx), nx[t] # first,
         \A i \in 2 .. Len(w) : nx2[w[i]] = nx[w[i]]
  PROVE  WalkAt(Tail(w), first, nx[t], nx2)
<1> DEFINE z == Tail(w)
<1>1. nx[t] = w[2] /\ Len(w) > 1 /\ Len(w) \in Nat /\ w # <<>>
  BY WalkEnd DEF WalkAt
<1>2. /\ z \in Seq(Node) /\ Len(z) = Len(w) - 1
      /\ \A i \in 1 .. Len(z) : z[i] = w[i + 1]
  BY <1>1, HeadTailProperties
<1> HIDE DEF z
<1>3. z # <<>> /\ nx[t] = z[1]
  BY <1>1, <1>2
<1>4. ASSUME NEW i \in 1 .. Len(z)
      PROVE  /\ nx2[z[i]] = IF i = Len(z) THEN first ELSE z[i + 1]
             /\ z[i] # first
  <2>1. i + 1 \in 2 .. Len(w) /\ z[i] = w[i + 1] /\ (i # Len(z) => z[i + 1] = w[i + 2])
    BY <1>1, <1>2
  <2>2. nx[w[i + 1]] = IF i + 1 = Len(w) THEN first ELSE w[i + 2]
    BY <1>1, <2>1 DEF WalkAt
  <2> QED BY <1>1, <1>2, <2>1, <2>2 DEF WalkAt
<1>5. WalkAt(z, first, nx[t], nx2)
  BY <1>2, <1>3, <1>4 DEF WalkAt
<1> QED BY <1>5 DEF z

-----------------------------------------------------------------------------
(* The inductive invariant.                                                *)

IInv == TypeOK /\ OnePlace /\ RingsHoldQueues /\ WalkKeepsItsPlace

\* n is not in queue q.
Absent(n, q) == \A i \in 1 .. Len(q) : q[i] # n

\* What TypeOK and OnePlace say of one ring: its queue is a sequence of nodes
\* that are all different.
LEMMA RingFacts ==
  ASSUME TypeOK, OnePlace, NEW r \in Rings
  PROVE  /\ queue[r] \in Seq(Node) /\ DOMAIN queue[r] = 1 .. Len(queue[r])
         /\ Distinct(queue[r])
         /\ next \in Ptr /\ prev \in Ptr
BY LenProperties DEF TypeOK, OnePlace, Distinct, Ptr

\* Nothing is in front of the only node of a ring.
LEMMA InsertedAlone ==
  ASSUME NEW n \in Node
  PROVE  inserted(<<>>, 1, n) = <<n>>
BY DEF inserted

\* What linking a node at place p of ring r does to the pointers.
LEMMA LinkHolds ==
  ASSUME TypeOK, OnePlace, NEW r \in Rings, Holds(queue[r], head[r], next, prev),
         NEW n \in Node, Absent(n, queue[r]),
         NEW p \in 1 .. Len(queue[r]) + 1,
         \/ queue[r] = <<>> /\ alone(n)
         \/ queue[r] # <<>> /\ list_insert(at(r, p), n)
  PROVE  /\ next' \in Ptr /\ prev' \in Ptr
         /\ Holds(inserted(queue[r], p, n), IF p = 1 THEN n ELSE head[r], next', prev')
         /\ \A m \in Node \ {n} :
              Absent(m, queue[r]) => next'[m] = next[m] /\ prev'[m] = prev[m]
<1> DEFINE q == queue[r]
<1>1. q \in Seq(Node) /\ Distinct(q) /\ next \in Ptr /\ prev \in Ptr
  BY RingFacts
<1>2. CASE q = <<>> /\ alone(n)
  <2>1. p = 1 /\ inserted(q, p, n) = <<n>>
    BY <1>2, InsertedAlone
  <2>2. next' = [next EXCEPT ![n] = n] /\ prev' = [prev EXCEPT ![n] = n]
    BY <1>2 DEF alone
  <2>3. Holds(<<n>>, n, next', prev')
    BY <1>1, <2>2, HoldsAlone
  <2> QED BY <1>1, <2>1, <2>2, <2>3 DEF Ptr
<1>3. CASE q # <<>> /\ list_insert(at(r, p), n)
  <2> DEFINE h == q[IF p > Len(q) THEN 1 ELSE p]
  <2>1. /\ next' = [next EXCEPT ![n] = h, ![prev[h]] = n]
        /\ prev' = [prev EXCEPT ![n] = prev[h], ![h] = n]
    BY <1>3 DEF list_insert, at
  <2>2. head[r] = q[1]
    BY <1>3 DEF Holds
  <2>3. Holds(inserted(q, p, n), IF p = 1 THEN n ELSE q[1], next', prev')
    BY <1>1, <1>3, <2>1, <2>2, HoldsInserted DEF Absent
  <2>4. /\ \E i \in 1 .. Len(q) : h = q[i]
        /\ \E i \in 1 .. Len(q) : prev[h] = q[i]
        /\ h \in Node /\ prev[h] \in Node
    BY <1>1, <1>3 DEF Holds, before
  <2> HIDE DEF h
  <2>5. next' \in Ptr /\ prev' \in Ptr
    BY <1>1, <2>1, <2>4 DEF Ptr
  <2>6. ASSUME NEW m \in Node \ {n}, Absent(m, q)
        PROVE  next'[m] = next[m] /\ prev'[m] = prev[m]
    BY <1>1, <2>1, <2>4, <2>6 DEF Ptr, Absent
  <2> QED BY <2>2, <2>3, <2>5, <2>6
<1> QED BY <1>2, <1>3

\* A queue with a node more: where its elements come from.
LEMMA InsertedFacts ==
  ASSUME NEW q \in Seq(Node), NEW n \in Node, NEW p \in 1 .. Len(q) + 1
  PROVE  /\ inserted(q, p, n) \in Seq(Node)
         /\ Len(inserted(q, p, n)) = Len(q) + 1
         /\ DOMAIN inserted(q, p, n) = 1 .. Len(q) + 1
         /\ \A i \in 1 .. Len(q) + 1 :
              inserted(q, p, n)[i] =
                IF i < p THEN q[i] ELSE IF i = p THEN n ELSE q[i - 1]
<1>1. inserted(q, p, n) \in [1 .. Len(q) + 1 -> Node]
  BY DEF inserted
<1> QED BY <1>1 DEF inserted

\* The queues after an insertion, place by place.
LEMMA InsertedOnePlace ==
  ASSUME TypeOK, OnePlace, NEW r \in Rings, NEW n \in Node, Unlinked(n),
         NEW p \in 1 .. Len(queue[r]) + 1,
         queue' = [queue EXCEPT ![r] = inserted(@, p, n)]
  PROVE  OnePlace' /\ queue' \in [Rings -> Seq(Node)]
<1> DEFINE q == queue[r]
<1>1. queue \in [Rings -> Seq(Node)] /\ q \in Seq(Node) /\ Len(q) \in Nat
  BY DEF TypeOK
<1>2. queue'[r] = inserted(q, p, n) /\ \A s \in Rings \ {r} : queue'[s] = queue[s]
  BY <1>1
<1>3. queue' \in [Rings -> Seq(Node)]
  BY <1>1, InsertedFacts
<1>4. ASSUME NEW s \in Rings, NEW i \in DOMAIN queue'[s]
      PROVE  \/ s = r /\ i = p /\ queue'[s][i] = n
             \/ /\ s # r \/ i # p
                /\ LET k == IF s = r /\ i > p THEN i - 1 ELSE i
                   IN k \in DOMAIN queue[s] /\ queue'[s][i] = queue[s][k]
  <2>1. CASE s # r
    BY <1>2, <2>1
  <2>2. CASE s = r
    <3>1. queue'[s] = inserted(q, p, n) /\ i \in DOMAIN inserted(q, p, n)
      BY <1>2, <2>2
    <3>2. DOMAIN q = 1 .. Len(q)
      BY <1>1, LenProperties
    <3>3. /\ DOMAIN inserted(q, p, n) = 1 .. Len(q) + 1
          /\ \A k \in 1 .. Len(q) + 1 :
               inserted(q, p, n)[k] =
                 IF k < p THEN q[k] ELSE IF k = p THEN n ELSE q[k - 1]
      BY <1>1 DEF inserted
    <3>4. /\ i \in 1 .. Len(q) + 1
          /\ queue'[s][i] = IF i < p THEN q[i] ELSE IF i = p THEN n ELSE q[i - 1]
      BY <3>1, <3>3
    <3> QED BY <1>1, <2>2, <3>2, <3>4
  <2> QED BY <2>1, <2>2
<1>5. OnePlace'
  <2> SUFFICES ASSUME NEW s \in Rings, NEW u \in Rings,
                      NEW i \in DOMAIN queue'[s], NEW j \in DOMAIN queue'[u],
                      queue'[s][i] = queue'[u][j]
               PROVE  s = u /\ i = j
    BY DEF OnePlace
  <2>1. i \in Int /\ j \in Int /\ p \in Int
    BY <1>1, <1>3, LenProperties
  <2> DEFINE k == IF s = r /\ i > p THEN i - 1 ELSE i
             l == IF u = r /\ j > p THEN j - 1 ELSE j
  <2>2. \/ s = r /\ i = p /\ queue'[s][i] = n
        \/ (s # r \/ i # p) /\ k \in DOMAIN queue[s] /\ queue'[s][i] = queue[s][k]
    BY <1>4
  <2>3. \/ u = r /\ j = p /\ queue'[u][j] = n
        \/ (u # r \/ j # p) /\ l \in DOMAIN queue[u] /\ queue'[u][j] = queue[u][l]
    BY <1>4
  <2>4. CASE k \in DOMAIN queue[s] /\ queue'[s][i] = queue[s][k]
             /\ l \in DOMAIN queue[u] /\ queue'[u][j] = queue[u][l]
             /\ (s # r \/ i # p) /\ (u # r \/ j # p)
    <3>1. s = u /\ k = l
      BY <2>4 DEF OnePlace
    <3> QED BY <2>1, <2>4, <3>1
  <2> QED BY <2>2, <2>3, <2>4 DEF Unlinked
<1> QED BY <1>3, <1>5

-----------------------------------------------------------------------------
(* The operations.                                                         *)

\* Linking an unlinked node at place p of ring r.
LEMMA LinkStep ==
  ASSUME IInv, Idle, walk' = walk, NEW r \in Rings, NEW n \in Node, Unlinked(n),
         NEW p \in 1 .. Len(queue[r]) + 1,
         \/ queue[r] = <<>> /\ alone(n)
         \/ queue[r] # <<>> /\ list_insert(at(r, p), n),
         head' = [head EXCEPT ![r] = IF p = 1 THEN n ELSE head[r]],
         queue' = [queue EXCEPT ![r] = inserted(@, p, n)]
  PROVE  IInv'
<1>1. /\ TypeOK /\ OnePlace /\ \A s \in Rings : Holds(queue[s], head[s], next, prev)
      /\ Idle' /\ walk = NoWalk
  BY RingAssumption DEF IInv, RingsHoldQueues, Idle, NoWalk, Rings
<1>2. Absent(n, queue[r])
  BY <1>1, RingFacts DEF Unlinked, Absent
<1>3. /\ next' \in Ptr /\ prev' \in Ptr
      /\ Holds(inserted(queue[r], p, n), IF p = 1 THEN n ELSE head[r], next', prev')
      /\ \A m \in Node \ {n} :
           Absent(m, queue[r]) => next'[m] = next[m] /\ prev'[m] = prev[m]
  BY <1>1, <1>2, LinkHolds
<1>4. OnePlace' /\ queue' \in [Rings -> Seq(Node)]
  BY <1>1, InsertedOnePlace
<1>5. TypeOK'
  BY <1>1, <1>3, <1>4 DEF TypeOK, Ptr
<1>6. ASSUME NEW s \in Rings
      PROVE  Holds(queue'[s], head'[s], next', prev')
  <2>1. CASE s = r
    BY <1>1, <1>3, <2>1 DEF TypeOK
  <2>2. CASE s # r
    <3>1. queue'[s] = queue[s] /\ head'[s] = head[s]
      BY <1>1, <2>2 DEF TypeOK
    <3>2. /\ queue[s] \in Seq(Node) /\ DOMAIN queue[s] = 1 .. Len(queue[s])
          /\ DOMAIN queue[r] = 1 .. Len(queue[r]) /\ next \in Ptr /\ prev \in Ptr
      BY <1>1, RingFacts
    <3>3. \A i \in 1 .. Len(queue[s]) :
            queue[s][i] \in Node \ {n} /\ Absent(queue[s][i], queue[r])
      BY <1>1, <2>2, <3>2 DEF OnePlace, Unlinked, Absent
    <3>4. \A i \in 1 .. Len(queue[s]) : /\ next'[queue[s][i]] = next[queue[s][i]]
                                       /\ prev'[queue[s][i]] = prev[queue[s][i]]
      BY <1>3, <3>3
    <3> QED BY <1>1, <1>3, <3>1, <3>2, <3>4, HoldsElsewhere
  <2> QED BY <2>1, <2>2
<1> QED BY <1>1, <1>4, <1>5, <1>6 DEF IInv, RingsHoldQueues, WalkKeepsItsPlace

\* Pushing a node keeps the invariant.
LEMMA PushStep ==
  ASSUME IInv, NEW r \in Rings, NEW n \in Node, Push(r, n)
  PROVE  IInv'
<1> DEFINE q == queue[r]
<1>1. q \in Seq(Node) /\ Len(q) \in Nat /\ Holds(q, head[r], next, prev) /\ TypeOK
  BY RingAssumption DEF IInv, TypeOK, RingsHoldQueues, Push, Idle, NoWalk, Rings
<1>2. /\ head[r] = NULL <=> q = <<>>
      /\ q # <<>> => head[r] = q[1]
  BY <1>1, RingAssumption DEF Holds
<1>3. /\ Append(q, n) = inserted(q, Len(q) + 1, n)
      /\ Len(q) + 1 \in 1 .. Len(q) + 1
      /\ pushed_head(r, n) = IF Len(q) + 1 = 1 THEN n ELSE head[r]
      /\ q # <<>> => at(r, Len(q) + 1) = head[r]
  BY <1>1, <1>2, AppendInserts DEF pushed_head, at
<1>4. \/ q = <<>> /\ alone(n)
      \/ q # <<>> /\ list_insert(at(r, Len(q) + 1), n)
  BY <1>2, <1>3 DEF Push, link
<1>5. queue' = [queue EXCEPT ![r] = inserted(@, Len(q) + 1, n)]
  BY <1>1, <1>3 DEF Push, TypeOK
<1> QED BY <1>3, <1>4, <1>5, LinkStep DEF Push

\* So does putting a timeout in front of the others.
LEMMA TimeoutFirstStep ==
  ASSUME IInv, TimeoutFirst
  PROVE  IInv'
<1> DEFINE r == "timeouts"
           q == queue[r]
<1>1. r \in Rings /\ q \in Seq(Node) /\ Len(q) \in Nat
      /\ Holds(q, head[r], next, prev) /\ TypeOK
  BY RingAssumption DEF IInv, TypeOK, RingsHoldQueues, TimeoutFirst, Idle, NoWalk, Rings
<1>2. PICK n \in Node : /\ Unlinked(n) /\ link(r, n)
                        /\ head' = [head EXCEPT ![r] = n]
                        /\ queue' = [queue EXCEPT ![r] = inserted(@, 1, n)]
  BY DEF TimeoutFirst
<1>3. /\ head[r] = NULL <=> q = <<>>
      /\ q # <<>> => head[r] = q[1]
  BY <1>1, RingAssumption DEF Holds
<1>4. 1 \in 1 .. Len(q) + 1 /\ (q # <<>> => at(r, 1) = head[r])
  BY <1>1, <1>3 DEF at
<1>5. \/ q = <<>> /\ alone(n)
      \/ q # <<>> /\ list_insert(at(r, 1), n)
  BY <1>2, <1>3, <1>4 DEF link
<1>6. head' = [head EXCEPT ![r] = IF 1 = 1 THEN n ELSE head[r]]
  BY <1>2
<1>7. Idle /\ walk' = walk
  BY DEF TimeoutFirst
<1> QED BY <1>1, <1>2, <1>4, <1>5, <1>6, <1>7, LinkStep

\* So does putting it at any later place.
LEMMA TimeoutLaterStep ==
  ASSUME IInv, TimeoutLater
  PROVE  IInv'
<1> DEFINE r == "timeouts"
           q == queue[r]
<1>1. r \in Rings /\ q \in Seq(Node) /\ Len(q) \in Nat /\ TypeOK
  BY DEF IInv, TypeOK, Rings
<1>2. PICK n \in Node, p \in 2 .. Len(q) + 1 :
        /\ Unlinked(n) /\ list_insert(at(r, p), n)
        /\ queue' = [queue EXCEPT ![r] = inserted(@, p, n)]
  BY DEF TimeoutLater
<1>3. q # <<>> /\ p \in 1 .. Len(q) + 1 /\ p # 1
  BY <1>1
<1>4. head' = [head EXCEPT ![r] = IF p = 1 THEN n ELSE head[r]]
  BY <1>1, <1>3 DEF TypeOK, TimeoutLater
<1>5. Idle /\ walk' = walk
  BY DEF TimeoutLater
<1> QED BY <1>1, <1>2, <1>3, <1>4, <1>5, LinkStep

\* Unlinking the head of a ring.
LEMMA PopStep ==
  ASSUME IInv, NEW r \in Rings, Pop(r)
  PROVE  IInv'
<1> DEFINE q == queue[r]
           h == q[1]
<1>1. /\ TypeOK /\ OnePlace /\ \A s \in Rings : Holds(queue[s], head[s], next, prev)
      /\ Idle' /\ walk = NoWalk
  BY RingAssumption DEF IInv, RingsHoldQueues, Idle, NoWalk, Rings, Pop
<1>2. /\ q \in Seq(Node) /\ Distinct(q) /\ next \in Ptr /\ prev \in Ptr
      /\ queue \in [Rings -> Seq(Node)] /\ head \in [Rings -> Node \cup {NULL}]
  BY <1>1, RingFacts DEF TypeOK
<1>3. q # <<>> /\ head[r] = h /\ Holds(q, h, next, prev)
  BY <1>1 DEF Holds, Pop
<1>4. /\ queue' = [queue EXCEPT ![r] = Tail(q)]
      /\ Tail(q) \in Seq(Node) /\ Len(Tail(q)) = Len(q) - 1 /\ Len(q) \in Nat
      /\ \A i \in 1 .. Len(Tail(q)) : Tail(q)[i] = q[i + 1]
  BY <1>2, <1>3, HeadTailProperties DEF Pop
<1> DEFINE t == Tail(q)
<1> HIDE DEF t
<1>5. OnePlace'
  <2> SUFFICES ASSUME NEW s \in Rings, NEW u \in Rings,
                      NEW i \in DOMAIN queue'[s], NEW j \in DOMAIN queue'[u],
                      queue'[s][i] = queue'[u][j]
               PROVE  s = u /\ i = j
    BY DEF OnePlace
  <2> DEFINE back(v, k) == IF v = r THEN k + 1 ELSE k
  <2>1. ASSUME NEW v \in Rings, NEW k \in DOMAIN queue'[v]
        PROVE  /\ back(v, k) \in DOMAIN queue[v]
               /\ queue'[v][k] = queue[v][back(v, k)] /\ k \in Int
    <3>1. CASE v = r
      <4>1. queue'[v] = t /\ DOMAIN t = 1 .. Len(t) /\ DOMAIN q = 1 .. Len(q)
        BY <1>2, <1>4, <3>1, LenProperties DEF t
      <4>2. k \in 1 .. Len(t) /\ t[k] = q[k + 1] /\ Len(t) = Len(q) - 1
        BY <1>4, <4>1 DEF t
      <4>3. k + 1 \in 1 .. Len(q)
        BY <1>4, <4>2
      <4> QED BY <3>1, <4>1, <4>2, <4>3
    <3>2. CASE v # r
      <4>1. queue'[v] = queue[v] /\ DOMAIN queue[v] = 1 .. Len(queue[v])
        BY <1>2, <1>4, <3>2, LenProperties
      <4> QED BY <1>2, <3>2, <4>1
    <3> QED BY <3>1, <3>2
  <2>2. s = u /\ back(s, i) = back(u, j)
    BY <1>1, <2>1 DEF OnePlace
  <2> QED BY <2>1, <2>2
<1>6. /\ next' \in Ptr /\ prev' \in Ptr
      /\ head' = [head EXCEPT ![r] = head'[r]] /\ head'[r] \in Node \cup {NULL}
      /\ Holds(t, head'[r], next', prev')
      /\ \A m \in Node : Absent(m, q) => next'[m] = next[m] /\ prev'[m] = prev[m]
  <2>1. CASE next[h] = h
    <3>1. head' = [head EXCEPT ![r] = NULL] /\ next' = next /\ prev' = prev
      BY <1>3, <2>1 DEF Pop, unlink_head
    <3>2. t = <<>>
      BY <1>2, <1>3, <2>1, HoldsOne DEF t
    <3>3. Holds(t, NULL, next', prev')
      BY <3>2 DEF Holds
    <3> QED BY <1>2, <3>1, <3>3
  <2>2. CASE next[h] # h
    <3>1. /\ next' = [next EXCEPT ![prev[h]] = next[h]]
          /\ prev' = [prev EXCEPT ![next[h]] = prev[h]]
          /\ head' = [head EXCEPT ![r] = next[h]]
      BY <1>3, <2>2 DEF Pop, unlink_head
    <3>2. Holds(t, next[h], next', prev')
      BY <1>2, <1>3, <2>2, <3>1, HoldsUnlinked DEF t
    <3>3. /\ \E i \in 1 .. Len(q) : next[h] = q[i]
          /\ \E i \in 1 .. Len(q) : prev[h] = q[i]
          /\ next[h] \in Node /\ prev[h] \in Node
      BY <1>2, <1>3 DEF Holds, after, before
    <3>4. next' \in Ptr /\ prev' \in Ptr
      BY <1>2, <3>1, <3>3 DEF Ptr
    <3>5. \A m \in Node : Absent(m, q) => next'[m] = next[m] /\ prev'[m] = prev[m]
      BY <1>2, <3>1, <3>3 DEF Ptr, Absent
    <3> QED BY <1>2, <3>1, <3>2, <3>3, <3>4, <3>5
  <2> QED BY <2>1, <2>2
<1>7. TypeOK'
  BY <1>1, <1>2, <1>4, <1>6 DEF TypeOK, Ptr, t, Pop
<1>8. ASSUME NEW s \in Rings
      PROVE  Holds(queue'[s], head'[s], next', prev')
  <2>1. CASE s = r
    BY <1>2, <1>4, <1>6, <2>1 DEF t
  <2>2. CASE s # r
    <3>1. queue'[s] = queue[s] /\ head'[s] = head[s]
      BY <1>2, <1>4, <1>6, <2>2
    <3>2. /\ queue[s] \in Seq(Node) /\ DOMAIN queue[s] = 1 .. Len(queue[s])
          /\ DOMAIN q = 1 .. Len(q)
      BY <1>1, RingFacts
    <3>3. \A i \in 1 .. Len(queue[s]) :
            queue[s][i] \in Node /\ Absent(queue[s][i], q)
      BY <1>1, <2>2, <3>2 DEF OnePlace, Absent
    <3>4. \A i \in 1 .. Len(queue[s]) : /\ next'[queue[s][i]] = next[queue[s][i]]
                                       /\ prev'[queue[s][i]] = prev[queue[s][i]]
      BY <1>6, <3>3
    <3> QED BY <1>1, <1>2, <1>6, <3>1, <3>2, <3>4, HoldsElsewhere
  <2> QED BY <2>1, <2>2
<1> QED BY <1>1, <1>5, <1>7, <1>8 DEF IInv, RingsHoldQueues, WalkKeepsItsPlace

\* The loop of __sem_close starts on a ring.
LEMMA SemCloseBeginStep ==
  ASSUME IInv, SemCloseBegin
  PROVE  IInv'
<1>1. PICK s \in Sem :
        head[s] # NULL /\ walk' = [ring |-> s, first |-> head[s], current |-> head[s]]
  BY DEF SemCloseBegin
<1> DEFINE q == queue[s]
<1>2. s \in Rings /\ UNCHANGED <<next, prev, head, queue>> /\ TypeOK /\ OnePlace
  BY DEF Rings, SemCloseBegin, IInv
<1>3. \A r \in Rings : Holds(queue[r], head[r], next, prev)
  BY RingAssumption DEF IInv, RingsHoldQueues, Idle, NoWalk, Rings, SemCloseBegin
<1>4. q \in Seq(Node) /\ Distinct(q) /\ q # <<>> /\ head[s] = q[1] /\ head[s] \in Node
  BY <1>1, <1>2, <1>3, RingFacts DEF Holds, TypeOK
<1>5. WalkAt(q, head[s], head[s], next)
  BY <1>2, <1>3, <1>4 DEF Holds, WalkAt, Distinct, after
<1>6. TypeOK'
  BY <1>1, <1>2, <1>4 DEF TypeOK
<1> QED BY <1>1, <1>2, <1>3, <1>5, <1>6
        DEF IInv, OnePlace, RingsHoldQueues, WalkKeepsItsPlace

\* A round of the loop: the ring of the ready queue has a node more, the
\* other rings are not touched, and what is left of the ring stays in order.
LEMMA SemCloseStepStep ==
  ASSUME IInv, SemCloseStep
  PROVE  IInv'
<1> DEFINE s == walk.ring
           t == walk.current
           w == queue[s]
           q == queue["ready"]
           over == next[t] = walk.first
<1>1. /\ TypeOK /\ OnePlace /\ walk \in [ring : Sem, first : Node, current : Node]
      /\ WalkAt(w, walk.first, t, next)
      /\ \A r \in Rings \ {s} : Holds(queue[r], head[r], next, prev)
  BY DEF IInv, TypeOK, SemCloseStep, Idle, WalkKeepsItsPlace, RingsHoldQueues
<1>2. s \in Rings /\ "ready" \in Rings /\ s # "ready" /\ t \in Node /\ s # NULL
  BY <1>1, RingAssumption DEF Rings
<1>3. /\ w \in Seq(Node) /\ DOMAIN w = 1 .. Len(w) /\ Distinct(w)
      /\ q \in Seq(Node) /\ DOMAIN q = 1 .. Len(q) /\ Distinct(q)
      /\ next \in Ptr /\ prev \in Ptr
      /\ queue \in [Rings -> Seq(Node)] /\ head \in [Rings -> Node \cup {NULL}]
  BY <1>1, <1>2, RingFacts DEF TypeOK
<1>4. w # <<>> /\ t = w[1] /\ Len(w) \in Nat \ {0}
  BY <1>1, <1>3 DEF WalkAt
<1>5. Absent(t, q)
  BY <1>1, <1>2, <1>3, <1>4 DEF OnePlace, Absent
<1>6. Holds(q, head["ready"], next, prev)
  BY <1>1, <1>2
<1>7. /\ head["ready"] = NULL <=> q = <<>>
      /\ q # <<>> => head["ready"] = q[1]
  BY <1>3, <1>6, RingAssumption DEF Holds
<1>8. /\ Append(q, t) = inserted(q, Len(q) + 1, t)
      /\ Len(q) \in Nat /\ Len(q) + 1 \in 1 .. Len(q) + 1
      /\ pushed_head("ready", t) = IF Len(q) + 1 = 1 THEN t ELSE head["ready"]
      /\ q # <<>> => at("ready", Len(q) + 1) = head["ready"]
  BY <1>2, <1>3, <1>7, AppendInserts DEF pushed_head, at
<1>9. /\ next' \in Ptr /\ prev' \in Ptr
      /\ Holds(Append(q, t), pushed_head("ready", t), next', prev')
      /\ \A m \in Node \ {t} :
           Absent(m, q) => next'[m] = next[m] /\ prev'[m] = prev[m]
  <2>1. \/ q = <<>> /\ alone(t)
        \/ q # <<>> /\ list_insert(at("ready", Len(q) + 1), t)
    BY <1>7, <1>8 DEF SemCloseStep, link
  <2> QED BY <1>1, <1>2, <1>5, <1>6, <1>8, <2>1, LinkHolds
<1>10. /\ Tail(w) \in Seq(Node) /\ Len(Tail(w)) = Len(w) - 1
       /\ DOMAIN Tail(w) = 1 .. Len(w) - 1
       /\ \A i \in 1 .. Len(w) - 1 : Tail(w)[i] = w[i + 1]
  BY <1>3, <1>4, HeadTailProperties, LenProperties
<1>11. /\ queue' = [queue EXCEPT !["ready"] = Append(q, t), ![s] = Tail(w)]
       /\ head' = [head EXCEPT !["ready"] = pushed_head("ready", t),
                               ![s] = IF over THEN NULL ELSE head[s]]
       /\ walk' = IF over THEN NoWalk ELSE [walk EXCEPT !.current = next[t]]
  BY <1>2, <1>3 DEF SemCloseStep, closed_head
<1>12. /\ queue'["ready"] = Append(q, t) /\ head'["ready"] = pushed_head("ready", t)
       /\ queue'[s] = Tail(w) /\ head'[s] = IF over THEN NULL ELSE head[s]
       /\ \A r \in Rings \ {s, "ready"} : queue'[r] = queue[r] /\ head'[r] = head[r]
  BY <1>2, <1>3, <1>11
<1>13. over <=> Len(w) = 1
  BY <1>1, <1>3, WalkEnd
<1>14. queue' \in [Rings -> Seq(Node)] /\ head' \in [Rings -> Node \cup {NULL}]
  <2>1. Append(q, t) \in Seq(Node) /\ pushed_head("ready", t) \in Node \cup {NULL}
    BY <1>2, <1>3 DEF pushed_head
  <2> QED BY <1>2, <1>3, <1>10, <1>11, <2>1
<1>15. ~over => next[t] = w[2] /\ Len(w) > 1 /\ next[t] \in Node
  BY <1>1, <1>3, <1>4, <1>13 DEF WalkAt
<1>16. TypeOK'
  BY <1>1, <1>9, <1>11, <1>14, <1>15 DEF TypeOK, Ptr
<1>17. \A m \in Node \ {t} :
         (\A i \in 1 .. Len(q) : q[i] # m) => next'[m] = next[m] /\ prev'[m] = prev[m]
  BY <1>9 DEF Absent
<1>18. OnePlace'
  <2> SUFFICES ASSUME NEW u \in Rings, NEW v \in Rings,
                      NEW i \in DOMAIN queue'[u], NEW j \in DOMAIN queue'[v],
                      queue'[u][i] = queue'[v][j]
               PROVE  u = v /\ i = j
    BY DEF OnePlace
  <2> DEFINE Moved(r, k) == r = "ready" /\ k = Len(q) + 1
             ring(r, k) == IF Moved(r, k) THEN s ELSE r
             place(r, k) == IF Moved(r, k) THEN 1 ELSE IF r = s THEN k + 1 ELSE k
  <2>1. ASSUME NEW r \in Rings, NEW k \in DOMAIN queue'[r]
        PROVE  /\ k \in Int /\ k > 0 /\ ring(r, k) \in Rings
               /\ place(r, k) \in DOMAIN queue[ring(r, k)]
               /\ queue'[r][k] = queue[ring(r, k)][place(r, k)]
    <3>1. CASE r = "ready"
      <4>1. /\ DOMAIN queue'[r] = 1 .. Len(q) + 1
            /\ k \in 1 .. Len(q) => queue'[r][k] = q[k]
            /\ k = Len(q) + 1 => queue'[r][k] = t
        BY <1>2, <1>3, <1>12, <3>1, AppendProperties, LenProperties
      <4> QED BY <1>2, <1>3, <1>4, <1>8, <3>1, <4>1
    <3>2. CASE r = s
      <4>1. k \in 1 .. Len(w) - 1 /\ queue'[r][k] = w[k + 1]
        BY <1>10, <1>12, <3>2
      <4>2. k + 1 \in 1 .. Len(w)
        BY <1>4, <4>1
      <4> QED BY <1>2, <1>3, <3>2, <4>1, <4>2
    <3>3. CASE r # "ready" /\ r # s
      <4>1. queue'[r] = queue[r] /\ DOMAIN queue[r] = 1 .. Len(queue[r])
        BY <1>3, <1>12, <3>3, LenProperties
      <4> QED BY <1>3, <3>3, <4>1
    <3> QED BY <3>1, <3>2, <3>3
  <2>2. ring(u, i) = ring(v, j) /\ place(u, i) = place(v, j)
    BY <1>1, <2>1 DEF OnePlace
  <2> QED BY <1>2, <1>8, <2>1, <2>2
<1>19. ASSUME NEW r \in Rings \ {s, "ready"}
       PROVE  Holds(queue'[r], head'[r], next', prev')
  <2>1. queue[r] \in Seq(Node) /\ DOMAIN queue[r] = 1 .. Len(queue[r])
    BY <1>1, RingFacts
  <2>2. \A i \in 1 .. Len(queue[r]) : queue[r][i] \in Node \ {t} /\ Absent(queue[r][i], q)
    BY <1>1, <1>2, <1>3, <1>4, <2>1 DEF OnePlace, Absent
  <2>3. \A i \in 1 .. Len(queue[r]) : /\ next'[queue[r][i]] = next[queue[r][i]]
                                     /\ prev'[queue[r][i]] = prev[queue[r][i]]
    BY <1>9, <2>2
  <2> QED BY <1>1, <1>3, <1>9, <1>12, <2>1, <2>3, HoldsElsewhere
<1>20. over => Holds(queue'[s], head'[s], next', prev')
  <2>1. over => Tail(w) = <<>>
    BY <1>1, <1>3, WalkEnd
  <2>2. Holds(<<>>, NULL, next', prev')
    BY DEF Holds
  <2> QED BY <1>12, <2>1, <2>2
<1>21. ~over => WalkAt(queue'[s], walk.first, next[t], next')
  <2> SUFFICES ASSUME ~over PROVE WalkAt(queue'[s], walk.first, next[t], next')
    OBVIOUS
  <2>1. \A i \in 2 .. Len(w) : w[i] \in Node \ {t} /\ Absent(w[i], q)
    BY <1>1, <1>2, <1>3, <1>4 DEF OnePlace, Absent, Distinct
  <2>2. \A i \in 2 .. Len(w) : next'[w[i]] = next[w[i]]
    BY <1>9, <2>1
  <2>3. WalkAt(Tail(w), walk.first, next[t], next')
    BY <1>1, <1>3, <1>9, <2>2, WalkGoesOn
  <2> QED BY <1>12, <2>3
<1>22. RingsHoldQueues'
  <2>1. Holds(queue'["ready"], head'["ready"], next', prev')
    BY <1>9, <1>12
  <2>2. CASE over
    BY <1>19, <1>20, <2>1, <2>2 DEF RingsHoldQueues
  <2>3. CASE ~over
    <3>1. walk'.ring = s
      BY <1>1, <1>11, <2>3
    <3> QED BY <1>19, <2>1, <3>1 DEF RingsHoldQueues
  <2> QED BY <2>2, <2>3
<1>23. WalkKeepsItsPlace'
  <2>1. CASE over
    BY <1>11, <2>1 DEF WalkKeepsItsPlace, Idle
  <2>2. CASE ~over
    <3>1. walk'.ring = s /\ walk'.first = walk.first /\ walk'.current = next[t]
      BY <1>1, <1>11, <2>2
    <3> QED BY <1>21, <2>2, <3>1 DEF WalkKeepsItsPlace
  <2> QED BY <2>1, <2>2
<1> QED BY <1>16, <1>18, <1>22, <1>23 DEF IInv

-----------------------------------------------------------------------------
\* Whatever is pushed, popped, inserted and closed in whatever order, on any
\* number of nodes and semaphores, every ring is the circle of its queue, and
\* the loop of __sem_close keeps its place: a sequence may stand for a ring.
THEOREM RingsTheorem == Spec => [](RingsHoldQueues /\ WalkKeepsItsPlace)
<1>1. Init => IInv
  <2> SUFFICES ASSUME Init PROVE IInv
    OBVIOUS
  <2>1. queue \in [Rings -> Seq(Node)] /\ \A r \in Rings : queue[r] = <<>>
    BY DEF Init
  <2>2. TypeOK
    BY <2>1 DEF Init, TypeOK
  <2>3. \A r \in Rings : Holds(queue[r], head[r], next, prev)
    BY <2>1 DEF Init, Holds
  <2> QED BY <2>1, <2>2, <2>3
          DEF Init, IInv, OnePlace, RingsHoldQueues, WalkKeepsItsPlace, Idle
<1>2. IInv /\ [Next]_vars => IInv'
  <2> SUFFICES ASSUME IInv, [Next]_vars PROVE IInv'
    OBVIOUS
  <2>1. ASSUME NEW r \in Rings, NEW n \in Node, Push(r, n) PROVE IInv'
    BY <2>1, PushStep
  <2>2. CASE SchedulerPush \/ SemPush \/ WaitingPush
    BY <2>1, <2>2 DEF SchedulerPush, SemPush, WaitingPush, Rings
  <2>3. CASE SchedulerNext \/ SemNext \/ WaitingPop \/ TickPop
    BY <2>3, PopStep DEF SchedulerNext, SemNext, WaitingPop, TickPop, Rings
  <2>4. CASE TimeoutFirst
    BY <2>4, TimeoutFirstStep
  <2>5. CASE TimeoutLater
    BY <2>5, TimeoutLaterStep
  <2>6. CASE SemCloseBegin
    BY <2>6, SemCloseBeginStep
  <2>7. CASE SemCloseStep
    BY <2>7, SemCloseStepStep
  <2>8. CASE UNCHANGED vars
    BY <2>8 DEF vars, IInv, TypeOK, OnePlace, RingsHoldQueues, Holds,
                WalkKeepsItsPlace, WalkAt, Idle
  <2> QED BY <2>2, <2>3, <2>4, <2>5, <2>6, <2>7, <2>8 DEF Next
<1>3. IInv => RingsHoldQueues /\ WalkKeepsItsPlace
  BY DEF IInv
<1> QED BY <1>1, <1>2, <1>3, PTL DEF Spec

\* The loop of __sem_close, which links each node of a ring into ready_threads
\* as it goes, keeps its place however many threads wait: next still leads from
\* the node it stands on through the threads not yet woken to the first.
THEOREM WalkKeepsItsPlaceTheorem == Spec => []WalkKeepsItsPlace
BY RingsTheorem, PTL
=============================================================================
