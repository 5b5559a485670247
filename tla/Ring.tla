-------------------------------- MODULE Ring --------------------------------
(***************************************************************************)
(* list.c and the code that links and unlinks list_nodes: the rings of     *)
(* thread structs (ready_threads, waiting_threads of each semaphore,       *)
(* threads_waiting_for_input) and the ring of timeouts, pointer by         *)
(* pointer.  queue is a history variable: what each operation means for a  *)
(* sequence, which is how Kernel has it.                                   *)
(*                                                                         *)
(* __scheduler_remove_timeout and __sem_remove_thread are left out: both   *)
(* leave a head pointer on the node they unlink (see Scheduler).           *)
(***************************************************************************)
EXTENDS Integers, Sequences

CONSTANTS
  Node,      \* list_nodes, of thread structs and of timeouts
  Sem,       \* semaphores: each has a ring
  NULL

ASSUME RingAssumption ==
  /\ NULL \notin Node \cup Sem \cup {"ready", "input", "timeouts"}
  /\ Sem \cap {"ready", "input", "timeouts"} = {}

VARIABLES
  next,   \* per node: next
  prev,   \* per node: prev
  head,   \* per ring: the head pointer
  walk,   \* the loop of __sem_close: the ring, first_thread, current_thread
  queue   \* history: per ring, its nodes in order

vars == <<next, prev, head, walk, queue>>

Rings == Sem \cup {"ready", "input", "timeouts"}
NoWalk == [ring |-> NULL, first |-> NULL, current |-> NULL]
Idle == walk = NoWalk

\* n is in no ring.
Unlinked(n) == \A r \in Rings : \A i \in DOMAIN queue[r] : queue[r][i] # n

\* The node at place i of a ring of len nodes is followed and preceded by:
after(i, len) == IF i = len THEN 1 ELSE i + 1
before(i, len) == IF i = 1 THEN len ELSE i - 1

\* q with n at place p.
inserted(q, p, n) ==
  [i \in 1 .. Len(q) + 1 |->
     IF i < p THEN q[i] ELSE IF i = p THEN n ELSE q[i - 1]]

\* The node list_insert links n in front of, when n is to come to place p of
\* ring r: past the last one it is the head again.
at(r, p) == queue[r][IF p > Len(queue[r]) THEN 1 ELSE p]

-----------------------------------------------------------------------------
\* A new semaphore or list has no head; a list_node is not initialised.
Init ==
  /\ next \in [Node -> {NULL}]
  /\ prev \in [Node -> {NULL}]
  /\ head = [r \in Rings |-> NULL]
  /\ walk = NoWalk
  /\ queue = [r \in Rings |-> <<>>]

\* n becomes a ring of one.
alone(n) ==
  /\ next' = [next EXCEPT ![n] = n]
  /\ prev' = [prev EXCEPT ![n] = n]

\* Mutant: the node before keeps its next.
list_insert_next_kept(h, n) ==
  /\ next' = [next EXCEPT ![n] = h]
  /\ prev' = [prev EXCEPT ![n] = prev[h], ![h] = n]

\* list_insert(h, n): n goes in front of h.
list_insert(h, n) ==
  /\ next' = [next EXCEPT ![n] = h, ![prev[h]] = n]
  /\ prev' = [prev EXCEPT ![n] = prev[h], ![h] = n]

\* n is linked in front of the head of ring r, if it has one.
link(r, n) ==
  \/ head[r] = NULL /\ alone(n)
  \/ head[r] # NULL /\ list_insert(head[r], n)

\* The head of ring r once n has been pushed.
pushed_head(r, n) == IF head[r] = NULL THEN n ELSE head[r]

\* __scheduler_push, __sem_push and __waiting_push: last in the ring.
Push(r, n) ==
  /\ Idle
  /\ Unlinked(n)
  /\ link(r, n)
  /\ head' = [head EXCEPT ![r] = pushed_head(r, n)]
  /\ queue' = [queue EXCEPT ![r] = Append(@, n)]
  /\ UNCHANGED walk

SchedulerPush == \E n \in Node : Push("ready", n)
SemPush == \E s \in Sem, n \in Node : Push(s, n)
WaitingPush == \E n \in Node : Push("input", n)

-----------------------------------------------------------------------------
\* The head is unlinked from a ring of several nodes, or of one.  Its own
\* pointers are left as they are.
unlink_head(r) ==
  LET h == head[r]
  IN \/ /\ next[h] = h
        /\ head' = [head EXCEPT ![r] = NULL]
        /\ UNCHANGED <<next, prev>>
     \/ /\ next[h] # h
        /\ next' = [next EXCEPT ![prev[h]] = next[h]]
        /\ prev' = [prev EXCEPT ![next[h]] = prev[h]]
        /\ head' = [head EXCEPT ![r] = next[h]]

Pop(r) ==
  /\ Idle
  /\ head[r] # NULL
  /\ unlink_head(r)
  /\ queue' = [queue EXCEPT ![r] = Tail(@)]
  /\ UNCHANGED walk

SchedulerNext == Pop("ready")
SemNext == \E s \in Sem : Pop(s)
WaitingPop == Pop("input")
TickPop == Pop("timeouts")

-----------------------------------------------------------------------------
(* __scheduler_timeout: where the new timeout goes is Scheduler's business, *)
(* here it is any place.                                                   *)

\* The new timeout is the first one; the others move back.
TimeoutFirst ==
  /\ Idle
  /\ \E n \in Node :
       /\ Unlinked(n)
       /\ link("timeouts", n)
       /\ head' = [head EXCEPT !["timeouts"] = n]
       /\ queue' = [queue EXCEPT !["timeouts"] = inserted(@, 1, n)]
  /\ UNCHANGED walk

\* The walk of the ring has stopped at place p, or is back at the head.
TimeoutLater ==
  /\ Idle
  /\ \E n \in Node, p \in 2 .. Len(queue["timeouts"]) + 1 :
       /\ Unlinked(n)
       /\ list_insert(at("timeouts", p), n)
       /\ queue' = [queue EXCEPT !["timeouts"] = inserted(@, p, n)]
  /\ UNCHANGED <<head, walk>>

-----------------------------------------------------------------------------
\* __sem_close: the loop pushes every node of the ring while it walks it, so
\* the ring it walks comes apart behind it.
SemCloseBegin ==
  /\ Idle
  /\ \E s \in Sem :
       /\ head[s] # NULL
       /\ walk' = [ring |-> s, first |-> head[s], current |-> head[s]]
  /\ UNCHANGED <<next, prev, head, queue>>

\* The loop is over: the semaphore is freed, and its head pointer with it.
closed_head(over, t) ==
  [head EXCEPT !["ready"] = pushed_head("ready", t),
               ![walk.ring] = IF over THEN NULL ELSE @]

\* Mutant: next_thread is read after the push.
SemCloseStep_late ==
  LET t == walk.current
      over == next'[t] = walk.first
  IN /\ ~Idle
     /\ link("ready", t)
     /\ head' = closed_head(over, t)
     /\ walk' = IF over THEN NoWalk ELSE [walk EXCEPT !.current = next'[t]]
     /\ queue' = [queue EXCEPT !["ready"] = Append(@, t), ![walk.ring] = Tail(@)]

\* One round of the loop.
SemCloseStep ==
  LET t == walk.current
      next_thread == next[t]
      over == next_thread = walk.first
  IN /\ ~Idle
     /\ link("ready", t)
     /\ head' = closed_head(over, t)
     /\ walk' = IF over THEN NoWalk ELSE [walk EXCEPT !.current = next_thread]
     /\ queue' = [queue EXCEPT !["ready"] = Append(@, t), ![walk.ring] = Tail(@)]

-----------------------------------------------------------------------------
Next ==
  \/ SchedulerPush \/ SemPush \/ WaitingPush
  \/ SchedulerNext \/ SemNext \/ WaitingPop \/ TickPop
  \/ TimeoutFirst \/ TimeoutLater
  \/ SemCloseBegin \/ SemCloseStep

Spec == Init /\ [][Next]_vars

-----------------------------------------------------------------------------
(* Properties.                                                             *)

TypeOK ==
  /\ next \in [Node -> Node \cup {NULL}]
  /\ prev \in [Node -> Node \cup {NULL}]
  /\ head \in [Rings -> Node \cup {NULL}]
  /\ queue \in [Rings -> Seq(Node)]
  /\ \/ walk = NoWalk
     \/ walk \in [ring : Sem, first : Node, current : Node]

\* A node is in one ring at most, and in one place of it.
OnePlace ==
  \A r, s \in Rings : \A i \in DOMAIN queue[r], j \in DOMAIN queue[s] :
    queue[r][i] = queue[s][j] => r = s /\ i = j

\* Following nx from the head pointer h meets the nodes of q in order and
\* comes back to the first, pv leads the other way round, and h is null
\* exactly when q is empty.
Holds(q, h, nx, pv) ==
  /\ h = IF q = <<>> THEN NULL ELSE q[1]
  /\ \A i \in 1 .. Len(q) : /\ nx[q[i]] = q[after(i, Len(q))]
                            /\ pv[q[i]] = q[before(i, Len(q))]

\* Every push, pop and insertion does to the pointers what it means for the
\* queue, whatever stale pointers the nodes had before and whatever the other
\* rings hold: each ring is the circle of the nodes of its queue.
RingsHoldQueues ==
  \A r \in Rings \ {walk.ring} : Holds(queue[r], head[r], next, prev)

\* The nodes of q are what is left of a ring that first was the head of.
WalkAt(q, first, current, nx) ==
  /\ q # <<>> /\ current = q[1]
  /\ \A i \in 1 .. Len(q) : nx[q[i]] = IF i = Len(q) THEN first ELSE q[i + 1]
  /\ \A i \in 2 .. Len(q) : q[i] # first

\* While __sem_close takes a ring apart, current_thread is the first node not
\* yet pushed, next leads from it through the others, in order, to
\* first_thread, and none of them is first_thread: the loop reaches each
\* waiting thread once and ends with the last one.
WalkKeepsItsPlace ==
  ~Idle => WalkAt(queue[walk.ring], walk.first, walk.current, next)
=============================================================================
