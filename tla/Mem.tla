--------------------------------- MODULE Mem ---------------------------------
(***************************************************************************)
(* mem.c: the heap is n_mem_blocks blocks, and mem_index has one i32 per   *)
(* block.  The first and the last entry of a run of blocks hold its        *)
(* length, negated when the run is free; entries inside a run are 0.  The  *)
(* index itself lies in the first blocks of the heap.                      *)
(*                                                                         *)
(* A call is one step, and then one iteration of the loop of __mem_alloc   *)
(* is one, or the whole of __mem_free; the kernel runs both with           *)
(* interrupts off.                                                         *)
(***************************************************************************)
EXTENDS Integers

CONSTANTS
  n_mem_blocks,
  mem_index_len_in_blocks,
  Requests,   \* lengths the callers ask for
  Beyond      \* values the i32 words after mem_index may hold

None == -1

ASSUME MemAssumption ==
  /\ n_mem_blocks \in Nat
  /\ mem_index_len_in_blocks \in 1 .. n_mem_blocks - 1
  /\ Requests \subseteq Nat
  /\ Beyond \subseteq Int

VARIABLES
  mem_index,
  request,    \* nblocks of the __mem_alloc in progress, or None
  i,          \* its cursor, 0 when there is none
  ptr,        \* argument of the __mem_free in progress, or None
  result,     \* what the last call returned; block 0 is never handed out
  held,       \* what callers hold: first block |-> length
  halted      \* "no", "panic", or "corrupt" when memory past the index is used

vars == <<mem_index, request, i, ptr, result, held, halted>>

Block == 0 .. n_mem_blocks - 1

\* Pointers to the start of no block: out of the heap, or into a block.
Outside == -2
Unaligned == -3

Pointer == Block \cup {Outside, Unaligned}

FREE_OUT_OF_HEAP == -1
FREE_NOT_BLOCK_ALLIGNED == -2
FREE_NOT_ALLOCED == -3
FREE_NOT_START_OF_ALLOC == -4

-----------------------------------------------------------------------------
\* __mem_init.
Init ==
  LET used == mem_index_len_in_blocks
      free == n_mem_blocks - used
  IN /\ mem_index = [[[[[j \in Block |-> 0]
                          EXCEPT ![0] = used]
                          EXCEPT ![used - 1] = used]
                          EXCEPT ![used] = -free]
                          EXCEPT ![n_mem_blocks - 1] = -free]
     /\ request = None
     /\ i = 0
     /\ ptr = None
     /\ result = 0
     /\ held = [s \in {} |-> 0]
     /\ halted = "no"

Halt(end) ==
  /\ halted' = end
  /\ UNCHANGED <<mem_index, request, i, ptr, result, held>>

\* Every run that is in use: the index itself and what callers hold.
used == [s \in DOMAIN held \cup {0} |->
           IF s = 0 THEN mem_index_len_in_blocks ELSE held[s]]

\* Entry j as the program reads it: a word after the index may hold b.
entry(j, b) == IF j \in Block THEN mem_index[j] ELSE b

-----------------------------------------------------------------------------
(* __mem_alloc.                                                            *)

\* No call is in progress.
Idle == halted = "no" /\ request = None /\ ptr = None

Alloc(nblocks) ==
  /\ Idle
  /\ request' = nblocks
  /\ i' = 0
  /\ UNCHANGED <<mem_index, ptr, result, held, halted>>

past_used_stuck == i   \* mutant: an allocated run is not stepped over

\* The cursor after the allocated run it may stand on.
past_used == IF mem_index[i] > 0 THEN i + mem_index[i] ELSE i

\* Mutant: a sign slip in the length of the rest.
taken_sign(at, free, n) ==
  IF free > n
  THEN [mem_index EXCEPT ![at + free - 1] = -free - n,
                         ![at + n] = -free - n,
                         ![at + n - 1] = n,
                         ![at] = n]
  ELSE [mem_index EXCEPT ![at] = n, ![at + n - 1] = n]

\* The index once n of the free blocks from at are taken.
taken(at, free, n) ==
  IF free > n
  THEN [mem_index EXCEPT ![at + free - 1] = -(free - n),
                         ![at + n] = -(free - n),
                         ![at + n - 1] = n,
                         ![at] = n]
  ELSE [mem_index EXCEPT ![at] = n, ![at + n - 1] = n]

\* Mutant: a free run of exactly the length asked for is passed over.
fits_strictly(free, n) == free > n

fits_always(free, n) == TRUE   \* mutant: any free run will do

fits(free, n) == free >= n

\* An iteration that ends at a free run long enough.
AllocTake ==
  LET at == past_used
  IN /\ halted = "no" /\ request # None /\ i < n_mem_blocks
     /\ \E b \in Beyond :
          /\ entry(at, b) < 0
          /\ fits(-entry(at, b), request)
          /\ IF at \in Block
             THEN /\ mem_index' = taken(at, -mem_index[at], request)
                  /\ held' = [s \in DOMAIN held \cup {at} |->
                                IF s = at THEN request ELSE held[s]]
                  /\ result' = at
                  /\ request' = None
                  /\ i' = 0
                  /\ UNCHANGED <<ptr, halted>>
             ELSE Halt("corrupt")

\* An iteration that goes on, past a free run that is too short.
AllocSkip ==
  LET at == past_used
  IN /\ halted = "no" /\ request # None /\ i < n_mem_blocks
     /\ \E b, b2 \in Beyond :
          LET short == entry(at, b) < 0
              next == IF short THEN at - entry(at, b) ELSE at
              word == IF short THEN entry(next, b2) ELSE entry(at, b)
          IN /\ short => ~fits(-entry(at, b), request)
             /\ IF word = 0
                THEN Halt("panic")
                ELSE i' = next /\ UNCHANGED <<mem_index, request, ptr, result, held, halted>>

\* The loop is over.
AllocFail ==
  /\ halted = "no" /\ request # None /\ i >= n_mem_blocks
  /\ result' = 0
  /\ request' = None
  /\ i' = 0
  /\ UNCHANGED <<mem_index, ptr, held, halted>>

-----------------------------------------------------------------------------
(* __mem_free.                                                             *)

\* Mutant: the run before is not looked at.
freed_forward_only(e) ==
  LET size == mem_index[e]
      next_free == e + size < n_mem_blocks /\ mem_index[e + size] < 0
      joined == size - mem_index[e + size]
  IN IF next_free
     THEN [mem_index EXCEPT ![e + size - 1] = 0, ![e + size] = 0,
                            ![e] = -joined, ![e + joined - 1] = -joined]
     ELSE [mem_index EXCEPT ![e] = -size, ![e + size - 1] = -size]

\* The index once the run at e is free and joined with its free neighbours:
\* first the one before, then the one after.
freed(e) ==
  LET size == mem_index[e]
      prev_free == e > 0 /\ mem_index[e - 1] < 0
      next_free == e + size < n_mem_blocks /\ mem_index[e + size] < 0
      start == IF prev_free THEN e + mem_index[e - 1] ELSE e
      half == IF prev_free THEN size - mem_index[e - 1] ELSE size
      whole == half - mem_index[start + half]
      alone == [mem_index EXCEPT ![e] = -size, ![e + size - 1] = -size]
      behind == [mem_index EXCEPT ![e] = 0, ![e - 1] = 0,
                                  ![start] = -half, ![start + half - 1] = -half]
  IN CASE ~prev_free /\ ~next_free -> alone
       [] prev_free /\ ~next_free  -> behind
       [] next_free ->
            [(IF prev_free THEN behind ELSE mem_index)
               EXCEPT ![start + half - 1] = 0, ![start + half] = 0,
                      ![start] = -whole, ![start + whole - 1] = -whole]

\* What __mem_free returns for the pointer to block e, the word after the
\* index being b.
free_result(e, b) ==
  CASE mem_index[e] <= 0 -> FREE_NOT_ALLOCED
    [] mem_index[e] > 0 /\ mem_index[e] # entry(e + mem_index[e] - 1, b) ->
         FREE_NOT_START_OF_ALLOC
    [] OTHER -> 0

\* Block e passes for the start of an allocation, and is the start of none: the
\* index itself, which no caller holds, or the last block of a run when the
\* entry a length further on is the head of another run of that length, or a
\* word after the index that happens to hold it.
TakenForStart(e) ==
  \/ e = 0
  \/ \E s \in DOMAIN used \ {e} :
       LET n == used[s]
           far == e + n - 1
       IN /\ e = s + n - 1
          /\ \/ far \in DOMAIN used /\ used[far] = n
             \/ far \notin Block /\ n \in Beyond

\* Callers pass any pointer but one __mem_free would take for another.
Free(p) ==
  /\ Idle
  /\ ~TakenForStart(p)
  /\ ptr' = p
  /\ UNCHANGED <<mem_index, request, i, result, held, halted>>

\* __mem_free of block e.
FreeBlock(e) ==
  /\ halted = "no"
  /\ ptr = e
  /\ ptr' = None
  /\ \E b \in Beyond :
       /\ result' = free_result(e, b)
       /\ IF free_result(e, b) # 0
          THEN UNCHANGED <<mem_index, held>>
          ELSE /\ mem_index' = freed(e)
               /\ held' = [s \in DOMAIN held \ {e} |-> held[s]]
  /\ UNCHANGED <<request, i, halted>>

\* __mem_free of a pointer outside the heap, or not to the start of a block.
FreeElsewhere ==
  /\ halted = "no"
  /\ ptr \in {Outside, Unaligned}
  /\ ptr' = None
  /\ result' = IF ptr = Outside THEN FREE_OUT_OF_HEAP ELSE FREE_NOT_BLOCK_ALLIGNED
  /\ UNCHANGED <<mem_index, request, i, held, halted>>

Off == halted # "no" /\ UNCHANGED vars

AllocStep == AllocTake \/ AllocSkip \/ AllocFail

Next ==
  \/ \E nblocks \in Requests : Alloc(nblocks)
  \/ AllocStep
  \/ \E p \in Pointer : Free(p)
  \/ \E e \in Block : FreeBlock(e)
  \/ FreeElsewhere
  \/ Off

Spec == Init /\ [][Next]_vars

\* __mem_alloc is sequential code that runs with interrupts off.
FairSpec == Spec /\ WF_vars(AllocStep)

-----------------------------------------------------------------------------
(* Properties.                                                             *)

TypeOK ==
  /\ mem_index \in [Block -> -n_mem_blocks .. n_mem_blocks]
  /\ request \in Requests \cup {None}
  /\ i \in Nat
  /\ ptr \in Pointer \cup {None}
  /\ result \in Block \cup FREE_NOT_START_OF_ALLOC .. 0
  /\ DOMAIN held \subseteq Block
  /\ \A s \in DOMAIN held : held[s] \in Requests
  /\ halted \in {"no", "panic", "corrupt"}

Covers(s, j) == j \in s .. s + used[s] - 1

Unused == {j \in Block : \A s \in DOMAIN used : ~Covers(s, j)}

\* s is the first of n free blocks, and the blocks around them are not free.
FreeRun(s, n) ==
  /\ n > 0
  /\ s .. s + n - 1 \subseteq Unused
  /\ s - 1 \notin Unused
  /\ s + n \notin Unused

\* No two callers hold the same block, whatever was allocated and freed
\* before.
NoOverlap ==
  \A r, s \in DOMAIN used :
    /\ s + used[s] <= n_mem_blocks
    /\ r < s => r + used[r] <= s

\* The index describes the heap: the first and last entry of every run hold
\* its length, neighbouring free blocks form one run, and every other entry
\* is 0, so no stale length is ever read as the head or foot of a run.
IndexExact ==
  \A j \in Block :
    \/ \E s \in DOMAIN used : /\ j \in {s, s + used[s] - 1}
                              /\ mem_index[j] = used[s]
    \/ \E s \in Block, n \in 1 .. n_mem_blocks :
         FreeRun(s, n) /\ j \in {s, s + n - 1} /\ mem_index[j] = -n
    \/ /\ mem_index[j] = 0
       /\ \/ \E s \in DOMAIN used : s < j /\ j < s + used[s] - 1
          \/ {j - 1, j, j + 1} \subseteq Unused

HeapSpec == INSTANCE Heap WITH
  Blocks <- mem_index_len_in_blocks .. n_mem_blocks - 1

\* First fit: every __mem_alloc returns the lowest run that its request fits
\* in, and 0 only when it fits nowhere, and every __mem_free takes back the run
\* at its pointer, or refuses the pointer when no caller holds it.
ServesFirstFit == HeapSpec!Spec

\* __mem_alloc returns, or the machine stops in it.
AllocReturns == request # None ~> request = None \/ halted # "no"

\* The word after the index, whatever it holds, never costs a caller blocks
\* that are there: the walk stops the machine only when no free run is as long
\* as the request, where it was meant to return 0.
StopsOnlyWhenFull ==
  halted # "no" =>
    \A s \in Block, n \in 1 .. n_mem_blocks : FreeRun(s, n) => n < request
=============================================================================
