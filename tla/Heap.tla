-------------------------------- MODULE Heap --------------------------------
(***************************************************************************)
(* What the allocator promises, whatever keeps the free blocks: a request  *)
(* gets the lowest run of free blocks it fits in, and fails only when it   *)
(* fits nowhere; freeing gives the whole run back, and a pointer nobody    *)
(* holds is refused.  A call and its return are two steps, so each return  *)
(* answers the call that was made.                                         *)
(***************************************************************************)
EXTENDS Integers

CONSTANTS
  Blocks,    \* block numbers that can be handed out
  Requests,  \* lengths asked for, in blocks
  Pointer,   \* what may be passed to free
  None       \* neither a length nor a pointer

VARIABLES
  held,      \* first block of each allocation |-> its length
  request,   \* the length the allocation in progress asks for, or None
  ptr,       \* the pointer being freed, or None
  result     \* what the last call returned; 0 is the null pointer

heap_vars == <<held, request, ptr, result>>

Init ==
  /\ held = [s \in {} |-> 0]
  /\ request = None
  /\ ptr = None
  /\ result = 0

Run(s, n) == s .. s + n - 1

\* n blocks from s are free.
Fits(s, n) ==
  /\ Run(s, n) \subseteq Blocks
  /\ \A h \in DOMAIN held : Run(s, n) \cap Run(h, held[h]) = {}

Idle == request = None /\ ptr = None

CallAlloc(n) == Idle /\ request' = n /\ UNCHANGED <<held, ptr, result>>

CallFree(p) == Idle /\ ptr' = p /\ UNCHANGED <<held, request, result>>

\* The request is served.
Take(s) ==
  /\ request # None
  /\ Fits(s, request)
  /\ \A r \in Blocks : r < s => ~Fits(r, request)
  /\ held' = [h \in DOMAIN held \cup {s} |-> IF h = s THEN request ELSE held[h]]
  /\ result' = s
  /\ request' = None
  /\ UNCHANGED ptr

Fail ==
  /\ request # None
  /\ \A s \in Blocks : ~Fits(s, request)
  /\ result' = 0
  /\ request' = None
  /\ UNCHANGED <<held, ptr>>

GiveBack ==
  /\ ptr # None
  /\ ptr \in DOMAIN held
  /\ held' = [h \in DOMAIN held \ {ptr} |-> held[h]]
  /\ result' = 0
  /\ ptr' = None
  /\ UNCHANGED request

Refuse ==
  /\ ptr # None
  /\ ptr \notin DOMAIN held
  /\ result' < 0
  /\ ptr' = None
  /\ UNCHANGED <<held, request>>

Next ==
  \/ \E n \in Requests : CallAlloc(n)
  \/ \E p \in Pointer : CallFree(p)
  \/ \E s \in Blocks : Take(s)
  \/ Fail \/ GiveBack \/ Refuse

Spec == Init /\ [][Next]_heap_vars
=============================================================================
