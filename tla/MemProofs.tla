------------------------------ MODULE MemProofs ------------------------------
(***************************************************************************)
(* Proofs about mem.c, for a heap of any size.                             *)
(***************************************************************************)
EXTENDS Mem, TLAPS

-----------------------------------------------------------------------------
(* The runs of blocks.  H is the set of first blocks of the runs, used and *)
(* free, that the index m describes.                                       *)

\* The block after the run that starts at h.
after(m, h) == IF m[h] < 0 THEN h - m[h] ELSE h + m[h]

\* The run at h: its length at both ends, 0 in between, and the next run, if
\* there is one, right behind it.
Run(H, m, h) ==
  /\ m[h] # 0
  /\ after(m, h) <= n_mem_blocks
  /\ after(m, h) \in H \/ after(m, h) = n_mem_blocks
  /\ m[after(m, h) - 1] = m[h]
  /\ \A j \in Block : h < j /\ j < after(m, h) - 1 => m[j] = 0
  /\ \A g \in H : h < g => after(m, h) <= g

\* No two free runs are neighbours.
Apart(H, m) ==
  \A h \in H : m[h] < 0 /\ after(m, h) \in H => m[after(m, h)] > 0

\* Every block is in a run.
Covered(H, m) == \A j \in Block : \E h \in H : h <= j /\ j < after(m, h)

Tiled(H, m) ==
  /\ m \in [Block -> Int]
  /\ H \subseteq Block
  /\ 0 \in H
  /\ \A h \in H : Run(H, m, h)
  /\ Apart(H, m)
  /\ Covered(H, m)

-----------------------------------------------------------------------------
(* The inductive invariant.                                                *)

\* The used runs are the index and what callers hold.
Exact(H) ==
  /\ Tiled(H, mem_index)
  /\ mem_index[0] = mem_index_len_in_blocks
  /\ DOMAIN held = {h \in H : h # 0 /\ mem_index[h] > 0}
  /\ \A h \in DOMAIN held : held[h] = mem_index[h]

\* The free runs in front of block j are too short for the request.
Short(H, j) ==
  \A h \in H : h < j /\ mem_index[h] < 0 => -mem_index[h] < request

\* The cursor of the walk is at a run, or past the heap, and has passed no run
\* that is long enough.
Walk(H) == request # None => (i \in H \/ i >= n_mem_blocks) /\ Short(H, i)

\* The walk ends the machine only past the heap.
Ended(H) == halted # "no" => Short(H, n_mem_blocks)

MemTyped ==
  /\ request \in Requests \cup {None}
  /\ i \in Nat
  /\ ptr \in Pointer \cup {None}
  /\ result \in Block \cup FREE_NOT_START_OF_ALLOC .. 0
  /\ \A s \in DOMAIN held : held[s] \in Requests
  /\ halted \in {"no", "panic", "corrupt"}

MemInv == MemTyped /\ \E H \in SUBSET Block : Exact(H) /\ Walk(H) /\ Ended(H)

\* One call is in progress, and no pointer __mem_free would take for another.
OneCall ==
  /\ request = None \/ ptr = None
  /\ ptr # None => ~TakenForStart(ptr)

-----------------------------------------------------------------------------
(* Runs.                                                                   *)

LEMMA BlockRange == n_mem_blocks \in Nat /\ 0 < n_mem_blocks
               /\ \A j : j \in Block <=> j \in Int /\ 0 <= j /\ j < n_mem_blocks
BY MemAssumption DEF Block

LEMMA RunEnds ==
  ASSUME NEW H, NEW m, Tiled(H, m), NEW h \in H
  PROVE  /\ h \in Block /\ h \in Int /\ m[h] \in Int /\ after(m, h) \in Int
         /\ h < after(m, h) /\ after(m, h) <= n_mem_blocks
         /\ after(m, h) - 1 \in Block
         /\ Run(H, m, h)
<1>1. h \in Block /\ m[h] \in Int /\ Run(H, m, h)
  BY DEF Tiled
<1>2. m[h] # 0 /\ after(m, h) <= n_mem_blocks
  BY <1>1 DEF Run
<1> QED BY <1>1, <1>2, BlockRange DEF after

\* The blocks of a run determine where it ends.
LEMMA SameAfter ==
  ASSUME NEW m, NEW m2, NEW h, m2[h] = m[h]
  PROVE  after(m2, h) = after(m, h)
BY DEF after

\* A block is in one run only.
LEMMA OneRun ==
  ASSUME NEW H, NEW m, Tiled(H, m), NEW g \in H, NEW h \in H, NEW j \in Int,
         g <= j, j < after(m, g), h <= j, j < after(m, h)
  PROVE  g = h
<1>1. /\ g \in Int /\ h \in Int /\ after(m, g) \in Int /\ after(m, h) \in Int
      /\ Run(H, m, g) /\ Run(H, m, h)
  BY RunEnds
<1>2. g < h => after(m, g) <= h
  BY <1>1 DEF Run
<1>3. h < g => after(m, h) <= g
  BY <1>1 DEF Run
<1> QED BY <1>1, <1>2, <1>3

\* The blocks from lo to hi - 1 are divided anew; the runs around them stay.
LEMMA Retiled ==
  ASSUME NEW H, NEW m, Tiled(H, m),
         NEW lo \in H, NEW hi \in Int, lo < hi, hi \in H \/ hi = n_mem_blocks,
         NEW H2 \in SUBSET Block, NEW m2 \in [Block -> Int],
         lo \in H2,
         \A j \in Block : j < lo \/ hi <= j => m2[j] = m[j] /\ (j \in H2 <=> j \in H),
         \A h \in H2 : lo <= h /\ h < hi =>
           /\ m2[h] # 0
           /\ after(m2, h) <= hi
           /\ after(m2, h) \in H2 \/ after(m2, h) = hi
           /\ m2[after(m2, h) - 1] = m2[h]
           /\ \A j \in Block : h < j /\ j < after(m2, h) - 1 => m2[j] = 0
           /\ \A g \in H2 : h < g => after(m2, h) <= g,
         \A j \in Block : lo <= j /\ j < hi => \E h \in H2 : h <= j /\ j < after(m2, h),
         Apart(H2, m2)
  PROVE  Tiled(H2, m2)
<1>1. lo \in Block /\ lo \in Int /\ 0 <= lo /\ lo < n_mem_blocks
  BY RunEnds, BlockRange
<1>2. hi <= n_mem_blocks /\ (hi = n_mem_blocks \/ hi \in H2)
  <2>1. CASE hi \in H
    <3>1. hi \in Block
      BY <2>1 DEF Tiled
    <3> QED BY <2>1, <3>1, BlockRange
  <2> QED BY <2>1, BlockRange
<1>3. ASSUME NEW h \in H, h < lo \/ hi <= h
      PROVE  /\ h \in Int /\ h \in H2 /\ m2[h] = m[h] /\ after(m2, h) = after(m, h)
             /\ h < lo => after(m, h) <= lo
  <2>1. h \in Block /\ h \in Int /\ Run(H, m, h)
    BY RunEnds
  <2>2. h \in H2 /\ m2[h] = m[h]
    BY <1>3, <2>1
  <2>3. h < lo => after(m, h) <= lo
    BY <2>1 DEF Run
  <2> QED BY <2>1, <2>2, <2>3, SameAfter
<1>4. ASSUME NEW h \in H2, h < lo \/ hi <= h
      PROVE  h \in H
  BY <1>4
<1>5. 0 \in H2
  <2>1. 0 \in H /\ 0 \in Int
    BY DEF Tiled
  <2>2. CASE lo = 0
    BY <2>2
  <2>3. CASE lo # 0
    BY <1>1, <1>3, <2>1, <2>3
  <2> QED BY <2>2, <2>3
<1>6. ASSUME NEW h \in H2
      PROVE  Run(H2, m2, h)
  <2>0. h \in Block /\ h \in Int
    BY BlockRange
  <2>1. CASE lo <= h /\ h < hi
    <3>1. /\ m2[h] # 0
          /\ after(m2, h) <= hi
          /\ after(m2, h) \in H2 \/ after(m2, h) = hi
          /\ m2[after(m2, h) - 1] = m2[h]
          /\ \A j \in Block : h < j /\ j < after(m2, h) - 1 => m2[j] = 0
          /\ \A g \in H2 : h < g => after(m2, h) <= g
      BY <2>1
    <3>2. after(m2, h) \in Int
      <4>1. m2[h] \in Int
        BY <2>0
      <4> QED BY <2>0, <4>1 DEF after
    <3>3. after(m2, h) <= n_mem_blocks
      BY <1>2, <3>1, <3>2, BlockRange
    <3> QED BY <1>2, <3>1, <3>3 DEF Run
  <2>2. CASE h < lo \/ hi <= h
    <3>1. h \in H
      BY <1>4, <2>2
    <3>2. /\ m2[h] = m[h] /\ after(m2, h) = after(m, h)
          /\ h < lo => after(m, h) <= lo
      BY <1>3, <2>2, <3>1
    <3>3. /\ after(m, h) \in Int /\ h < after(m, h) /\ after(m, h) <= n_mem_blocks
          /\ after(m, h) - 1 \in Block /\ Run(H, m, h)
      BY <3>1, RunEnds
    <3>4. after(m, h) \in H2 \/ after(m, h) = n_mem_blocks
      <4>1. CASE after(m, h) \in H
        <5>1. after(m, h) < lo \/ after(m, h) = lo \/ hi <= after(m, h)
          BY <1>1, <2>0, <2>2, <3>2, <3>3
        <5> QED BY <1>3, <4>1, <5>1
      <4> QED BY <3>3, <4>1 DEF Run
    <3>5. \A j \in Block : h <= j /\ j < after(m, h) => m2[j] = m[j]
      <4> SUFFICES ASSUME NEW j \in Block, h <= j, j < after(m, h)
                   PROVE  m2[j] = m[j]
        OBVIOUS
      <4>1. j \in Int
        BY BlockRange
      <4>2. j < lo \/ hi <= j
        BY <1>1, <2>0, <2>2, <3>2, <3>3, <4>1
      <4> QED BY <4>2
    <3>6. m2[after(m, h) - 1] = m[h]
      <4>1. h <= after(m, h) - 1 /\ after(m, h) - 1 < after(m, h)
        BY <2>0, <3>3
      <4>2. m[after(m, h) - 1] = m[h]
        BY <3>3 DEF Run
      <4> QED BY <3>3, <3>5, <4>1, <4>2
    <3>7. \A j \in Block : h < j /\ j < after(m, h) - 1 => m2[j] = 0
      <4> SUFFICES ASSUME NEW j \in Block, h < j, j < after(m, h) - 1
                   PROVE  m2[j] = 0
        OBVIOUS
      <4>1. j \in Int
        BY BlockRange
      <4>2. h <= j /\ j < after(m, h)
        BY <2>0, <3>3, <4>1
      <4>3. m[j] = 0
        BY <3>3 DEF Run
      <4> QED BY <3>5, <4>2, <4>3
    <3>8. ASSUME NEW g \in H2, h < g
          PROVE  after(m, h) <= g
      <4>1. g \in Int
        BY BlockRange
      <4>2. CASE g < lo \/ hi <= g
        <5>1. g \in H
          BY <1>4, <4>2
        <5> QED BY <3>3, <3>8, <5>1 DEF Run
      <4>3. CASE lo <= g /\ g < hi
        BY <1>1, <2>0, <2>2, <3>2, <3>3, <3>8, <4>1, <4>3
      <4> QED BY <1>1, <4>1, <4>2, <4>3
    <3>9. m2[h] # 0
      BY <3>2, <3>3 DEF Run
    <3> QED BY <3>2, <3>3, <3>4, <3>6, <3>7, <3>8, <3>9 DEF Run
  <2> QED BY <1>1, <2>0, <2>1, <2>2
<1>7. Covered(H2, m2)
  <2> SUFFICES ASSUME NEW j \in Block
               PROVE  \E h \in H2 : h <= j /\ j < after(m2, h)
    BY DEF Covered
  <2>0. j \in Int
    BY BlockRange
  <2>1. CASE lo <= j /\ j < hi
    BY <2>1
  <2>2. CASE j < lo \/ hi <= j
    <3>1. PICK h \in H : h <= j /\ j < after(m, h)
      BY DEF Tiled, Covered
    <3>2. h \in Int /\ after(m, h) \in Int /\ Run(H, m, h)
      BY RunEnds
    <3>3. h < lo \/ hi <= h
      <4>1. SUFFICES ASSUME hi <= j, lo <= h, h < hi
                     PROVE  FALSE
        BY <1>1, <2>0, <2>2, <3>1, <3>2
      <4>2. hi \in H
        BY <2>0, <4>1, BlockRange
      <4>3. after(m, h) <= hi
        BY <3>2, <4>1, <4>2 DEF Run
      <4> QED BY <2>0, <3>1, <3>2, <4>1, <4>3
    <3>4. h \in H2 /\ after(m2, h) = after(m, h)
      BY <1>3, <3>3
    <3> QED BY <3>1, <3>4
  <2> QED BY <1>1, <2>0, <2>1, <2>2
<1> QED BY <1>5, <1>6, <1>7 DEF Tiled

-----------------------------------------------------------------------------
(* __mem_alloc takes a free run, or the first blocks of one.               *)

LEMMA TakenWhole ==
  ASSUME NEW H, NEW m, Tiled(H, m), NEW a \in H, NEW n \in Nat, m[a] = -n, 0 < n,
         NEW m2 \in [Block -> Int], m2[a] = n, m2[a + n - 1] = n,
         \A j \in Block : j # a /\ j # a + n - 1 => m2[j] = m[j]
  PROVE  Tiled(H, m2) /\ \A h \in H : h # a => m2[h] = m[h]
<1>1. /\ a \in Block /\ a \in Int /\ after(m, a) = a + n /\ a + n <= n_mem_blocks
      /\ Run(H, m, a) /\ H \in SUBSET Block
  <2>1. a \in Int
    BY RunEnds
  <2>2. after(m, a) = a + n
    BY <2>1 DEF after
  <2> QED BY <2>1, <2>2, RunEnds DEF Tiled
<1>2. after(m2, a) = a + n
  BY <1>1 DEF after
<1>3. a < a + n /\ a + n \in Int /\ (a + n \in H \/ a + n = n_mem_blocks)
  BY <1>1 DEF Run
<1>4. ASSUME NEW h \in H, h # a
      PROVE  h \in Block /\ m2[h] = m[h] /\ after(m2, h) = after(m, h)
             /\ (h < a \/ a + n <= h)
  <2>1. h \in Block /\ h \in Int
    BY RunEnds
  <2>2. a < h => a + n <= h
    BY <1>1 DEF Run
  <2>3. h # a + n - 1
    BY <1>1, <1>4, <2>1, <2>2
  <2>4. m2[h] = m[h]
    BY <1>4, <2>1, <2>3
  <2> QED BY <1>1, <1>4, <2>1, <2>2, <2>4, SameAfter
<1>5. \A j \in Block : j < a \/ a + n <= j => m2[j] = m[j] /\ (j \in H <=> j \in H)
  BY <1>1, BlockRange
<1>6. ASSUME NEW h \in H, a <= h, h < a + n
      PROVE  /\ m2[h] # 0
             /\ after(m2, h) <= a + n
             /\ after(m2, h) \in H \/ after(m2, h) = a + n
             /\ m2[after(m2, h) - 1] = m2[h]
             /\ \A j \in Block : h < j /\ j < after(m2, h) - 1 => m2[j] = 0
             /\ \A g \in H : h < g => after(m2, h) <= g
  <2>1. h = a
    <3>1. h \in Int
      BY RunEnds
    <3> QED BY <1>1, <1>4, <1>6, <3>1
  <2>2. \A j \in Block : a < j /\ j < a + n - 1 => m2[j] = 0
    <3> SUFFICES ASSUME NEW j \in Block, a < j, j < a + n - 1
                 PROVE  m2[j] = 0
      OBVIOUS
    <3>1. m[j] = 0
      BY <1>1 DEF Run
    <3>2. j # a /\ j # a + n - 1
      BY <1>1, BlockRange
    <3> QED BY <3>1, <3>2
  <2>3. \A g \in H : a < g => a + n <= g
    BY <1>1 DEF Run
  <2>4. m2[a] # 0 /\ m2[a + n - 1] = m2[a] /\ a + n <= a + n
    BY <1>1
  <2>5. after(m2, h) = a + n /\ m2[h] = m2[a]
    BY <1>2, <2>1
  <2> DEFINE hi == a + n
  <2>6. /\ m2[h] # 0 /\ hi <= hi /\ m2[hi - 1] = m2[h]
        /\ \A j \in Block : h < j /\ j < hi - 1 => m2[j] = 0
        /\ \A g \in H : h < g => hi <= g
        /\ after(m2, h) = hi
    BY <1>1, <2>1, <2>2, <2>3, <2>4, <2>5
  <2> HIDE DEF hi
  <2>7. /\ m2[h] # 0
        /\ after(m2, h) <= hi
        /\ after(m2, h) \in H \/ after(m2, h) = hi
        /\ m2[after(m2, h) - 1] = m2[h]
        /\ \A j \in Block : h < j /\ j < after(m2, h) - 1 => m2[j] = 0
        /\ \A g \in H : h < g => after(m2, h) <= g
    BY <2>6
  <2> QED BY <2>7 DEF hi
<1>7. \A j \in Block : a <= j /\ j < a + n => \E h \in H : h <= j /\ j < after(m2, h)
  BY <1>2
<1>8. Apart(H, m2)
  <2> SUFFICES ASSUME NEW h \in H, m2[h] < 0, after(m2, h) \in H
               PROVE  m2[after(m2, h)] > 0
    BY DEF Apart
  <2>1. h # a
    OBVIOUS
  <2>2. m[h] < 0 /\ after(m2, h) = after(m, h)
    BY <1>4, <2>1
  <2>3. m[after(m, h)] > 0
    BY <2>2 DEF Tiled, Apart
  <2>4. after(m, h) # a
    BY <2>3
  <2> QED BY <1>4, <2>2, <2>3, <2>4
<1>9. Tiled(H, m2)
  BY <1>1, <1>3, <1>5, <1>6, <1>7, <1>8, Retiled
<1> QED BY <1>4, <1>9

\* m2 is the index m with n of the f free blocks at a taken.
PartTaken(m, m2, a, f, n) ==
  /\ m2 \in [Block -> Int]
  /\ m2[a] = n /\ m2[a + n - 1] = n
  /\ m2[a + n] = n - f /\ m2[a + f - 1] = n - f
  /\ \A j \in Block : j \notin {a, a + n - 1, a + n, a + f - 1} => m2[j] = m[j]

LEMMA TakenPart ==
  ASSUME NEW H, NEW m, Tiled(H, m), NEW a \in H, NEW f \in Nat, NEW n \in Nat,
         m[a] = -f, 0 < n, n < f, NEW m2, PartTaken(m, m2, a, f, n)
  PROVE  Tiled(H \cup {a + n}, m2) /\ \A h \in H : h # a => m2[h] = m[h]
<1> USE DEF PartTaken
<1> DEFINE r == a + n
           H2 == H \cup {r}
           hi == a + f
<1>1. /\ a \in Block /\ a \in Int /\ after(m, a) = hi /\ hi <= n_mem_blocks
      /\ Run(H, m, a) /\ H \in SUBSET Block /\ m[a] < 0
  <2>1. a \in Int
    BY RunEnds
  <2>2. after(m, a) = a + f /\ m[a] < 0
    BY <2>1 DEF after
  <2>3. a \in Block /\ after(m, a) <= n_mem_blocks /\ Run(H, m, a)
    BY RunEnds
  <2>4. H \in SUBSET Block
    BY DEF Tiled
  <2> QED BY <2>1, <2>2, <2>3, <2>4
<1>2. after(m2, a) = r /\ after(m2, r) = hi
  BY <1>1 DEF after
<1>3. /\ a < hi /\ hi \in Int /\ (hi \in H \/ hi = n_mem_blocks)
      /\ r \in Int /\ a < r /\ r < hi /\ r \in Block
  BY <1>1, BlockRange DEF Run
<1>4. ASSUME NEW h \in H, h # a
      PROVE  h \in Block /\ m2[h] = m[h] /\ after(m2, h) = after(m, h)
             /\ h \in Int /\ (h < a \/ hi <= h)
  <2>1. h \in Block /\ h \in Int
    BY RunEnds
  <2>2. a < h => hi <= h
    BY <1>1 DEF Run
  <2>3. h # a + n - 1 /\ h # a + n /\ h # a + f - 1
    BY <1>1, <1>4, <2>1, <2>2
  <2>4. m2[h] = m[h]
    BY <1>4, <2>1, <2>3
  <2> QED BY <1>1, <1>4, <2>1, <2>2, <2>4, SameAfter
<1>5. \A j \in Block : j < a \/ hi <= j => m2[j] = m[j] /\ (j \in H2 <=> j \in H)
  BY <1>1, BlockRange
<1>z. \A j \in Block : a < j /\ j < hi - 1 /\ j # r - 1 /\ j # r => m2[j] = 0
  <2> SUFFICES ASSUME NEW j \in Block, a < j, j < hi - 1, j # r - 1, j # r
               PROVE  m2[j] = 0
    OBVIOUS
  <2>1. m[j] = 0
    BY <1>1 DEF Run
  <2>2. j # a /\ j # a + n - 1 /\ j # a + n /\ j # a + f - 1
    BY <1>1, BlockRange
  <2> QED BY <2>1, <2>2
<1>6. ASSUME NEW h \in H2, a <= h, h < hi
      PROVE  /\ m2[h] # 0
             /\ after(m2, h) <= hi
             /\ after(m2, h) \in H2 \/ after(m2, h) = hi
             /\ m2[after(m2, h) - 1] = m2[h]
             /\ \A j \in Block : h < j /\ j < after(m2, h) - 1 => m2[j] = 0
             /\ \A g \in H2 : h < g => after(m2, h) <= g
  <2>1. h = a \/ h = r
    BY <1>1, <1>3, <1>4, <1>6
  <2>2. CASE h = a
    <3>1. \A j \in Block : a < j /\ j < r - 1 => m2[j] = 0
      BY <1>1, <1>3, <1>z, BlockRange
    <3>2. \A g \in H2 : a < g => r <= g
      BY <1>1, <1>3, <1>4
    <3>3. m2[a] # 0 /\ r <= hi /\ m2[r - 1] = m2[a]
      BY <1>1, <1>3
    <3> QED BY <1>2, <2>2, <3>1, <3>2, <3>3
  <2>3. CASE h = r
    <3>1. \A j \in Block : r < j /\ j < hi - 1 => m2[j] = 0
      BY <1>1, <1>3, <1>z, BlockRange
    <3>2. \A g \in H2 : r < g => hi <= g
      BY <1>1, <1>3, <1>4
    <3>3. m2[r] # 0 /\ hi <= hi /\ m2[hi - 1] = m2[r]
      BY <1>1, <1>3
    <3> QED BY <1>2, <2>3, <3>1, <3>2, <3>3
  <2> QED BY <2>1, <2>2, <2>3
<1>7. \A j \in Block : a <= j /\ j < hi => \E h \in H2 : h <= j /\ j < after(m2, h)
  BY <1>2, <1>3, BlockRange
<1>8. Apart(H2, m2)
  <2> SUFFICES ASSUME NEW h \in H2, m2[h] < 0, after(m2, h) \in H2
               PROVE  m2[after(m2, h)] > 0
    BY DEF Apart
  <2>1. h # a
    OBVIOUS
  <2>2. CASE h = r
    <3>1. hi \in H /\ hi # a
      BY <1>2, <1>3, <2>2
    <3>2. m[hi] > 0
      BY <1>1, <3>1 DEF Tiled, Apart
    <3> QED BY <1>2, <1>4, <2>2, <3>1, <3>2
  <2>3. CASE h # r
    <3>1. h \in H /\ m[h] < 0 /\ after(m2, h) = after(m, h) /\ (h < a \/ hi <= h)
      BY <1>4, <2>1, <2>3
    <3>2. Run(H, m, h) /\ h \in Int /\ after(m, h) \in Int /\ h < after(m, h)
      BY <3>1, RunEnds
    <3>3. after(m, h) # r
      <4>1. h < a => after(m, h) <= a
        BY <3>2 DEF Run
      <4> QED BY <1>1, <1>3, <3>1, <3>2, <4>1
    <3>4. after(m, h) \in H
      BY <3>1, <3>3
    <3>5. m[after(m, h)] > 0
      BY <3>1, <3>4 DEF Tiled, Apart
    <3>6. after(m, h) # a
      BY <1>1, <3>5
    <3> QED BY <1>4, <3>1, <3>4, <3>5, <3>6
  <2> QED BY <2>2, <2>3
<1>9. H2 \in SUBSET Block /\ a \in H2
  BY <1>1, <1>3
<1> HIDE DEF H2, hi
<1>10. Tiled(H2, m2)
  BY <1>3, <1>5, <1>6, <1>7, <1>8, <1>9, Retiled
<1> QED BY <1>4, <1>10 DEF H2

-----------------------------------------------------------------------------
(* __mem_free joins a used run with the free runs around it.               *)

\* The run that ends where the run at e starts.
LEMMA RunBefore ==
  ASSUME NEW H, NEW m, Tiled(H, m), NEW e \in H, e # 0
  PROVE  \E g \in H : after(m, g) = e /\ g < e /\ m[e - 1] = m[g]
<1>1. e \in Int /\ e - 1 \in Block /\ e - 1 \in Int
  BY RunEnds, BlockRange
<1>2. PICK g \in H : g <= e - 1 /\ e - 1 < after(m, g)
  BY <1>1 DEF Tiled, Covered
<1>3. g \in Int /\ after(m, g) \in Int /\ Run(H, m, g)
  BY RunEnds
<1>4. g < e /\ after(m, g) <= e
  BY <1>1, <1>2, <1>3 DEF Run
<1>5. after(m, g) = e
  BY <1>1, <1>2, <1>3, <1>4
<1> QED BY <1>3, <1>4, <1>5 DEF Run

\* m2 is the index m with one free run from lo to hi - 1.
Rejoined(m, m2, lo, hi) ==
  /\ m2 \in [Block -> Int]
  /\ m2[lo] = lo - hi /\ m2[hi - 1] = lo - hi
  /\ \A j \in Block : lo < j /\ j < hi - 1 => m2[j] = 0
  /\ \A j \in Block : j < lo \/ hi <= j => m2[j] = m[j]

\* From lo to hi - 1 there are the run at e and the free runs next to it.
Around(H, m, e, lo, hi) ==
  /\ hi \in H \/ hi = n_mem_blocks
  /\ lo <= e /\ after(m, e) <= hi
  /\ lo = e => \A g \in H : after(m, g) = e => m[g] > 0
  /\ lo # e => m[lo] < 0 /\ after(m, lo) = e
  /\ hi = after(m, e) /\ hi \in H => m[hi] > 0
  /\ hi # after(m, e) => /\ after(m, e) \in H /\ m[after(m, e)] < 0
                         /\ hi = after(m, after(m, e))

LEMMA FreedTiled ==
  ASSUME NEW H, NEW m, Tiled(H, m), NEW e \in H, m[e] > 0,
         NEW lo \in H, NEW hi \in Int, Around(H, m, e, lo, hi),
         NEW m2, Rejoined(m, m2, lo, hi)
  PROVE  /\ Tiled({h \in H : h <= lo \/ hi <= h}, m2)
         /\ \A h \in H : (h <= lo \/ hi <= h) /\ h # lo => m2[h] = m[h]
         /\ \A h \in H : m[h] > 0 /\ lo <= h /\ h < hi => h = e
<1> DEFINE H2 == {h \in H : h <= lo \/ hi <= h}
<1> USE DEF Rejoined, Around
<1>1. /\ e \in Int /\ after(m, e) \in Int /\ e < after(m, e)
      /\ lo \in Int /\ lo \in Block /\ lo < hi /\ H2 \in SUBSET Block /\ lo \in H2
  BY RunEnds DEF Tiled
<1>2. after(m2, lo) = hi /\ m2[lo] < 0
  BY <1>1 DEF after
<1>3. \A h \in H2 : lo <= h /\ h < hi => h = lo
  <2> SUFFICES ASSUME NEW h \in H2, lo <= h, h < hi PROVE h = lo
    OBVIOUS
  <2>1. h \in Int
    BY RunEnds
  <2> QED BY <1>1, <2>1
<1>4. \A j \in Block : j < lo \/ hi <= j => m2[j] = m[j] /\ (j \in H2 <=> j \in H)
  BY <1>1, BlockRange
<1>5. \A g \in H2 : lo < g => hi <= g
  <2> SUFFICES ASSUME NEW g \in H2, lo < g PROVE hi <= g
    OBVIOUS
  <2>1. g \in Int
    BY RunEnds
  <2> QED BY <1>1, <2>1
<1>6. Apart(H2, m2)
  <2> SUFFICES ASSUME NEW h \in H2, m2[h] < 0, after(m2, h) \in H2
               PROVE  m2[after(m2, h)] > 0
    BY DEF Apart
  <2>1. CASE h = lo
    <3>1. hi \in H /\ hi \in Block
      BY <1>2, <2>1 DEF Tiled
    <3>2. m[hi] > 0
      BY <3>1 DEF Tiled, Apart
    <3> QED BY <1>1, <1>2, <1>4, <2>1, <3>1, <3>2
  <2>2. CASE h # lo
    <3>1. h \in H /\ h \in Int /\ h \in Block /\ Run(H, m, h)
      BY RunEnds
    <3>2. h < lo \/ hi <= h
      BY <1>1, <2>2, <3>1
    <3>3. m2[h] = m[h] /\ after(m2, h) = after(m, h)
      BY <1>4, <3>1, <3>2, SameAfter
    <3>4. after(m, h) \in H /\ m[after(m, h)] > 0 /\ after(m, h) \in Block
      BY <3>1, <3>3 DEF Tiled, Apart
    <3>5. after(m, h) # lo
      <4>1. CASE lo = e
        BY <3>1, <3>3, <4>1, BlockRange DEF Tiled
      <4>2. CASE lo # e
        BY <1>1, <3>4, <4>2 DEF Tiled
      <4> QED BY <4>1, <4>2
    <3>6. after(m, h) < lo \/ hi <= after(m, h)
      BY <1>1, <3>3, <3>4, <3>5, BlockRange
    <3> QED BY <1>4, <3>3, <3>4, <3>6
  <2> QED BY <2>1, <2>2
<1>7. \A j \in Block : lo <= j /\ j < hi => \E h \in H2 : h <= j /\ j < after(m2, h)
  BY <1>1, <1>2
<1> HIDE DEF H2
<1>8. \A h \in H2 : lo <= h /\ h < hi =>
        /\ m2[h] # 0
        /\ after(m2, h) <= hi
        /\ after(m2, h) \in H2 \/ after(m2, h) = hi
        /\ m2[after(m2, h) - 1] = m2[h]
        /\ \A j \in Block : h < j /\ j < after(m2, h) - 1 => m2[j] = 0
        /\ \A g \in H2 : h < g => after(m2, h) <= g
  <2> SUFFICES ASSUME NEW h \in H2, lo <= h, h < hi
               PROVE  /\ m2[h] # 0
                      /\ after(m2, h) <= hi
                      /\ after(m2, h) = hi
                      /\ m2[after(m2, h) - 1] = m2[h]
                      /\ \A j \in Block : h < j /\ j < after(m2, h) - 1 => m2[j] = 0
                      /\ \A g \in H2 : h < g => after(m2, h) <= g
    OBVIOUS
  <2>1. h = lo
    BY <1>3
  <2> QED BY <1>1, <1>2, <1>5, <2>1
<1>9. Tiled(H2, m2)
  BY <1>1, <1>4, <1>6, <1>7, <1>8, Retiled
<1>10. ASSUME NEW h \in H, h <= lo \/ hi <= h, h # lo
       PROVE  m2[h] = m[h]
  <2>1. h \in Block /\ h \in Int
    BY RunEnds
  <2> QED BY <1>1, <1>10, <2>1
<1>11. ASSUME NEW h \in H, m[h] > 0, lo <= h, h < hi
       PROVE  h = e
  <2>1. h \in Int /\ m[h] \in Int /\ m[lo] \in Int
    BY RunEnds
  <2>2. lo < h => after(m, lo) <= h
    BY RunEnds DEF Run
  <2>3. e < h => after(m, e) <= h
    BY RunEnds DEF Run
  <2>4. after(m, e) \in H /\ after(m, e) < h => after(m, after(m, e)) <= h
    BY RunEnds DEF Run
  <2>5. after(m, e) \in H => m[after(m, e)] \in Int
    BY RunEnds
  <2>6. h <= e
    BY <1>1, <1>11, <2>1, <2>3, <2>4, <2>5
  <2>7. e <= h
    BY <1>1, <1>11, <2>1, <2>2
  <2> QED BY <1>1, <2>1, <2>6, <2>7
<1> QED BY <1>9, <1>10, <1>11 DEF H2

-----------------------------------------------------------------------------
(* What the two functions do to the index.                                 *)

\* Two writes to the index, and four: the last one to a block counts.
write2(m, p, v, q, w) == [m EXCEPT ![p] = v, ![q] = w]
write4(m, p, v, q, w, r, x, s, y) == [m EXCEPT ![p] = v, ![q] = w, ![r] = x, ![s] = y]

LEMMA TwoWrites ==
  ASSUME NEW m \in [Block -> Int], NEW p \in Block, NEW q \in Block,
         NEW v \in Int, NEW w \in Int
  PROVE  /\ write2(m, p, v, q, w) \in [Block -> Int]
         /\ \A j \in Block : write2(m, p, v, q, w)[j]
              = IF j = q THEN w ELSE IF j = p THEN v ELSE m[j]
BY DEF write2

LEMMA FourWrites ==
  ASSUME NEW m \in [Block -> Int], NEW p \in Block, NEW q \in Block, NEW r \in Block,
         NEW s \in Block, NEW v \in Int, NEW w \in Int, NEW x \in Int, NEW y \in Int,
         NEW m2, m2 = write4(m, p, v, q, w, r, x, s, y)
  PROVE  /\ m2 \in [Block -> Int]
         /\ \A j \in Block : m2[j] = IF j = s THEN y ELSE IF j = r THEN x
                                     ELSE IF j = q THEN w ELSE IF j = p THEN v ELSE m[j]
BY DEF write4

\* The four writes that leave the rest of a free run of f blocks.
LEMMA PartWrites ==
  ASSUME NEW m \in [Block -> Int], NEW a \in Block, NEW f \in Nat, NEW n \in Nat,
         0 < n, n < f, NEW p \in Block, NEW q \in Block, NEW k \in Block, NEW r \in Int,
         p = a + f - 1, q = a + n, k = a + n - 1, r = n - f,
         NEW m2, m2 = write4(m, p, r, q, r, k, n, a, n)
  PROVE  PartTaken(m, m2, a, f, n)
<1>1. a \in Int /\ n \in Int
  BY BlockRange
<1>2. q # a /\ q # k /\ p # k /\ p # a
  BY <1>1
<1>3. /\ m2 \in [Block -> Int]
      /\ \A j \in Block : m2[j] = IF j = a THEN n ELSE IF j = k THEN n
           ELSE IF j = q THEN r ELSE IF j = p THEN r ELSE m[j]
  BY <1>1, FourWrites
<1>4. /\ m2[a] = n /\ m2[k] = n /\ m2[q] = r /\ m2[p] = r
      /\ \A j \in Block : j # a /\ j # k /\ j # q /\ j # p => m2[j] = m[j]
  BY <1>2, <1>3, Zenon
<1>5. /\ m2[a + n - 1] = n /\ m2[a + n] = n - f /\ m2[a + f - 1] = n - f
  BY <1>4
<1>6. \A j \in Block : j \notin {a, a + n - 1, a + n, a + f - 1} => m2[j] = m[j]
  BY <1>4
<1> QED BY <1>3, <1>4, <1>5, <1>6 DEF PartTaken

\* The index once n blocks of the free run at a are taken.
LEMMA TakenTiled ==
  ASSUME NEW H, NEW m, Tiled(H, m), NEW a \in H, NEW f \in Nat, m[a] = -f,
         NEW n \in Nat, 0 < n, n <= f, NEW m2,
         IF n < f
         THEN m2 = write4(m, a + f - 1, -(f - n), a + n, -(f - n), a + n - 1, n, a, n)
         ELSE m2 = write2(m, a, n, a + n - 1, n)
  PROVE  \E H2 \in SUBSET Block :
           /\ Tiled(H2, m2) /\ m2[a] = n /\ a \in H2 /\ H \subseteq H2
           /\ \A h \in H : h # a => m2[h] = m[h]
           /\ \A h \in H2 : h \notin H => m2[h] < 0
<1>1. a \in Block /\ a \in Int /\ m \in [Block -> Int] /\ H \in SUBSET Block
  BY RunEnds DEF Tiled
<1>2. a + f <= n_mem_blocks
  BY <1>1, RunEnds DEF after
<1>3. /\ a + f - 1 \in Block /\ a + n - 1 \in Block /\ (n < f => a + n \in Block)
  BY <1>1, <1>2, BlockRange
<1>4. CASE n < f
  <2>1. m2 = write4(m, a + f - 1, -(f - n), a + n, -(f - n), a + n - 1, n, a, n)
    BY <1>4
  <2>2. PartTaken(m, m2, a, f, n)
    <3> DEFINE r == -(f - n)
               p == a + f - 1
               q == a + n
               k == a + n - 1
    <3>1. r \in Int /\ r = n - f
      OBVIOUS
    <3>2. p \in Block /\ q \in Block /\ k \in Block
      BY <1>3, <1>4
    <3>3. m2 = write4(m, p, r, q, r, k, n, a, n)
      BY <2>1
    <3>4. p = a + f - 1 /\ q = a + n /\ k = a + n - 1
      OBVIOUS
    <3> HIDE DEF r, p, q, k
    <3> QED BY <1>1, <1>4, <3>1, <3>2, <3>3, <3>4, PartWrites, Zenon
  <2>3. Tiled(H \cup {a + n}, m2) /\ \A h \in H : h # a => m2[h] = m[h]
    BY <1>4, <2>2, TakenPart
  <2>4. H \cup {a + n} \in SUBSET Block /\ m2[a + n] < 0
    BY <1>1, <1>3, <1>4, <2>2 DEF PartTaken
  <2> QED BY <2>2, <2>3, <2>4 DEF PartTaken
<1>5. CASE n = f
  <2>1. m2 = write2(m, a, n, a + n - 1, n)
    BY <1>5
  <2>2. /\ m2 \in [Block -> Int]
        /\ \A j \in Block : m2[j] = IF j = a + n - 1 THEN n ELSE IF j = a THEN n ELSE m[j]
    BY <1>1, <1>3, <2>1, TwoWrites
  <2>3. /\ m2[a] = n /\ m2[a + n - 1] = n
        /\ \A j \in Block : j # a /\ j # a + n - 1 => m2[j] = m[j]
    BY <1>1, <1>3, <2>2
  <2>4. Tiled(H, m2) /\ \A h \in H : h # a => m2[h] = m[h]
    BY <1>5, <2>2, <2>3, TakenWhole
  <2> QED BY <1>1, <2>3, <2>4
<1> QED BY <1>4, <1>5

LEMMA TakenExact ==
  ASSUME NEW H \in SUBSET Block, Exact(H), NEW a \in H, NEW n \in Nat, 0 < n,
         mem_index[a] < 0, n <= -mem_index[a],
         mem_index' = taken(a, -mem_index[a], n),
         held' = [s \in DOMAIN held \cup {a} |-> IF s = a THEN n ELSE held[s]]
  PROVE  \E H2 \in SUBSET Block : Exact(H2)'
<1> DEFINE m == mem_index
           f == -m[a]
           m2 == taken(a, f, n)
<1>1. /\ Tiled(H, m) /\ a \in Block /\ a \in Int /\ m[a] \in Int /\ f \in Nat /\ m[a] = -f
      /\ m \in [Block -> Int] /\ 0 \in H
  BY RunEnds DEF Exact, Tiled
<1>4. a # 0 /\ m[0] > 0
  BY <1>1, MemAssumption DEF Exact
<1>5. PICK H2 \in SUBSET Block :
        /\ Tiled(H2, m2) /\ m2[a] = n /\ a \in H2 /\ H \subseteq H2
        /\ \A h \in H : h # a => m2[h] = m[h]
        /\ \A h \in H2 : h \notin H => m2[h] < 0
  <2>1. IF n < f
        THEN m2 = write4(m, a + f - 1, -(f - n), a + n, -(f - n), a + n - 1, n, a, n)
        ELSE m2 = write2(m, a, n, a + n - 1, n)
    <3>1. n < f <=> f > n
      BY <1>1
    <3>2. taken(a, f, n) = IF f > n
            THEN write4(m, a + f - 1, -(f - n), a + n, -(f - n), a + n - 1, n, a, n)
            ELSE write2(m, a, n, a + n - 1, n)
      BY DEF taken, write4, write2
    <3> QED BY <3>1, <3>2, Zenon
  <2>2. n <= f
    OBVIOUS
  <2> HIDE DEF m, m2, f
  <2> QED BY <1>1, <2>1, <2>2, TakenTiled
<1>6. mem_index' = m2
  OBVIOUS
<1>7. /\ DOMAIN held = {h \in H : h # 0 /\ m[h] > 0}
      /\ \A h \in DOMAIN held : held[h] = m[h]
      /\ m[0] = mem_index_len_in_blocks
  BY DEF Exact
<1>8. DOMAIN held' = DOMAIN held \cup {a}
      /\ \A s \in DOMAIN held' : held'[s] = IF s = a THEN n ELSE held[s]
  OBVIOUS
<1> HIDE DEF m2, m, f
<1>9. m2[0] = mem_index_len_in_blocks
  BY <1>1, <1>4, <1>5, <1>7
<1>10. {h \in H2 : h # 0 /\ m2[h] > 0} = DOMAIN held \cup {a}
  <2>1. \A h \in H2 : m2[h] \in Int
    BY <1>5 DEF Tiled
  <2>2. \A h \in H2 : h \notin H => ~(m2[h] > 0)
    BY <1>5, <2>1
  <2> QED BY <1>4, <1>5, <1>7, <2>2
<1>11. \A h \in DOMAIN held \cup {a} : held'[h] = m2[h]
  BY <1>5, <1>7, <1>8
<1>12. Exact(H2)'
  BY <1>5, <1>6, <1>8, <1>9, <1>10, <1>11 DEF Exact
<1> QED BY <1>12

\* __mem_free writes 0 to the two entries where the runs meet, at c - 1 and c,
\* then the length of the whole run to its ends.
LEMMA JoinWrites ==
  ASSUME NEW m \in [Block -> Int], NEW lo \in Block, NEW c \in Block, lo < c,
         NEW hi \in Int, c < hi, NEW k \in Block, k = hi - 1,
         \A j \in Block : lo < j /\ j < c - 1 => m[j] = 0,
         \A j \in Block : c < j /\ j < hi - 1 => m[j] = 0,
         NEW p \in Block, NEW q \in Block, (p = c /\ q = c - 1) \/ (p = c - 1 /\ q = c),
         NEW v \in Int, v = lo - hi,
         NEW m2, m2 = write4(m, p, 0, q, 0, lo, v, k, v)
  PROVE  Rejoined(m, m2, lo, hi)
<1>1. \A j \in Block : j \in Int
  BY BlockRange
<1>2. /\ m2 \in [Block -> Int]
      /\ \A j \in Block : m2[j] = IF j = k THEN v ELSE IF j = lo THEN v
           ELSE IF j = q THEN 0 ELSE IF j = p THEN 0 ELSE m[j]
  BY FourWrites
<1>3. m2[lo] = v /\ m2[k] = v
  BY <1>2, Zenon
<1>4. \A j \in Block : lo < j /\ j < hi - 1 => m2[j] = 0
  <2> SUFFICES ASSUME NEW j \in Block, lo < j, j < hi - 1 PROVE m2[j] = 0
    OBVIOUS
  <2>1. j \in Int /\ c \in Int /\ lo \in Int /\ j # lo /\ j # k
    BY <1>1
  <2>2. CASE j = p \/ j = q
    BY <1>2, <2>1, <2>2, Zenon
  <2>3. CASE j # p /\ j # q
    <3>1. m[j] = 0
      BY <2>1, <2>3
    <3> QED BY <1>2, <2>1, <2>3, <3>1, Zenon
  <2> QED BY <2>2, <2>3
<1>5. \A j \in Block : j < lo \/ hi <= j => m2[j] = m[j]
  <2> SUFFICES ASSUME NEW j \in Block, j < lo \/ hi <= j PROVE m2[j] = m[j]
    OBVIOUS
  <2>1. j # k /\ j # lo /\ j # p /\ j # q
    BY <1>1
  <2> QED BY <1>2, <2>1, Zenon
<1> QED BY <1>2, <1>3, <1>4, <1>5 DEF Rejoined

LEMMA AloneWrites ==
  ASSUME NEW m \in [Block -> Int], NEW lo \in Block, NEW hi \in Int, lo < hi,
         NEW k \in Block, k = hi - 1,
         \A j \in Block : lo < j /\ j < hi - 1 => m[j] = 0,
         NEW v \in Int, v = lo - hi, NEW m2, m2 = write2(m, lo, v, k, v)
  PROVE  Rejoined(m, m2, lo, hi)
<1>1. \A j \in Block : j \in Int
  BY BlockRange
<1>2. /\ m2 \in [Block -> Int]
      /\ \A j \in Block : m2[j] = IF j = k THEN v ELSE IF j = lo THEN v ELSE m[j]
  BY TwoWrites
<1>3. m2[lo] = v /\ m2[k] = v
  BY <1>2, Zenon
<1>4. \A j \in Block : lo < j /\ j < hi - 1 => m2[j] = 0
  BY <1>1, <1>2
<1>5. \A j \in Block : j < lo \/ hi <= j => m2[j] = m[j]
  BY <1>1, <1>2
<1> QED BY <1>2, <1>3, <1>4, <1>5 DEF Rejoined

LEMMA RejoinedTwice ==
  ASSUME NEW m, NEW m1, NEW m2, NEW lo \in Int, NEW c \in Int, NEW hi \in Int, c < hi,
         Rejoined(m, m1, lo, c), Rejoined(m1, m2, lo, hi)
  PROVE  Rejoined(m, m2, lo, hi)
<1>1. \A j \in Block : j < lo \/ hi <= j => m2[j] = m[j]
  <2> SUFFICES ASSUME NEW j \in Block, j < lo \/ hi <= j PROVE m2[j] = m[j]
    OBVIOUS
  <2>1. j < lo \/ c <= j
    BY BlockRange
  <2> QED BY <2>1 DEF Rejoined
<1> QED BY <1>1 DEF Rejoined

\* freed joins the run at e with the free runs around it.
LEMMA FreedJoins ==
  ASSUME NEW H \in SUBSET Block, Tiled(H, mem_index), NEW e \in H, e # 0, mem_index[e] > 0
  PROVE  \E lo \in H, hi \in Int :
           Around(H, mem_index, e, lo, hi) /\ Rejoined(mem_index, freed(e), lo, hi)
<1> DEFINE m == mem_index
           size == m[e]
           a == e + size
<1>1. /\ e \in Int /\ e \in Block /\ e > 0 /\ size \in Int /\ after(m, e) = a
      /\ m \in [Block -> Int] /\ a \in Int /\ a - 1 \in Block /\ e < a /\ a <= n_mem_blocks
  <2>1. e \in Int /\ e \in Block /\ size \in Int /\ e > 0 /\ m \in [Block -> Int]
    BY RunEnds, BlockRange DEF Tiled
  <2>2. after(m, e) = a
    BY <2>1 DEF after
  <2> QED BY <2>1, <2>2, RunEnds
<1>2. /\ a \in H \/ a = n_mem_blocks
      /\ \A j \in Block : e < j /\ j < a - 1 => m[j] = 0
  BY <1>1, RunEnds DEF Run
<1>3. PICK g \in H : after(m, g) = e /\ g < e /\ m[e - 1] = m[g]
  BY RunBefore
<1>4. /\ g \in Int /\ g \in Block /\ m[g] \in Int /\ m[g] # 0 /\ e - 1 \in Block
      /\ \A j \in Block : g < j /\ j < e - 1 => m[j] = 0
      /\ \A h \in H : after(m, h) = e => h = g
  <2>1. g \in Int /\ g \in Block /\ m[g] \in Int /\ Run(H, m, g) /\ e - 1 \in Block
    BY <1>3, RunEnds
  <2>2. ASSUME NEW h \in H, after(m, h) = e
        PROVE  h = g
    <3>1. h \in Int /\ h < e
      BY <2>2, RunEnds
    <3>2. h <= e - 1 /\ e - 1 < after(m, h) /\ g <= e - 1 /\ e - 1 < after(m, g) /\ e - 1 \in Int
      BY <1>1, <1>3, <2>1, <2>2, <3>1
    <3> QED BY <3>2, OneRun
  <2> QED BY <1>3, <2>1, <2>2 DEF Run
<1> DEFINE prev_free == m[g] < 0
           next_free == a < n_mem_blocks /\ m[a] < 0
           lo == IF prev_free THEN g ELSE e
           b == a - m[a]
           hi == IF next_free THEN b ELSE a
           behind == write4(m, e, 0, e - 1, 0, g, g - a, a - 1, g - a)
           base == IF prev_free THEN behind ELSE m
<1>5. prev_free => g = e + m[g]
  BY <1>1, <1>3, <1>4 DEF after
<1>6. a \in H => a < n_mem_blocks /\ m[a] \in Int /\ m[a] # 0 /\ a \in Block
  BY <1>1, RunEnds, BlockRange DEF Run
<1>7. ASSUME next_free
      PROVE  /\ a \in H /\ after(m, a) = b /\ b \in Int /\ a < b /\ b - 1 \in Block
             /\ b \in H \/ b = n_mem_blocks
             /\ \A j \in Block : a < j /\ j < b - 1 => m[j] = 0
  <2>1. a \in H
    BY <1>1, <1>2, <1>7, BlockRange
  <2>2. after(m, a) = b
    BY <1>7 DEF after
  <2>3. b \in Int /\ a < b /\ b - 1 \in Block /\ Run(H, m, a)
    BY <2>1, <2>2, RunEnds
  <2> QED BY <2>1, <2>2, <2>3 DEF Run
<1>8. lo \in H /\ hi \in Int
  BY <1>1, <1>3, <1>7
<1>9. Around(H, m, e, lo, hi)
  <2>1. hi \in H \/ hi = n_mem_blocks
    BY <1>2, <1>7
  <2>2. lo <= e /\ after(m, e) <= hi
    BY <1>1, <1>3, <1>4, <1>7
  <2>3. lo = e => \A h \in H : after(m, h) = e => m[h] > 0
    BY <1>1, <1>3, <1>4
  <2>4. lo # e => m[lo] < 0 /\ after(m, lo) = e
    BY <1>3
  <2>5. hi = after(m, e) /\ hi \in H => m[hi] > 0
    BY <1>1, <1>6, <1>7
  <2>6. hi # after(m, e) => /\ after(m, e) \in H /\ m[after(m, e)] < 0
                            /\ hi = after(m, after(m, e))
    BY <1>1, <1>7
  <2> QED BY <2>1, <2>2, <2>3, <2>4, <2>5, <2>6 DEF Around
<1>10. ASSUME prev_free
       PROVE  Rejoined(m, behind, g, a)
  <2> DEFINE v == g - a
             k == a - 1
             q == e - 1
  <2>1. /\ v \in Int /\ v = g - a /\ k = a - 1 /\ q = e - 1 /\ k \in Block /\ q \in Block
    BY <1>1, <1>4
  <2>2. behind = write4(m, e, 0, q, 0, g, v, k, v)
    OBVIOUS
  <2> HIDE DEF v, k, q, behind, m
  <2> QED BY <1>1, <1>2, <1>3, <1>4, <2>1, <2>2, JoinWrites
<1>11. ~next_free /\ ~prev_free => Rejoined(m, write2(m, e, -size, a - 1, -size), e, a)
  <2> DEFINE v == e - a
             k == a - 1
             w == write2(m, e, v, k, v)
  <2>1. /\ v \in Int /\ v = e - a /\ k = a - 1 /\ k \in Block /\ v = -size
    BY <1>1
  <2>2. w = write2(m, e, v, k, v)
    OBVIOUS
  <2> HIDE DEF v, k, m, w
  <2>3. Rejoined(m, w, e, a)
    BY <1>1, <1>2, <2>1, <2>2, AloneWrites
  <2> QED BY <2>1, <2>2, <2>3
<1>12. next_free => Rejoined(m, write4(base, a - 1, 0, a, 0, lo, lo - b, b - 1, lo - b), lo, b)
  <2> SUFFICES ASSUME next_free
               PROVE  Rejoined(m, write4(base, a - 1, 0, a, 0, lo, lo - b, b - 1, lo - b), lo, b)
    OBVIOUS
  <2> DEFINE v == lo - b
             k == b - 1
             p == a - 1
             w == write4(base, p, 0, a, 0, lo, v, k, v)
  <2>1. /\ v \in Int /\ v = lo - b /\ k = b - 1 /\ k \in Block /\ p = a - 1 /\ p \in Block
        /\ a \in Block /\ lo \in Block /\ lo < a /\ a < b /\ b \in Int /\ lo \in Int
    BY <1>1, <1>3, <1>4, <1>6, <1>7
  <2>2. /\ base \in [Block -> Int]
        /\ \A j \in Block : lo < j /\ j < a - 1 => base[j] = 0
        /\ \A j \in Block : a < j /\ j < b - 1 => base[j] = 0
    <3>1. CASE prev_free
      <4>1. base = behind /\ lo = g
        BY <3>1
      <4>2. \A j \in Block : a < j /\ j < b - 1 => base[j] = 0
        <5> SUFFICES ASSUME NEW j \in Block, a < j, j < b - 1 PROVE base[j] = 0
          OBVIOUS
        <5>1. a <= j
          BY <1>1, BlockRange
        <5>2. behind[j] = m[j]
          BY <1>10, <3>1, <5>1 DEF Rejoined
        <5> QED BY <1>7, <4>1, <5>2
      <4> HIDE DEF base, lo, behind, b, m
      <4> QED BY <1>10, <3>1, <4>1, <4>2 DEF Rejoined
    <3>2. CASE ~prev_free
      BY <1>1, <1>2, <1>7, <3>2
    <3> QED BY <3>1, <3>2
  <2>3. w = write4(base, p, 0, a, 0, lo, v, k, v)
    OBVIOUS
  <2>4. Rejoined(base, w, lo, b)
    <3> HIDE DEF v, k, p, w, base, lo, b
    <3> QED BY <1>1, <2>1, <2>2, <2>3, JoinWrites
  <2>5. Rejoined(m, w, lo, b)
    <3>1. CASE prev_free
      <4>1. Rejoined(m, base, lo, a)
        BY <1>10, <3>1
      <4> HIDE DEF m, w, base, lo, b
      <4> QED BY <1>1, <2>1, <2>4, <4>1, RejoinedTwice
    <3>2. CASE ~prev_free
      BY <2>4, <3>2
    <3> QED BY <3>1, <3>2
  <2> QED BY <2>5
<1>13. Rejoined(m, freed(e), lo, hi)
  <2>1. prev_free <=> e > 0 /\ m[e - 1] < 0
    BY <1>1, <1>3
  <2>2. CASE ~prev_free /\ ~next_free
    <3>1. freed(e) = write2(m, e, -size, e + size - 1, -size)
      BY <2>1, <2>2 DEF freed, write2
    <3>2. lo = e /\ hi = a
      BY <2>2
    <3>3. Rejoined(m, freed(e), e, a)
      <4>1. e + size - 1 = a - 1
        BY <1>1
      <4>2. freed(e) = write2(m, e, -size, a - 1, -size)
        BY <3>1, <4>1
      <4> QED BY <1>11, <2>2, <4>2
    <3> QED BY <3>2, <3>3
  <2>3. CASE prev_free /\ ~next_free
    <3> DEFINE s == e + m[e - 1]
               half == size - m[e - 1]
    <3>1. freed(e) = write4(m, e, 0, e - 1, 0, s, -half, s + half - 1, -half)
      BY <2>1, <2>3 DEF freed, write4
    <3>2. s = g /\ -half = g - a /\ s + half - 1 = a - 1
      BY <1>1, <1>3, <1>4, <1>5, <2>3
    <3> HIDE DEF s, half
    <3>3. freed(e) = behind
      BY <3>1, <3>2
    <3> QED BY <1>10, <2>3, <3>3
  <2>4. CASE prev_free /\ next_free
    <3> DEFINE s == e + m[e - 1]
               half == size - m[e - 1]
               whole == half - m[s + half]
    <3>1. freed(e) = write4(write4(m, e, 0, e - 1, 0, s, -half, s + half - 1, -half),
                            s + half - 1, 0, s + half, 0, s, -whole, s + whole - 1, -whole)
      BY <2>1, <2>4 DEF freed, write4
    <3>2. s = g /\ -half = g - a /\ s + half - 1 = a - 1 /\ s + half = a
      BY <1>1, <1>3, <1>4, <1>5, <2>4
    <3>3. -whole = g - b /\ s + whole - 1 = b - 1
      BY <1>1, <1>3, <1>4, <1>5, <1>6, <1>7, <2>4, <3>2
    <3> HIDE DEF s, half, whole
    <3>4. freed(e) = write4(behind, a - 1, 0, a, 0, g, g - b, b - 1, g - b)
      BY <3>1, <3>2, <3>3
    <3>5. base = behind /\ lo = g
      BY <2>4
    <3> QED BY <1>12, <2>4, <3>4, <3>5
  <2>5. CASE ~prev_free /\ next_free
    <3> DEFINE whole == size - m[e + size]
    <3>1. freed(e) = write4(m, e + size - 1, 0, e + size, 0, e, -whole, e + whole - 1, -whole)
      BY <2>1, <2>5 DEF freed, write4
    <3>2. -whole = e - b /\ e + whole - 1 = b - 1
      BY <1>1, <1>6, <1>7, <2>5
    <3> HIDE DEF whole
    <3>3. freed(e) = write4(m, a - 1, 0, a, 0, e, e - b, b - 1, e - b)
      <4>1. e + size - 1 = a - 1 /\ e + size = a
        BY <1>1
      <4> HIDE DEF a, b, size, m
      <4> QED BY <3>1, <3>2, <4>1
    <3>4. base = m /\ lo = e
      BY <2>5
    <3> QED BY <1>12, <2>5, <3>3, <3>4
  <2> QED BY <2>2, <2>3, <2>4, <2>5
<1> QED BY <1>8, <1>9, <1>13

LEMMA FreedExact ==
  ASSUME NEW H \in SUBSET Block, Exact(H), NEW e \in DOMAIN held,
         mem_index' = freed(e), held' = [s \in DOMAIN held \ {e} |-> held[s]]
  PROVE  \E H2 \in SUBSET Block : Exact(H2)'
<1> DEFINE m == mem_index
           m2 == freed(e)
<1>1. /\ Tiled(H, m) /\ e \in H /\ e # 0 /\ m[e] > 0 /\ 0 \in H
      /\ DOMAIN held = {h \in H : h # 0 /\ m[h] > 0}
      /\ \A h \in DOMAIN held : held[h] = m[h]
      /\ m[0] = mem_index_len_in_blocks
  BY DEF Exact, Tiled
<1>2. PICK lo \in H, hi \in Int : Around(H, m, e, lo, hi) /\ Rejoined(m, m2, lo, hi)
  BY <1>1, FreedJoins
<1>3. mem_index' = m2 /\ DOMAIN held' = DOMAIN held \ {e}
      /\ \A s \in DOMAIN held \ {e} : held'[s] = held[s]
  OBVIOUS
<1> HIDE DEF m, m2
<1> DEFINE H2 == {h \in H : h <= lo \/ hi <= h}
<1>4. /\ Tiled(H2, m2)
      /\ \A h \in H : (h <= lo \/ hi <= h) /\ h # lo => m2[h] = m[h]
      /\ \A h \in H : m[h] > 0 /\ lo <= h /\ h < hi => h = e
  BY <1>1, <1>2, FreedTiled
<1>5. lo \in Int /\ e \in Int /\ e < after(m, e) /\ after(m, e) \in Int /\ lo \in H2
      /\ \A h \in H : h \in Int
  BY <1>1, RunEnds
<1>6. lo < hi /\ m2[lo] < 0 /\ e < hi /\ lo <= e
  BY <1>2, <1>5 DEF Around, Rejoined
<1>7. {h \in H2 : h # 0 /\ m2[h] > 0} = DOMAIN held \ {e}
  <2>1. ASSUME NEW h \in H2, m2[h] > 0
        PROVE  h \in H /\ m[h] > 0 /\ h # e
    <3>1. h # lo
      BY <1>4, <1>5, <1>6, <2>1 DEF Tiled
    <3>2. m2[h] = m[h]
      BY <1>4, <3>1
    <3>3. h # e
      BY <1>5, <1>6, <3>1
    <3> QED BY <2>1, <3>2, <3>3
  <2>2. ASSUME NEW h \in H, m[h] > 0, h # e
        PROVE  h \in H2 /\ m2[h] > 0
    <3>1. ~(lo <= h /\ h < hi)
      BY <1>4, <2>2
    <3>2. (h <= lo \/ hi <= h) /\ h # lo
      BY <1>5, <1>6, <3>1
    <3> QED BY <1>4, <2>2, <3>2
  <2> QED BY <1>1, <2>1, <2>2
<1>8. \A h \in DOMAIN held \ {e} : held'[h] = m2[h]
  <2> SUFFICES ASSUME NEW h \in DOMAIN held \ {e} PROVE held'[h] = m2[h]
    OBVIOUS
  <2>1. h \in H /\ m[h] > 0 /\ h # e
    BY <1>1
  <2>2. (h <= lo \/ hi <= h) /\ h # lo
    <3>1. ~(lo <= h /\ h < hi)
      BY <1>4, <2>1
    <3>2. h \in Int
      BY <1>5, <2>1
    <3> QED BY <1>5, <1>6, <3>1, <3>2
  <2>3. m2[h] = m[h]
    BY <1>4, <2>1, <2>2
  <2> QED BY <1>1, <1>3, <2>3
<1>9. m2[0] = mem_index_len_in_blocks
  <2>1. m[0] > 0 /\ ~(lo <= 0 /\ 0 < hi)
    BY <1>1, <1>4, MemAssumption
  <2>2. (0 <= lo \/ hi <= 0) /\ 0 # lo
    BY <1>1, <1>5, <1>6, <2>1
  <2> QED BY <1>1, <1>4, <2>2
<1>10. H2 \in SUBSET Block
  OBVIOUS
<1> HIDE DEF H2
<1>11. Exact(H2)'
  BY <1>3, <1>4, <1>7, <1>8, <1>9 DEF Exact
<1> QED BY <1>10, <1>11

-----------------------------------------------------------------------------
(* The walk of __mem_alloc.                                                *)

\* Where an iteration looks for a free run.
LEMMA WalkPlace ==
  ASSUME NEW H \in SUBSET Block, Exact(H), Walk(H), i \in Nat, request # None,
         i < n_mem_blocks
  PROVE  /\ past_used \in H \/ past_used = n_mem_blocks
         /\ past_used \in Int
         /\ Short(H, past_used)
<1>1. i \in H /\ Short(H, i) /\ Tiled(H, mem_index)
  BY BlockRange DEF Walk, Exact
<1>2. /\ mem_index[i] \in Int /\ Run(H, mem_index, i) /\ after(mem_index, i) \in Int
      /\ i < after(mem_index, i)
  BY <1>1, RunEnds
<1>3. CASE mem_index[i] > 0
  <2>1. past_used = after(mem_index, i)
    BY <1>2, <1>3 DEF past_used, after
  <2>2. ASSUME NEW h \in H, h < past_used, mem_index[h] < 0
        PROVE  -mem_index[h] < request
    <3>1. h \in Int
      BY <1>1, RunEnds
    <3>2. ~(i < h)
      BY <1>2, <2>1, <2>2, <3>1 DEF Run
    <3>3. h # i
      BY <1>2, <1>3, <2>2
    <3>4. h < i
      BY <3>1, <3>2, <3>3
    <3> QED BY <1>1, <2>2, <3>4 DEF Short
  <2> QED BY <1>2, <2>1, <2>2 DEF Run, Short
<1>4. CASE ~(mem_index[i] > 0)
  BY <1>1, <1>4 DEF past_used
<1> QED BY <1>3, <1>4

\* All runs are in front of n_mem_blocks.
LEMMA ShortAll ==
  ASSUME NEW H \in SUBSET Block, NEW j \in Int, n_mem_blocks <= j
  PROVE  Short(H, j) <=> Short(H, n_mem_blocks)
<1>1. \A h \in H : h < j /\ h < n_mem_blocks
  BY BlockRange
<1> QED BY <1>1 DEF Short

LEMMA NotIn == n_mem_blocks \notin Block
BY BlockRange

-----------------------------------------------------------------------------
(* What the index says of the heap.                                        *)

LEMMA UsedRuns ==
  ASSUME NEW H \in SUBSET Block, Exact(H)
  PROVE  /\ DOMAIN used = {h \in H : mem_index[h] > 0}
         /\ \A s \in DOMAIN used : /\ used[s] = mem_index[s] /\ used[s] \in Int
                                   /\ s + used[s] = after(mem_index, s)
<1>1. /\ Tiled(H, mem_index) /\ 0 \in H /\ mem_index[0] = mem_index_len_in_blocks
      /\ DOMAIN held = {h \in H : h # 0 /\ mem_index[h] > 0}
      /\ \A h \in DOMAIN held : held[h] = mem_index[h]
      /\ mem_index_len_in_blocks > 0
  BY MemAssumption DEF Exact, Tiled
<1>2. DOMAIN used = DOMAIN held \cup {0}
      /\ \A s \in DOMAIN held \cup {0} :
           used[s] = IF s = 0 THEN mem_index_len_in_blocks ELSE held[s]
  BY DEF used
<1>3. DOMAIN used = {h \in H : mem_index[h] > 0}
  BY <1>1, <1>2
<1>4. \A s \in DOMAIN used : used[s] = mem_index[s]
  BY <1>1, <1>2
<1>5. ASSUME NEW s \in DOMAIN used
      PROVE  used[s] \in Int /\ s + used[s] = after(mem_index, s)
  <2>1. s \in H /\ mem_index[s] > 0
    BY <1>3
  <2>2. mem_index[s] \in Int /\ s \in Int
    BY <1>1, <2>1, RunEnds
  <2> QED BY <1>4, <2>1, <2>2 DEF after
<1> QED BY <1>3, <1>4, <1>5

\* The unused blocks are those of the free runs.
LEMMA UnusedRuns ==
  ASSUME NEW H \in SUBSET Block, Exact(H), NEW h \in H, NEW j \in Int,
         h <= j, j < after(mem_index, h)
  PROVE  j \in Unused <=> mem_index[h] < 0
<1>1. /\ Tiled(H, mem_index) /\ h \in Int /\ mem_index[h] \in Int /\ mem_index[h] # 0
      /\ after(mem_index, h) \in Int /\ h >= 0 /\ after(mem_index, h) <= n_mem_blocks
  BY RunEnds, BlockRange DEF Exact, Run
<1>2. j \in Block
  BY <1>1, BlockRange
<1>3. CASE mem_index[h] > 0
  <2>1. h \in DOMAIN used /\ h + used[h] = after(mem_index, h) /\ used[h] \in Int
    BY <1>3, UsedRuns
  <2>2. Covers(h, j)
    BY <1>1, <2>1 DEF Covers
  <2> QED BY <1>1, <1>3, <2>1, <2>2 DEF Unused
<1>4. CASE mem_index[h] < 0
  <2>1. ASSUME NEW s \in DOMAIN used, Covers(s, j)
        PROVE  FALSE
    <3>1. /\ s \in H /\ mem_index[s] > 0 /\ used[s] \in Int
          /\ s + used[s] = after(mem_index, s)
      BY UsedRuns
    <3>2. s \in Int /\ after(mem_index, s) \in Int
      BY <1>1, <3>1, RunEnds
    <3>3. s <= j /\ j < after(mem_index, s)
      BY <2>1, <3>1, <3>2 DEF Covers
    <3>4. s = h
      BY <1>1, <3>1, <3>3, OneRun
    <3> QED BY <1>1, <1>4, <3>1, <3>4
  <2> QED BY <1>2, <1>4, <2>1 DEF Unused
<1> QED BY <1>1, <1>3, <1>4

\* The run a block is in.
LEMMA RunOf ==
  ASSUME NEW H \in SUBSET Block, Exact(H), NEW j \in Block
  PROVE  \E h \in H : h <= j /\ j < after(mem_index, h)
BY DEF Exact, Tiled, Covered

\* A run of unused blocks lies in one free run.
LEMMA UnusedInOne ==
  ASSUME NEW H \in SUBSET Block, Exact(H), NEW s \in Int, NEW n \in Int, n > 0,
         s .. s + n - 1 \subseteq Unused
  PROVE  \E h \in H : /\ mem_index[h] < 0 /\ h <= s
                      /\ s + n <= after(mem_index, h)
<1>1. s \in Unused /\ s \in Block
  BY DEF Unused
<1>2. PICK h \in H : h <= s /\ s < after(mem_index, h)
  BY <1>1, RunOf
<1>3. mem_index[h] < 0
  BY <1>1, <1>2, UnusedRuns
<1>4. /\ Tiled(H, mem_index) /\ h \in Int /\ after(mem_index, h) \in Int
      /\ Run(H, mem_index, h)
  BY RunEnds DEF Exact
<1>5. s + n <= after(mem_index, h)
  <2> DEFINE a == after(mem_index, h)
  <2>1. SUFFICES ASSUME a < s + n PROVE FALSE
    BY <1>4
  <2>2. a \in Unused
    BY <1>2, <1>4, <2>1
  <2>3. a \in H
    BY <1>4, <2>2, NotIn DEF Run, Unused
  <2>4. mem_index[a] > 0
    BY <1>3, <1>4, <2>3 DEF Tiled, Apart
  <2>5. a < after(mem_index, a) /\ mem_index[a] \in Int
    BY <1>4, <2>3, RunEnds
  <2>6. ~(mem_index[a] < 0)
    BY <2>4, <2>5
  <2>7. a <= a
    BY <1>4
  <2> QED BY <1>4, <2>2, <2>3, <2>5, <2>6, <2>7, UnusedRuns
<1> QED BY <1>2, <1>3, <1>5

\* FreeRun says what the negative entries say.
LEMMA FreeRuns ==
  ASSUME NEW H \in SUBSET Block, Exact(H), NEW s \in Block, NEW n \in Int
  PROVE  FreeRun(s, n) <=> s \in H /\ mem_index[s] < 0 /\ n = -mem_index[s]
<1> DEFINE m == mem_index
<1>0. Tiled(H, m) /\ s \in Int
  BY BlockRange DEF Exact
<1>1. ASSUME FreeRun(s, n)
      PROVE  s \in H /\ m[s] < 0 /\ n = -m[s]
  <2>1. n > 0 /\ s .. s + n - 1 \subseteq Unused /\ s - 1 \notin Unused /\ s + n \notin Unused
    BY <1>1 DEF FreeRun
  <2>2. PICK h \in H : m[h] < 0 /\ h <= s /\ s + n <= after(m, h)
    BY <1>0, <2>1, UnusedInOne
  <2>3. h \in Int /\ m[h] \in Int /\ after(m, h) \in Int
    BY <1>0, RunEnds
  <2>4. h = s
    <3>1. SUFFICES ASSUME h < s PROVE FALSE
      BY <1>0, <2>2, <2>3
    <3>2. s - 1 \in Int /\ h <= s - 1 /\ s - 1 < after(m, h)
      BY <1>0, <2>1, <2>2, <2>3, <3>1
    <3>3. s - 1 \in Unused
      BY <2>2, <3>2, UnusedRuns
    <3> QED BY <2>1, <3>3
  <2>5. s + n = after(m, h)
    <3>1. SUFFICES ASSUME s + n < after(m, h) PROVE FALSE
      BY <1>0, <2>2, <2>3
    <3>2. s + n \in Int /\ h <= s + n
      BY <1>0, <2>1, <2>2, <2>3
    <3>3. s + n \in Unused
      BY <2>2, <3>1, <3>2, UnusedRuns
    <3> QED BY <2>1, <3>3
  <2> QED BY <1>0, <2>2, <2>3, <2>4, <2>5 DEF after
<1>2. ASSUME s \in H, m[s] < 0, n = -m[s]
      PROVE  FreeRun(s, n)
  <2>1. /\ m[s] \in Int /\ after(m, s) = s + n /\ n > 0 /\ Run(H, m, s)
    BY <1>0, <1>2, RunEnds DEF after
  <2>2. s .. s + n - 1 \subseteq Unused
    <3> SUFFICES ASSUME NEW j \in s .. s + n - 1 PROVE j \in Unused
      OBVIOUS
    <3>1. j \in Int /\ s <= j /\ j < after(m, s)
      BY <1>0, <2>1
    <3> QED BY <1>2, <3>1, UnusedRuns
  <2>3. s - 1 \notin Unused
    <3>1. CASE s = 0
      BY <3>1, BlockRange DEF Unused
    <3>2. CASE s # 0
      <4>1. PICK g \in H : after(m, g) = s /\ g < s /\ m[s - 1] = m[g]
        <5>1. \A K, f : Tiled(K, f) =>
                \A e \in K : e # 0 =>
                  \E g \in K : after(f, g) = e /\ g < e /\ f[e - 1] = f[g]
          BY RunBefore
        <5>2. Tiled(H, mem_index) /\ s \in H /\ s # 0
          BY <1>0, <1>2, <3>2
        <5>3. \A e \in H : e # 0 => \E g \in H :
                after(mem_index, g) = e /\ g < e /\ mem_index[e - 1] = mem_index[g]
          BY <5>1, <5>2
        <5> QED BY <5>2, <5>3
      <4>2. g \in Int /\ m[g] \in Int
        BY <1>0, RunEnds
      <4>3. ~(m[g] < 0)
        BY <1>0, <1>2, <2>1, <4>1 DEF Tiled, Apart
      <4>4. s - 1 \in Int /\ g <= s - 1 /\ s - 1 < after(m, g)
        BY <1>0, <4>1, <4>2
      <4> QED BY <4>3, <4>4, UnusedRuns
    <3> QED BY <3>1, <3>2
  <2>4. s + n \notin Unused
    <3>1. CASE s + n \in H
      <4>1. m[s + n] > 0
        BY <1>0, <1>2, <2>1, <3>1 DEF Tiled, Apart
      <4>2. s + n \in Int /\ m[s + n] \in Int /\ s + n < after(m, s + n)
        BY <1>0, <2>1, <3>1, RunEnds
      <4>3. ~(m[s + n] < 0) /\ s + n <= s + n
        BY <4>1, <4>2
      <4> QED BY <3>1, <4>2, <4>3, UnusedRuns
    <3>2. CASE s + n = n_mem_blocks
      BY <3>2, NotIn DEF Unused
    <3> QED BY <2>1, <3>1, <3>2 DEF Run
  <2> QED BY <2>1, <2>2, <2>3, <2>4 DEF FreeRun
<1> QED BY <1>1, <1>2

\* A block in the run at h is the first, the last or inside.
LEMMA EntryOf ==
  ASSUME NEW H \in SUBSET Block, Exact(H), NEW h \in H, NEW j \in Block,
         h <= j, j < after(mem_index, h)
  PROVE  \/ j \in {h, after(mem_index, h) - 1} /\ mem_index[j] = mem_index[h]
         \/ h < j /\ j < after(mem_index, h) - 1 /\ mem_index[j] = 0
<1>1. Tiled(H, mem_index)
  BY DEF Exact
<1>2. /\ Run(H, mem_index, h) /\ h \in Int /\ after(mem_index, h) \in Int
      /\ j \in Int
  BY <1>1, RunEnds, BlockRange
<1> QED BY <1>2 DEF Run

\* __mem_free refuses a block nobody holds, but for those it takes for a start:
\* the entry is the foot of a used run, and the one a length further on is not.
LEMMA Refused ==
  ASSUME NEW H \in SUBSET Block, Exact(H), NEW e \in Block, e \notin DOMAIN held,
         ~TakenForStart(e), NEW b \in Beyond
  PROVE  free_result(e, b) # 0
<1> DEFINE m == mem_index
<1>1. Tiled(H, m) /\ m[e] \in Int /\ e \in Int /\ e # 0
  BY BlockRange DEF Exact, Tiled, TakenForStart
<1>2. CASE m[e] <= 0
  BY <1>1, <1>2 DEF free_result, FREE_NOT_ALLOCED
<1>3. CASE ~(m[e] <= 0)
  <2> DEFINE n == m[e]
             far == e + n - 1
  <2>0. n \in Int /\ n > 0 /\ far \in Int
    BY <1>1, <1>3
  <2>1. PICK h \in H : h <= e /\ e < after(m, h)
    BY RunOf
  <2>2. e \in {h, after(m, h) - 1} /\ m[h] = n
    BY <1>3, <2>1, EntryOf
  <2>3. h \in DOMAIN used /\ used[h] = n /\ h + n = after(m, h) /\ h \in Int
    BY <2>0, <2>1, <2>2, UsedRuns, RunEnds, <1>1
  <2>4. h # e
    BY <1>1, <2>0, <2>1 DEF Exact
  <2>5. e = h + n - 1
    BY <2>0, <2>2, <2>3, <2>4
  <2>6. ~(far \in DOMAIN used /\ used[far] = n)
    BY <2>3, <2>4, <2>5 DEF TakenForStart
  <2>7. ~(far \notin Block /\ n \in Beyond)
    BY <2>3, <2>4, <2>5 DEF TakenForStart
  <2>8. ASSUME far \in Block, m[far] = n
        PROVE  FALSE
    <3>1. PICK g \in H : g <= far /\ far < after(m, g)
      BY <2>8, RunOf
    <3>2. far \in {g, after(m, g) - 1} /\ m[g] = n
      BY <2>0, <2>8, <3>1, EntryOf
    <3>3. g \in DOMAIN used /\ used[g] = n /\ g + n = after(m, g) /\ g \in Int
      BY <2>0, <3>1, <3>2, UsedRuns, RunEnds, <1>1
    <3>4. g # far
      BY <2>6, <3>3
    <3>5. g = e /\ e < after(m, g)
      BY <1>1, <2>0, <3>2, <3>3, <3>4
    <3>6. g <= e
      BY <1>1, <3>5
    <3>7. g = h
      BY <1>1, <2>1, <3>5, <3>6, OneRun
    <3> QED BY <2>4, <3>5, <3>7
  <2>9. n # entry(far, b)
    BY <2>7, <2>8 DEF entry
  <2>10. /\ ~(mem_index[e] <= 0) /\ mem_index[e] > 0
         /\ mem_index[e] # entry(e + mem_index[e] - 1, b)
    BY <1>3, <2>0, <2>9
  <2> QED BY <2>10 DEF free_result, FREE_NOT_START_OF_ALLOC
<1> QED BY <1>2, <1>3

-----------------------------------------------------------------------------
(* The invariant holds.                                                    *)

\* Every caller asks for at least one block.
NoEmptyRequest == 0 \notin Requests

LEMMA MemInvInit == Init => MemInv
<1> SUFFICES ASSUME Init PROVE MemInv
  OBVIOUS
<1> DEFINE u == mem_index_len_in_blocks
           N == n_mem_blocks
           f == N - u
           k == u - 1
           l == N - 1
           v == -f
           m0 == [j \in Block |-> 0]
           m1 == write2(m0, 0, u, k, u)
           m == write2(m1, u, v, l, v)
           H == {0, u}
<1>1. /\ u \in Int /\ N \in Int /\ 0 < u /\ u < N /\ v = u - N /\ v \in Int /\ v < 0
      /\ k = u - 1 /\ l = N - 1
      /\ 0 \in Block /\ u \in Block /\ k \in Block /\ l \in Block
      /\ \A j \in Block : j \in Int /\ 0 <= j /\ j < N
  BY MemAssumption, BlockRange
<1>2. mem_index = m
  BY DEF Init, write2
<1>3. m0 \in [Block -> Int] /\ \A j \in Block : m0[j] = 0
  OBVIOUS
<1>4. /\ request = None /\ i = 0 /\ ptr = None /\ result = 0 /\ halted = "no"
      /\ DOMAIN held = {}
  BY DEF Init
<1> HIDE DEF m0, m1, m, u, N, k, l, v
<1>5. /\ m1 \in [Block -> Int]
      /\ \A j \in Block : m1[j] = IF j = k THEN u ELSE IF j = 0 THEN u ELSE m0[j]
  BY <1>1, <1>3, TwoWrites DEF m1
<1>6. /\ m \in [Block -> Int]
      /\ \A j \in Block : m[j] = IF j = l THEN v ELSE IF j = u THEN v ELSE m1[j]
  BY <1>1, <1>5, TwoWrites DEF m
<1>7. /\ m[0] = u /\ m[k] = u /\ m[u] = v /\ m[l] = v
      /\ \A j \in Block : j # 0 /\ j # k /\ j # u /\ j # l => m[j] = 0
  BY <1>1, <1>3, <1>5, <1>6
<1>8. after(m, 0) = u /\ after(m, u) = N
  BY <1>1, <1>7 DEF after
<1>9. Run(H, m, 0)
  <2>1. \A j \in Block : 0 < j /\ j < u - 1 => m[j] = 0
    BY <1>1, <1>7
  <2> QED BY <1>1, <1>7, <1>8, <2>1 DEF Run, N
<1>10. Run(H, m, u)
  <2>1. \A j \in Block : u < j /\ j < N - 1 => m[j] = 0
    BY <1>1, <1>7
  <2>2. N <= n_mem_blocks /\ N = n_mem_blocks
    BY <1>1 DEF N
  <2>3. m[N - 1] = m[u] /\ m[u] # 0
    BY <1>1, <1>7
  <2>4. \A g \in H : u < g => N <= g
    BY <1>1
  <2> QED BY <1>8, <2>1, <2>2, <2>3, <2>4 DEF Run
<1>11. Apart(H, m)
  <2>1. N \notin H
    BY <1>1
  <2>2. ~(m[0] < 0)
    BY <1>1, <1>7
  <2> QED BY <1>8, <2>1, <2>2 DEF Apart
<1>12. Covered(H, m)
  BY <1>1, <1>8 DEF Covered
<1>13. Tiled(H, m) /\ H \in SUBSET Block
  BY <1>1, <1>6, <1>9, <1>10, <1>11, <1>12 DEF Tiled
<1>14. {h \in H : h # 0 /\ m[h] > 0} = {}
  BY <1>1, <1>7
<1>15. Exact(H)
  BY <1>2, <1>4, <1>7, <1>13, <1>14 DEF Exact, u
<1>16. MemTyped
  BY <1>1, <1>4 DEF MemTyped, None
<1> HIDE DEF H
<1>17. Walk(H) /\ Ended(H)
  BY <1>4 DEF Walk, Ended
<1> QED BY <1>13, <1>15, <1>16, <1>17 DEF MemInv

LEMMA AllocTakeStep ==
  ASSUME NoEmptyRequest, MemInv, AllocTake
  PROVE  MemInv'
<1>0. PICK H \in SUBSET Block : Exact(H) /\ Walk(H) /\ Ended(H)
  BY DEF MemInv
<1> DEFINE at == past_used
<1>1. /\ MemTyped /\ request # None /\ i < n_mem_blocks /\ i \in Nat
      /\ request \in Requests /\ request \in Nat /\ request > 0
  BY MemAssumption DEF MemInv, MemTyped, AllocTake, NoEmptyRequest
<1>2. at \in H \/ at = n_mem_blocks
  BY <1>0, <1>1, WalkPlace
<1>3. CASE at \in Block
  <2>1. at \in H
    BY <1>2, <1>3, NotIn
  <2>2. /\ mem_index[at] < 0 /\ fits(-mem_index[at], request)
        /\ mem_index' = taken(at, -mem_index[at], request)
        /\ held' = [s \in DOMAIN held \cup {at} |-> IF s = at THEN request ELSE held[s]]
        /\ result' = at /\ request' = None /\ i' = 0 /\ ptr' = ptr
        /\ halted' = halted /\ halted = "no"
    BY <1>3 DEF AllocTake, entry
  <2>3. mem_index[at] \in Int
    BY <1>0, <2>1, RunEnds DEF Exact
  <2>4. request <= -mem_index[at]
    BY <1>1, <2>2, <2>3 DEF fits
  <2> HIDE DEF at
  <2>5. PICK H2 \in SUBSET Block : Exact(H2)'
    BY <1>0, <1>1, <2>1, <2>2, <2>4, TakenExact
  <2>6. Walk(H2)' /\ Ended(H2)'
    BY <2>2 DEF Walk, Ended
  <2>7. \A s \in DOMAIN held' : held'[s] \in Requests
    BY <1>1, <2>2 DEF MemTyped
  <2>8. MemTyped'
    BY <1>1, <1>3, <2>2, <2>7 DEF MemTyped
  <2> QED BY <2>5, <2>6, <2>8 DEF MemInv
<1>4. CASE at \notin Block
  <2>1. at = n_mem_blocks /\ Short(H, n_mem_blocks)
    <3>1. at = n_mem_blocks
      BY <1>2, <1>4
    <3> QED BY <1>0, <1>1, <3>1, WalkPlace
  <2>2. Halt("corrupt")
    BY <1>4 DEF AllocTake
  <2>3. Exact(H)' /\ Walk(H)' /\ Ended(H)'
    BY <1>0, <2>1, <2>2 DEF Halt, Exact, Walk, Ended, Short
  <2>4. MemTyped'
    BY <1>1, <2>2 DEF MemTyped, Halt
  <2> QED BY <2>3, <2>4 DEF MemInv
<1> QED BY <1>3, <1>4

\* The cursor moves on, or the machine ends, at block j.
LEMMA AdvanceStep ==
  ASSUME MemTyped, NEW H \in SUBSET Block, Exact(H), Walk(H), NEW j \in Nat,
         j \in H \/ n_mem_blocks <= j, Short(H, j),
         \/ i' = j /\ UNCHANGED <<mem_index, request, ptr, result, held, halted>>
         \/ n_mem_blocks <= j /\ Halt("panic"),
         halted = "no"
  PROVE  MemInv'
<1>1. CASE i' = j /\ UNCHANGED <<mem_index, request, ptr, result, held, halted>>
  <2>1. Exact(H)' /\ Walk(H)' /\ Ended(H)'
    BY <1>1 DEF Exact, Walk, Ended, Short
  <2>2. MemTyped'
    BY <1>1 DEF MemTyped
  <2> QED BY <2>1, <2>2 DEF MemInv
<1>2. CASE n_mem_blocks <= j /\ Halt("panic")
  <2>1. Short(H, n_mem_blocks)
    BY <1>2, ShortAll
  <2>2. Exact(H)' /\ Walk(H)' /\ Ended(H)'
    BY <1>2, <2>1 DEF Halt, Exact, Walk, Ended, Short
  <2>3. MemTyped'
    BY <1>2 DEF Halt, MemTyped
  <2> QED BY <2>2, <2>3 DEF MemInv
<1> QED BY <1>1, <1>2

LEMMA AllocSkipStep ==
  ASSUME MemInv, AllocSkip
  PROVE  MemInv'
<1>0. PICK H \in SUBSET Block : Exact(H) /\ Walk(H) /\ Ended(H)
  BY DEF MemInv
<1> DEFINE at == past_used
<1>1. /\ MemTyped /\ request # None /\ i < n_mem_blocks /\ i \in Nat /\ halted = "no"
      /\ request \in Int
  BY MemAssumption DEF MemInv, MemTyped, AllocSkip
<1>2. (at \in H \/ at = n_mem_blocks) /\ Short(H, at) /\ at \in Int
  BY <1>0, <1>1, WalkPlace
<1>3. PICK b \in Beyond, b2 \in Beyond :
        LET short == entry(at, b) < 0
            next == IF short THEN at - entry(at, b) ELSE at
            word == IF short THEN entry(next, b2) ELSE entry(at, b)
        IN /\ short => ~fits(-entry(at, b), request)
           /\ IF word = 0
              THEN Halt("panic")
              ELSE i' = next /\ UNCHANGED <<mem_index, request, ptr, result, held, halted>>
  BY DEF AllocSkip
<1>4. b \in Int /\ b2 \in Int
  BY MemAssumption
<1>5. CASE at \in H
  <2>1. /\ at \in Block /\ mem_index[at] \in Int /\ mem_index[at] # 0 /\ at \in Nat
        /\ after(mem_index, at) \in Int /\ at < after(mem_index, at)
        /\ Run(H, mem_index, at) /\ Tiled(H, mem_index)
    BY <1>0, <1>5, RunEnds, BlockRange DEF Exact, Run
  <2>2. entry(at, b) = mem_index[at]
    BY <2>1 DEF entry
  <2>3. CASE mem_index[at] < 0
    <3> DEFINE next == after(mem_index, at)
    <3>1. next = at - mem_index[at]
      BY <2>3 DEF after
    <3>2. -mem_index[at] < request
      BY <1>1, <1>3, <2>1, <2>2, <2>3 DEF fits
    <3>3. IF entry(next, b2) = 0
          THEN Halt("panic")
          ELSE i' = next /\ UNCHANGED <<mem_index, request, ptr, result, held, halted>>
      BY <1>3, <2>2, <2>3, <3>1
    <3>4. next \in H \/ next = n_mem_blocks
      BY <2>1 DEF Run
    <3>5. Short(H, next)
      <4> SUFFICES ASSUME NEW h \in H, h < next, mem_index[h] < 0
                   PROVE  -mem_index[h] < request
        BY DEF Short
      <4>1. h \in Int
        BY <2>1, RunEnds
      <4>2. ~(at < h)
        BY <2>1, <4>1 DEF Run
      <4>3. CASE h < at
        BY <1>2, <4>3 DEF Short
      <4>4. CASE h = at
        BY <3>2, <4>4
      <4> QED BY <1>2, <4>1, <4>2, <4>3, <4>4
    <3>6. next \in Nat
      BY <2>1
    <3>7. next \in H => entry(next, b2) # 0
      <4>1. next \in H => next \in Block /\ mem_index[next] # 0
        BY <2>1, RunEnds DEF Run
      <4> QED BY <4>1 DEF entry
    <3> HIDE DEF next
    <3>8. n_mem_blocks <= n_mem_blocks
      BY BlockRange
    <3> QED BY <1>0, <1>1, <3>3, <3>4, <3>5, <3>6, <3>7, <3>8, AdvanceStep
  <2>4. CASE ~(mem_index[at] < 0)
    <3>1. i' = at /\ UNCHANGED <<mem_index, request, ptr, result, held, halted>>
      BY <1>3, <2>1, <2>2, <2>4
    <3> HIDE DEF at
    <3> QED BY <1>0, <1>1, <1>2, <1>5, <2>1, <3>1, AdvanceStep
  <2> QED BY <2>3, <2>4
<1>6. CASE at = n_mem_blocks
  <2>1. entry(at, b) = b
    BY <1>6, NotIn DEF entry
  <2>2. PICK next \in Nat :
          /\ n_mem_blocks <= next
          /\ \/ Halt("panic")
             \/ i' = next /\ UNCHANGED <<mem_index, request, ptr, result, held, halted>>
    <3>1. CASE b < 0
      <4>1. at - b \in Nat /\ n_mem_blocks <= at - b
        BY <1>4, <1>6, <3>1, BlockRange
      <4>2. \/ Halt("panic")
            \/ i' = at - b /\ UNCHANGED <<mem_index, request, ptr, result, held, halted>>
        BY <1>3, <2>1, <3>1
      <4> QED BY <4>1, <4>2
    <3>2. CASE ~(b < 0)
      <4>1. at \in Nat /\ n_mem_blocks <= at
        BY <1>6, BlockRange
      <4>2. \/ Halt("panic")
            \/ i' = at /\ UNCHANGED <<mem_index, request, ptr, result, held, halted>>
        BY <1>3, <2>1, <3>2
      <4> QED BY <4>1, <4>2
    <3> QED BY <3>1, <3>2
  <2>3. Short(H, next)
    BY <1>2, <1>6, <2>2, ShortAll
  <2> QED BY <1>0, <1>1, <2>2, <2>3, AdvanceStep
<1> QED BY <1>2, <1>5, <1>6

LEMMA MemInvNext == NoEmptyRequest /\ MemInv /\ OneCall /\ [Next]_vars => MemInv'
<1> SUFFICES ASSUME NoEmptyRequest, MemInv, OneCall, [Next]_vars PROVE MemInv'
  OBVIOUS
<1>0. PICK H \in SUBSET Block : Exact(H) /\ Walk(H) /\ Ended(H)
  BY DEF MemInv
<1>1. MemTyped
  BY DEF MemInv
<1>2. ASSUME NEW nblocks \in Requests, Alloc(nblocks)
      PROVE  MemInv'
  <2>1. /\ request' = nblocks /\ i' = 0 /\ halted' = "no"
        /\ UNCHANGED <<mem_index, ptr, result, held, halted>>
    BY <1>2 DEF Alloc, Idle
  <2>2. 0 \in H /\ \A h \in H : ~(h < 0)
    BY <1>0, BlockRange DEF Exact, Tiled
  <2>3. Exact(H)' /\ Walk(H)' /\ Ended(H)'
    BY <1>0, <2>1, <2>2 DEF Exact, Walk, Ended, Short
  <2>4. MemTyped'
    BY <1>1, <2>1 DEF MemTyped
  <2> QED BY <2>3, <2>4 DEF MemInv
<1>3. CASE AllocTake
  BY <1>3, AllocTakeStep
<1>4. CASE AllocSkip
  BY <1>4, AllocSkipStep
<1>5. ASSUME UNCHANGED <<mem_index, held, halted>>,
             \/ request' = request /\ i' = i
             \/ request' = None /\ i' = 0 /\ halted = "no",
             ptr' \in Pointer \cup {None},
             result' \in Block \cup FREE_NOT_START_OF_ALLOC .. 0
      PROVE  MemInv'
  <2>1. Exact(H)' /\ Walk(H)' /\ Ended(H)'
    BY <1>0, <1>5 DEF Exact, Walk, Ended, Short
  <2>2. MemTyped'
    BY <1>1, <1>5 DEF MemTyped
  <2> QED BY <2>1, <2>2 DEF MemInv
<1>6. CASE AllocFail
  <2>1. 0 \in FREE_NOT_START_OF_ALLOC .. 0
    BY DEF FREE_NOT_START_OF_ALLOC
  <2> QED BY <1>1, <1>5, <1>6, <2>1 DEF AllocFail, MemTyped
<1>7. ASSUME NEW e \in Block, FreeBlock(e)
      PROVE  MemInv'
  <2>1. PICK b \in Beyond :
          /\ result' = free_result(e, b)
          /\ IF free_result(e, b) # 0
             THEN UNCHANGED <<mem_index, held>>
             ELSE /\ mem_index' = freed(e)
                  /\ held' = [s \in DOMAIN held \ {e} |-> held[s]]
    BY <1>7 DEF FreeBlock
  <2>2. /\ ptr = e /\ ptr' = None /\ UNCHANGED <<request, i, halted>> /\ halted = "no"
    BY <1>7 DEF FreeBlock
  <2>a. ptr # None /\ request = None /\ ~TakenForStart(e)
    BY <2>2, BlockRange DEF OneCall, None
  <2>b. e \in DOMAIN held \/ free_result(e, b) # 0
    BY <1>0, <2>a, Refused
  <2>3. free_result(e, b) \in FREE_NOT_START_OF_ALLOC .. 0
    BY DEF free_result, FREE_NOT_START_OF_ALLOC, FREE_NOT_ALLOCED
  <2>4. CASE free_result(e, b) # 0
    BY <1>5, <2>1, <2>2, <2>3, <2>4
  <2>5. CASE free_result(e, b) = 0
    <3>1. e \in DOMAIN held /\ mem_index' = freed(e)
          /\ held' = [s \in DOMAIN held \ {e} |-> held[s]]
      BY <2>1, <2>b, <2>5
    <3>2. PICK H2 \in SUBSET Block : Exact(H2)'
      BY <1>0, <3>1, FreedExact
    <3>3. Walk(H2)' /\ Ended(H2)'
      BY <2>2, <2>a DEF Walk, Ended
    <3>4. \A s \in DOMAIN held' : held'[s] \in Requests
      BY <1>1, <3>1 DEF MemTyped
    <3>5. MemTyped'
      BY <1>1, <2>1, <2>2, <2>3, <3>4 DEF MemTyped
    <3> QED BY <3>2, <3>3, <3>5 DEF MemInv
  <2> QED BY <2>4, <2>5
<1>8. CASE FreeElsewhere
  <2>1. result' \in FREE_NOT_START_OF_ALLOC .. 0
    BY <1>8 DEF FreeElsewhere, FREE_NOT_START_OF_ALLOC, FREE_OUT_OF_HEAP,
       FREE_NOT_BLOCK_ALLIGNED
  <2> QED BY <1>5, <1>8, <2>1 DEF FreeElsewhere
<1>9. CASE Off \/ UNCHANGED vars
  <2>1. UNCHANGED <<mem_index, i, held, halted, request, ptr, result>>
    BY <1>9 DEF Off, vars
  <2>2. ptr' \in Pointer \cup {None} /\ result' \in Block \cup FREE_NOT_START_OF_ALLOC .. 0
    BY <1>1, <2>1 DEF MemTyped
  <2> QED BY <1>5, <2>1, <2>2
<1>10. ASSUME NEW p \in Pointer, Free(p)
       PROVE  MemInv'
  <2>1. ptr' = p /\ UNCHANGED <<mem_index, request, i, result, held, halted>>
    BY <1>10 DEF Free
  <2> QED BY <1>1, <1>5, <2>1 DEF MemTyped
<1> QED BY <1>2, <1>3, <1>4, <1>6, <1>7, <1>8, <1>9, <1>10 DEF Next, AllocStep

LEMMA OneCallInit == Init => OneCall
BY DEF Init, OneCall

LEMMA OneCallNext == OneCall /\ [Next]_vars => OneCall'
<1> SUFFICES ASSUME OneCall, [Next]_vars PROVE OneCall'
  OBVIOUS
<1>1. ASSUME UNCHANGED <<ptr, held>>, request' \in {request, None}
      PROVE  OneCall'
  BY <1>1 DEF OneCall, TakenForStart, used
<1>2. ASSUME ptr' = None PROVE OneCall'
  BY <1>2 DEF OneCall
<1>3. CASE \E nblocks \in Requests : Alloc(nblocks)
  BY <1>2, <1>3 DEF Alloc, Idle
<1>4. CASE AllocStep
  <2>1. ptr = None /\ ptr' = ptr
    BY <1>4 DEF AllocStep, AllocTake, AllocSkip, AllocFail, Halt, OneCall
  <2> QED BY <1>2, <2>1
<1>5. ASSUME NEW p \in Pointer, Free(p)
      PROVE  OneCall'
  BY <1>5 DEF Free, Idle, OneCall, TakenForStart, used
<1>6. CASE \E e \in Block : FreeBlock(e)
  BY <1>2, <1>6 DEF FreeBlock
<1>7. CASE FreeElsewhere
  BY <1>2, <1>7 DEF FreeElsewhere
<1>8. CASE Off \/ UNCHANGED vars
  BY <1>1, <1>8 DEF Off, vars
<1> QED BY <1>3, <1>4, <1>5, <1>6, <1>7, <1>8 DEF Next

-----------------------------------------------------------------------------
(* What the invariant gives.                                               *)

LEMMA Typed == MemInv => TypeOK
<1> SUFFICES ASSUME MemInv PROVE TypeOK
  OBVIOUS
<1>0. PICK H \in SUBSET Block : Exact(H)
  BY DEF MemInv
<1>1. Tiled(H, mem_index) /\ mem_index \in [Block -> Int] /\ DOMAIN held \subseteq Block
  BY <1>0 DEF Exact, Tiled
<1>2. ASSUME NEW j \in Block
      PROVE  mem_index[j] \in -n_mem_blocks .. n_mem_blocks
  <2>1. PICK h \in H : h <= j /\ j < after(mem_index, h)
    BY <1>0, RunOf
  <2>2. /\ h \in Int /\ 0 <= h /\ mem_index[h] \in Int
        /\ after(mem_index, h) <= n_mem_blocks /\ after(mem_index, h) \in Int
    BY <1>1, RunEnds, BlockRange
  <2>3. mem_index[h] \in -n_mem_blocks .. n_mem_blocks
    BY <2>2, BlockRange DEF after
  <2>4. mem_index[j] = mem_index[h] \/ mem_index[j] = 0
    BY <1>0, <2>1, EntryOf
  <2> QED BY <2>3, <2>4, BlockRange
<1>3. mem_index \in [Block -> -n_mem_blocks .. n_mem_blocks]
  BY <1>1, <1>2
<1> QED BY <1>1, <1>3 DEF MemInv, MemTyped, TypeOK

LEMMA Disjoint == MemInv => NoOverlap
<1> SUFFICES ASSUME MemInv, NEW r \in DOMAIN used, NEW s \in DOMAIN used
             PROVE  /\ s + used[s] <= n_mem_blocks
                    /\ r < s => r + used[r] <= s
  BY DEF NoOverlap
<1>0. PICK H \in SUBSET Block : Exact(H)
  BY DEF MemInv
<1>1. /\ r \in H /\ s \in H
      /\ s + used[s] = after(mem_index, s) /\ r + used[r] = after(mem_index, r)
  BY <1>0, UsedRuns
<1>2. after(mem_index, s) <= n_mem_blocks /\ Run(H, mem_index, r)
  BY <1>0, <1>1, RunEnds DEF Exact
<1> QED BY <1>1, <1>2 DEF Run

LEMMA Described == MemInv => IndexExact
<1>0. SUFFICES ASSUME MemInv, NEW j \in Block
               PROVE  \/ \E s \in DOMAIN used : /\ j \in {s, s + used[s] - 1}
                                                /\ mem_index[j] = used[s]
                      \/ \E s \in Block, n \in 1 .. n_mem_blocks :
                           FreeRun(s, n) /\ j \in {s, s + n - 1} /\ mem_index[j] = -n
                      \/ /\ mem_index[j] = 0
                         /\ \/ \E s \in DOMAIN used : s < j /\ j < s + used[s] - 1
                            \/ {j - 1, j, j + 1} \subseteq Unused
  BY DEF IndexExact
<1>1. PICK H \in SUBSET Block : Exact(H)
  BY <1>0 DEF MemInv
<1>2. PICK h \in H : h <= j /\ j < after(mem_index, h)
  BY <1>1, RunOf
<1> DEFINE a == after(mem_index, h)
<1>3. /\ h \in Block /\ h \in Int /\ a \in Int /\ j \in Int /\ a <= n_mem_blocks
      /\ 0 <= h /\ mem_index[h] \in Int /\ mem_index[h] # 0
  BY <1>1, RunEnds, BlockRange DEF Exact, Run
<1>4. \/ j \in {h, a - 1} /\ mem_index[j] = mem_index[h]
      \/ h < j /\ j < a - 1 /\ mem_index[j] = 0
  BY <1>1, <1>2, EntryOf
<1>5. CASE mem_index[h] > 0
  <2>1. h \in DOMAIN used /\ used[h] = mem_index[h] /\ h + used[h] = a
    BY <1>1, <1>5, UsedRuns
  <2>2. h + used[h] - 1 = a - 1
    BY <1>3, <2>1
  <2> HIDE DEF a
  <2> QED BY <1>4, <2>1, <2>2
<1>6. CASE mem_index[h] < 0
  <2> DEFINE n == -mem_index[h]
  <2>1. n \in 1 .. n_mem_blocks /\ h + n = a /\ h + n - 1 = a - 1 /\ n \in Int
        /\ mem_index[h] = -n
    BY <1>3, <1>6, BlockRange DEF after
  <2>2. FreeRun(h, n)
    BY <1>1, <1>3, <1>6, <2>1, FreeRuns
  <2>3. h < j /\ j < a - 1 => {j - 1, j, j + 1} \subseteq Unused
    <3>1. SUFFICES ASSUME h < j, j < a - 1, NEW k \in {j - 1, j, j + 1}
                   PROVE  k \in Unused
      OBVIOUS
    <3>2. k \in Int /\ h <= k /\ k < a
      BY <1>3, <3>1
    <3> QED BY <1>1, <1>6, <3>2, UnusedRuns
  <2> HIDE DEF a, n
  <2> QED BY <1>3, <1>4, <2>1, <2>2, <2>3
<1> QED BY <1>3, <1>5, <1>6

LEMMA Exhausted == MemInv => StopsOnlyWhenFull
<1> SUFFICES ASSUME MemInv, halted # "no", NEW s \in Block, NEW n \in 1 .. n_mem_blocks,
                    FreeRun(s, n)
             PROVE  n < request
  BY DEF StopsOnlyWhenFull
<1>0. PICK H \in SUBSET Block : Exact(H) /\ Ended(H)
  BY DEF MemInv
<1>1. s \in H /\ mem_index[s] < 0 /\ n = -mem_index[s]
  BY <1>0, FreeRuns
<1>2. s < n_mem_blocks
  BY BlockRange
<1> QED BY <1>0, <1>1, <1>2 DEF Ended, Short

-----------------------------------------------------------------------------
(* First fit.                                                              *)

\* What can be handed out is what is unused.
LEMMA FitsUnused ==
  ASSUME NEW H \in SUBSET Block, Exact(H), NEW s \in Int, NEW n \in Int, n > 0
  PROVE  HeapSpec!Fits(s, n) <=> s .. s + n - 1 \subseteq Unused
<1>1. /\ mem_index_len_in_blocks \in Int /\ 0 < mem_index_len_in_blocks
      /\ \A j : j \in Block <=> j \in Int /\ 0 <= j /\ j < n_mem_blocks
      /\ n_mem_blocks \in Int
  BY MemAssumption, BlockRange
<1>2. /\ DOMAIN used = DOMAIN held \cup {0} /\ 0 \notin DOMAIN held
      /\ used[0] = mem_index_len_in_blocks
      /\ \A h \in DOMAIN held : used[h] = held[h]
  BY DEF used, Exact
<1>3. \A j \in Int : Covers(0, j) <=> 0 <= j /\ j < mem_index_len_in_blocks
  BY <1>1, <1>2 DEF Covers
<1>4. \A j : \A h \in DOMAIN held : Covers(h, j) <=> j \in HeapSpec!Run(h, held[h])
  BY <1>2 DEF Covers, HeapSpec!Run
<1>5. \A j : j \in Unused <=>
        /\ j \in mem_index_len_in_blocks .. n_mem_blocks - 1
        /\ \A h \in DOMAIN held : j \notin HeapSpec!Run(h, held[h])
  <2>1. \A j : j \in Unused <=> /\ j \in Block /\ ~Covers(0, j)
                                /\ \A h \in DOMAIN held : ~Covers(h, j)
    BY <1>2 DEF Unused
  <2>2. \A j : j \in Block /\ ~Covers(0, j) <=>
                 j \in mem_index_len_in_blocks .. n_mem_blocks - 1
    BY <1>1, <1>3
  <2> QED BY <1>4, <2>1, <2>2
<1>6. HeapSpec!Fits(s, n) <=>
        /\ HeapSpec!Run(s, n) \subseteq mem_index_len_in_blocks .. n_mem_blocks - 1
        /\ \A h \in DOMAIN held : HeapSpec!Run(s, n) \cap HeapSpec!Run(h, held[h]) = {}
  BY DEF HeapSpec!Fits
<1>7. HeapSpec!Fits(s, n) <=> HeapSpec!Run(s, n) \subseteq Unused
  BY <1>5, <1>6
<1> QED BY <1>7 DEF HeapSpec!Run

\* Where the walk has passed only short runs, the request fits nowhere.
LEMMA NoFitBefore ==
  ASSUME NEW H \in SUBSET Block, Exact(H), NEW j \in Int, Short(H, j),
         request \in Int, request > 0, NEW r \in Int, r < j
  PROVE  ~HeapSpec!Fits(r, request)
<1>1. SUFFICES ASSUME HeapSpec!Fits(r, request) PROVE FALSE
  OBVIOUS
<1>2. PICK h \in H : /\ mem_index[h] < 0 /\ h <= r
                     /\ r + request <= after(mem_index, h)
  BY <1>1, FitsUnused, UnusedInOne
<1>3. h \in Int /\ mem_index[h] \in Int /\ after(mem_index, h) = h - mem_index[h]
  BY <1>2, RunEnds DEF Exact, after
<1>4. -mem_index[h] < request
  BY <1>2, <1>3 DEF Short
<1> QED BY <1>2, <1>3, <1>4

LEMMA TakeFirst ==
  ASSUME NoEmptyRequest, MemInv, AllocTake
  PROVE  HeapSpec!Next \/ UNCHANGED HeapSpec!heap_vars
<1>0. PICK H \in SUBSET Block : Exact(H) /\ Walk(H)
  BY DEF MemInv
<1> DEFINE at == past_used
<1>1. /\ request # None /\ i < n_mem_blocks /\ i \in Nat
      /\ request \in Requests /\ request \in Int /\ request > 0
  BY MemAssumption DEF MemInv, MemTyped, AllocTake, NoEmptyRequest
<1>2. (at \in H \/ at = n_mem_blocks) /\ at \in Int /\ Short(H, at)
  BY <1>0, <1>1, WalkPlace
<1>3. CASE at \in Block
  <2>1. at \in H
    BY <1>2, <1>3, NotIn
  <2>2. /\ mem_index[at] < 0 /\ fits(-mem_index[at], request)
        /\ held' = [s \in DOMAIN held \cup {at} |-> IF s = at THEN request ELSE held[s]]
        /\ result' = at /\ request' = None /\ UNCHANGED ptr
    BY <1>3 DEF AllocTake, entry
  <2> HIDE DEF at
  <2>3. mem_index[at] \in Int
    BY <1>0, <2>1, RunEnds DEF Exact
  <2>4. request <= -mem_index[at]
    BY <1>1, <2>2, <2>3 DEF fits
  <2>5. FreeRun(at, -mem_index[at])
    BY <1>0, <1>3, <2>1, <2>2, <2>3, FreeRuns
  <2>6. at .. at + request - 1 \subseteq Unused
    <3>1. at .. at + (-mem_index[at]) - 1 \subseteq Unused
      BY <2>5 DEF FreeRun
    <3>2. at .. at + request - 1 \subseteq at .. at + (-mem_index[at]) - 1
      BY <1>1, <1>2, <2>3, <2>4
    <3> QED BY <3>1, <3>2
  <2>7. HeapSpec!Fits(at, request)
    BY <1>0, <1>1, <1>2, <2>6, FitsUnused
  <2>8. at \in mem_index_len_in_blocks .. n_mem_blocks - 1
    <3>1. at \in HeapSpec!Run(at, request)
      BY <1>1, <1>2 DEF HeapSpec!Run
    <3> QED BY <2>7, <3>1 DEF HeapSpec!Fits
  <2>9. \A r \in mem_index_len_in_blocks .. n_mem_blocks - 1 :
          r < at => ~HeapSpec!Fits(r, request)
    <3> SUFFICES ASSUME NEW r \in mem_index_len_in_blocks .. n_mem_blocks - 1, r < at
                 PROVE  ~HeapSpec!Fits(r, request)
      OBVIOUS
    <3>1. r \in Int
      BY MemAssumption
    <3> QED BY <1>0, <1>1, <1>2, <3>1, NoFitBefore
  <2>10. HeapSpec!Take(at)
    BY <1>1, <2>2, <2>7, <2>9 DEF HeapSpec!Take
  <2> QED BY <2>8, <2>10 DEF HeapSpec!Next
<1>4. CASE at \notin Block
  BY <1>4 DEF AllocTake, Halt, HeapSpec!heap_vars
<1> QED BY <1>3, <1>4

LEMMA FailFull ==
  ASSUME NoEmptyRequest, MemInv, AllocFail
  PROVE  HeapSpec!Next
<1>0. PICK H \in SUBSET Block : Exact(H) /\ Walk(H)
  BY DEF MemInv
<1>1. /\ request # None /\ n_mem_blocks <= i /\ i \in Int
      /\ request \in Requests /\ request \in Int /\ request > 0
      /\ result' = 0 /\ request' = None /\ UNCHANGED <<held, ptr>>
  BY MemAssumption DEF MemInv, MemTyped, AllocFail, NoEmptyRequest
<1>2. Short(H, i)
  BY <1>0, <1>1 DEF Walk
<1>3. \A s \in mem_index_len_in_blocks .. n_mem_blocks - 1 : ~HeapSpec!Fits(s, request)
  <2> SUFFICES ASSUME NEW s \in mem_index_len_in_blocks .. n_mem_blocks - 1
               PROVE  ~HeapSpec!Fits(s, request)
    OBVIOUS
  <2>1. s \in Int /\ s < i
    BY <1>1, MemAssumption
  <2> QED BY <1>0, <1>1, <1>2, <2>1, NoFitBefore
<1>4. HeapSpec!Fail
  BY <1>1, <1>3 DEF HeapSpec!Fail
<1> QED BY <1>4 DEF HeapSpec!Next

LEMMA FreeGives ==
  ASSUME MemInv, OneCall, NEW e \in Block, FreeBlock(e)
  PROVE  HeapSpec!Next
<1>0. PICK H \in SUBSET Block : Exact(H)
  BY DEF MemInv
<1>1. PICK b \in Beyond :
        /\ result' = free_result(e, b)
        /\ IF free_result(e, b) # 0
           THEN UNCHANGED <<mem_index, held>>
           ELSE /\ mem_index' = freed(e)
                /\ held' = [s \in DOMAIN held \ {e} |-> held[s]]
  BY DEF FreeBlock
<1>a. ptr = e /\ ptr # None /\ ptr' = None /\ UNCHANGED request
  BY BlockRange DEF FreeBlock, None
<1>2. CASE e \in DOMAIN held
  <2>1. e \in H /\ mem_index[e] > 0 /\ Tiled(H, mem_index)
    BY <1>0, <1>2 DEF Exact
  <2>2. /\ mem_index[e] \in Int /\ e \in Int /\ after(mem_index, e) - 1 \in Block
        /\ mem_index[after(mem_index, e) - 1] = mem_index[e]
    BY <2>1, RunEnds DEF Run
  <2>3. after(mem_index, e) - 1 = e + mem_index[e] - 1
    BY <2>1, <2>2 DEF after
  <2>4. entry(e + mem_index[e] - 1, b) = mem_index[e]
    BY <2>2, <2>3 DEF entry
  <2>5. ~(mem_index[e] <= 0)
    BY <2>1, <2>2
  <2>6. free_result(e, b) = 0
    BY <2>4, <2>5 DEF free_result
  <2>7. result' = 0 /\ held' = [s \in DOMAIN held \ {e} |-> held[s]]
    BY <1>1, <2>6
  <2>8. HeapSpec!GiveBack
    BY <1>a, <1>2, <2>7 DEF HeapSpec!GiveBack
  <2> QED BY <2>8 DEF HeapSpec!Next
<1>3. CASE e \notin DOMAIN held
  <2>0. ~TakenForStart(e)
    BY <1>a DEF OneCall
  <2>1. free_result(e, b) # 0
    BY <1>0, <1>3, <2>0, Refused
  <2>2. free_result(e, b) < 0
    BY <2>1 DEF free_result, FREE_NOT_ALLOCED, FREE_NOT_START_OF_ALLOC
  <2>3. HeapSpec!Refuse
    BY <1>a, <1>1, <1>3, <2>1, <2>2 DEF HeapSpec!Refuse
  <2> QED BY <2>3 DEF HeapSpec!Next
<1> QED BY <1>2, <1>3

LEMMA StepServes ==
  NoEmptyRequest /\ MemInv /\ OneCall /\ [Next]_vars => [HeapSpec!Next]_HeapSpec!heap_vars
<1> SUFFICES ASSUME NoEmptyRequest, MemInv, OneCall, [Next]_vars
             PROVE  HeapSpec!Next \/ UNCHANGED HeapSpec!heap_vars
  OBVIOUS
<1>1. ASSUME NEW nblocks \in Requests, Alloc(nblocks)
      PROVE  HeapSpec!Next
  <2>1. HeapSpec!CallAlloc(nblocks)
    BY <1>1 DEF Alloc, Idle, HeapSpec!CallAlloc, HeapSpec!Idle
  <2> QED BY <2>1 DEF HeapSpec!Next
<1>2. CASE AllocTake
  BY <1>2, TakeFirst
<1>3. CASE AllocSkip
  BY <1>3 DEF AllocSkip, Halt, HeapSpec!heap_vars
<1>4. CASE AllocFail
  BY <1>4, FailFull
<1>5. ASSUME NEW p \in Pointer, Free(p)
      PROVE  HeapSpec!Next
  <2>1. HeapSpec!CallFree(p)
    BY <1>5 DEF Free, Idle, HeapSpec!CallFree, HeapSpec!Idle
  <2> QED BY <2>1 DEF HeapSpec!Next
<1>6. CASE \E e \in Block : FreeBlock(e)
  BY <1>6, FreeGives
<1>7. CASE FreeElsewhere
  <2>1. ptr \notin Block /\ ptr # None
    BY <1>7, BlockRange DEF FreeElsewhere, Outside, Unaligned, None
  <2>2. ptr \notin DOMAIN held
    BY <2>1 DEF MemInv, Exact
  <2>3. result' < 0 /\ ptr' = None /\ UNCHANGED <<held, request>>
    BY <1>7 DEF FreeElsewhere, FREE_OUT_OF_HEAP, FREE_NOT_BLOCK_ALLIGNED
  <2>4. HeapSpec!Refuse
    BY <2>1, <2>2, <2>3 DEF HeapSpec!Refuse
  <2> QED BY <2>4 DEF HeapSpec!Next
<1>8. CASE Off \/ UNCHANGED vars
  BY <1>8 DEF Off, vars, HeapSpec!heap_vars
<1> QED BY <1>1, <1>2, <1>3, <1>4, <1>5, <1>6, <1>7, <1>8 DEF Next, AllocStep

-----------------------------------------------------------------------------
(* The theorems, for every size of heap and index, every set of lengths of *)
(* at least one block, and whatever the words after the index hold.        *)

\* The entries of the index, the cursor and what callers hold have their types.
THEOREM TypeOKTheorem ==
  ASSUME NoEmptyRequest
  PROVE  Spec => []TypeOK
<1>1. MemInv /\ OneCall /\ [Next]_vars => MemInv' /\ OneCall'
  BY MemInvNext, OneCallNext
<1> QED BY <1>1, MemInvInit, OneCallInit, Typed, PTL DEF Spec

\* No two callers hold the same block after any calls of __mem_alloc and
\* __mem_free, and nobody holds a block of the index.
THEOREM NoOverlapTheorem ==
  ASSUME NoEmptyRequest
  PROVE  Spec => []NoOverlap
<1>1. MemInv /\ OneCall /\ [Next]_vars => MemInv' /\ OneCall'
  BY MemInvNext, OneCallNext
<1> QED BY <1>1, MemInvInit, OneCallInit, Disjoint, PTL DEF Spec

\* __mem_alloc and __mem_free keep an index that describes the heap exactly:
\* lengths at the ends of the runs, 0 inside, no two free runs side by side.
THEOREM IndexExactTheorem ==
  ASSUME NoEmptyRequest
  PROVE  Spec => []IndexExact
<1>1. MemInv /\ OneCall /\ [Next]_vars => MemInv' /\ OneCall'
  BY MemInvNext, OneCallNext
<1> QED BY <1>1, MemInvInit, OneCallInit, Described, PTL DEF Spec

\* __mem_alloc stops the machine only when no free run is long enough.
THEOREM StopsOnlyWhenFullTheorem ==
  ASSUME NoEmptyRequest
  PROVE  Spec => []StopsOnlyWhenFull
<1>1. MemInv /\ OneCall /\ [Next]_vars => MemInv' /\ OneCall'
  BY MemInvNext, OneCallNext
<1> QED BY <1>1, MemInvInit, OneCallInit, Exhausted, PTL DEF Spec

\* mem.c implements the first-fit heap, call by call: __mem_alloc answers its
\* request with the lowest run that is long enough and with 0 only when there is
\* none, and __mem_free takes back the run at its pointer when a caller holds it
\* and refuses every other pointer but those of TakenForStart.
THEOREM ServesFirstFitTheorem ==
  ASSUME NoEmptyRequest
  PROVE  Spec => ServesFirstFit
<1>1. MemInv /\ OneCall /\ [Next]_vars => MemInv' /\ OneCall'
  BY MemInvNext, OneCallNext
<1>2. MemInv /\ OneCall /\ [Next]_vars => [HeapSpec!Next]_HeapSpec!heap_vars
  BY StepServes
<1>3. Init => HeapSpec!Init
  BY DEF Init, HeapSpec!Init
<1> QED BY <1>1, <1>2, <1>3, MemInvInit, OneCallInit, PTL DEF Spec, ServesFirstFit, HeapSpec!Spec
=============================================================================
