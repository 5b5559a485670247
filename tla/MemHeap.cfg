SPECIFICATION FairSpec
CONSTANTS
  n_mem_blocks = 8
  mem_index_len_in_blocks = 2
  Requests = {1, 2, 3}
  Beyond <- AnyWord
INVARIANTS
  TypeOK
  NoOverlap
  IndexExact
  StopsOnlyWhenFull
PROPERTIES
  ServesFirstFit
  AllocReturns
