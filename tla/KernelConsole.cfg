SPECIFICATION ConsoleFairSpec
CONSTANTS
  Thread = {t1, t2}
  KernelMain = kernel_main
  Sem = {s1}
  NULL = NULL
  DEFAULT_TIME_SLICE = 1
  TIME_MOD = 4
  SEMAPHORES_LEN = 10
  I32_MOD = 16
  CONSOLE_BUFFER_SIZE = 2
  Calls = {"THREAD_CREATE", "THREAD_EXIT", "GETC", "PUTC"}
  Times = {1}
  Inits = {0}
  MaxOpens = 1
  MaxVal = 1
  MaxSleepers = 1
  MaxTyped = 3
  MaxPut = 3
INVARIANTS
  NoThreadLost
  Intact
  InputInOrder
  OutputInOrder
  NoReaderWaitsWithInput
PROPERTIES
  ReaderGetsChar
  ReaderServed
  PutcEnds
