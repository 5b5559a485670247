SPECIFICATION SleepSpec
CONSTANTS
  Thread = {t1, t2, t3}
  KernelMain = kernel_main
  Sem = {s1, s2}
  NULL = NULL
  DEFAULT_TIME_SLICE = 2
  TIME_MOD = 8
  SEMAPHORES_LEN = 3
  I32_MOD = 16
  CONSOLE_BUFFER_SIZE = 1
  Calls = {"THREAD_CREATE", "THREAD_EXIT", "THREAD_DISPATCH",
           "SEM_OPEN", "SEM_CLOSE", "SEM_WAIT", "SEM_SIGNAL", "TIMED_SLEEP"}
  Times = {0, 1, 2, 3}
  Inits = {0, 1}
  MaxOpens = 3
  MaxVal = 1
  MaxSleepers = 3
  MaxTyped = 0
  MaxPut = 0
SYMMETRY Interchangeable
INVARIANTS
  TypeOK
  NoThreadLost
  LinkedOnce
  Intact
  SemCount
  StopsWhenDone
  SliceBounded
PROPERTIES
  NoOvertaking
  WaitOutcome
  SleepsAsLongAsAsked
  SemaphoresServe
