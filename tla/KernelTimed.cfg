SPECIFICATION Spec
CONSTANTS
  Thread = {t1, t2}
  KernelMain = kernel_main
  Sem = {s1}
  NULL = NULL
  DEFAULT_TIME_SLICE = 2
  TIME_MOD = 4
  SEMAPHORES_LEN = 10
  I32_MOD = 16
  CONSOLE_BUFFER_SIZE = 1
  Calls = {"THREAD_CREATE", "THREAD_EXIT", "THREAD_DISPATCH",
           "SEM_OPEN", "SEM_CLOSE", "SEM_WAIT", "SEM_SIGNAL", "TIMED_SLEEP",
           "SEM_TIMED_WAIT", "MEM_FREE", "SEM_TRYWAIT", "ILLEGAL"}
  Times = {0, 1, 2}
  Inits = {0, 1}
  MaxOpens = 2
  MaxVal = 1
  MaxSleepers = 2
  MaxTyped = 0
  MaxPut = 0
SYMMETRY Interchangeable
INVARIANTS
  SemCount
