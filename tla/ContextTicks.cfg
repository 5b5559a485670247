SPECIFICATION FairSpec
CONSTANTS
  Thread = {t1, t2}
  KernelMain = kernel_main
  Calls = {"create", "wake", "block", "exit", "getc"}
  STACK_SLOTS = 0
PROPERTIES
  TicksServed
