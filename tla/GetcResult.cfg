SPECIFICATION Spec
CONSTANTS
  Thread = {t1}
  KernelMain = kernel_main
  Calls = {"dispatch", "block", "getc"}
  STACK_SLOTS = 1
INVARIANTS
  ResultIntact
