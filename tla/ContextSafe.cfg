SPECIFICATION Spec
CONSTANTS
  Thread = {t1, t2}
  KernelMain = kernel_main
  Calls = {"service", "create", "wake", "dispatch", "block", "sleep", "exit", "putc_full"}
  STACK_SLOTS = 1
SYMMETRY Interchangeable
INVARIANTS
  ContextIntact
  ResultIntact
  StackIntact
  InterruptsOff
