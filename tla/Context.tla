------------------------------ MODULE Context ------------------------------
(***************************************************************************)
(* trap.S, yield and __thread_create: what a trap saves of the running     *)
(* thread, where, and what it restores.  Who runs next is scheduler.c's    *)
(* business (see Kernel): here it is any ready thread.                     *)
(*                                                                         *)
(* A stack is a row of slots of 0x100 bytes: a slot above the stack        *)
(* pointer holds data of the thread, the slot below it a trap frame.  reg  *)
(* stands for every register but a0 and sp: it holds the name of the       *)
(* thread that computed it, and pc tells an old frame from a new one.      *)
(***************************************************************************)
EXTENDS Integers, Sequences

CONSTANTS
  Thread,      \* thread structs
  KernelMain,  \* the struct of kernel_main
  Calls,       \* the system calls of user code, by what their handlers do
  STACK_SLOTS  \* bound: slots of a stack that hold data

ASSUME ContextAssumption ==
  /\ KernelMain \notin Thread
  /\ Calls \subseteq {"service", "create", "wake", "dispatch", "block", "sleep",
                      "exit", "putc_full", "getc"}
  /\ STACK_SLOTS \in Nat

VARIABLES
  cpu,      \* the registers: pc, sp, a0, reg; the mode, and sie of sstatus
  csr,      \* sepc, sscratch; spp and spie of sstatus
  sip,      \* a tick is pending
  trap,     \* the cause of the trap irq_wrap is in, or "no"
  served,   \* irq_handler has returned
  mem,      \* the slots of the stacks
  current,  \* scheduler->thread_current
  ready,    \* the threads in the ready queue
  blocked,  \* the threads in a waiting ring, or asleep
  tcb,      \* per thread struct: sp, sepc; spp and spie of sstatus
  own       \* history: per thread, what it must find when it runs again

sched_vars == <<current, ready, blocked>>
vars == <<cpu, csr, sip, trap, served, mem, sched_vars, tcb, own>>

Tcb == Thread \cup {KernelMain}
Slot == Tcb \X (0 .. STACK_SLOTS + 1)
live == (ready \cup blocked \cup {current}) \ {KernelMain}

\* One slot further down the stack, and back.
below(sp) == <<sp[1], sp[2] + 1>>
above(sp) == <<sp[1], sp[2] - 1>>

\* The loop of main(): the ecall, the write of sstatus that allows interrupts
\* and the one that forbids them again.  User code runs through the same
\* addresses.
ECALL == 0
ON == 1
OFF == 2
next_pc(pc) == (pc + 1) % 3
prev_pc(pc) == (pc + 2) % 3

\* A slot nobody uses: the thread may overwrite it at any time, so nothing is
\* known of what it holds.
unset(slot) == [sp |-> <<slot[1], 0>>, a0 |-> "unset", reg |-> KernelMain]

\* What a thread sees of its context, and the data it keeps on its stack.
Context(pc, sp, a0, reg, data) ==
  [pc |-> pc, sp |-> sp, a0 |-> a0, reg |-> reg, data |-> data]

-----------------------------------------------------------------------------
(* __thread_create.                                                        *)

\* The frame from which a new thread starts; most registers are not set.
new_frame(t) == [unset(<<t, 1>>) EXCEPT !.sp = <<t, 1>>, !.a0 = "start_f"]

\* The thread starts in __thread_wrapper, in user mode.
new_tcb(t) == [sp |-> <<t, 1>>, sepc |-> ECALL, spp |-> "user", spie |-> csr.spie]

new_own(t) == Context(ECALL, <<t, 0>>, "start_f", KernelMain, <<>>)

\* main() up to its first ecall: interrupts are off, user_main is created.
Init ==
  /\ \E user_main \in Thread, spie \in BOOLEAN :
       /\ cpu = [pc |-> ECALL, sp |-> <<KernelMain, 0>>, a0 |-> "code",
                 reg |-> KernelMain, mode |-> "kernel", sie |-> FALSE]
       /\ csr = [sepc |-> ECALL, sscratch |-> <<KernelMain, 0>>, spp |-> "user",
                 spie |-> spie]
       /\ mem = [a \in Slot |-> IF a = <<user_main, 1>>
                                THEN [unset(a) EXCEPT !.sp = a, !.a0 = "start_f"]
                                ELSE unset(a)]
       /\ ready = {user_main}
       /\ tcb = [t \in Tcb |-> [sp |-> IF t = user_main THEN <<t, 1>> ELSE <<t, 0>>,
                                sepc |-> ECALL, spp |-> "user", spie |-> spie]]
       /\ own = [t \in Tcb |->
                   IF t = user_main
                   THEN Context(ECALL, <<t, 0>>, "start_f", KernelMain, <<>>)
                   ELSE Context(ECALL, <<t, 0>>, "code", KernelMain, <<>>)]
  /\ sip = FALSE
  /\ trap = "no"
  /\ served = FALSE
  /\ current = KernelMain
  /\ blocked = {}

-----------------------------------------------------------------------------
(* The running thread.                                                     *)

\* Interrupts are taken in user mode, and in kernel mode when sie is set.
Interruptible == trap = "no" /\ (cpu.mode = "user" \/ cpu.sie)

\* The next instruction is executed unless a pending tick comes first.
Executes == trap = "no" /\ ~(sip /\ Interruptible)

\* An instruction of the thread: its own view of its context changes with it.
Instruction(pc, sp, reg, data) ==
  /\ own' = [own EXCEPT ![current] = Context(pc, sp, @.a0, reg, data)]
  /\ UNCHANGED <<csr, sip, trap, served, sched_vars, tcb>>

UserCompute ==
  /\ Executes /\ cpu.mode = "user"
  /\ cpu' = [cpu EXCEPT !.pc = next_pc(@), !.reg = current]
  /\ Instruction(next_pc(cpu.pc), own[current].sp, current, own[current].data)
  /\ UNCHANGED mem

UserPush ==
  LET slot == below(cpu.sp)
      value == [sp |-> slot, a0 |-> "data", reg |-> current]
  IN /\ Executes /\ cpu.mode = "user"
     /\ cpu.sp[2] < STACK_SLOTS
     /\ cpu' = [cpu EXCEPT !.pc = next_pc(@), !.sp = slot]
     /\ mem' = [mem EXCEPT ![slot] = value]
     /\ Instruction(next_pc(cpu.pc), slot, cpu.reg, Append(own[current].data, value))

UserPop ==
  /\ Executes /\ cpu.mode = "user"
  /\ own[current].data # <<>>
  /\ cpu' = [cpu EXCEPT !.pc = next_pc(@), !.sp = above(@)]
  /\ Instruction(next_pc(cpu.pc), above(cpu.sp), cpu.reg,
                 SubSeq(own[current].data, 1, Len(own[current].data) - 1))
  /\ mem' = [mem EXCEPT ![cpu.sp] = unset(cpu.sp)]

\* Mutant: the window is never opened.
MainOn_shut ==
  /\ Executes /\ cpu.mode = "kernel" /\ cpu.pc = ON
  /\ live # {}
  /\ cpu' = [cpu EXCEPT !.pc = OFF]
  /\ Instruction(OFF, own[current].sp, own[current].reg, <<>>)
  /\ UNCHANGED mem

\* main() goes on while there are user threads and opens its window.
MainOn ==
  /\ Executes /\ cpu.mode = "kernel" /\ cpu.pc = ON
  /\ live # {}
  /\ cpu' = [cpu EXCEPT !.pc = OFF, !.sie = TRUE]
  /\ Instruction(OFF, own[current].sp, own[current].reg, <<>>)
  /\ UNCHANGED mem

\* The window ends; spp and spie are written as the last sret left them.
MainOff ==
  /\ Executes /\ cpu.mode = "kernel" /\ cpu.pc = OFF
  /\ cpu' = [cpu EXCEPT !.pc = ECALL, !.sie = FALSE]
  /\ Instruction(ECALL, own[current].sp, own[current].reg, <<>>)
  /\ UNCHANGED mem

\* The loop of main() is over: __stop.
Stopped == trap = "no" /\ cpu.mode = "kernel" /\ cpu.pc = ON /\ live = {}

-----------------------------------------------------------------------------
(* irq_wrap up to the call of irq_handler.  The hardware keeps pc, mode and *)
(* sie; irq_wrap pushes the registers and keeps the address in sscratch.   *)

enter(cause, a0) ==
  LET frame == below(cpu.sp)
  IN /\ csr' = [sepc |-> cpu.pc, sscratch |-> frame, spp |-> cpu.mode, spie |-> cpu.sie]
     /\ cpu' = [cpu EXCEPT !.mode = "kernel", !.sie = FALSE, !.a0 = "handler"]
     /\ mem' = [mem EXCEPT ![frame] = [sp |-> frame, a0 |-> a0, reg |-> cpu.reg]]
     /\ trap' = cause
     /\ UNCHANGED <<sip, served, sched_vars, tcb>>

\* The timer raises a tick, whatever the processor is doing.
Raise ==
  /\ ~sip
  /\ sip' = TRUE
  /\ UNCHANGED <<cpu, csr, trap, served, mem, sched_vars, tcb, own>>

TimerTrap == Interruptible /\ sip /\ enter("timer", cpu.a0) /\ UNCHANGED own

HwTrap == Interruptible /\ enter("hw", cpu.a0) /\ UNCHANGED own

\* The ecall of a system call, or of main(), with its code in a0.
EcallTrap ==
  /\ Executes
  /\ \E call \in IF cpu.mode = "user" THEN Calls ELSE {"kernel_dispatch"} :
       /\ cpu.mode = "kernel" => cpu.pc = ECALL
       /\ call = "create" => Thread \ live # {}
       /\ call = "wake" => blocked # {}
       /\ enter(call, "code")
       /\ own' = [own EXCEPT ![current] =
                    Context(next_pc(@.pc), @.sp, "code", @.reg, @.data)]

-----------------------------------------------------------------------------
(* irq_handler.                                                            *)

\* sepc is moved past the ecall before the call is served.
past_ecall == [csr EXCEPT !.sepc = next_pc(@)]

\* Mutant: the interrupt enable of the old thread is not stored.
yield_tcb_spie_unsaved(new, c) ==
  IF new = current
  THEN [tcb EXCEPT ![current].sp = c.sscratch]
  ELSE [tcb EXCEPT ![current] =
          [sp |-> c.sscratch, sepc |-> c.sepc, spp |-> c.spp, spie |-> @.spie]]

\* yield(current, new) with the control registers c: the struct of the old
\* thread, of which only sp is written when it is also the new one.
yield_tcb(new, c) ==
  IF new = current
  THEN [tcb EXCEPT ![current].sp = c.sscratch]
  ELSE [tcb EXCEPT ![current] =
          [sp |-> c.sscratch, sepc |-> c.sepc, spp |-> c.spp, spie |-> c.spie]]

\* Mutant: sstatus is not switched.
yield_csr_same_mode(new, c) ==
  IF new = current
  THEN c
  ELSE [c EXCEPT !.sepc = tcb[new].sepc, !.sscratch = tcb[new].sp]

\* The control registers after it.
yield_csr(new, c) ==
  IF new = current
  THEN c
  ELSE [sepc |-> tcb[new].sepc, sscratch |-> tcb[new].sp,
        spp |-> tcb[new].spp, spie |-> tcb[new].spie]

\* What __scheduler_next can return with the threads of R ready.
next_of(R) == IF R = {} THEN {KernelMain} ELSE R

\* __scheduler_next with the threads of R ready, then yield.
switch(R, c) ==
  \E new \in next_of(R) :
    /\ current' = new
    /\ ready' = R \ {new}
    /\ tcb' = yield_tcb(new, c)
    /\ csr' = yield_csr(new, c)

\* irq_handler serves the trap; cpu is left to irq_wrap.
Serving(cause) ==
  /\ trap = cause
  /\ ~served /\ served' = TRUE
  /\ UNCHANGED <<cpu, sip, trap>>

\* IRQ_TIMER: sleepers are woken; the slice is over, or it is not.
Timer ==
  /\ Serving("timer")
  /\ \E W \in SUBSET blocked :
       /\ blocked' = blocked \ W
       /\ \/ switch(ready \cup W \cup {current}, csr)
          \/ ready' = ready \cup W /\ UNCHANGED <<current, csr, tcb>>
  /\ UNCHANGED <<mem, own>>

\* Mutant: the result goes to the running thread.
put_result_running(m, u, r) == [m EXCEPT ![csr.sscratch].a0 = r]

\* The result r is written to the frame of u, which is not running.
put_result(m, u, r) == [m EXCEPT ![tcb[u].sp].a0 = r]

\* IRQ_HW: a thread that waits for input gets its character.
Hw ==
  /\ Serving("hw")
  /\ \/ \E u \in blocked :
          /\ blocked' = blocked \ {u}
          /\ ready' = ready \cup {u}
          /\ mem' = put_result(mem, u, "woken")
          /\ own' = [own EXCEPT ![u].a0 = "woken"]
     \/ UNCHANGED <<blocked, ready, mem, own>>
  /\ UNCHANGED <<csr, tcb, current>>

\* Mutant: the result goes to the frame of the last switch.
Service_stale ==
  /\ Serving("service")
  /\ csr' = past_ecall
  /\ mem' = [mem EXCEPT ![tcb[current].sp].a0 = "result"]
  /\ own' = [own EXCEPT ![current].a0 = "result"]
  /\ UNCHANGED <<tcb, sched_vars>>

\* A call that is served at once: the result goes to the frame in sscratch.
Service ==
  /\ Serving("service")
  /\ csr' = past_ecall
  /\ mem' = [mem EXCEPT ![csr.sscratch].a0 = "result"]
  /\ own' = [own EXCEPT ![current].a0 = "result"]
  /\ UNCHANGED <<tcb, sched_vars>>

\* SYSCALL_THREAD_CREATE
Create ==
  /\ Serving("create")
  /\ csr' = past_ecall
  /\ \E t \in Thread \ live :
       /\ mem' = [mem EXCEPT ![<<t, 1>>] = new_frame(t), ![csr.sscratch].a0 = "result"]
       /\ tcb' = [tcb EXCEPT ![t] = new_tcb(t)]
       /\ ready' = ready \cup {t}
       /\ own' = [own EXCEPT ![t] = new_own(t), ![current].a0 = "result"]
  /\ UNCHANGED <<current, blocked>>

\* SYSCALL_SEM_SIGNAL and SYSCALL_SEM_CLOSE: a waiting thread gets its result.
Wake ==
  /\ Serving("wake")
  /\ csr' = past_ecall
  /\ \E u \in blocked :
       /\ blocked' = blocked \ {u}
       /\ ready' = ready \cup {u}
       /\ mem' = [put_result(mem, u, "woken") EXCEPT ![csr.sscratch].a0 = "result"]
       /\ own' = [own EXCEPT ![u].a0 = "woken", ![current].a0 = "result"]
  /\ UNCHANGED <<tcb, current>>

\* SYSCALL_THREAD_DISPATCH
Dispatch ==
  /\ Serving("dispatch")
  /\ switch(ready \cup {current}, past_ecall)
  /\ UNCHANGED <<mem, blocked, own>>

\* A wait on a semaphore or for input.
Block ==
  /\ Serving("block")
  /\ switch(ready, past_ecall)
  /\ blocked' = blocked \cup {current}
  /\ UNCHANGED <<mem, own>>

\* SYSCALL_TIMED_SLEEP: the result is written before the thread sleeps.
Sleep ==
  /\ Serving("sleep")
  /\ switch(ready, past_ecall)
  /\ blocked' = blocked \cup {current}
  /\ mem' = [mem EXCEPT ![csr.sscratch].a0 = "result"]
  /\ own' = [own EXCEPT ![current].a0 = "result"]

\* SYSCALL_THREAD_EXIT: the old struct and stack are freed after the switch.
Exit ==
  /\ Serving("exit")
  /\ switch(ready, past_ecall)
  /\ mem' = [a \in Slot |-> IF a[1] = current THEN unset(a) ELSE mem[a]]
  /\ own' = [own EXCEPT ![current] = new_own(current)]
  /\ UNCHANGED blocked

\* SYSCALL_PUTC with the send buffer full: the thread resumes at its ecall.
\* The sepc in its struct is set one instruction too early, and stays so when
\* the thread is the next one again.
PutcFull ==
  /\ Serving("putc_full")
  /\ \E new \in ready \cup {current} :
       /\ current' = new
       /\ ready' = (ready \cup {current}) \ {new}
       /\ tcb' = [yield_tcb(new, csr) EXCEPT ![current].sepc =
                    IF new = current THEN prev_pc(csr.sepc) ELSE @]
       /\ csr' = yield_csr(new, csr)
  /\ own' = [own EXCEPT ![current].pc = csr.sepc]
  /\ UNCHANGED <<mem, blocked>>

\* SYSCALL_GETC with a character in the buffer: the result goes to the frame
\* thread_current->sp points to, the one of its last switch.
Getc ==
  /\ Serving("getc")
  /\ csr' = past_ecall
  /\ mem' = put_result(mem, current, "woken")
  /\ own' = [own EXCEPT ![current].a0 = "woken"]
  /\ UNCHANGED <<tcb, sched_vars>>

\* SYSCALL_KERNEL_DISPATCH: kernel_main is not pushed, and sscratch is set
\* from the struct of the next thread also when that is kernel_main.
KernelDispatch ==
  /\ Serving("kernel_dispatch")
  /\ \E new \in next_of(ready) :
       /\ current' = new
       /\ ready' = ready \ {new}
       /\ tcb' = yield_tcb(new, past_ecall)
       /\ csr' = [yield_csr(new, past_ecall) EXCEPT
                    !.sscratch = yield_tcb(new, past_ecall)[new].sp]
  /\ UNCHANGED <<mem, blocked, own>>

-----------------------------------------------------------------------------
\* irq_wrap after irq_handler: the registers come from the frame sscratch
\* points to, by way of the sp stored in it; the pending tick is cleared, and
\* sret restores pc, mode and sie.
Return ==
  LET sp == mem[csr.sscratch].sp
      frame == mem[sp]
  IN /\ served
     /\ cpu' = [pc |-> csr.sepc, sp |-> above(sp), a0 |-> frame.a0, reg |-> frame.reg,
                mode |-> csr.spp, sie |-> csr.spie]
     /\ csr' = [csr EXCEPT !.spp = "user", !.spie = TRUE]
     /\ sip' = FALSE
     /\ trap' = "no"
     /\ served' = FALSE
     /\ mem' = [mem EXCEPT ![sp] = unset(sp)]
     /\ UNCHANGED <<sched_vars, tcb, own>>

Off == Stopped /\ UNCHANGED vars

Running == UserCompute \/ UserPush \/ UserPop \/ MainOn \/ MainOff \/ EcallTrap

Handler ==
  \/ Timer \/ Hw \/ Service \/ Create \/ Wake \/ Dispatch \/ Block \/ Sleep \/ Exit
  \/ PutcFull \/ Getc \/ KernelDispatch \/ Return

Next == Running \/ Raise \/ TimerTrap \/ HwTrap \/ Handler \/ Off

Spec == Init /\ [][Next]_vars

\* Handlers run to their end and main() goes on when it has the processor.  The
\* timer is not in step with the program: of the ticks it raises again and
\* again not all fall into handlers or between the window and the ecall of
\* main(), and not all coincide with an interrupt of the console.
Fairness ==
  /\ WF_vars(Handler)
  /\ WF_vars(cpu.mode = "kernel" /\ (MainOn \/ MainOff \/ EcallTrap))
  /\ SF_vars(Raise /\ trap = "no" /\ (cpu.mode = "kernel" => cpu.pc # ECALL))
  /\ SF_vars(TimerTrap)

FairSpec == Spec /\ Fairness

-----------------------------------------------------------------------------
(* Properties.                                                             *)

\* Whatever traps and switches have happened since it last ran, a thread goes
\* on at its own instruction, on its own stack, with its own registers, in its
\* own mode.
ContextIntact ==
  trap = "no" =>
    LET mine == own[current]
    IN /\ cpu.pc = mine.pc /\ cpu.sp = mine.sp /\ cpu.reg = mine.reg
       /\ cpu.mode = IF current = KernelMain THEN "kernel" ELSE "user"

\* A thread finds in a0 what it had there, or the result of its system call:
\* written by the handler, or later by the thread or interrupt that woke it.
ResultIntact == trap = "no" => cpu.a0 = own[current].a0

\* irq_handler never writes to the data a thread keeps on its stack.
StackIntact ==
  \A t \in live : \A k \in DOMAIN own[t].data : mem[<<t, k>>] = own[t].data[k]

\* kernel_main, which shares the scheduler's lists with the handlers, runs with
\* interrupts off but for its window, also after it was switched away in it.
InterruptsOff == trap = "no" /\ cpu.mode = "kernel" /\ cpu.sie => cpu.pc = OFF

\* Ticks raised while a handler runs are lost when it returns, but the timer is
\* served again and again, also while every thread is blocked.
TicksServed == []<>(trap = "timer" \/ Stopped)
=============================================================================
