--------------------------- MODULE ContextProofs ---------------------------
(***************************************************************************)
(* What trap.S, yield and the handlers save is what they restore, proved   *)
(* for any number of threads and any depth of their stacks.                *)
(***************************************************************************)
EXTENDS Context, TLAPS

-----------------------------------------------------------------------------
(* The inductive invariant.                                                *)

Word == {"unset", "start_f", "code", "data", "handler", "result", "woken"}
Mode == {"user", "kernel"}
Frame == [sp : Slot, a0 : Word, reg : Tcb]
Control == [sepc : 0 .. 2, sscratch : Slot, spp : Mode, spie : BOOLEAN]
Saved == [sp : Slot, sepc : 0 .. 2, spp : Mode, spie : BOOLEAN]
Ours == [pc : 0 .. 2, sp : Slot, a0 : Word, reg : Tcb, data : Seq(Frame)]

\* getc with a character in the buffer writes its result to a stale frame.
NoStaleResult == "getc" \notin Calls

Types ==
  /\ cpu \in [pc : 0 .. 2, sp : Slot, a0 : Word, reg : Tcb, mode : Mode, sie : BOOLEAN]
  /\ csr \in Control
  /\ trap \in Calls \cup {"no", "timer", "hw", "kernel_dispatch"}
  /\ served \in BOOLEAN
  /\ mem \in [Slot -> Frame]
  /\ current \in Tcb
  /\ ready \subseteq Tcb
  /\ blocked \subseteq Thread
  /\ tcb \in [Tcb -> Saved]
  /\ own \in [Tcb -> Ours]

\* A thread is running, ready or blocked, and not two of these.
OneRole ==
  /\ current \notin ready \cup blocked
  /\ ready \cap blocked = {}

\* The stack pointer of thread t with context o is where its data ends, and
\* there is room for a frame below it.
Deep(t, o) ==
  /\ o.sp = <<t, Len(o.data)>>
  /\ Len(o.data) <= STACK_SLOTS
  /\ t = KernelMain => o.data = <<>>

mode_of(t) == IF t = KernelMain THEN "kernel" ELSE "user"

\* Control registers c and memory m are such that sret goes back to thread t
\* with context o, also when it is at address pc.
Resumes(c, m, t, o) ==
  LET slot == <<t, Len(o.data) + 1>>
  IN /\ c.sscratch = slot
     /\ c.spp = mode_of(t)
     /\ t = KernelMain /\ c.spie => o.pc = OFF
     /\ m[slot].sp = slot
     /\ m[slot].reg = o.reg
     /\ NoStaleResult => m[slot].a0 = o.a0

\* The data of context o is on the stack of t.
Keeps(m, t, o) ==
  NoStaleResult => \A k \in DOMAIN o.data : m[<<t, k>>] = o.data[k]

\* The control registers yield makes of struct s.
control(s) == [sepc |-> s.sepc, sscratch |-> s.sp, spp |-> s.spp, spie |-> s.spie]

Owned == ready \cup blocked \cup {current, KernelMain}

\* Every thread that exists and does not run can be resumed.
Parked ==
  \A t \in Owned \ {current} :
    Resumes(control(tcb[t]), mem, t, own[t]) /\ tcb[t].sepc = own[t].pc

\* The running thread has its registers.
Runs ==
  trap = "no" =>
    /\ ~served
    /\ cpu.pc = own[current].pc
    /\ cpu.sp = own[current].sp
    /\ cpu.reg = own[current].reg
    /\ cpu.mode = mode_of(current)
    /\ NoStaleResult => cpu.a0 = own[current].a0
    /\ current = KernelMain /\ cpu.sie => cpu.pc = OFF

\* The address a trap returns to before its handler has run.
returns_to == IF trap \in {"timer", "hw"} THEN csr.sepc ELSE next_pc(csr.sepc)

\* The thread a handler runs for, or has switched to, can be resumed.
Served ==
  trap # "no" =>
    /\ Resumes(csr, mem, current, own[current])
    /\ own[current].pc = IF served THEN csr.sepc ELSE returns_to
    /\ trap \in Calls /\ ~served => current # KernelMain
    /\ trap = "kernel_dispatch" /\ ~served => current = KernelMain

ContextInv ==
  /\ Types
  /\ OneRole
  /\ \A t \in Tcb : Deep(t, own[t])
  /\ \A t \in Owned : Keeps(mem, t, own[t])
  /\ Parked
  /\ Runs
  /\ Served
-----------------------------------------------------------------------------
(* Slots, addresses and frames.                                            *)

\* Every place of a stack is a slot, and slots of two threads differ.
LEMMA Slots ==
  /\ \A t \in Tcb, k \in 0 .. STACK_SLOTS + 1 : <<t, k>> \in Slot
  /\ \A s \in Slot : s = <<s[1], s[2]>> /\ s[1] \in Tcb /\ s[2] \in 0 .. STACK_SLOTS + 1
BY DEF Slot

\* A stack that may hold data has room for one more slot.
LEMMA RoomForFrame ==
  ASSUME NEW t \in Tcb, NEW o \in Ours, Deep(t, o)
  PROVE  /\ Len(o.data) \in 0 .. STACK_SLOTS
         /\ <<t, Len(o.data) + 1>> \in Slot
         /\ \A k \in DOMAIN o.data : k \in 1 .. Len(o.data) /\ <<t, k>> \in Slot
<1>1. o.data \in Seq(Frame)
  BY DEF Ours
<1>2. Len(o.data) \in Nat /\ DOMAIN o.data = 1 .. Len(o.data)
  BY <1>1
<1>3. Len(o.data) <= STACK_SLOTS /\ STACK_SLOTS \in Nat
  BY ContextAssumption DEF Deep
<1> QED BY <1>2, <1>3, Slots

\* The addresses of the loop follow each other in a circle.
LEMMA Addresses ==
  /\ \A pc \in 0 .. 2 : next_pc(pc) \in 0 .. 2 /\ prev_pc(pc) \in 0 .. 2
  /\ next_pc(ECALL) = ON
  /\ {ECALL, ON, OFF} = 0 .. 2
BY DEF next_pc, prev_pc, ECALL, ON, OFF

\* A slot nobody uses holds a frame.
LEMMA UnsetIsFrame == \A s \in Slot : unset(s) \in Frame
<1> SUFFICES ASSUME NEW s \in Slot PROVE unset(s) \in Frame
  OBVIOUS
<1>1. <<s[1], 0>> \in Slot
  BY Slots, ContextAssumption
<1> QED BY <1>1 DEF unset, Frame, Word, Tcb

\* A result is written to the slot x and nowhere else.
marked(m, x, r) == [m EXCEPT ![x].a0 = r]

\* The rest of the memory, and of that slot, stays.
LEMMA Marked ==
  ASSUME NEW m \in [Slot -> Frame], NEW x \in Slot, NEW r \in Word
  PROVE  /\ marked(m, x, r) \in [Slot -> Frame]
         /\ \A y \in Slot : /\ y # x => marked(m, x, r)[y] = m[y]
                            /\ marked(m, x, r)[y].sp = m[y].sp
                            /\ marked(m, x, r)[y].reg = m[y].reg
         /\ marked(m, x, r)[x].a0 = r
<1>1. m[x] \in Frame
  OBVIOUS
<1>2. [m[x] EXCEPT !.a0 = r] \in Frame
  BY <1>1 DEF Frame
<1>3. /\ [m[x] EXCEPT !.a0 = r].a0 = r
      /\ [m[x] EXCEPT !.a0 = r].sp = m[x].sp
      /\ [m[x] EXCEPT !.a0 = r].reg = m[x].reg
  BY <1>1 DEF Frame
<1>4. marked(m, x, r) = [m EXCEPT ![x] = [m[x] EXCEPT !.a0 = r]]
  BY DEF marked
<1> QED BY <1>2, <1>3, <1>4

\* The same context with another value in a0.
with_a0(o, r) == [o EXCEPT !.a0 = r]

\* Nothing else of the context changes.
LEMMA WithA0 ==
  ASSUME NEW o \in Ours, NEW r \in Word
  PROVE  /\ with_a0(o, r) \in Ours
         /\ with_a0(o, r).a0 = r
         /\ with_a0(o, r).pc = o.pc
         /\ with_a0(o, r).sp = o.sp
         /\ with_a0(o, r).reg = o.reg
         /\ with_a0(o, r).data = o.data
BY DEF with_a0, Ours

\* Memory that agrees on the frame of t resumes t as before.
LEMMA ResumesSame ==
  ASSUME NEW c, NEW m, NEW m2, NEW t, NEW o,
         m2[<<t, Len(o.data) + 1>>] = m[<<t, Len(o.data) + 1>>],
         Resumes(c, m, t, o)
  PROVE  Resumes(c, m2, t, o)
BY DEF Resumes

\* A result written to the frame of t is what t finds; one written elsewhere
\* does not concern it.
LEMMA ResumesMarked ==
  ASSUME NEW c, NEW m \in [Slot -> Frame], NEW t \in Tcb, NEW o \in Ours, Deep(t, o),
         NEW x \in Slot, NEW r \in Word,
         Resumes(c, m, t, o)
  PROVE  /\ x # <<t, Len(o.data) + 1>> => Resumes(c, marked(m, x, r), t, o)
         /\ x = <<t, Len(o.data) + 1>> => Resumes(c, marked(m, x, r), t, with_a0(o, r))
         /\ ~NoStaleResult => Resumes(c, marked(m, x, r), t, with_a0(o, r))
         /\ ~NoStaleResult => Resumes(c, marked(m, x, r), t, o)
<1>1. <<t, Len(o.data) + 1>> \in Slot
  BY RoomForFrame
<1> DEFINE slot == <<t, Len(o.data) + 1>>
           n == marked(m, x, r)
<1>2. /\ slot # x => n[slot] = m[slot]
      /\ n[slot].sp = m[slot].sp
      /\ n[slot].reg = m[slot].reg
      /\ slot = x => n[slot].a0 = r
  <2>1. /\ \A y \in Slot : /\ y # x => n[y] = m[y]
                           /\ n[y].sp = m[y].sp
                           /\ n[y].reg = m[y].reg
        /\ n[x].a0 = r
    BY Marked
  <2>2. slot \in Slot
    BY <1>1
  <2> HIDE DEF slot, n
  <2> QED BY <2>1, <2>2
<1>3. with_a0(o, r).a0 = r /\ with_a0(o, r).pc = o.pc
  BY WithA0
<1>4. with_a0(o, r).reg = o.reg /\ with_a0(o, r).data = o.data
  BY WithA0
<1> HIDE DEF n
<1>5. slot # x => Resumes(c, n, t, o)
  BY <1>2, ResumesSame
<1>6. ~NoStaleResult => Resumes(c, n, t, o)
  BY <1>2 DEF Resumes
<1>7. ~NoStaleResult \/ x = slot => Resumes(c, n, t, with_a0(o, r))
  BY <1>2, <1>3, <1>4 DEF Resumes
<1> QED BY <1>5, <1>6, <1>7 DEF n

\* Data below the frames stays as it is.
LEMMA KeepsMarked ==
  ASSUME NEW m \in [Slot -> Frame], NEW t \in Tcb, NEW o \in Ours, Deep(t, o),
         NEW x \in Slot, NEW r \in Word,
         Keeps(m, t, o),
         NoStaleResult => \A k \in 1 .. Len(o.data) : x # <<t, k>>
  PROVE  Keeps(marked(m, x, r), t, o) /\ Keeps(marked(m, x, r), t, with_a0(o, r))
<1> SUFFICES ASSUME NoStaleResult, NEW k \in DOMAIN o.data
             PROVE  marked(m, x, r)[<<t, k>>] = o.data[k]
  BY WithA0 DEF Keeps
<1>1. k \in 1 .. Len(o.data) /\ <<t, k>> \in Slot
  BY RoomForFrame
<1>2. x # <<t, k>>
  BY <1>1
<1> QED BY <1>1, <1>2, Marked DEF Keeps

-----------------------------------------------------------------------------
(* Switching.                                                              *)

\* The scheduler picked new among the threads of R, and yield switched to it
\* with the control registers c.
Switched(new, R, c) ==
  /\ new \in next_of(R)
  /\ current' = new
  /\ ready' = R \ {new}
  /\ tcb' \in [Tcb -> Saved]
  /\ \A t \in Tcb \ {current} : tcb'[t] = tcb[t]
  /\ new # current => control(tcb'[current]) = c
  /\ csr' = yield_csr(new, c)

\* The struct of a thread, and the control registers that make it.
LEMMA Controls ==
  /\ \A s \in Saved : control(s) \in Control
  /\ \A c \in Control :
       LET s == [sp |-> c.sscratch, sepc |-> c.sepc, spp |-> c.spp, spie |-> c.spie]
       IN s \in Saved /\ control(s) = c
BY DEF Saved, Control, control

\* __scheduler_next with yield switches.
LEMMA SwitchSwitches ==
  ASSUME Types, NEW R \in SUBSET Tcb, NEW c \in Control, switch(R, c)
  PROVE  \E new \in Tcb : Switched(new, R, c)
<1>1. PICK new \in next_of(R) : /\ current' = new
                                /\ ready' = R \ {new}
                                /\ tcb' = yield_tcb(new, c)
                                /\ csr' = yield_csr(new, c)
  BY DEF switch
<1>2. new \in Tcb
  BY DEF next_of, Tcb
<1>3. CASE new = current
  <2>1. tcb[current] \in Saved /\ c.sscratch \in Slot
    BY DEF Types, Control
  <2>2. [tcb[current] EXCEPT !.sp = c.sscratch] \in Saved
    BY <2>1 DEF Saved
  <2>3. tcb' = [tcb EXCEPT ![current] = [tcb[current] EXCEPT !.sp = c.sscratch]]
    BY <1>1, <1>3 DEF yield_tcb
  <2> QED BY <1>1, <1>2, <1>3, <2>2, <2>3 DEF Switched, Types
<1>4. CASE new # current
  <2> DEFINE s == [sp |-> c.sscratch, sepc |-> c.sepc, spp |-> c.spp, spie |-> c.spie]
  <2>1. s \in Saved /\ control(s) = c
    BY Controls
  <2>2. tcb' = [tcb EXCEPT ![current] = s]
    BY <1>1, <1>4 DEF yield_tcb
  <2> HIDE DEF s
  <2> QED BY <1>1, <1>2, <1>4, <2>1, <2>2 DEF Switched, Types
<1> QED BY <1>3, <1>4

\* The outcome of a handler that switched: whoever is ready, blocked or
\* kernel_main can be resumed.
LEMMA SwitchStep ==
  ASSUME Types, OneRole,
         NEW R \in SUBSET Tcb, NEW c \in Control, NEW new \in Tcb, Switched(new, R, c),
         trap # "no", served' = TRUE, trap' = trap,
         R \subseteq Owned, blocked' \subseteq Owned, R \cap blocked' = {},
         KernelMain \notin blocked',
         \A t \in Owned \ {current} : /\ Resumes(control(tcb[t]), mem', t, own'[t])
                                      /\ tcb[t].sepc = own'[t].pc,
         current \in R \cup blocked' \cup {KernelMain} =>
           Resumes(c, mem', current, own'[current]) /\ c.sepc = own'[current].pc
  PROVE  /\ csr' \in Control /\ tcb' \in [Tcb -> Saved]
         /\ current' \in Tcb /\ ready' \subseteq Tcb
         /\ OneRole' /\ Parked' /\ Runs' /\ Served'
         /\ Owned' \subseteq Owned
<1>0. new \in R \cup {KernelMain} /\ (new = KernelMain => new \in R \/ R = {})
  BY DEF Switched, next_of
<1>1. /\ current' = new /\ ready' = R \ {new} /\ tcb' \in [Tcb -> Saved]
      /\ csr' = yield_csr(new, c)
      /\ \A t \in Tcb \ {current} : tcb'[t] = tcb[t]
      /\ new # current => control(tcb'[current]) = c
  BY DEF Switched
<1>2. csr' \in Control
  BY <1>1, Controls DEF yield_csr, Types, control
<1>3. OneRole'
  BY <1>0, <1>1 DEF OneRole
<1>4. Runs'
  BY DEF Runs
<1>5. Owned' \subseteq Owned
  BY <1>0, <1>1 DEF Owned
<1>6. Parked'
  <2> SUFFICES ASSUME NEW t \in Owned' \ {current'}
               PROVE  Resumes(control(tcb'[t]), mem', t, own'[t]) /\ tcb'[t].sepc = own'[t].pc
    BY DEF Parked
  <2>1. t \in Owned /\ t \in Tcb /\ t \in R \cup blocked' \cup {KernelMain}
    BY <1>0, <1>1, <1>5 DEF Owned, Types, Tcb
  <2>2. CASE t # current
    BY <1>1, <2>1, <2>2
  <2>3. CASE t = current
    <3>1. control(tcb'[current]) = c
      BY <1>1, <2>3
    <3>2. tcb'[current].sepc = c.sepc
      BY <3>1 DEF control
    <3> QED BY <2>1, <2>3, <3>1, <3>2
  <2> QED BY <2>2, <2>3
<1>7. Served'
  <2>1. CASE new = current
    <3>1. csr' = c
      BY <1>1, <2>1 DEF yield_csr
    <3> QED BY <1>0, <1>1, <2>1, <3>1 DEF Served
  <2>2. CASE new # current
    <3>1. csr' = control(tcb[new]) /\ csr'.sepc = tcb[new].sepc
      BY <1>1, <2>2 DEF yield_csr, control
    <3>2. new \in Owned \ {current}
      BY <1>0, <2>2 DEF Owned
    <3> QED BY <1>1, <3>1, <3>2 DEF Served
  <2> QED BY <2>1, <2>2
<1> QED BY <1>1, <1>2, <1>3, <1>4, <1>5, <1>6, <1>7
-----------------------------------------------------------------------------
(* Everybody at once.                                                      *)

\* The control registers with which each thread can be resumed during a trap.
controls == [t \in Tcb |-> IF t = current THEN csr ELSE control(tcb[t])]

\* With the control registers cs and the memory m, every thread of T goes on
\* with its context of o.
Everyone(cs, m, o, T) ==
  /\ m \in [Slot -> Frame]
  /\ o \in [Tcb -> Ours]
  /\ \A t \in Tcb : Deep(t, o[t])
  /\ \A t \in T : Resumes(cs[t], m, t, o[t]) /\ Keeps(m, t, o[t])

\* That is so in every trap.
LEMMA EveryoneInTrap ==
  ASSUME ContextInv, trap # "no"
  PROVE  Everyone(controls, mem, own, Owned) /\ Owned \subseteq Tcb
<1>1. Owned \subseteq Tcb
  BY DEF ContextInv, Types, Owned, Tcb
<1>2. \A t \in Owned : Resumes(controls[t], mem, t, own[t])
  BY <1>1 DEF ContextInv, controls, Parked, Served
<1> QED BY <1>1, <1>2 DEF Everyone, ContextInv, Types

\* The contexts o, with the result r for u.
given(o, u, r) == [o EXCEPT ![u].a0 = r]

\* It stays so when a result is written to the frame of u.
LEMMA ResultForEveryone ==
  ASSUME NEW cs, NEW m, NEW o, NEW T \in SUBSET Tcb, Everyone(cs, m, o, T),
         NEW u \in T, NEW r \in Word
  PROVE  /\ cs[u].sscratch \in Slot
         /\ Everyone(cs, marked(m, cs[u].sscratch, r), given(o, u, r), T)
<1> DEFINE x == <<u, Len(o[u].data) + 1>>
           o2 == [o EXCEPT ![u] = with_a0(o[u], r)]
           n == marked(m, x, r)
<1>1. m \in [Slot -> Frame] /\ o \in [Tcb -> Ours] /\ \A t \in Tcb : Deep(t, o[t])
  BY DEF Everyone
<1>2. x \in Slot /\ Len(o[u].data) \in Nat
  BY <1>1, RoomForFrame, ContextAssumption
<1>3. cs[u].sscratch = x
  BY DEF Everyone, Resumes
<1>4. o2 = given(o, u, r)
  BY DEF with_a0, given
<1>5. n \in [Slot -> Frame]
  BY <1>1, <1>2, Marked
<1>6. with_a0(o[u], r) \in Ours
  BY <1>1, WithA0
<1>7. o2 \in [Tcb -> Ours] /\ o2[u] = with_a0(o[u], r) /\ \A t \in Tcb : t # u => o2[t] = o[t]
  BY <1>1, <1>6
<1>8. Deep(u, with_a0(o[u], r))
  BY <1>1, WithA0 DEF Deep
<1>9. \A t \in Tcb : Deep(t, o2[t])
  BY <1>1, <1>7, <1>8
<1>10. ASSUME NEW t \in T
       PROVE  Resumes(cs[t], n, t, o2[t]) /\ Keeps(n, t, o2[t])
  <2>0. Resumes(cs[t], m, t, o[t]) /\ Keeps(m, t, o[t])
    BY DEF Everyone
  <2>1. Len(o[t].data) \in Nat
    BY <1>1, RoomForFrame, ContextAssumption
  <2>2. \A k \in 1 .. Len(o[t].data) : x # <<t, k>>
    BY <1>2, <2>1
  <2>3. o[t] \in Ours /\ Deep(t, o[t])
    BY <1>1
  <2>4. Keeps(n, t, o[t]) /\ Keeps(n, t, with_a0(o[t], r))
    BY <1>1, <1>2, <2>0, <2>2, <2>3, KeepsMarked
  <2>5. /\ x # <<t, Len(o[t].data) + 1>> => Resumes(cs[t], n, t, o[t])
        /\ x = <<t, Len(o[t].data) + 1>> => Resumes(cs[t], n, t, with_a0(o[t], r))
    BY <1>1, <1>2, <2>0, <2>3, ResumesMarked
  <2>6. x = <<t, Len(o[t].data) + 1>> <=> t = u
    OBVIOUS
  <2> HIDE DEF o2, n, x
  <2> QED BY <1>7, <2>4, <2>5, <2>6
<1> HIDE DEF o2, n, x
<1>11. Everyone(cs, n, o2, T)
  BY <1>5, <1>7, <1>9, <1>10 DEF Everyone
<1> QED BY <1>2, <1>3, <1>4, <1>11 DEF n

\* What an instruction, a trap or a handler must leave behind.
LEMMA Assembled ==
  ASSUME Everyone(controls, mem, own, Owned)',
         cpu' \in [pc : 0 .. 2, sp : Slot, a0 : Word, reg : Tcb, mode : Mode, sie : BOOLEAN],
         csr' \in Control, tcb' \in [Tcb -> Saved],
         current' \in Tcb, ready' \subseteq Tcb, blocked' \subseteq Thread,
         OneRole',
         \A t \in (Owned \ {current})' : tcb'[t].sepc = own'[t].pc,
         trap' \in Calls \cup {"timer", "hw", "kernel_dispatch"},
         served' \in BOOLEAN,
         own'[current'].pc = IF served' THEN csr'.sepc ELSE returns_to',
         trap' \in Calls /\ ~served' => current' # KernelMain,
         trap' = "kernel_dispatch" /\ ~served' => current' = KernelMain
  PROVE  ContextInv'
<1>0. "no" \notin Calls
  BY ContextAssumption
<1>1. Types'
  BY DEF Types, Everyone
<1>2. Owned' \subseteq Tcb /\ current' \in Owned'
  BY DEF Owned, Tcb
<1>3. \A t \in Owned' : /\ Resumes(controls'[t], mem', t, own'[t])
                        /\ Keeps(mem', t, own'[t])
  BY DEF Everyone
<1>4. Parked'
  BY <1>2, <1>3 DEF Parked, controls
<1>5. Served'
  <2>1. controls'[current'] = csr'
    BY DEF controls
  <2>2. Resumes(csr', mem', current', own'[current'])
    BY <1>2, <1>3, <2>1
  <2> QED BY <2>2 DEF Served
<1>6. Runs'
  BY <1>0 DEF Runs
<1>7. \A t \in Tcb : Deep(t, own'[t])
  BY DEF Everyone
<1> QED BY <1>1, <1>3, <1>4, <1>5, <1>6, <1>7 DEF ContextInv

\* A handler that switched.
LEMMA HandlerSwitches ==
  ASSUME ContextInv, trap # "no", served' = TRUE, trap' = trap, cpu' = cpu,
         NEW R \in SUBSET Tcb, NEW c \in {csr, past_ecall}, NEW new \in Tcb,
         Switched(new, R, c),
         NEW T \in SUBSET Owned, Owned \ {current} \subseteq T,
         current \in R \cup blocked' \cup {KernelMain} => current \in T,
         Everyone(controls, mem', own', T),
         R \subseteq Owned, blocked' \subseteq Owned, R \cap blocked' = {},
         blocked' \subseteq Thread,
         \A t \in Owned \ {current} : own'[t].pc = own[t].pc,
         current \in T => own'[current].pc = c.sepc
  PROVE  ContextInv'
<1>0. csr \in Control /\ past_ecall \in Control
  <2>1. csr \in Control /\ next_pc(csr.sepc) \in 0 .. 2
    BY Addresses DEF ContextInv, Types, Control
  <2> QED BY <2>1 DEF past_ecall, Control
<1>1. c \in Control /\ c.sscratch = csr.sscratch /\ c.spp = csr.spp /\ c.spie = csr.spie
  BY <1>0 DEF past_ecall, Control
<1>2. Types /\ OneRole /\ Owned \subseteq Tcb /\ KernelMain \notin Thread
  BY EveryoneInTrap, ContextAssumption DEF ContextInv
<1>3. \A t \in Owned \ {current} : /\ Resumes(control(tcb[t]), mem', t, own'[t])
                                   /\ tcb[t].sepc = own'[t].pc
  BY <1>2 DEF Everyone, controls, ContextInv, Parked
<1>4. current \in T => Resumes(c, mem', current, own'[current])
  <2> SUFFICES ASSUME current \in T PROVE Resumes(c, mem', current, own'[current])
    OBVIOUS
  <2>1. controls[current] = csr
    BY <1>2 DEF controls, Types
  <2>2. Resumes(csr, mem', current, own'[current])
    BY <2>1 DEF Everyone
  <2> QED BY <1>1, <2>2 DEF Resumes
<1>5. /\ csr' \in Control /\ tcb' \in [Tcb -> Saved]
      /\ current' \in Tcb /\ ready' \subseteq Tcb
      /\ OneRole' /\ Parked' /\ Runs' /\ Served'
      /\ Owned' \subseteq Owned
  BY <1>1, <1>2, <1>3, <1>4, SwitchStep
<1>6. Types'
  BY <1>2, <1>5 DEF Types, Everyone
<1>7. Owned' \subseteq T
  <2>1. new \in R \cup {KernelMain} /\ current' = new /\ ready' \subseteq R
    BY DEF Switched, next_of
  <2>2. KernelMain \in T
    BY DEF Owned
  <2> QED BY <2>1, <2>2 DEF Owned
<1> QED BY <1>5, <1>6, <1>7 DEF ContextInv, Everyone

-----------------------------------------------------------------------------
(* The running thread.                                                     *)

\* What happens on the stack of the running thread does not concern the others.
LEMMA OthersStay ==
  ASSUME ContextInv, UNCHANGED <<sched_vars, tcb>>,
         \A s \in Slot : s[1] # current => mem'[s] = mem[s],
         \A t \in Tcb \ {current} : own'[t] = own[t]
  PROVE  /\ Parked' /\ OneRole'
         /\ \A t \in Owned \ {current} : /\ Keeps(mem', t, own'[t])
                                         /\ Resumes(control(tcb[t]), mem', t, own'[t])
         /\ current' = current /\ Owned' = Owned /\ Owned \subseteq Tcb
<1>1. current' = current /\ ready' = ready /\ blocked' = blocked /\ tcb' = tcb
  BY DEF sched_vars
<1>2. Owned' = Owned /\ OneRole'
  BY <1>1 DEF Owned, OneRole, ContextInv
<1>3. Owned \subseteq Tcb
  BY DEF ContextInv, Types, Owned, Tcb
<1>4. ASSUME NEW t \in Owned \ {current}
      PROVE  /\ Keeps(mem', t, own'[t])
             /\ Resumes(control(tcb[t]), mem', t, own'[t])
             /\ tcb[t].sepc = own'[t].pc
  <2>1. t \in Tcb /\ own'[t] = own[t] /\ own[t] \in Ours /\ Deep(t, own[t])
    BY <1>3 DEF ContextInv, Types
  <2>2. \A k \in 0 .. STACK_SLOTS + 1 : mem'[<<t, k>>] = mem[<<t, k>>]
    BY <2>1, Slots
  <2>r. /\ Len(own[t].data) \in 0 .. STACK_SLOTS
        /\ \A k \in DOMAIN own[t].data : k \in 1 .. Len(own[t].data)
    BY <2>1, RoomForFrame
  <2>n. STACK_SLOTS \in Nat
    BY ContextAssumption
  <2>3. Len(own[t].data) + 1 \in 0 .. STACK_SLOTS + 1
    BY <2>r, <2>n
  <2>4. \A k \in DOMAIN own[t].data : k \in 0 .. STACK_SLOTS + 1
    BY <2>r, <2>n
  <2>5. Resumes(control(tcb[t]), mem, t, own[t]) /\ tcb[t].sepc = own[t].pc
        /\ Keeps(mem, t, own[t])
    BY DEF ContextInv, Parked
  <2>6. Keeps(mem', t, own'[t])
    BY <2>1, <2>2, <2>4, <2>5 DEF Keeps
  <2>7. Resumes(control(tcb[t]), mem', t, own[t])
    BY <2>2, <2>3, <2>5, ResumesSame
  <2> QED BY <2>1, <2>5, <2>6, <2>7
<1>5. Parked'
  BY <1>1, <1>2, <1>4 DEF Parked
<1> QED BY <1>1, <1>2, <1>3, <1>4, <1>5
\* An instruction: the thread's view of its context moves with its registers.
LEMMA InstructionStep ==
  ASSUME ContextInv, Executes,
         NEW pc \in 0 .. 2, NEW sp \in Slot, NEW reg \in Tcb, NEW data \in Seq(Frame),
         Instruction(pc, sp, reg, data),
         mem' \in [Slot -> Frame],
         \A s \in Slot : s[1] # current => mem'[s] = mem[s],
         Deep(current, own'[current]),
         Keeps(mem', current, own'[current]),
         cpu' \in [pc : 0 .. 2, sp : Slot, a0 : Word, reg : Tcb, mode : Mode, sie : BOOLEAN],
         cpu'.pc = pc, cpu'.sp = sp, cpu'.reg = reg,
         cpu'.mode = cpu.mode, cpu'.a0 = cpu.a0,
         current = KernelMain /\ cpu'.sie => pc = OFF
  PROVE  ContextInv'
<1> DEFINE o == Context(pc, sp, own[current].a0, reg, data)
<1>1. /\ UNCHANGED <<csr, trap, served, sched_vars, tcb>>
      /\ own' = [own EXCEPT ![current] = o]
  BY DEF Instruction
<1>2. current \in Tcb /\ own \in [Tcb -> Ours] /\ trap = "no" /\ current' = current
  BY <1>1 DEF ContextInv, Types, Executes, sched_vars
<1>3. o \in Ours
  BY <1>2 DEF Context, Ours
<1>3a. own[current].a0 = o.a0 /\ o.pc = pc /\ o.sp = sp /\ o.reg = reg
  BY DEF Context
<1> HIDE DEF o
<1>4. own' \in [Tcb -> Ours] /\ own'[current] = o
      /\ \A t \in Tcb \ {current} : own'[t] = own[t]
  BY <1>1, <1>2, <1>3
<1>5. /\ Parked' /\ OneRole'
      /\ \A t \in Owned \ {current} : Keeps(mem', t, own'[t])
      /\ Owned' = Owned
  BY <1>1, <1>4, OthersStay
<1>6. Types'
  BY <1>1, <1>4 DEF ContextInv, Types, sched_vars
<1>7. \A t \in Tcb : Deep(t, own'[t])
  BY <1>4 DEF ContextInv
<1>8. Runs'
  BY <1>1, <1>2, <1>3a, <1>4 DEF ContextInv, Runs
<1>9. Served'
  BY <1>1, <1>2 DEF Served
<1> QED BY <1>5, <1>6, <1>7, <1>8, <1>9 DEF ContextInv

\* The running thread and its context.
LEMMA RunningFacts ==
  ASSUME ContextInv, trap = "no"
  PROVE  /\ current \in Tcb /\ own[current] \in Ours /\ Deep(current, own[current])
         /\ Keeps(mem, current, own[current])
         /\ cpu.pc = own[current].pc /\ cpu.pc \in 0 .. 2
         /\ cpu.sp = own[current].sp /\ cpu.sp \in Slot
         /\ cpu.sp = <<current, Len(own[current].data)>>
         /\ cpu.reg = own[current].reg /\ cpu.reg \in Tcb
         /\ cpu.mode = mode_of(current)
         /\ own[current].data \in Seq(Frame) /\ Len(own[current].data) \in Nat
         /\ mem \in [Slot -> Frame]
         /\ current = KernelMain /\ cpu.sie => cpu.pc = OFF
         /\ ~served
         /\ NoStaleResult => cpu.a0 = own[current].a0
<1>1. current \in Owned
  BY DEF Owned
<1>2. own[current] \in Ours /\ Deep(current, own[current]) /\ current \in Tcb
  BY DEF ContextInv, Types
<1>3. own[current].data \in Seq(Frame) /\ Len(own[current].data) \in Nat
  BY <1>2 DEF Ours
<1>4. cpu.sp = <<current, Len(own[current].data)>>
  BY <1>2 DEF ContextInv, Runs, Deep
<1>5. cpu.pc \in 0 .. 2 /\ cpu.sp \in Slot /\ cpu.reg \in Tcb /\ mem \in [Slot -> Frame]
  BY DEF ContextInv, Types
<1> QED BY <1>1, <1>2, <1>3, <1>4, <1>5 DEF ContextInv, Runs

\* User code computes.
LEMMA UserComputeStep == ContextInv /\ UserCompute => ContextInv'
<1> SUFFICES ASSUME ContextInv, UserCompute PROVE ContextInv'
  OBVIOUS
<1> DEFINE pc == next_pc(cpu.pc)
           o == Context(pc, own[current].sp, own[current].a0, current, own[current].data)
<1>1. /\ Executes /\ trap = "no" /\ cpu.mode = "user"
      /\ cpu' = [cpu EXCEPT !.pc = pc, !.reg = current]
      /\ Instruction(pc, own[current].sp, current, own[current].data)
      /\ mem' = mem
  BY DEF UserCompute, Executes
<1>2. /\ current \in Tcb /\ own[current] \in Ours /\ Deep(current, own[current])
      /\ Keeps(mem, current, own[current]) /\ cpu.sp = own[current].sp /\ cpu.sp \in Slot
      /\ cpu.mode = mode_of(current) /\ own[current].data \in Seq(Frame)
      /\ mem \in [Slot -> Frame] /\ pc \in 0 .. 2
  BY <1>1, RunningFacts, Addresses
<1>3. own'[current] = o
  BY <1>1, <1>2 DEF Instruction, ContextInv, Types
<1>4. Deep(current, o) /\ Keeps(mem, current, o)
  BY <1>2 DEF Deep, Keeps, Context
<1> HIDE DEF pc
<1>5. /\ cpu' \in [pc : 0 .. 2, sp : Slot, a0 : Word, reg : Tcb, mode : Mode, sie : BOOLEAN]
      /\ cpu'.pc = pc /\ cpu'.sp = own[current].sp /\ cpu'.reg = current
      /\ cpu'.mode = cpu.mode /\ cpu'.a0 = cpu.a0
  BY <1>1, <1>2 DEF ContextInv, Types
<1>6. current # KernelMain
  BY <1>1, <1>2 DEF mode_of
<1> QED BY <1>1, <1>2, <1>3, <1>4, <1>5, <1>6, InstructionStep

\* User code pushes data on its stack.
LEMMA UserPushStep == ContextInv /\ UserPush => ContextInv'
<1> SUFFICES ASSUME ContextInv, UserPush PROVE ContextInv'
  OBVIOUS
<1> DEFINE pc == next_pc(cpu.pc)
           n == Len(own[current].data)
           slot == <<current, n + 1>>
           value == [sp |-> slot, a0 |-> "data", reg |-> current]
           data == Append(own[current].data, value)
           o == Context(pc, slot, own[current].a0, cpu.reg, data)
<1>1. trap = "no" /\ Executes /\ cpu.mode = "user"
  BY DEF UserPush, Executes
<1>2. /\ current \in Tcb /\ own[current] \in Ours /\ Deep(current, own[current])
      /\ Keeps(mem, current, own[current])
      /\ cpu.sp = <<current, n>> /\ cpu.reg \in Tcb
      /\ cpu.mode = mode_of(current) /\ own[current].data \in Seq(Frame) /\ n \in Nat
      /\ mem \in [Slot -> Frame] /\ pc \in 0 .. 2
  BY <1>1, RunningFacts, Addresses
<1>3. below(cpu.sp) = slot /\ cpu.sp[2] = n
  BY <1>2 DEF below
<1>4. /\ n < STACK_SLOTS
      /\ cpu' = [cpu EXCEPT !.pc = pc, !.sp = slot]
      /\ mem' = [mem EXCEPT ![slot] = value]
      /\ Instruction(pc, slot, cpu.reg, data)
  BY <1>3 DEF UserPush
<1>5. STACK_SLOTS \in Nat
  BY ContextAssumption
<1>6. slot \in Slot
  <2>1. n + 1 \in 0 .. STACK_SLOTS + 1
    BY <1>2, <1>4, <1>5
  <2> QED BY <1>2, <2>1, Slots
<1>7. value \in Frame
  BY <1>2, <1>6 DEF Frame, Word
<1>8. /\ data \in Seq(Frame) /\ Len(data) = n + 1 /\ DOMAIN data = 1 .. n + 1
      /\ \A k \in 1 .. n : data[k] = own[current].data[k]
      /\ data[n + 1] = value
  <2> HIDE DEF value
  <2> QED BY <1>2, <1>7
<1>9. own'[current] = o
  BY <1>2, <1>4 DEF Instruction, ContextInv, Types
<1>10. current # KernelMain
  BY <1>1, <1>2 DEF mode_of
<1>11. mem' \in [Slot -> Frame]
       /\ \A s \in Slot : s[1] # current => mem'[s] = mem[s]
  <2> HIDE DEF value
  <2>1. \A s \in Slot : s[1] # current => s # slot
    OBVIOUS
  <2> QED BY <1>2, <1>4, <1>6, <1>7, <2>1
<1>12. o.data = data /\ o.sp = slot
  BY DEF Context
<1> HIDE DEF data, o, value
<1>13. Deep(current, o)
  BY <1>2, <1>4, <1>5, <1>8, <1>10, <1>12 DEF Deep
<1>14. Keeps(mem', current, o)
  <2> SUFFICES ASSUME NoStaleResult, NEW k \in 1 .. n + 1
               PROVE  mem'[<<current, k>>] = data[k]
    BY <1>8, <1>12 DEF Keeps
  <2>1. <<current, k>> \in Slot
    <3>1. k \in 0 .. STACK_SLOTS + 1
      BY <1>2, <1>4, <1>5
    <3> QED BY <1>2, <3>1, Slots
  <2>2. CASE k = n + 1
    BY <1>2, <1>4, <1>6, <1>8, <2>2
  <2>3. CASE k # n + 1
    <3>1. k \in 1 .. n /\ <<current, k>> # slot
      BY <1>2, <2>3
    <3>2. k \in DOMAIN own[current].data
      BY <1>2, <3>1
    <3>3. mem[<<current, k>>] = own[current].data[k]
      BY <1>2, <3>2 DEF Keeps
    <3> QED BY <1>2, <1>4, <1>8, <2>1, <3>1, <3>3
  <2> QED BY <2>2, <2>3
<1> HIDE DEF pc, slot
<1>15. /\ cpu' \in [pc : 0 .. 2, sp : Slot, a0 : Word, reg : Tcb, mode : Mode, sie : BOOLEAN]
       /\ cpu'.pc = pc /\ cpu'.sp = slot /\ cpu'.reg = cpu.reg
       /\ cpu'.mode = cpu.mode /\ cpu'.a0 = cpu.a0
  BY <1>2, <1>4, <1>6 DEF ContextInv, Types
<1> QED BY <1>1, <1>2, <1>4, <1>6, <1>8, <1>9, <1>10, <1>11, <1>13, <1>14, <1>15,
           InstructionStep

\* User code pops it.
LEMMA UserPopStep == ContextInv /\ UserPop => ContextInv'
<1> SUFFICES ASSUME ContextInv, UserPop PROVE ContextInv'
  OBVIOUS
<1> DEFINE pc == next_pc(cpu.pc)
           n == Len(own[current].data)
           slot == <<current, n - 1>>
           data == SubSeq(own[current].data, 1, n - 1)
           o == Context(pc, slot, own[current].a0, cpu.reg, data)
<1>1. trap = "no" /\ Executes /\ cpu.mode = "user" /\ own[current].data # <<>>
  BY DEF UserPop, Executes
<1>2. /\ current \in Tcb /\ own[current] \in Ours /\ Deep(current, own[current])
      /\ Keeps(mem, current, own[current])
      /\ cpu.sp = <<current, n>> /\ cpu.sp \in Slot /\ cpu.reg \in Tcb
      /\ cpu.mode = mode_of(current) /\ own[current].data \in Seq(Frame) /\ n \in Nat
      /\ mem \in [Slot -> Frame] /\ pc \in 0 .. 2
  BY <1>1, RunningFacts, Addresses
<1>3. above(cpu.sp) = slot
  BY <1>2 DEF above
<1>4. /\ cpu' = [cpu EXCEPT !.pc = pc, !.sp = slot]
      /\ mem' = [mem EXCEPT ![<<current, n>>] = unset(<<current, n>>)]
      /\ Instruction(pc, slot, cpu.reg, data)
  BY <1>2, <1>3 DEF UserPop
<1>5. STACK_SLOTS \in Nat
  BY ContextAssumption
<1>6. n > 0 /\ n <= STACK_SLOTS
  BY <1>1, <1>2 DEF Deep
<1>7. slot \in Slot
  <2>1. n - 1 \in 0 .. STACK_SLOTS + 1
    BY <1>2, <1>5, <1>6
  <2> QED BY <1>2, <2>1, Slots
<1>8. /\ data \in Seq(Frame) /\ Len(data) = n - 1 /\ DOMAIN data = 1 .. n - 1
      /\ \A k \in 1 .. n - 1 : data[k] = own[current].data[k]
  BY <1>2, <1>6
<1>9. own'[current] = o
  BY <1>2, <1>4 DEF Instruction, ContextInv, Types
<1>10. current # KernelMain
  BY <1>1, <1>2 DEF mode_of
<1>11. unset(<<current, n>>) \in Frame
  BY <1>2, UnsetIsFrame
<1>12. mem' \in [Slot -> Frame]
       /\ \A s \in Slot : s[1] # current => mem'[s] = mem[s]
  <2>1. \A s \in Slot : s[1] # current => s # <<current, n>>
    OBVIOUS
  <2> QED BY <1>2, <1>4, <1>11, <2>1
<1>13. o.data = data /\ o.sp = slot
  BY DEF Context
<1> HIDE DEF data, o
<1>14. Deep(current, o)
  BY <1>2, <1>5, <1>6, <1>8, <1>10, <1>13 DEF Deep
<1>15. Keeps(mem', current, o)
  <2> SUFFICES ASSUME NoStaleResult, NEW k \in 1 .. n - 1
               PROVE  mem'[<<current, k>>] = data[k]
    BY <1>8, <1>13 DEF Keeps
  <2>1. <<current, k>> \in Slot /\ <<current, k>> # <<current, n>>
    <3>1. k \in 0 .. STACK_SLOTS + 1 /\ k # n
      BY <1>2, <1>5, <1>6
    <3> QED BY <1>2, <3>1, Slots
  <2>2. k \in DOMAIN own[current].data
    BY <1>2
  <2>3. mem[<<current, k>>] = own[current].data[k]
    BY <1>2, <2>2 DEF Keeps
  <2> QED BY <1>2, <1>4, <1>8, <2>1, <2>3
<1> HIDE DEF pc, slot
<1>16. /\ cpu' \in [pc : 0 .. 2, sp : Slot, a0 : Word, reg : Tcb, mode : Mode, sie : BOOLEAN]
       /\ cpu'.pc = pc /\ cpu'.sp = slot /\ cpu'.reg = cpu.reg
       /\ cpu'.mode = cpu.mode /\ cpu'.a0 = cpu.a0
  BY <1>2, <1>4, <1>7 DEF ContextInv, Types
<1> QED BY <1>1, <1>2, <1>4, <1>7, <1>8, <1>9, <1>10, <1>12, <1>14, <1>15, <1>16,
           InstructionStep

\* main() opens and closes its window.
LEMMA MainStep == ContextInv /\ (MainOn \/ MainOff) => ContextInv'
<1> SUFFICES ASSUME ContextInv,
                    NEW pc \in {ECALL, OFF}, NEW sie \in BOOLEAN,
                    Executes, cpu.mode = "kernel", sie => pc = OFF,
                    cpu' = [cpu EXCEPT !.pc = pc, !.sie = sie],
                    Instruction(pc, own[current].sp, own[current].reg, <<>>),
                    mem' = mem
             PROVE  ContextInv'
  BY DEF MainOn, MainOff
<1> DEFINE o == Context(pc, own[current].sp, own[current].a0, own[current].reg, <<>>)
<1>1. trap = "no"
  BY DEF Executes
<1>2. /\ current \in Tcb /\ own[current] \in Ours /\ Deep(current, own[current])
      /\ cpu.sp = own[current].sp /\ cpu.sp \in Slot /\ cpu.reg = own[current].reg
      /\ cpu.reg \in Tcb /\ cpu.mode = mode_of(current)
      /\ mem \in [Slot -> Frame] /\ pc \in 0 .. 2
  BY <1>1, RunningFacts, Addresses
<1>3. current = KernelMain /\ own[current].data = <<>>
  BY <1>2 DEF mode_of, Deep
<1>4. own'[current] = o
  BY <1>2 DEF Instruction, ContextInv, Types
<1>5. Deep(current, o) /\ Keeps(mem', current, o)
  BY <1>2, <1>3 DEF Deep, Keeps, Context
<1>6. <<>> \in Seq(Frame)
  OBVIOUS
<1>7. /\ cpu' \in [pc : 0 .. 2, sp : Slot, a0 : Word, reg : Tcb, mode : Mode, sie : BOOLEAN]
      /\ cpu'.pc = pc /\ cpu'.sp = own[current].sp /\ cpu'.reg = own[current].reg
      /\ cpu'.mode = cpu.mode /\ cpu'.a0 = cpu.a0 /\ cpu'.sie = sie
  BY <1>2 DEF ContextInv, Types
<1> QED BY <1>2, <1>4, <1>5, <1>6, <1>7, InstructionStep
-----------------------------------------------------------------------------
(* Traps.                                                                  *)

\* irq_wrap writes the frame of the running thread below its data.
LEMMA EnterStep ==
  ASSUME ContextInv, trap = "no",
         NEW cause \in Calls \cup {"timer", "hw", "kernel_dispatch"}, NEW a0 \in Word,
         enter(cause, a0),
         NEW o \in Ours, own' = [own EXCEPT ![current] = o],
         o.sp = own[current].sp, o.reg = own[current].reg, o.data = own[current].data,
         NoStaleResult => o.a0 = a0,
         o.pc = IF cause \in {"timer", "hw"} THEN cpu.pc ELSE next_pc(cpu.pc),
         current = KernelMain /\ cpu.sie => o.pc = OFF,
         cause \in Calls => current # KernelMain,
         cause = "kernel_dispatch" => current = KernelMain
  PROVE  ContextInv'
<1> DEFINE n == Len(own[current].data)
           slot == <<current, n + 1>>
           frame == [sp |-> slot, a0 |-> a0, reg |-> cpu.reg]
<1>1. /\ current \in Tcb /\ own[current] \in Ours /\ Deep(current, own[current])
      /\ Keeps(mem, current, own[current])
      /\ cpu.sp = <<current, n>> /\ cpu.reg = own[current].reg /\ cpu.reg \in Tcb
      /\ cpu.mode = mode_of(current) /\ own[current].data \in Seq(Frame) /\ n \in Nat
      /\ mem \in [Slot -> Frame] /\ cpu.pc \in 0 .. 2 /\ ~served
  BY RunningFacts
<1>2. below(cpu.sp) = slot
  BY <1>1 DEF below
<1>3. /\ csr' = [sepc |-> cpu.pc, sscratch |-> slot, spp |-> cpu.mode, spie |-> cpu.sie]
      /\ cpu' = [cpu EXCEPT !.mode = "kernel", !.sie = FALSE, !.a0 = "handler"]
      /\ mem' = [mem EXCEPT ![slot] = frame]
      /\ trap' = cause
      /\ UNCHANGED <<served, sched_vars, tcb>>
  BY <1>2 DEF enter
<1>4. slot \in Slot
  BY <1>1, RoomForFrame
<1>5. frame \in Frame
  BY <1>1, <1>4 DEF Frame
<1>6. own' \in [Tcb -> Ours] /\ own'[current] = o /\ \A t \in Tcb \ {current} : own'[t] = own[t]
  BY <1>1 DEF ContextInv, Types
<1>7. frame.sp = slot /\ frame.reg = cpu.reg /\ frame.a0 = a0
  OBVIOUS
<1> HIDE DEF frame
<1>8. /\ mem' \in [Slot -> Frame] /\ mem'[slot] = frame
      /\ \A s \in Slot : s # slot => mem'[s] = mem[s]
  BY <1>1, <1>3, <1>4, <1>5
<1>9. \A s \in Slot : s[1] # current => mem'[s] = mem[s]
  <2>1. \A s \in Slot : s[1] # current => s # slot
    OBVIOUS
  <2> QED BY <1>8, <2>1
<1>10. /\ Parked' /\ OneRole'
       /\ \A t \in Owned \ {current} : Keeps(mem', t, own'[t])
       /\ current' = current /\ Owned' = Owned
  BY <1>3, <1>6, <1>9, OthersStay
<1>11. Keeps(mem', current, o)
  <2> SUFFICES ASSUME NoStaleResult, NEW k \in DOMAIN own[current].data
               PROVE  mem'[<<current, k>>] = own[current].data[k]
    BY DEF Keeps
  <2>1. k \in 1 .. n /\ <<current, k>> \in Slot
    BY <1>1, RoomForFrame
  <2>2. <<current, k>> # slot
    BY <1>1, <2>1
  <2>3. mem[<<current, k>>] = own[current].data[k]
    BY <1>1 DEF Keeps
  <2> QED BY <1>8, <2>1, <2>2, <2>3
<1>12. Resumes(csr', mem', current, o)
  <2>1. csr'.sscratch = slot /\ csr'.spp = mode_of(current) /\ csr'.spie = cpu.sie
    BY <1>1, <1>3
  <2>2. slot = <<current, Len(o.data) + 1>>
    OBVIOUS
  <2> HIDE DEF slot
  <2> QED BY <1>1, <1>7, <1>8, <2>1, <2>2 DEF Resumes
<1>13. csr' \in Control /\ csr'.sepc = cpu.pc
  BY <1>1, <1>3, <1>4 DEF Control, ContextInv, Types
<1>14. cpu' \in [pc : 0 .. 2, sp : Slot, a0 : Word, reg : Tcb, mode : Mode, sie : BOOLEAN]
  BY <1>3 DEF ContextInv, Types, Mode, Word
<1>15. Types'
  BY <1>3, <1>6, <1>8, <1>13, <1>14 DEF ContextInv, Types, sched_vars
<1>16. cause # "no"
  BY ContextAssumption
<1>17. Runs'
  BY <1>3, <1>16 DEF Runs
<1>18. Served'
  BY <1>1, <1>3, <1>6, <1>10, <1>12, <1>13 DEF Served, returns_to
<1>19. Deep(current, o)
  BY <1>1 DEF Deep
<1>20. \A t \in Tcb : Deep(t, own'[t])
  BY <1>6, <1>19 DEF ContextInv
<1>21. \A t \in Owned' : Keeps(mem', t, own'[t])
  BY <1>6, <1>10, <1>11
<1> QED BY <1>10, <1>15, <1>17, <1>18, <1>20, <1>21 DEF ContextInv

\* An interrupt finds the thread between two instructions.
LEMMA InterruptStep == ContextInv /\ (TimerTrap \/ HwTrap) => ContextInv'
<1> SUFFICES ASSUME ContextInv, trap = "no", NEW cause \in {"timer", "hw"},
                    enter(cause, cpu.a0), own' = own
             PROVE  ContextInv'
  BY DEF TimerTrap, HwTrap, Interruptible
<1>1. /\ current \in Tcb /\ own[current] \in Ours
      /\ cpu.pc = own[current].pc
      /\ current = KernelMain /\ cpu.sie => cpu.pc = OFF
      /\ NoStaleResult => cpu.a0 = own[current].a0
  BY RunningFacts
<1>2. own' = [own EXCEPT ![current] = own[current]]
  BY <1>1 DEF ContextInv, Types
<1>3. cpu.a0 \in Word
  BY DEF ContextInv, Types
<1>4. cause \notin Calls /\ cause # "kernel_dispatch"
  BY ContextAssumption
<1> QED BY <1>1, <1>2, <1>3, <1>4, EnterStep

\* An ecall leaves its code in a0, and the thread past it.
LEMMA EcallStep == ContextInv /\ EcallTrap => ContextInv'
<1> SUFFICES ASSUME ContextInv, Executes,
                    NEW call \in IF cpu.mode = "user" THEN Calls ELSE {"kernel_dispatch"},
                    cpu.mode = "kernel" => cpu.pc = ECALL,
                    enter(call, "code"),
                    own' = [own EXCEPT ![current] =
                              Context(next_pc(@.pc), @.sp, "code", @.reg, @.data)]
             PROVE  ContextInv'
  BY DEF EcallTrap
<1> DEFINE o == Context(next_pc(own[current].pc), own[current].sp, "code",
                        own[current].reg, own[current].data)
<1>1. trap = "no"
  BY DEF Executes
<1>2. /\ current \in Tcb /\ own[current] \in Ours
      /\ cpu.pc = own[current].pc /\ cpu.pc \in 0 .. 2 /\ cpu.mode = mode_of(current)
      /\ current = KernelMain /\ cpu.sie => cpu.pc = OFF
  BY <1>1, RunningFacts
<1>3. own' = [own EXCEPT ![current] = o]
  OBVIOUS
<1>4. next_pc(cpu.pc) \in 0 .. 2
  BY <1>2, Addresses
<1>5. o \in Ours
  BY <1>2, <1>4 DEF Context, Ours, Word
<1>6. /\ o.sp = own[current].sp /\ o.reg = own[current].reg /\ o.data = own[current].data
      /\ o.a0 = "code" /\ o.pc = next_pc(cpu.pc)
  BY <1>2 DEF Context
<1>7. ~(current = KernelMain /\ cpu.sie)
  BY <1>2 DEF mode_of, ECALL, OFF
<1>8. /\ call \in Calls \cup {"kernel_dispatch"}
      /\ call \in Calls => current # KernelMain
      /\ call = "kernel_dispatch" => current = KernelMain
  BY <1>2, ContextAssumption DEF mode_of
<1>9. call \notin {"timer", "hw"} /\ "code" \in Word
  BY <1>8, ContextAssumption DEF Word
<1> HIDE DEF o
<1> QED BY <1>1, <1>2, <1>3, <1>5, <1>6, <1>7, <1>8, <1>9, EnterStep

\* irq_wrap restores what the frame in sscratch holds.
LEMMA ReturnStep == ContextInv /\ Return => ContextInv'
<1> SUFFICES ASSUME ContextInv, Return PROVE ContextInv'
  OBVIOUS
<1> DEFINE n == Len(own[current].data)
           slot == <<current, n + 1>>
<1>1. served /\ trap # "no"
  BY DEF Return, ContextInv, Runs
<1>2. /\ Resumes(csr, mem, current, own[current])
      /\ own[current].pc = csr.sepc
  BY <1>1 DEF ContextInv, Served
<1>3. /\ csr.sscratch = slot /\ csr.spp = mode_of(current)
      /\ current = KernelMain /\ csr.spie => own[current].pc = OFF
      /\ mem[slot].sp = slot
      /\ mem[slot].reg = own[current].reg
      /\ NoStaleResult => mem[slot].a0 = own[current].a0
  BY <1>2 DEF Resumes
<1>4. current \in Tcb /\ own[current] \in Ours /\ Deep(current, own[current])
      /\ mem \in [Slot -> Frame] /\ csr \in Control
  BY DEF ContextInv, Types
<1>5. n \in Nat /\ slot \in Slot
  BY <1>4, RoomForFrame, ContextAssumption
<1>6. above(slot) = <<current, n>> /\ <<current, n>> = own[current].sp
  BY <1>4, <1>5 DEF above, Deep
<1>7. /\ cpu' = [pc |-> csr.sepc, sp |-> own[current].sp, a0 |-> mem[slot].a0,
                 reg |-> mem[slot].reg, mode |-> csr.spp, sie |-> csr.spie]
      /\ csr' = [csr EXCEPT !.spp = "user", !.spie = TRUE]
      /\ trap' = "no" /\ served' = FALSE
      /\ mem' = [mem EXCEPT ![slot] = unset(slot)]
      /\ UNCHANGED <<sched_vars, tcb, own>>
  BY <1>3, <1>6 DEF Return
<1>8. unset(slot) \in Frame /\ mem[slot] \in Frame
  BY <1>4, <1>5, UnsetIsFrame
<1> HIDE DEF slot
<1>9. mem' \in [Slot -> Frame] /\ \A s \in Slot : s # slot => mem'[s] = mem[s]
  BY <1>4, <1>7, <1>8
<1>10. \A s \in Slot : s[1] # current => mem'[s] = mem[s]
  <2>1. \A s \in Slot : s[1] # current => s # slot
    BY DEF slot
  <2> QED BY <1>9, <2>1
<1>11. /\ Parked' /\ OneRole'
       /\ \A t \in Owned \ {current} : Keeps(mem', t, own'[t])
       /\ current' = current /\ Owned' = Owned
  BY <1>7, <1>10, OthersStay
<1>12. Keeps(mem', current, own[current])
  <2> SUFFICES ASSUME NoStaleResult, NEW k \in DOMAIN own[current].data
               PROVE  mem'[<<current, k>>] = own[current].data[k]
    BY DEF Keeps
  <2>1. k \in 1 .. n /\ <<current, k>> \in Slot
    BY <1>4, RoomForFrame
  <2>2. <<current, k>> # slot
    BY <1>5, <2>1 DEF slot
  <2>3. current \in Owned
    BY DEF Owned
  <2>4. mem[<<current, k>>] = own[current].data[k]
    BY <2>3 DEF Keeps, ContextInv
  <2> QED BY <1>9, <2>1, <2>2, <2>4
<1>13. csr' \in Control
  BY <1>4, <1>7 DEF Control, Mode
<1>14. cpu' \in [pc : 0 .. 2, sp : Slot, a0 : Word, reg : Tcb, mode : Mode, sie : BOOLEAN]
  BY <1>4, <1>7, <1>8 DEF Control, Frame, Ours
<1>15. Types'
  BY <1>7, <1>9, <1>13, <1>14 DEF ContextInv, Types, sched_vars
<1>16. Runs'
  BY <1>2, <1>3, <1>7, <1>11 DEF Runs
<1>17. Served'
  BY <1>7 DEF Served
<1>18. (\A t \in Tcb : Deep(t, own[t]))'
  BY <1>7 DEF ContextInv
<1>19. \A t \in Owned' : Keeps(mem', t, own'[t])
  BY <1>7, <1>11, <1>12
<1> QED BY <1>11, <1>15, <1>16, <1>17, <1>18, <1>19 DEF ContextInv
-----------------------------------------------------------------------------
(* Handlers.                                                               *)

\* What a handler finds.
LEMMA HandlerFacts ==
  ASSUME ContextInv, NEW cause, Serving(cause), cause # "no"
  PROVE  /\ trap = cause /\ trap # "no" /\ ~served
         /\ served' = TRUE /\ trap' = trap /\ cpu' = cpu
         /\ current \in Tcb /\ Owned \subseteq Tcb /\ current \in Owned
         /\ Everyone(controls, mem, own, Owned)
         /\ controls[current] = csr
         /\ \A t \in Owned \ {current} : controls[t].sscratch = tcb[t].sp
         /\ csr \in Control /\ past_ecall \in Control
         /\ own[current].pc = IF cause \in {"timer", "hw"} THEN csr.sepc ELSE past_ecall.sepc
         /\ cause \in Calls => current \in Thread
         /\ cause = "kernel_dispatch" => current = KernelMain
<1>1. trap = cause /\ ~served /\ served' = TRUE /\ trap' = trap /\ cpu' = cpu
  BY DEF Serving
<1>2. csr \in Control /\ current \in Tcb
  BY DEF ContextInv, Types
<1>3. past_ecall \in Control /\ past_ecall.sepc = next_pc(csr.sepc)
  BY <1>2, Addresses DEF Control, past_ecall
<1>4. Everyone(controls, mem, own, Owned) /\ Owned \subseteq Tcb
  BY <1>1, EveryoneInTrap
<1>5. current \in Owned
  BY DEF Owned
<1>6. controls[current] = csr /\ \A t \in Owned \ {current} : controls[t].sscratch = tcb[t].sp
  BY <1>2, <1>4 DEF controls, control
<1>7. own[current].pc = returns_to
      /\ (cause \in Calls => current # KernelMain)
      /\ (cause = "kernel_dispatch" => current = KernelMain)
  BY <1>1 DEF ContextInv, Served
<1> QED BY <1>1, <1>2, <1>3, <1>4, <1>5, <1>6, <1>7 DEF returns_to, Tcb

\* What the handler of a system call finds.
LEMMA CallFacts ==
  ASSUME ContextInv, NEW cause, Serving(cause), cause \notin {"no", "timer", "hw"}
  PROVE  /\ trap = cause /\ trap # "no" /\ ~served
         /\ served' = TRUE /\ trap' = trap /\ cpu' = cpu
         /\ current \in Tcb /\ Owned \subseteq Tcb /\ current \in Owned
         /\ Everyone(controls, mem, own, Owned)
         /\ controls[current] = csr
         /\ \A t \in Owned \ {current} : controls[t].sscratch = tcb[t].sp
         /\ csr \in Control /\ past_ecall \in Control
         /\ own[current].pc = past_ecall.sepc
         /\ cause = "kernel_dispatch" => current = KernelMain
         /\ cause # "kernel_dispatch" => current \in Thread /\ cause \in Calls
<1>1. trap = cause
  BY DEF Serving
<1>2. cause # "kernel_dispatch" => cause \in Calls
  BY <1>1 DEF ContextInv, Types
<1> QED BY <1>2, HandlerFacts

\* A call of user code.
LEMMA CallOfUser ==
  ASSUME ContextInv, NEW cause, Serving(cause),
         cause \notin {"no", "timer", "hw", "kernel_dispatch"}
  PROVE  current \in Thread /\ cause \in Calls
BY CallFacts

\* Only the address differs after an ecall.
LEMMA PastEcall ==
  ASSUME csr \in Control, NEW m, NEW t, NEW o, Resumes(csr, m, t, o)
  PROVE  Resumes(past_ecall, m, t, o)
<1>1. /\ past_ecall.sscratch = csr.sscratch
      /\ past_ecall.spp = csr.spp
      /\ past_ecall.spie = csr.spie
  BY DEF past_ecall, Control
<1> QED BY <1>1 DEF Resumes

\* A handler that goes back to the thread it interrupted.
LEMMA HandlerStays ==
  ASSUME ContextInv, NEW cause, Serving(cause), cause # "no",
         current' = current, tcb' = tcb, csr' \in {csr, past_ecall},
         Everyone(controls, mem', own', Owned),
         Owned' = Owned, ready' \subseteq Tcb, blocked' \subseteq Thread, OneRole',
         \A t \in Owned \ {current} : own'[t].pc = own[t].pc,
         own'[current].pc = csr'.sepc
  PROVE  ContextInv'
<1>1. /\ trap # "no" /\ served' = TRUE /\ trap' = trap /\ cpu' = cpu
      /\ current \in Tcb /\ Owned \subseteq Tcb /\ current \in Owned
      /\ controls[current] = csr /\ csr' \in Control /\ csr \in Control
  BY HandlerFacts
<1>2. Resumes(csr', mem', current, own'[current])
  BY <1>1, PastEcall DEF Everyone
<1>3. \A t \in Tcb : controls'[t] = IF t = current THEN csr' ELSE controls[t]
  BY DEF controls
<1>4. \A t \in Owned : Resumes(controls'[t], mem', t, own'[t])
  BY <1>1, <1>2, <1>3 DEF Everyone
<1>5. Everyone(controls, mem, own, Owned)'
  BY <1>4 DEF Everyone
<1>6. \A t \in Owned \ {current} : tcb[t].sepc = own'[t].pc
  BY DEF ContextInv, Parked
<1>7. tcb' \in [Tcb -> Saved] /\ cpu' \in [pc : 0 .. 2, sp : Slot, a0 : Word, reg : Tcb,
                                           mode : Mode, sie : BOOLEAN]
      /\ trap' \in Calls \cup {"timer", "hw", "kernel_dispatch"}
  BY <1>1 DEF ContextInv, Types
<1> QED BY <1>1, <1>5, <1>6, <1>7, Assembled

\* Any set of sleepers wakes; the slice ends or not.
LEMMA TimerStep == ContextInv /\ Timer => ContextInv'
<1> SUFFICES ASSUME ContextInv, Serving("timer"), mem' = mem, own' = own,
                    NEW W \in SUBSET blocked,
                    blocked' = blocked \ W,
                    \/ switch(ready \cup W \cup {current}, csr)
                    \/ ready' = ready \cup W /\ UNCHANGED <<current, csr, tcb>>
             PROVE  ContextInv'
  BY DEF Timer
<1>1. /\ trap # "no" /\ served' = TRUE /\ trap' = trap /\ cpu' = cpu
      /\ current \in Tcb /\ Owned \subseteq Tcb /\ current \in Owned
      /\ Everyone(controls, mem, own, Owned) /\ csr \in Control
      /\ own[current].pc = csr.sepc
  BY HandlerFacts
<1>2. Types /\ ready \subseteq Tcb /\ blocked \subseteq Thread /\ OneRole
  BY DEF ContextInv, Types
<1>3. CASE switch(ready \cup W \cup {current}, csr)
  <2> DEFINE R == ready \cup W \cup {current}
  <2>1. R \in SUBSET Tcb
    BY <1>1, <1>2 DEF Tcb
  <2>2. PICK new \in Tcb : Switched(new, R, csr)
    BY <1>1, <1>2, <1>3, <2>1, SwitchSwitches
  <2>3. R \subseteq Owned /\ blocked' \subseteq Owned /\ R \cap blocked' = {}
        /\ blocked' \subseteq Thread
    BY <1>2 DEF Owned, OneRole
  <2> HIDE DEF R
  <2> QED BY <1>1, <2>1, <2>2, <2>3, HandlerSwitches
<1>4. CASE ready' = ready \cup W /\ UNCHANGED <<current, csr, tcb>>
  <2>1. Owned' = Owned /\ OneRole' /\ ready' \subseteq Tcb /\ blocked' \subseteq Thread
    BY <1>2, <1>4 DEF Owned, OneRole, Tcb
  <2> QED BY <1>1, <1>4, <2>1, HandlerStays
<1> QED BY <1>3, <1>4

\* A reader gets its character in its own frame.
LEMMA HwStep == ContextInv /\ Hw => ContextInv'
<1> SUFFICES ASSUME ContextInv, Serving("hw"), UNCHANGED <<csr, tcb, current>>,
                    \/ \E u \in blocked :
                         /\ blocked' = blocked \ {u}
                         /\ ready' = ready \cup {u}
                         /\ mem' = put_result(mem, u, "woken")
                         /\ own' = [own EXCEPT ![u].a0 = "woken"]
                    \/ UNCHANGED <<blocked, ready, mem, own>>
             PROVE  ContextInv'
  BY DEF Hw
<1>1. /\ trap # "no"
      /\ current \in Tcb /\ Owned \subseteq Tcb /\ current \in Owned
      /\ Everyone(controls, mem, own, Owned) /\ csr \in Control
      /\ \A t \in Owned \ {current} : controls[t].sscratch = tcb[t].sp
      /\ own[current].pc = csr.sepc
  BY HandlerFacts
<1>2. /\ ready \subseteq Tcb /\ blocked \subseteq Thread /\ OneRole
      /\ own \in [Tcb -> Ours]
  BY DEF ContextInv, Types
<1>3. CASE UNCHANGED <<blocked, ready, mem, own>>
  <2>1. Owned' = Owned /\ OneRole'
    BY <1>2, <1>3 DEF Owned, OneRole
  <2> QED BY <1>1, <1>2, <1>3, <2>1, HandlerStays
<1>4. ASSUME NEW u \in blocked, blocked' = blocked \ {u}, ready' = ready \cup {u},
             mem' = put_result(mem, u, "woken"), own' = [own EXCEPT ![u].a0 = "woken"]
      PROVE  ContextInv'
  <2>1. u \in Owned \ {current} /\ u \in Tcb
    BY <1>1, <1>2 DEF Owned, OneRole
  <2>2. mem' = marked(mem, controls[u].sscratch, "woken")
    BY <1>1, <1>4, <2>1 DEF put_result, marked
  <2>r. "woken" \in Word
    BY DEF Word
  <2>g. own' = given(own, u, "woken")
    BY <1>4 DEF given
  <2>3. Everyone(controls, mem', own', Owned)
    BY <1>1, <2>g, <2>r, <2>1, <2>2, ResultForEveryone
  <2>4. \A t \in Tcb : own'[t].pc = own[t].pc
    BY <1>2, <1>4, <2>1 DEF Ours
  <2>5. Owned' = Owned /\ OneRole' /\ ready' \subseteq Tcb /\ blocked' \subseteq Thread
    BY <1>2, <1>4, <2>1 DEF Owned, OneRole
  <2> QED BY <1>1, <2>3, <2>4, <2>5, HandlerStays
<1> QED BY <1>3, <1>4

\* The result is written to the frame the trap has just made.
LEMMA ServiceStep == ContextInv /\ Service => ContextInv'
<1> SUFFICES ASSUME ContextInv, Service PROVE ContextInv'
  OBVIOUS
<1>s. Serving("service")
  BY DEF Service
<1>0. /\ csr' = past_ecall
      /\ mem' = marked(mem, csr.sscratch, "result")
      /\ own' = [own EXCEPT ![current].a0 = "result"]
      /\ UNCHANGED <<tcb, sched_vars>>
  BY DEF Service, marked
<1>1. /\ current \in Tcb /\ Owned \subseteq Tcb /\ current \in Owned
      /\ Everyone(controls, mem, own, Owned) /\ controls[current] = csr
      /\ own[current].pc = past_ecall.sepc
  BY <1>s, CallFacts
<1>2. own \in [Tcb -> Ours] /\ ready \subseteq Tcb /\ blocked \subseteq Thread
  BY DEF ContextInv, Types
<1>r. "result" \in Word
  BY DEF Word
<1>g. own' = given(own, current, "result")
  BY <1>0 DEF given
<1>m. mem' = marked(mem, controls[current].sscratch, "result")
  BY <1>0, <1>1
<1>3. Everyone(controls, mem', own', Owned)
  BY <1>1, <1>g, <1>m, <1>r, ResultForEveryone
<1>4. \A t \in Tcb : own'[t].pc = own[t].pc
  BY <1>0, <1>1, <1>2 DEF Ours
<1>5. current' = current /\ ready' = ready /\ blocked' = blocked /\ Owned' = Owned /\ OneRole'
  BY <1>0 DEF sched_vars, Owned, OneRole, ContextInv
<1> QED BY <1>s, <1>0, <1>1, <1>2, <1>3, <1>4, <1>5, HandlerStays

\* A result in a stale frame changes no register but a0.
LEMMA GetcStep == ContextInv /\ Getc => ContextInv'
<1> SUFFICES ASSUME ContextInv, Getc PROVE ContextInv'
  OBVIOUS
<1> DEFINE x == tcb[current].sp
<1>s. Serving("getc")
  BY DEF Getc
<1>0. /\ csr' = past_ecall
      /\ mem' = marked(mem, x, "woken")
      /\ own' = [own EXCEPT ![current].a0 = "woken"]
      /\ UNCHANGED <<tcb, sched_vars>>
  BY DEF Getc, marked, put_result
<1>1. /\ current \in Tcb /\ Owned \subseteq Tcb /\ current \in Owned
      /\ Everyone(controls, mem, own, Owned)
      /\ own[current].pc = past_ecall.sepc /\ trap = "getc"
  BY <1>s, CallFacts
<1>2. /\ own \in [Tcb -> Ours] /\ ready \subseteq Tcb /\ blocked \subseteq Thread
      /\ mem \in [Slot -> Frame] /\ \A t \in Tcb : Deep(t, own[t])
  BY DEF ContextInv, Types
<1>3. ~NoStaleResult
  BY <1>1 DEF ContextInv, Types, NoStaleResult
<1>4. x \in Slot /\ "woken" \in Word
  BY <1>1 DEF ContextInv, Types, Saved, Word
<1>5. own' = [own EXCEPT ![current] = with_a0(own[current], "woken")]
  BY <1>0 DEF with_a0
<1>6. /\ with_a0(own[current], "woken") \in Ours
      /\ with_a0(own[current], "woken").pc = own[current].pc
      /\ Deep(current, with_a0(own[current], "woken"))
  BY <1>1, <1>2, <1>4, WithA0 DEF Deep
<1>7. /\ own' \in [Tcb -> Ours] /\ own'[current] = with_a0(own[current], "woken")
      /\ \A t \in Tcb \ {current} : own'[t] = own[t]
  BY <1>1, <1>2, <1>5, <1>6
<1>8. mem' \in [Slot -> Frame]
  BY <1>0, <1>2, <1>4, Marked
<1>9. ASSUME NEW t \in Owned
      PROVE  Resumes(controls[t], mem', t, own'[t]) /\ Keeps(mem', t, own'[t])
  <2>1. t \in Tcb /\ own[t] \in Ours /\ Deep(t, own[t])
        /\ Resumes(controls[t], mem, t, own[t])
    BY <1>1, <1>2 DEF Everyone
  <2>2. /\ Resumes(controls[t], mem', t, own[t])
        /\ Resumes(controls[t], mem', t, with_a0(own[t], "woken"))
    BY <1>0, <1>2, <1>3, <1>4, <2>1, ResumesMarked
  <2> QED BY <1>3, <1>7, <2>1, <2>2 DEF Keeps
<1>10. Everyone(controls, mem', own', Owned)
  BY <1>2, <1>6, <1>7, <1>8, <1>9 DEF Everyone
<1>11. current' = current /\ ready' = ready /\ blocked' = blocked /\ Owned' = Owned /\ OneRole'
  BY <1>0 DEF sched_vars, Owned, OneRole, ContextInv
<1>12. \A t \in Owned \ {current} : own'[t].pc = own[t].pc
  BY <1>1, <1>7
<1> QED BY <1>s, <1>0, <1>1, <1>2, <1>6, <1>7, <1>10, <1>11, <1>12, HandlerStays
\* Two results are written, to the frames of two threads.
LEMMA WakeStep == ContextInv /\ Wake => ContextInv'
<1> SUFFICES ASSUME ContextInv, Serving("wake"), csr' = past_ecall,
                    UNCHANGED <<tcb, current>>,
                    NEW u \in blocked,
                    blocked' = blocked \ {u},
                    ready' = ready \cup {u},
                    mem' = [put_result(mem, u, "woken") EXCEPT ![csr.sscratch].a0 = "result"],
                    own' = [own EXCEPT ![u].a0 = "woken", ![current].a0 = "result"]
             PROVE  ContextInv'
  BY DEF Wake
<1> DEFINE m == marked(mem, controls[u].sscratch, "woken")
           o == given(own, u, "woken")
<1>1. /\ current \in Tcb /\ Owned \subseteq Tcb /\ current \in Owned
      /\ Everyone(controls, mem, own, Owned) /\ controls[current] = csr
      /\ \A t \in Owned \ {current} : controls[t].sscratch = tcb[t].sp
      /\ own[current].pc = past_ecall.sepc
  BY CallFacts
<1>2. own \in [Tcb -> Ours] /\ ready \subseteq Tcb /\ blocked \subseteq Thread /\ OneRole
  BY DEF ContextInv, Types
<1>3. u \in Owned \ {current} /\ u \in Tcb
  BY <1>1, <1>2 DEF Owned, OneRole
<1>4. "woken" \in Word /\ "result" \in Word
  BY DEF Word
<1>5. mem' = marked(m, controls[current].sscratch, "result")
  BY <1>1, <1>3 DEF put_result, marked
<1>6. own' = given(o, current, "result")
  BY DEF given
<1>7. Everyone(controls, m, o, Owned)
  BY <1>1, <1>3, <1>4, ResultForEveryone
<1>8. \A t \in Tcb : own'[t].pc = own[t].pc
  BY <1>1, <1>2, <1>3 DEF Ours
<1> HIDE DEF m, o
<1>9. Everyone(controls, mem', own', Owned)
  <2>1. Owned \in SUBSET Tcb
    BY <1>1
  <2>2. Everyone(controls, marked(m, controls[current].sscratch, "result"),
                 given(o, current, "result"), Owned)
    BY <1>1, <1>4, <1>7, <2>1, ResultForEveryone, Zenon
  <2> QED BY <1>5, <1>6, <2>2, Zenon
<1>10. Owned' = Owned /\ OneRole' /\ ready' \subseteq Tcb /\ blocked' \subseteq Thread
  BY <1>2, <1>3 DEF Owned, OneRole
<1> QED BY <1>1, <1>8, <1>9, <1>10, HandlerStays

\* The frame of a new thread lies on a stack nobody uses.
LEMMA CreateStep == ContextInv /\ Create => ContextInv'
<1> SUFFICES ASSUME ContextInv, Serving("create"), csr' = past_ecall,
                    UNCHANGED <<current, blocked>>,
                    NEW t \in Thread \ live,
                    mem' = [mem EXCEPT ![<<t, 1>>] = new_frame(t),
                                       ![csr.sscratch].a0 = "result"],
                    tcb' = [tcb EXCEPT ![t] = new_tcb(t)],
                    ready' = ready \cup {t},
                    own' = [own EXCEPT ![t] = new_own(t), ![current].a0 = "result"]
             PROVE  ContextInv'
  BY DEF Create
<1> DEFINE m == [mem EXCEPT ![<<t, 1>>] = new_frame(t)]
           o == [own EXCEPT ![t] = new_own(t)]
           cs == [controls EXCEPT ![t] = control(new_tcb(t))]
           T == Owned \cup {t}
<1>1. /\ trap # "no" /\ served' = TRUE /\ trap' = trap /\ cpu' = cpu
      /\ current \in Tcb /\ Owned \subseteq Tcb /\ current \in Owned
      /\ Everyone(controls, mem, own, Owned) /\ controls[current] = csr
      /\ csr \in Control /\ past_ecall \in Control
      /\ own[current].pc = past_ecall.sepc
  BY CallFacts
<1>2. /\ own \in [Tcb -> Ours] /\ ready \subseteq Tcb /\ blocked \subseteq Thread
      /\ mem \in [Slot -> Frame] /\ tcb \in [Tcb -> Saved]
      /\ \A u \in Tcb : Deep(u, own[u])
  BY DEF ContextInv, Types
<1>3. t \in Tcb /\ t # KernelMain /\ t \notin Owned
  BY ContextAssumption DEF Tcb, live, Owned
<1>4. STACK_SLOTS \in Nat /\ KernelMain \in Tcb
  BY ContextAssumption DEF Tcb
<1>5. <<t, 1>> \in Slot /\ <<t, 0>> \in Slot
  <2>1. 1 \in 0 .. STACK_SLOTS + 1 /\ 0 \in 0 .. STACK_SLOTS + 1
    BY <1>4
  <2> QED BY <1>3, <2>1, Slots
<1>6. /\ new_frame(t) \in Frame
      /\ new_frame(t).sp = <<t, 1>>
      /\ new_frame(t).reg = KernelMain
      /\ new_frame(t).a0 = "start_f"
  BY <1>4, <1>5 DEF new_frame, unset, Frame, Word
<1>7. /\ new_own(t) \in Ours
      /\ new_own(t).pc = ECALL /\ new_own(t).sp = <<t, 0>>
      /\ new_own(t).a0 = "start_f" /\ new_own(t).reg = KernelMain /\ new_own(t).data = <<>>
  BY <1>4, <1>5 DEF new_own, Context, Ours, Word, ECALL
<1>8. /\ new_tcb(t) \in Saved
      /\ new_tcb(t).sp = <<t, 1>> /\ new_tcb(t).sepc = ECALL /\ new_tcb(t).spp = "user"
  BY <1>1, <1>5 DEF new_tcb, Saved, Control, Mode, ECALL
<1>9. /\ m \in [Slot -> Frame] /\ m[<<t, 1>>] = new_frame(t)
      /\ \A s \in Slot : s # <<t, 1>> => m[s] = mem[s]
  BY <1>2, <1>5, <1>6
<1>10. o \in [Tcb -> Ours] /\ o[t] = new_own(t) /\ \A u \in Tcb \ {t} : o[u] = own[u]
  BY <1>2, <1>3, <1>7
<1>11. cs[t] = control(new_tcb(t)) /\ \A u \in Tcb \ {t} : cs[u] = controls[u]
  BY <1>3 DEF controls
<1>12. /\ mem' = [m EXCEPT ![csr.sscratch].a0 = "result"]
       /\ own' = [o EXCEPT ![current].a0 = "result"]
       /\ T \subseteq Tcb
  BY <1>1, <1>3
<1> HIDE DEF m, o, cs
<1>13. /\ mem' = marked(m, cs[current].sscratch, "result")
       /\ own' = given(o, current, "result")
  BY <1>1, <1>3, <1>11, <1>12 DEF marked, given
<1>14. Deep(t, o[t])
  BY <1>3, <1>4, <1>7, <1>10 DEF Deep
<1>15. \A u \in Tcb : Deep(u, o[u])
  BY <1>2, <1>10, <1>14
<1>16. Resumes(cs[t], m, t, o[t]) /\ Keeps(m, t, o[t])
  <2>1. control(new_tcb(t)).sscratch = <<t, 1>> /\ control(new_tcb(t)).spp = "user"
    BY <1>8 DEF control
  <2>2. Len(o[t].data) + 1 = 1 /\ DOMAIN o[t].data = {}
    BY <1>7, <1>10
  <2> QED BY <1>3, <1>6, <1>7, <1>9, <1>10, <1>11, <2>1, <2>2 DEF Resumes, Keeps, mode_of
<1>17. ASSUME NEW u \in Owned
       PROVE  Resumes(cs[u], m, u, o[u]) /\ Keeps(m, u, o[u])
  <2>1. /\ u \in Tcb /\ u # t /\ o[u] = own[u] /\ cs[u] = controls[u]
        /\ own[u] \in Ours /\ Deep(u, own[u])
        /\ Resumes(controls[u], mem, u, own[u]) /\ Keeps(mem, u, own[u])
    BY <1>1, <1>2, <1>3, <1>10, <1>11 DEF Everyone
  <2>2. <<u, Len(own[u].data) + 1>> \in Slot /\ \A k \in DOMAIN own[u].data : <<u, k>> \in Slot
    BY <2>1, RoomForFrame
  <2>3. \A k : <<u, k>> # <<t, 1>>
    BY <2>1
  <2>4. m[<<u, Len(own[u].data) + 1>>] = mem[<<u, Len(own[u].data) + 1>>]
    BY <1>9, <2>2, <2>3
  <2>5. Resumes(controls[u], m, u, own[u])
    BY <2>1, <2>4, ResumesSame
  <2>6. Keeps(m, u, own[u])
    BY <1>9, <2>1, <2>2, <2>3 DEF Keeps
  <2> QED BY <2>1, <2>5, <2>6
<1>18. Everyone(cs, m, o, T)
  BY <1>9, <1>10, <1>15, <1>16, <1>17 DEF Everyone
<1>19. "result" \in Word /\ current \in T
  BY <1>1 DEF Word
<1>20. Everyone(cs, mem', own', T)
  <2>1. T \in SUBSET Tcb
    BY <1>12
  <2>2. Everyone(cs, marked(m, cs[current].sscratch, "result"), given(o, current, "result"), T)
    BY <1>18, <1>19, <2>1, ResultForEveryone, Zenon
  <2> QED BY <1>13, <2>2, Zenon
<1>21. current' = current /\ Owned' = T
  BY DEF Owned
<1>22. tcb' \in [Tcb -> Saved] /\ tcb'[t] = new_tcb(t) /\ \A u \in Tcb \ {t} : tcb'[u] = tcb[u]
  BY <1>2, <1>3, <1>8
<1>23. \A u \in T \ {current} : controls'[u] = cs[u]
  BY <1>1, <1>3, <1>11, <1>12, <1>21, <1>22 DEF controls
<1>24. controls'[current] = past_ecall /\ cs[current] = csr
  BY <1>1, <1>3, <1>11, <1>21 DEF controls
<1>25. Resumes(past_ecall, mem', current, own'[current])
  BY <1>1, <1>19, <1>20, <1>24, PastEcall DEF Everyone
<1>26. Everyone(controls, mem, own, Owned)'
  BY <1>20, <1>21, <1>23, <1>24, <1>25 DEF Everyone
<1>27. \A u \in Tcb : own'[u].pc = o[u].pc
  BY <1>1, <1>10, <1>12 DEF Ours
<1>28. \A u \in T \ {current} : tcb'[u].sepc = own'[u].pc
  <2>1. \A u \in Owned \ {current} : tcb[u].sepc = own[u].pc
    BY DEF ContextInv, Parked
  <2>2. tcb'[t].sepc = own'[t].pc
    BY <1>3, <1>7, <1>8, <1>10, <1>22, <1>27
  <2>3. \A u \in Owned \ {current} : tcb'[u].sepc = own'[u].pc
    <3> SUFFICES ASSUME NEW u \in Owned \ {current} PROVE tcb'[u].sepc = own'[u].pc
      OBVIOUS
    <3>1. u \in Tcb \ {t}
      BY <1>1, <1>3
    <3>2. tcb'[u] = tcb[u] /\ own'[u].pc = own[u].pc
      BY <1>10, <1>22, <1>27, <3>1
    <3> QED BY <2>1, <3>2
  <2> QED BY <2>2, <2>3
<1>29. own'[current].pc = csr'.sepc
  BY <1>1, <1>3, <1>10, <1>27
<1>30. OneRole' /\ ready' \subseteq Tcb
  BY <1>2, <1>3 DEF OneRole, ContextInv, Owned
<1>31. /\ trap' \in Calls \cup {"timer", "hw", "kernel_dispatch"}
       /\ cpu' \in [pc : 0 .. 2, sp : Slot, a0 : Word, reg : Tcb, mode : Mode, sie : BOOLEAN]
  BY <1>1 DEF ContextInv, Types
<1> QED BY <1>1, <1>2, <1>21, <1>22, <1>26, <1>28, <1>29, <1>30, <1>31, Assembled
\* thread_dispatch.
LEMMA DispatchStep == ContextInv /\ Dispatch => ContextInv'
<1> SUFFICES ASSUME ContextInv, Serving("dispatch"),
                    switch(ready \cup {current}, past_ecall),
                    UNCHANGED <<mem, blocked, own>>
             PROVE  ContextInv'
  BY DEF Dispatch
<1> DEFINE R == ready \cup {current}
<1>1. /\ trap # "no" /\ served' = TRUE /\ trap' = trap /\ cpu' = cpu
      /\ current \in Tcb /\ Owned \subseteq Tcb /\ current \in Owned
      /\ Everyone(controls, mem, own, Owned) /\ past_ecall \in Control
      /\ own[current].pc = past_ecall.sepc
  BY CallFacts
<1>2. Types /\ ready \subseteq Tcb /\ blocked \subseteq Thread /\ OneRole
  BY DEF ContextInv, Types
<1>3. R \in SUBSET Tcb
  BY <1>1, <1>2
<1>4. PICK new \in Tcb : Switched(new, R, past_ecall)
  BY <1>1, <1>2, <1>3, SwitchSwitches
<1>5. R \subseteq Owned /\ blocked' \subseteq Owned /\ R \cap blocked' = {}
      /\ blocked' \subseteq Thread
  BY <1>2 DEF Owned, OneRole
<1> HIDE DEF R
<1> QED BY <1>1, <1>3, <1>4, <1>5, HandlerSwitches

\* A wait.
LEMMA BlockStep == ContextInv /\ Block => ContextInv'
<1> SUFFICES ASSUME ContextInv, Serving("block"),
                    switch(ready, past_ecall),
                    blocked' = blocked \cup {current},
                    UNCHANGED <<mem, own>>
             PROVE  ContextInv'
  BY DEF Block
<1>1. /\ trap # "no" /\ served' = TRUE /\ trap' = trap /\ cpu' = cpu
      /\ current \in Tcb /\ Owned \subseteq Tcb /\ current \in Owned
      /\ Everyone(controls, mem, own, Owned) /\ past_ecall \in Control
      /\ own[current].pc = past_ecall.sepc
  BY CallFacts
<1>3. current \in Thread
  BY CallOfUser
<1>2. Types /\ ready \in SUBSET Tcb /\ blocked \subseteq Thread /\ OneRole
  BY DEF ContextInv, Types
<1>4. PICK new \in Tcb : Switched(new, ready, past_ecall)
  BY <1>1, <1>2, SwitchSwitches
<1>5. ready \subseteq Owned /\ blocked' \subseteq Owned /\ ready \cap blocked' = {}
      /\ blocked' \subseteq Thread
  BY <1>1, <1>2, <1>3 DEF Owned, OneRole
<1> QED BY <1>1, <1>2, <1>4, <1>5, HandlerSwitches

\* The result of time_sleep is in the frame before the thread sleeps.
LEMMA SleepStep == ContextInv /\ Sleep => ContextInv'
<1>0. SUFFICES ASSUME ContextInv, Serving("sleep"),
                      switch(ready, past_ecall),
                      blocked' = blocked \cup {current},
                      mem' = marked(mem, csr.sscratch, "result"),
                      own' = given(own, current, "result")
               PROVE  ContextInv'
  BY DEF Sleep, marked, given
<1>1. /\ trap # "no" /\ served' = TRUE /\ trap' = trap /\ cpu' = cpu
      /\ current \in Tcb /\ Owned \subseteq Tcb /\ current \in Owned
      /\ Everyone(controls, mem, own, Owned) /\ past_ecall \in Control
      /\ controls[current] = csr
      /\ own[current].pc = past_ecall.sepc
  BY <1>0, CallFacts
<1>u. current \in Thread
  BY <1>0, CallOfUser
<1>2. /\ Types /\ ready \in SUBSET Tcb /\ blocked \subseteq Thread /\ OneRole
      /\ own \in [Tcb -> Ours]
  BY <1>0 DEF ContextInv, Types
<1>3. Owned \in SUBSET Tcb /\ "result" \in Word
  BY <1>1 DEF Word
<1>4. PICK new \in Tcb : Switched(new, ready, past_ecall)
  BY <1>0, <1>1, <1>2, SwitchSwitches
<1>5. ready \subseteq Owned /\ blocked' \subseteq Owned /\ ready \cap blocked' = {}
      /\ blocked' \subseteq Thread
  BY <1>0, <1>u, <1>1, <1>2 DEF Owned, OneRole
<1>6. Everyone(controls, mem', own', Owned)
  BY <1>0, <1>1, <1>3, ResultForEveryone, Zenon
<1>7. \A t \in Tcb : own'[t].pc = own[t].pc
  BY <1>0, <1>1, <1>2 DEF given, Ours
<1> QED BY <1>0, <1>1, <1>2, <1>4, <1>5, <1>6, <1>7, HandlerSwitches

\* Nothing of the thread that exits is needed again.
LEMMA ExitStep == ContextInv /\ Exit => ContextInv'
<1>0. SUFFICES ASSUME ContextInv, Exit PROVE ContextInv'
  OBVIOUS
<1> DEFINE T == Owned \ {current}
<1>1. Serving("exit") /\ switch(ready, past_ecall) /\ blocked' = blocked
  BY <1>0 DEF Exit
<1>2. /\ mem' = [a \in Slot |-> IF a[1] = current THEN unset(a) ELSE mem[a]]
      /\ own' = [own EXCEPT ![current] = new_own(current)]
  BY <1>0 DEF Exit
<1>3. /\ trap # "no" /\ served' = TRUE /\ trap' = trap /\ cpu' = cpu
      /\ current \in Tcb /\ Owned \subseteq Tcb
      /\ Everyone(controls, mem, own, Owned) /\ past_ecall \in Control
  BY <1>0, <1>1, CallFacts
<1>u. current \in Thread
  BY <1>0, <1>1, CallOfUser
<1>4. /\ Types /\ ready \in SUBSET Tcb /\ blocked \subseteq Thread /\ OneRole
      /\ own \in [Tcb -> Ours] /\ mem \in [Slot -> Frame]
      /\ \A t \in Tcb : Deep(t, own[t])
  BY <1>0 DEF ContextInv, Types
<1>5. PICK new \in Tcb : Switched(new, ready, past_ecall)
  BY <1>1, <1>3, <1>4, SwitchSwitches
<1>6. ready \subseteq Owned /\ blocked' \subseteq Owned /\ ready \cap blocked' = {}
      /\ blocked' \subseteq Thread /\ current \notin ready \cup blocked' \cup {KernelMain}
  BY <1>1, <1>3, <1>u, <1>4, ContextAssumption DEF Owned, OneRole
<1>7. STACK_SLOTS \in Nat /\ KernelMain \in Tcb /\ current # KernelMain
  BY <1>u, ContextAssumption DEF Tcb
<1>8. <<current, 0>> \in Slot
  <2>1. 0 \in 0 .. STACK_SLOTS + 1
    BY <1>7
  <2> QED BY <1>3, <2>1, Slots
<1>9. new_own(current) \in Ours /\ Deep(current, new_own(current))
  BY <1>7, <1>8 DEF new_own, Context, Ours, Word, ECALL, Deep
<1>10. /\ own' \in [Tcb -> Ours] /\ own'[current] = new_own(current)
       /\ \A t \in Tcb \ {current} : own'[t] = own[t]
  BY <1>2, <1>3, <1>4, <1>9
<1>11. /\ mem' \in [Slot -> Frame]
       /\ \A s \in Slot : s[1] # current => mem'[s] = mem[s]
  BY <1>2, <1>4, UnsetIsFrame
<1>12. ASSUME NEW t \in T
       PROVE  Resumes(controls[t], mem', t, own'[t]) /\ Keeps(mem', t, own'[t])
  <2>1. /\ t \in Tcb /\ t # current /\ own'[t] = own[t] /\ own[t] \in Ours
        /\ Deep(t, own[t])
        /\ Resumes(controls[t], mem, t, own[t]) /\ Keeps(mem, t, own[t])
    BY <1>3, <1>4, <1>10 DEF Everyone
  <2>2. <<t, Len(own[t].data) + 1>> \in Slot /\ \A k \in DOMAIN own[t].data : <<t, k>> \in Slot
    BY <2>1, RoomForFrame
  <2>3. \A k : <<t, k>>[1] = t
    OBVIOUS
  <2>4. mem'[<<t, Len(own[t].data) + 1>>] = mem[<<t, Len(own[t].data) + 1>>]
    BY <1>11, <2>1, <2>2, <2>3
  <2>5. Resumes(controls[t], mem', t, own[t])
    BY <2>1, <2>4, ResumesSame
  <2>6. Keeps(mem', t, own[t])
    BY <1>11, <2>1, <2>2, <2>3 DEF Keeps
  <2> QED BY <2>1, <2>5, <2>6
<1>13. \A t \in Tcb : Deep(t, own'[t])
  BY <1>4, <1>9, <1>10
<1>14. Everyone(controls, mem', own', T)
  BY <1>10, <1>11, <1>12, <1>13 DEF Everyone
<1>15. \A t \in T : own'[t].pc = own[t].pc
  BY <1>3, <1>10
<1>16. T \in SUBSET Owned /\ Owned \ {current} \subseteq T /\ current \notin T
  OBVIOUS
<1> HIDE DEF T
<1>17. \A t \in Owned \ {current} : own'[t].pc = own[t].pc
  BY <1>15 DEF T
<1> QED BY <1>0, <1>3, <1>4, <1>5, <1>6, <1>14, <1>16, <1>17, HandlerSwitches

\* A refused putc resumes at its ecall; whatever yield left of the old sepc in
\* the struct is written again before the struct is used.
LEMMA PutcFullStep == ContextInv /\ PutcFull => ContextInv'
<1>0. SUFFICES ASSUME ContextInv, Serving("putc_full"),
                      NEW new \in ready \cup {current},
                      current' = new,
                      ready' = (ready \cup {current}) \ {new},
                      tcb' = [yield_tcb(new, csr) EXCEPT ![current].sepc =
                                IF new = current THEN prev_pc(csr.sepc) ELSE @],
                      csr' = yield_csr(new, csr),
                      own' = [own EXCEPT ![current].pc = csr.sepc],
                      UNCHANGED <<mem, blocked>>
               PROVE  ContextInv'
  BY DEF PutcFull
<1> DEFINE R == ready \cup {current}
           o == [own[current] EXCEPT !.pc = csr.sepc]
<1>s. ContextInv /\ Serving("putc_full")
  BY <1>0
<1>1. /\ trap # "no" /\ served' = TRUE /\ trap' = trap /\ cpu' = cpu
      /\ current \in Tcb /\ Owned \subseteq Tcb /\ current \in Owned
      /\ Everyone(controls, mem, own, Owned) /\ csr \in Control
      /\ controls[current] = csr
  BY <1>s, CallFacts
<1>u. current \in Thread
  BY <1>s, CallOfUser
<1>2. /\ Types /\ ready \subseteq Tcb /\ blocked \subseteq Thread /\ OneRole
      /\ own \in [Tcb -> Ours] /\ tcb \in [Tcb -> Saved] /\ tcb[current] \in Saved
      /\ \A t \in Tcb : Deep(t, own[t])
  BY <1>0, <1>1 DEF ContextInv, Types
<1>3. R \in SUBSET Tcb /\ new \in Tcb /\ new \in next_of(R)
  BY <1>0, <1>1, <1>2 DEF next_of
<1>4. csr.sepc \in 0 .. 2 /\ prev_pc(csr.sepc) \in 0 .. 2 /\ csr.sscratch \in Slot
  BY <1>1, Addresses DEF Control
<1>5. Switched(new, R, csr)
  <2>1. CASE new = current
    <3> DEFINE s == [tcb[current] EXCEPT !.sp = csr.sscratch, !.sepc = prev_pc(csr.sepc)]
    <3>1. s \in Saved
      BY <1>2, <1>4 DEF Saved
    <3>2. tcb' = [tcb EXCEPT ![current] = s]
      BY <1>0, <1>1, <1>2, <2>1 DEF yield_tcb
    <3> HIDE DEF s
    <3>3. tcb' \in [Tcb -> Saved] /\ \A t \in Tcb \ {current} : tcb'[t] = tcb[t]
      BY <1>2, <3>1, <3>2
    <3> QED BY <1>0, <1>3, <2>1, <3>3 DEF Switched
  <2>2. CASE new # current
    <3> DEFINE s == [sp |-> csr.sscratch, sepc |-> csr.sepc, spp |-> csr.spp, spie |-> csr.spie]
    <3>1. s \in Saved /\ control(s) = csr
      BY <1>1, Controls
    <3>2. tcb' = [tcb EXCEPT ![current] = s]
      <4>1. [s EXCEPT !.sepc = s.sepc] = s
        OBVIOUS
      <4>2. yield_tcb(new, csr) = [tcb EXCEPT ![current] = s]
        BY <2>2 DEF yield_tcb
      <4> HIDE DEF s
      <4>3. tcb' = [[tcb EXCEPT ![current] = s] EXCEPT ![current] = [s EXCEPT !.sepc = s.sepc]]
        BY <1>0, <1>1, <1>2, <2>2, <4>2
      <4> QED BY <1>1, <1>2, <4>1, <4>3
    <3> HIDE DEF s
    <3>3. /\ tcb' \in [Tcb -> Saved] /\ \A t \in Tcb \ {current} : tcb'[t] = tcb[t]
          /\ control(tcb'[current]) = csr
      BY <1>1, <1>2, <3>1, <3>2
    <3> QED BY <1>0, <1>3, <2>2, <3>3 DEF Switched
  <2> QED BY <2>1, <2>2
<1>6. own[current] \in Ours /\ own' = [own EXCEPT ![current] = o]
  BY <1>0, <1>1, <1>2
<1>7. /\ o \in Ours /\ o.pc = csr.sepc
      /\ o.sp = own[current].sp /\ o.data = own[current].data
      /\ o.reg = own[current].reg /\ o.a0 = own[current].a0
  BY <1>4, <1>6 DEF Ours
<1> HIDE DEF o
<1>8. own' \in [Tcb -> Ours] /\ own'[current] = o /\ \A t \in Tcb \ {current} : own'[t] = own[t]
  BY <1>1, <1>2, <1>6, <1>7
<1>9. current # KernelMain
  BY <1>u, ContextAssumption
<1>10. /\ Resumes(csr, mem, current, o) /\ Keeps(mem, current, o) /\ Deep(current, o)
  <2>1. /\ Resumes(csr, mem, current, own[current]) /\ Keeps(mem, current, own[current])
        /\ Deep(current, own[current])
    BY <1>1, <1>2 DEF Everyone
  <2> QED BY <1>7, <1>9, <2>1 DEF Resumes, Keeps, Deep
<1>11. Everyone(controls, mem', own', Owned)
  BY <1>0, <1>1, <1>2, <1>8, <1>10 DEF Everyone
<1>12. R \subseteq Owned /\ blocked' \subseteq Owned /\ R \cap blocked' = {}
       /\ blocked' \subseteq Thread
  BY <1>0, <1>2 DEF Owned, OneRole
<1>13. /\ \A t \in Owned \ {current} : own'[t].pc = own[t].pc
       /\ own'[current].pc = csr.sepc
  BY <1>1, <1>7, <1>8
<1> HIDE DEF R
<1> QED BY <1>0, <1>1, <1>3, <1>5, <1>11, <1>12, <1>13, HandlerSwitches

\* kernel_main gives the processor away, or finds nobody to give it to.
LEMMA KernelDispatchStep == ContextInv /\ KernelDispatch => ContextInv'
<1>0. SUFFICES ASSUME ContextInv, Serving("kernel_dispatch"),
                      NEW new \in next_of(ready),
                      current' = new, ready' = ready \ {new},
                      tcb' = yield_tcb(new, past_ecall),
                      csr' = [yield_csr(new, past_ecall) EXCEPT
                                !.sscratch = yield_tcb(new, past_ecall)[new].sp],
                      UNCHANGED <<mem, blocked, own>>
               PROVE  ContextInv'
  BY DEF KernelDispatch
<1>1. /\ trap # "no" /\ served' = TRUE /\ trap' = trap /\ cpu' = cpu
      /\ current \in Tcb /\ Owned \subseteq Tcb /\ current \in Owned
      /\ Everyone(controls, mem, own, Owned) /\ past_ecall \in Control
      /\ own[current].pc = past_ecall.sepc
  BY <1>0, CallFacts
<1>2. /\ Types /\ ready \in SUBSET Tcb /\ blocked \subseteq Thread /\ OneRole
      /\ tcb \in [Tcb -> Saved]
  BY <1>0 DEF ContextInv, Types
<1>3. new \in Tcb
  BY <1>0, <1>2 DEF next_of, Tcb
<1>4. csr' = yield_csr(new, past_ecall)
  <2>1. CASE new = current
    <3>1. yield_tcb(new, past_ecall)[new].sp = past_ecall.sscratch
      BY <1>1, <1>2, <2>1 DEF yield_tcb, Saved
    <3> QED BY <1>0, <1>1, <2>1, <3>1 DEF yield_csr, Control
  <2>2. CASE new # current
    <3>1. yield_tcb(new, past_ecall)[new] = tcb[new]
      BY <1>2, <1>3, <2>2 DEF yield_tcb
    <3> QED BY <1>0, <2>2, <3>1 DEF yield_csr
  <2> QED BY <2>1, <2>2
<1>5. switch(ready, past_ecall)
  BY <1>0, <1>4 DEF switch
<1>6. PICK u \in Tcb : Switched(u, ready, past_ecall)
  BY <1>1, <1>2, <1>5, SwitchSwitches
<1>7. ready \subseteq Owned /\ blocked' \subseteq Owned /\ ready \cap blocked' = {}
      /\ blocked' \subseteq Thread
  BY <1>0, <1>2 DEF Owned, OneRole
<1> QED BY <1>0, <1>1, <1>2, <1>6, <1>7, HandlerSwitches

-----------------------------------------------------------------------------
(* The theorems.                                                           *)

\* main() up to its first ecall.
LEMMA ContextInitially == Init => ContextInv
<1>0. SUFFICES ASSUME Init PROVE ContextInv
  OBVIOUS
<1>1. PICK user_main \in Thread, spie \in BOOLEAN :
       /\ cpu = [pc |-> ECALL, sp |-> <<KernelMain, 0>>, a0 |-> "code",
                 reg |-> KernelMain, mode |-> "kernel", sie |-> FALSE]
       /\ csr = [sepc |-> ECALL, sscratch |-> <<KernelMain, 0>>, spp |-> "user",
                 spie |-> spie]
       /\ mem = [a \in Slot |-> IF a = <<user_main, 1>>
                                THEN [unset(a) EXCEPT !.sp = a, !.a0 = "start_f"]
                                ELSE unset(a)]
       /\ ready = {user_main}
       /\ tcb = [t \in Tcb |-> [sp |-> IF t = user_main THEN <<t, 1>> ELSE <<t, 0>>,
                                sepc |-> ECALL, spp |-> "user", spie |-> spie]]
       /\ own = [t \in Tcb |->
                   IF t = user_main
                   THEN Context(ECALL, <<t, 0>>, "start_f", KernelMain, <<>>)
                   ELSE Context(ECALL, <<t, 0>>, "code", KernelMain, <<>>)]
  BY <1>0 DEF Init
<1>2. trap = "no" /\ served = FALSE /\ current = KernelMain /\ blocked = {}
  BY <1>0 DEF Init
<1>3. STACK_SLOTS \in Nat /\ KernelMain \in Tcb /\ user_main \in Tcb /\ user_main # KernelMain
  BY ContextAssumption DEF Tcb
<1>4. \A t \in Tcb : <<t, 0>> \in Slot /\ <<t, 1>> \in Slot
  <2>1. 0 \in 0 .. STACK_SLOTS + 1 /\ 1 \in 0 .. STACK_SLOTS + 1
    BY <1>3
  <2> QED BY <2>1, Slots
<1>5. \A t \in Tcb : /\ own[t] \in Ours
                     /\ own[t].pc = ECALL /\ own[t].sp = <<t, 0>>
                     /\ own[t].reg = KernelMain /\ own[t].data = <<>>
                     /\ own[t].a0 = IF t = user_main THEN "start_f" ELSE "code"
  <2> SUFFICES ASSUME NEW t \in Tcb
               PROVE  /\ own[t] \in Ours
                      /\ own[t].pc = ECALL /\ own[t].sp = <<t, 0>>
                      /\ own[t].reg = KernelMain /\ own[t].data = <<>>
                      /\ own[t].a0 = IF t = user_main THEN "start_f" ELSE "code"
    OBVIOUS
  <2> DEFINE a == IF t = user_main THEN "start_f" ELSE "code"
  <2>1. own[t] = [pc |-> ECALL, sp |-> <<t, 0>>, a0 |-> a, reg |-> KernelMain, data |-> <<>>]
    BY <1>1 DEF Context
  <2>2. a \in Word /\ ECALL \in 0 .. 2
    BY DEF Word, ECALL
  <2>e. <<>> \in Seq(Frame)
    OBVIOUS
  <2>d. <<t, 0>> \in Slot
    BY <1>4
  <2> HIDE DEF a
  <2>3. own[t] \in Ours
    BY <1>3, <2>1, <2>2, <2>d, <2>e DEF Ours
  <2> QED BY <2>1, <2>3 DEF a
<1>6. own \in [Tcb -> Ours]
  BY <1>1, <1>5
<1>7. tcb \in [Tcb -> Saved]
  <2> SUFFICES ASSUME NEW t \in Tcb PROVE tcb[t] \in Saved
    BY <1>1
  <2> DEFINE sp == IF t = user_main THEN <<t, 1>> ELSE <<t, 0>>
  <2>1. tcb[t] = [sp |-> sp, sepc |-> ECALL, spp |-> "user", spie |-> spie]
    BY <1>1
  <2>2. sp \in Slot /\ ECALL \in 0 .. 2 /\ "user" \in Mode
    BY <1>4 DEF Mode, ECALL
  <2> HIDE DEF sp
  <2> QED BY <2>1, <2>2 DEF Saved
<1>8. mem \in [Slot -> Frame]
  <2> SUFFICES ASSUME NEW a \in Slot PROVE mem[a] \in Frame
    BY <1>1
  <2>1. unset(a) \in Frame
    BY UnsetIsFrame
  <2>2. [unset(a) EXCEPT !.sp = a, !.a0 = "start_f"] \in Frame
    BY <2>1 DEF Frame, Word
  <2> QED BY <1>1, <2>1, <2>2
<1>9. Types
  <2>w. "code" \in Word /\ {"kernel", "user"} \subseteq Mode /\ ECALL \in 0 .. 2
    BY DEF Word, Mode, ECALL
  <2>k. <<KernelMain, 0>> \in Slot
    BY <1>3, <1>4
  <2>1. cpu \in [pc : 0 .. 2, sp : Slot, a0 : Word, reg : Tcb, mode : Mode, sie : BOOLEAN]
    <3>1. cpu = [pc |-> ECALL, sp |-> <<KernelMain, 0>>, a0 |-> "code",
                 reg |-> KernelMain, mode |-> "kernel", sie |-> FALSE]
      BY <1>1
    <3> QED BY <1>3, <2>w, <2>k, <3>1
  <2>2. csr \in Control
    <3>1. csr = [sepc |-> ECALL, sscratch |-> <<KernelMain, 0>>, spp |-> "user", spie |-> spie]
      BY <1>1
    <3> QED BY <2>w, <2>k, <3>1 DEF Control
  <2>3. ready \subseteq Tcb
    BY <1>1, <1>3
  <2> QED BY <1>2, <1>3, <1>6, <1>7, <1>8, <2>1, <2>2, <2>3 DEF Types
<1>10. OneRole
  BY <1>1, <1>2, <1>3 DEF OneRole
<1>11. \A t \in Tcb : Deep(t, own[t])
  BY <1>3, <1>5 DEF Deep
<1>12. \A t \in Owned : Keeps(mem, t, own[t])
  <2>1. Owned \subseteq Tcb
    BY <1>1, <1>2, <1>3 DEF Owned
  <2> QED BY <1>5, <2>1 DEF Keeps
<1>13. Parked
  <2>1. Owned \ {current} = {user_main}
    BY <1>1, <1>2, <1>3 DEF Owned
  <2>2. tcb[user_main] = [sp |-> <<user_main, 1>>, sepc |-> ECALL, spp |-> "user", spie |-> spie]
    BY <1>1, <1>3
  <2>3. /\ control(tcb[user_main]).sscratch = <<user_main, 1>>
        /\ control(tcb[user_main]).spp = "user" /\ tcb[user_main].sepc = ECALL
    BY <2>2 DEF control
  <2>4. mem[<<user_main, 1>>] =
          [unset(<<user_main, 1>>) EXCEPT !.sp = <<user_main, 1>>, !.a0 = "start_f"]
    BY <1>1, <1>3, <1>4
  <2>5. /\ mem[<<user_main, 1>>].sp = <<user_main, 1>>
        /\ mem[<<user_main, 1>>].a0 = "start_f"
        /\ mem[<<user_main, 1>>].reg = KernelMain
    BY <2>4 DEF unset
  <2>6. Len(own[user_main].data) + 1 = 1
    BY <1>3, <1>5
  <2> QED BY <1>3, <1>5, <2>1, <2>3, <2>5, <2>6 DEF Parked, Resumes, mode_of
<1>14. Runs
  BY <1>1, <1>2, <1>3, <1>5 DEF Runs, mode_of
<1>15. Served
  BY <1>2 DEF Served
<1> QED BY <1>9, <1>10, <1>11, <1>12, <1>13, <1>14, <1>15 DEF ContextInv

\* The timer, and nothing.
LEMMA IdleStep == ContextInv /\ (Raise \/ UNCHANGED vars) => ContextInv'
<1> SUFFICES ASSUME ContextInv,
                    UNCHANGED <<cpu, csr, trap, served, mem, sched_vars, tcb, own>>
             PROVE  ContextInv'
  BY DEF Raise, vars
<1>1. Types'
  BY DEF ContextInv, Types, sched_vars
<1>2. OneRole' /\ Owned' = Owned
  BY DEF ContextInv, OneRole, sched_vars, Owned
<1>3. Parked' /\ Runs' /\ Served'
  BY <1>2 DEF ContextInv, Parked, Runs, Served, returns_to, sched_vars
<1> QED BY <1>1, <1>2, <1>3 DEF ContextInv

\* Every step keeps the invariant.
LEMMA ContextNext == ContextInv /\ [Next]_vars => ContextInv'
<1> SUFFICES ASSUME ContextInv, [Next]_vars PROVE ContextInv'
  OBVIOUS
<1>1. CASE UNCHANGED vars
  BY <1>1, IdleStep
<1>2. CASE Running
  BY <1>2, UserComputeStep, UserPushStep, UserPopStep, MainStep, EcallStep DEF Running
<1>3. CASE Raise \/ TimerTrap \/ HwTrap
  BY <1>3, IdleStep, InterruptStep
<1>4. CASE Handler
  BY <1>4, TimerStep, HwStep, ServiceStep, CreateStep, WakeStep, DispatchStep, BlockStep,
     SleepStep, ExitStep, PutcFullStep, GetcStep, KernelDispatchStep, ReturnStep DEF Handler
<1>5. CASE Off
  BY <1>5, IdleStep DEF Off
<1> QED BY <1>1, <1>2, <1>3, <1>4, <1>5 DEF Next

\* A thread that goes on after any number of traps and switches has its own
\* registers, stack pointer, address and mode, for any number of threads, any
\* depth of their stacks and all system calls.
THEOREM ContextIntactTheorem == Spec => []ContextIntact
<1>1. ContextInv => ContextIntact
  BY DEF ContextInv, Runs, ContextIntact, mode_of
<1> QED BY <1>1, ContextInitially, ContextNext, PTL DEF Spec

\* kernel_main runs with interrupts on only in its window, also after it was
\* switched away there and came back.
THEOREM InterruptsOffTheorem == Spec => []InterruptsOff
<1>1. ContextInv => InterruptsOff
  BY DEF ContextInv, Runs, InterruptsOff, mode_of
<1> QED BY <1>1, ContextInitially, ContextNext, PTL DEF Spec

\* A thread finds the result of its call, or what it had, in a0, when no thread
\* calls getc with a character in the buffer, which does break this.
THEOREM ResultIntactTheorem ==
  ASSUME NoStaleResult
  PROVE  Spec => []ResultIntact
<1>1. ContextInv => ResultIntact
  BY DEF ContextInv, Runs, ResultIntact
<1> QED BY <1>1, ContextInitially, ContextNext, PTL DEF Spec

\* No handler writes to the data a thread has on its stack, under the same
\* condition.
THEOREM StackIntactTheorem ==
  ASSUME NoStaleResult
  PROVE  Spec => []StackIntact
<1>1. ContextInv => StackIntact
  BY DEF ContextInv, Keeps, StackIntact, live, Owned
<1> QED BY <1>1, ContextInitially, ContextNext, PTL DEF Spec
=============================================================================
