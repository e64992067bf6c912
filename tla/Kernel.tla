------------------------------- MODULE Kernel -------------------------------
(***************************************************************************)
(* Processes, scheduler, context switch and traps of day6-process: proc.c, *)
(* timer.c, trap.c, sys.s, syscall.c, the kernel_main() of os.c and the    *)
(* machine-mode part of a RISC-V hart they run on.                         *)
(*                                                                         *)
(* One hart runs.  Its state is the control registers a trap touches, the  *)
(* stack in use and a program label on it.  kernel_main() starts in        *)
(* supervisor mode on the stack of process 0, the system process, creates  *)
(* the processes 1 .. N and goes round the process table for ever.  A      *)
(* timer interrupt switches back to the system process.                    *)
(*                                                                         *)
(* An interrupt is taken between any two steps when the hart allows it.    *)
(* Code that runs with interrupts off is one step up to the point where it *)
(* turns them on.                                                          *)
(***************************************************************************)
EXTENDS Integers, Sequences

CONSTANTS
  N,             \* programs that kernel_main() creates a process for
  KernelTicks,   \* may a timer interrupt arrive while the kernel runs?
  KernelIrqs,    \* may an external interrupt arrive while the kernel runs?
  LoadMayFail,   \* may a program turn out to be no ELF file?
  Callers,       \* processes whose program makes system calls
  MaxNest        \* bound on the traps that are open on one stack

ASSUME NAssumption == N \in Nat \ {0}
ASSUME SwitchesAssumption ==
  KernelTicks \in BOOLEAN /\ KernelIrqs \in BOOLEAN /\ LoadMayFail \in BOOLEAN
ASSUME CallersAssumption == Callers \subseteq 1 .. N
ASSUME MaxNestAssumption == MaxNest \in Nat \ {0}

VARIABLES
  \* the hart
  mode,       \* privilege mode: "M", "S" or "U"
  mie,        \* mstatus.MIE
  mpie,       \* mstatus.MPIE
  mpp,        \* mstatus.MPP
  mepc,       \* mepc
  sp,         \* the process whose stack is in use
  pc,         \* label of the code that runs
  \* the stacks
  frames,     \* for each stack, the trap frames that are open on it
  cur,        \* for each stack, the argument cur of the proc_exec() on it
  slot,       \* the loop variable p of kernel_main() and scheduler()
  \* the process table
  state,      \* p->state
  plock,      \* p->lock
  ctx,        \* p->context
  schedLock,  \* sched_lock
  cpu,        \* cpus[0].proc
  \* history
  disturbed   \* an interrupt has been taken while the kernel ran

csrs  == <<mode, mie, mpie, mpp, mepc>>
table == <<state, plock, ctx, schedLock, cpu>>
vars  == <<csrs, sp, pc, frames, cur, slot, table, disturbed>>

OS    == 0                \* os_proc, the first entry of processes[]
Users == 1 .. N
Procs == 0 .. N

Modes == {"M", "S", "U"}

UserLabels  == {"user", "ecall", "after"}
BootLabels  == {"create", "exec", "load"}
SchedLabels == {"sched", "plock", "test", "setcpu", "curstate", "switch",
                "trapinit", "unlock", "schedunlock"}
TrapLabels  == {"tick", "irq", "syscall", "exit", "exitstate", "exitswitch",
                "exittail", "tail", "leave", "restore", "mret"}
\* The ends: an illegal instruction or a page fault leads to while(1); "wild" is
\* where two activations share a stack and the model does not follow them.
StopLabels  == {"illegal", "pagefault", "wild"}

Labels == UserLabels \cup BootLabels \cup SchedLabels \cup TrapLabels \cup StopLabels

\* The code of a process runs.
UserCode == sp # OS /\ pc \in UserLabels

\* A saved context: the stack, how many trap frames are open on it, and where it
\* goes on.
Context(p, d, l) == [stk |-> p, depth |-> d, pc |-> l]

\* A trap frame: the mepc that reg_save stores, the address that trap_handler()
\* is to return, and (for the properties only) the mode of the process that was
\* interrupted.
Frame(epc) ==
  [mepc |-> epc, ret |-> epc]

-----------------------------------------------------------------------------
\* boot() has made the system process and switch_to_s_mode() has left for
\* kernel_main().  MIE is set, the mret has copied it from MPIE and reset MPP.
Init ==
  /\ mode = "S"
  /\ mie \in BOOLEAN
  /\ mpie = TRUE
  /\ mpp = "U"
  /\ mepc = "create"
  /\ sp = OS
  /\ pc = "create"
  /\ frames = [p \in Procs |-> <<>>]
  /\ cur = [p \in Procs |-> OS]
  /\ slot = 1
  /\ state = [p \in Procs |-> IF p = OS THEN "USED" ELSE "UNUSED"]
  /\ plock = [p \in Procs |-> FALSE]
  /\ ctx = [p \in Procs |-> Context(p, 0, "wild")]
  /\ schedLock = FALSE
  /\ cpu = OS
  /\ disturbed = FALSE

-----------------------------------------------------------------------------
\* No step of the code at a label l in user mode: the page tables give user mode
\* no page, so the fetch faults and trap_handler() loops for ever.
Running(l) == pc = l /\ mode # "U"

PageFault ==
  /\ pc \notin StopLabels
  /\ mode = "U"
  /\ pc' = "pagefault"
  /\ mode' = "M" /\ mpp' = "U" /\ mpie' = mie /\ mie' = FALSE
  /\ UNCHANGED <<mepc, sp, frames, cur, slot, table, disturbed>>

-----------------------------------------------------------------------------
\* kernel_main(): create_proc() takes the first unused entry of the table.  It holds
\* the lock of an entry while it looks at it, and of none when it returns ...
Create ==
  /\ Running("create")
  /\ \E p \in Users :
       /\ state[p] = "UNUSED" /\ \A q \in Users : q < p => state[q] # "UNUSED"
       /\ \A q \in Users : q <= p => ~plock[q]
       /\ state' = [state EXCEPT ![p] = "USED"]
  /\ pc' = IF slot = N THEN "exec" ELSE "create"
  /\ slot' = IF slot = N THEN 1 ELSE slot + 1
  /\ UNCHANGED <<csrs, sp, frames, cur, plock, ctx, schedLock, cpu, disturbed>>

\* ... exec() takes the lock of the process and reads the program ...
Exec ==
  /\ Running("exec")
  /\ ~plock[slot]
  /\ plock' = [plock EXCEPT ![slot] = TRUE]
  /\ pc' = "load"
  /\ UNCHANGED <<csrs, sp, frames, cur, slot, state, ctx, schedLock, cpu, disturbed>>

NextProgram ==
  /\ pc' = IF slot = N THEN "sched" ELSE "exec"
  /\ slot' = IF slot = N THEN OS ELSE slot + 1

\* ... and makes the process runnable from its entry point, ...
Load ==
  /\ Running("load")
  /\ ctx' = [ctx EXCEPT ![slot] = Context(@.stk, @.depth, "user")]
  /\ state' = [state EXCEPT ![slot] = "RUNNABLE"]
  /\ plock' = [plock EXCEPT ![slot] = FALSE]
  /\ NextProgram
  /\ UNCHANGED <<csrs, sp, frames, cur, schedLock, cpu, disturbed>>

\* ... or returns, with the lock, when the file is no program.  kernel_main()
\* does not look at the result.
LoadFails ==
  /\ Running("load")
  /\ LoadMayFail
  /\ NextProgram
  /\ UNCHANGED <<csrs, sp, frames, cur, table, disturbed>>

-----------------------------------------------------------------------------
\* scheduler(), one turn of its loop.
TakeSchedLock ==
  /\ Running("sched")
  /\ ~schedLock
  /\ schedLock' = TRUE
  /\ pc' = "plock"
  /\ UNCHANGED <<csrs, sp, frames, cur, slot, state, plock, ctx, cpu, disturbed>>

TakeProcLock ==
  /\ Running("plock")
  /\ ~plock[slot]
  /\ plock' = [plock EXCEPT ![slot] = TRUE]
  /\ pc' = "test"
  /\ UNCHANGED <<csrs, sp, frames, cur, slot, state, ctx, schedLock, cpu, disturbed>>

\* Variant: the state is not looked at.
ChooseAny ==
  /\ Running("test")
  /\ state' = [state EXCEPT ![slot] = "RUNNING"]
  /\ pc' = "setcpu"
  /\ UNCHANGED <<csrs, sp, frames, cur, slot, plock, ctx, schedLock, cpu, disturbed>>

Choose ==
  /\ Running("test")
  /\ state[slot] = "RUNNABLE"
  /\ state' = [state EXCEPT ![slot] = "RUNNING"]
  /\ pc' = "setcpu"
  /\ UNCHANGED <<csrs, sp, frames, cur, slot, plock, ctx, schedLock, cpu, disturbed>>

Skip ==
  /\ Running("test")
  /\ state[slot] # "RUNNABLE"
  /\ pc' = "unlock"
  /\ UNCHANGED <<csrs, sp, frames, cur, slot, table, disturbed>>

\* proc_exec(cpus[].proc, p): set_cpu_proc(), the state of cur, sys_switch().
SetCpu ==
  /\ Running("setcpu")
  /\ cur' = [cur EXCEPT ![sp] = cpu]
  /\ cpu' = slot
  /\ pc' = "curstate"
  /\ UNCHANGED <<csrs, sp, frames, slot, state, plock, ctx, schedLock, disturbed>>

CurState ==
  /\ Running("curstate")
  /\ state' = [state EXCEPT ![cur[sp]] = "RUNNABLE"]
  /\ pc' = "switch"
  /\ UNCHANGED <<csrs, sp, frames, cur, slot, plock, ctx, schedLock, cpu, disturbed>>

\* sys_switch(old->context, new->context) from label l of the stack in use: the
\* place where old goes on is saved and new goes on where it was saved.
SysSwitch(old, new, l) ==
  LET saved == [ctx EXCEPT ![old] = Context(sp, Len(frames[sp]), l)]
      c     == saved[new]
  IN  /\ ctx' = saved
      /\ IF saved[old].stk = old /\ c.pc # "wild"
         THEN /\ sp' = c.stk
              /\ frames' = [frames EXCEPT ![c.stk] = SubSeq(@, 1, c.depth)]
              /\ pc' = c.pc
         ELSE pc' = "wild" /\ UNCHANGED <<sp, frames>>

Switch ==
  /\ Running("switch")
  /\ SysSwitch(cur[sp], slot, "trapinit")
  /\ UNCHANGED <<csrs, cur, slot, state, plock, schedLock, cpu, disturbed>>

\* trap_init() writes mtvec, mie and mstatus, which only machine mode may do.
TrapInit(l) ==
  IF mode = "M"
  THEN mie' = TRUE /\ pc' = l /\ UNCHANGED <<mode, mpie, mpp, mepc>>
  ELSE pc' = "illegal" /\ mode' = "M" /\ mie' = FALSE /\ mpie' = mie /\ mpp' = mode /\ mepc' = pc

SwitchedBack ==
  /\ Running("trapinit")
  /\ TrapInit("unlock")
  /\ UNCHANGED <<sp, frames, cur, slot, table, disturbed>>

\* Variant: the lock is kept.
FreeProcLockNot ==
  /\ Running("unlock")
  /\ pc' = "schedunlock"
  /\ UNCHANGED <<csrs, sp, frames, cur, slot, table, disturbed>>

FreeProcLock ==
  /\ Running("unlock")
  /\ plock' = [plock EXCEPT ![slot] = FALSE]
  /\ pc' = "schedunlock"
  /\ UNCHANGED <<csrs, sp, frames, cur, slot, state, ctx, schedLock, cpu, disturbed>>

\* Variants: the loop runs off the table, or starts again after every process.
FreeSchedLockRunsOff ==
  /\ Running("schedunlock")
  /\ schedLock' = FALSE
  /\ slot' = slot + 1
  /\ pc' = "sched"
  /\ UNCHANGED <<csrs, sp, frames, cur, state, plock, ctx, cpu, disturbed>>

FreeSchedLockRestarts ==
  /\ Running("schedunlock")
  /\ schedLock' = FALSE
  /\ slot' = IF state[slot] = "RUNNABLE" THEN OS ELSE (slot + 1) % (N + 1)
  /\ pc' = "sched"
  /\ UNCHANGED <<csrs, sp, frames, cur, state, plock, ctx, cpu, disturbed>>

FreeSchedLock ==
  /\ Running("schedunlock")
  /\ schedLock' = FALSE
  /\ slot' = (slot + 1) % (N + 1)
  /\ pc' = "sched"
  /\ UNCHANGED <<csrs, sp, frames, cur, state, plock, ctx, cpu, disturbed>>

-----------------------------------------------------------------------------
\* The hart traps: it turns interrupts off, remembers where it was, and
\* trap_vector pushes a frame on the stack in use.
Trap(l) ==
  /\ mode' = "M" /\ mpp' = mode
  /\ mie' = FALSE /\ mpie' = mie
  /\ mepc' = pc
  /\ frames' = [frames EXCEPT ![sp] = Append(@, Frame(pc))]
  /\ pc' = l
  /\ UNCHANGED <<sp, cur, slot, table>>

Interruptible == pc \notin StopLabels /\ (mode # "M" \/ mie)

Interrupt(l, inKernel) ==
  /\ Interruptible
  /\ UserCode \/ inKernel
  /\ Len(frames[sp]) < MaxNest
  /\ Trap(l)
  /\ disturbed' = (disturbed \/ ~UserCode)

TimerInterrupt    == Interrupt("tick", KernelTicks)
ExternalInterrupt == Interrupt("irq", KernelIrqs)

\* Variant: the interrupted process is not made runnable.
TickStateKept ==
  /\ Running("tick")
  /\ cpu' = OS
  /\ SysSwitch(cpu, OS, "tail")
  /\ UNCHANGED <<csrs, cur, slot, state, plock, schedLock, disturbed>>

\* timer_handler(): with interrupts off up to the switch to the system process.
Tick ==
  /\ Running("tick")
  /\ cpu' = OS
  /\ state' = [state EXCEPT ![cpu] = "RUNNABLE"]
  /\ SysSwitch(cpu, OS, "tail")
  /\ UNCHANGED <<csrs, cur, slot, plock, schedLock, disturbed>>

\* The process goes on in its timer_handler(), with a trap_init() first.
TickTail ==
  /\ Running("tail")
  /\ TrapInit("leave")
  /\ UNCHANGED <<sp, frames, cur, slot, table, disturbed>>

\* external_handler() serves the device.
Irq ==
  /\ Running("irq")
  /\ pc' = "leave"
  /\ UNCHANGED <<csrs, sp, frames, cur, slot, table, disturbed>>

TopFrame == frames[sp][Len(frames[sp])]

\* The end of trap_vector: mepc is what trap_handler() returned, then reg_load
\* loads the registers of the frame, mepc among them, and mret leaves.
Leave ==
  /\ Running("leave")
  /\ mepc' = TopFrame.ret
  /\ pc' = "restore"
  /\ UNCHANGED <<mode, mie, mpie, mpp, sp, frames, cur, slot, table, disturbed>>

\* Variant: the stack pointer is not moved behind the frame.
RestoreKeepsFrame ==
  /\ Running("restore")
  /\ mepc' = TopFrame.mepc
  /\ pc' = "mret"
  /\ UNCHANGED <<mode, mie, mpie, mpp, sp, frames, cur, slot, table, disturbed>>

Restore ==
  /\ Running("restore")
  /\ mepc' = TopFrame.mepc
  /\ frames' = [frames EXCEPT ![sp] = SubSeq(@, 1, Len(@) - 1)]
  /\ pc' = "mret"
  /\ UNCHANGED <<mode, mie, mpie, mpp, sp, cur, slot, table, disturbed>>

Mret ==
  /\ Running("mret")
  /\ pc' = mepc
  /\ mode' = mpp /\ mpp' = "U"
  /\ mie' = mpie /\ mpie' = TRUE
  /\ UNCHANGED <<mepc, sp, frames, cur, slot, table, disturbed>>

-----------------------------------------------------------------------------
\* A program computes, or comes to an ecall of usys.s; the instruction behind
\* the ecall is "after".
Compute ==
  /\ UserCode /\ mode # "U"
  /\ \/ pc = "user" /\ sp \in Callers /\ pc' = "ecall"
     \/ pc = "after" /\ pc' = "user"
  /\ UNCHANGED <<csrs, sp, frames, cur, slot, table, disturbed>>

Ecall ==
  /\ UserCode /\ Running("ecall")
  /\ Len(frames[sp]) < MaxNest
  /\ Trap("syscall")
  /\ UNCHANGED disturbed

\* trap_handler() returns the address behind the ecall.
ReturnBehind ==
  [frames EXCEPT ![sp][Len(frames[sp])] = [mepc |-> TopFrame.mepc, ret |-> "after"]]

\* do_syscall(): malloc, free and unknown numbers return ...
Syscall ==
  /\ Running("syscall")
  /\ frames' = ReturnBehind
  /\ pc' = "leave"
  /\ UNCHANGED <<csrs, sp, cur, slot, table, disturbed>>

\* ... and exit turns interrupts on and switches to the system process.
Exit ==
  /\ Running("syscall")
  /\ mie' = TRUE
  /\ pc' = "exit"
  /\ UNCHANGED <<mode, mpie, mpp, mepc, sp, frames, cur, slot, table, disturbed>>

ExitSetCpu ==
  /\ Running("exit")
  /\ cur' = [cur EXCEPT ![sp] = cpu]
  /\ cpu' = OS
  /\ pc' = "exitstate"
  /\ UNCHANGED <<csrs, sp, frames, slot, state, plock, ctx, schedLock, disturbed>>

ExitState ==
  /\ Running("exitstate")
  /\ state' = [state EXCEPT ![cur[sp]] = "RUNNABLE"]
  /\ pc' = "exitswitch"
  /\ UNCHANGED <<csrs, sp, frames, cur, slot, plock, ctx, schedLock, cpu, disturbed>>

ExitSwitch ==
  /\ Running("exitswitch")
  /\ SysSwitch(cur[sp], OS, "exittail")
  /\ UNCHANGED <<csrs, cur, slot, state, plock, schedLock, cpu, disturbed>>

\* A process that has exited is still runnable and comes back here.
ExitTail ==
  /\ Running("exittail")
  /\ TrapInit("leave")
  /\ frames' = IF mode = "M" THEN ReturnBehind ELSE frames
  /\ UNCHANGED <<sp, cur, slot, table, disturbed>>

-----------------------------------------------------------------------------
Boot == Create \/ Exec \/ Load \/ LoadFails

Scheduler ==
  \/ TakeSchedLock \/ TakeProcLock \/ Choose \/ Skip \/ SetCpu \/ CurState \/ Switch
  \/ SwitchedBack \/ FreeProcLock \/ FreeSchedLock

Handler == Tick \/ TickTail \/ Irq \/ Leave \/ Restore \/ Mret

SystemCall == Ecall \/ Syscall \/ Exit \/ ExitSetCpu \/ ExitState \/ ExitSwitch \/ ExitTail

\* What the hart does by itself.
Execute == Boot \/ Scheduler \/ Handler \/ SystemCall \/ Compute \/ PageFault

Next == Execute \/ TimerInterrupt \/ ExternalInterrupt

Spec == Init /\ [][Next]_vars

\* The hart goes on, and the timer that timer_handler() armed goes off: the
\* interrupt stays pending while other interrupts are served.
FairSpec == Spec /\ WF_vars(Execute) /\ SF_vars(TimerInterrupt)

-----------------------------------------------------------------------------
TypeOK ==
  /\ mode \in Modes /\ mpp \in Modes
  /\ mie \in BOOLEAN /\ mpie \in BOOLEAN
  /\ mepc \in Labels /\ pc \in Labels
  /\ sp \in Procs
  /\ frames \in [Procs -> Seq([mepc : Labels, ret : Labels])]
  /\ cur \in [Procs -> Procs]
  /\ slot \in Procs
  /\ state \in [Procs -> {"UNUSED", "USED", "RUNNABLE", "RUNNING"}]
  /\ plock \in [Procs -> BOOLEAN]
  /\ ctx \in [Procs -> [stk : Procs, depth : 0 .. MaxNest, pc : Labels]]
  /\ schedLock \in BOOLEAN
  /\ cpu \in Procs
  /\ disturbed \in BOOLEAN

\* While the code of a process runs, the scheduler waits in the middle of its
\* loop with sched_lock and the lock of exactly that process, cpus[0].proc is the
\* process, and no other process is marked as running: the locks that one stack
\* took are freed on the same stack after any number of switches.  So the
\* scheduler never spins: it comes back to its loop with the locks freed, except
\* the lock that a failed exec() never frees.
LockHandOff ==
  /\ UserCode => /\ schedLock /\ plock[sp]
                 /\ cpu = sp /\ slot = sp
                 /\ \A p \in Procs : state[p] = "RUNNING" <=> p = sp
  /\ pc = "sched" => ~schedLock
  /\ pc = "plock" /\ plock[slot] => slot # OS /\ state[slot] = "USED"

\* The hart stops, or two activations get hold of one stack, only after an
\* interrupt was taken while the kernel ran: in kernel_main() before the first
\* switch, in the scheduler, or in a handler that had turned interrupts on again.
StopsOnlyIfDisturbed == pc \in StopLabels => disturbed

\* Trap frames do not pile up: none is open on the stack of the system process or
\* of a process whose code runs, and one at most on the stack of any process.
FramesBalanced ==
  /\ frames[OS] = <<>>
  /\ \A p \in Users : Len(frames[p]) <= 1
  /\ UserCode => frames[sp] = <<>>

\* Every process gets the hart again and again, also one that has exited.
EveryProcessRuns == \A p \in Users : []<>(UserCode /\ sp = p)

\* The process that the scheduler comes to next.
Turn ==
  IF sp # OS \/ pc \in {"trapinit", "unlock", "schedunlock"} THEN (slot % N) + 1
  ELSE IF pc \in BootLabels \/ slot = OS THEN 1
  ELSE slot

\* The scheduler gives the hart to the processes in the order of the table.
Promise == INSTANCE RoundRobin WITH running <- sp, turn <- Turn
ImplementsRoundRobin == Promise!Spec

-----------------------------------------------------------------------------
\* What a comment of the code says, and the code does not do.

\* "timer_handler will return the return address via a0" (sys.s): the trap
\* returns to the address that trap_handler() returned.
ReturnsWhereHandlerSaid == [][Restore => mepc' = TopFrame.ret]_vars
=============================================================================
