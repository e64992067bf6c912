---------------------------- MODULE KernelProofs ----------------------------
(***************************************************************************)
(* Proofs about Kernel, for every number of processes, every set of        *)
(* processes that make system calls, every bound on the nesting of traps   *)
(* and whichever interrupts are allowed and programs fail to load.         *)
(***************************************************************************)
EXTENDS Kernel, SequenceTheorems, TLAPS

\* The hart has not stopped.
Alive == pc \notin StopLabels

\* The labels that run on a stack outside every trap.
KernelLabels == BootLabels \cup SchedLabels
Base(q) == IF q = OS THEN KernelLabels ELSE UserLabels

\* The labels of a trap that has no frame of its own left is "mret" alone.
Inside == TrapLabels \ {"mret"}
OfProcess == {"syscall", "exit", "exitstate", "exitswitch", "exittail"}
Inner(q) == IF q = OS THEN TrapLabels \ OfProcess ELSE TrapLabels

-----------------------------------------------------------------------------
\* The frame at the bottom of a stack goes back to the code outside every trap, or
\* to an mret that was interrupted; the ones above it go back into a trap.
FramesOK ==
  /\ \A q \in Procs : \A k \in 1 .. Len(frames[q]) :
       frames[q][k].mepc \in IF k = 1 THEN Base(q) \cup {"mret"} ELSE Inner(q)
  /\ \A q \in Procs : Len(frames[q]) <= MaxNest
  /\ Alive =>
       /\ pc \in Base(sp) \cup Inner(sp)
       /\ pc \in Base(sp) => frames[sp] = <<>>
       /\ pc \in Inside => frames[sp] # <<>>
       /\ pc = "mret" => mepc \in IF frames[sp] = <<>> THEN Base(sp) \cup {"mret"} ELSE Inner(sp)

\* Where the stacks that are not in use go on.
ContextsOK ==
  Alive =>
    /\ \A q \in Procs : ctx[q].stk = q
    /\ \A q \in Procs \ {sp} : ctx[q].depth = Len(frames[q])
    /\ sp # OS => ctx[OS].pc = "trapinit" /\ frames[OS] = <<>>
    /\ \A q \in Users \ {sp} :
         \/ ctx[q].pc \in {"user", "wild"} /\ frames[q] = <<>>
         \/ ctx[q].pc \in {"tail", "exittail"} /\ frames[q] # <<>>
    /\ \A q \in Users \ {sp} : state[q] \in {"RUNNABLE", "RUNNING"} <=> ctx[q].pc # "wild"
    /\ cur[OS] = OS

\* Who holds which lock when the system process is at label l, or comes back to it
\* from the traps that are open.
HoldsProcLock == {"load", "test", "setcpu", "curstate", "switch", "trapinit", "unlock"}

KernelAt(l) ==
  /\ schedLock <=> l \in SchedLabels \ {"sched"}
  /\ l \in HoldsProcLock => plock[slot]
  /\ \A q \in Procs : plock[q] => \/ q # OS /\ state[q] = "USED"
                                  \/ q = slot /\ l \in HoldsProcLock
  /\ \A q \in Users : state[q] = "RUNNING" <=> q = slot /\ l \in {"setcpu", "curstate", "switch"}
  /\ l = "switch" => state[OS] # "RUNNING"
  /\ cpu = IF l \in {"curstate", "switch"} THEN slot ELSE OS
  /\ l \in BootLabels =>
       /\ slot \in Users
       /\ \A q \in Users : /\ q < slot => state[q] \in {"USED", "RUNNABLE"}
                           /\ q >= slot => state[q] = IF l = "create" THEN "UNUSED" ELSE "USED"
                           /\ l = "create" => ~plock[q] /\ (q < slot => state[q] = "USED")
                           /\ q >= slot /\ l # "load" => ~plock[q]
                           /\ q > slot => ~plock[q]
  /\ l \in SchedLabels => \A q \in Users : state[q] # "UNUSED"

Pending(l) ==
  \/ pc = l
  \/ pc = "mret" /\ mepc = l
  \/ \E k \in 1 .. Len(frames[OS]) : frames[OS][k].mepc = l

KernelOK == Alive /\ sp = OS => \A l \in KernelLabels : Pending(l) => KernelAt(l)

\* Who holds which lock while the stack of a process is in use.
ProcessOK ==
  Alive /\ sp # OS =>
    /\ schedLock /\ plock[sp] /\ slot = sp
    /\ \A q \in Procs : plock[q] => q # OS /\ (q = sp \/ state[q] = "USED")
    /\ \A q \in Users : state[q] # "UNUSED"
    /\ \A q \in Procs : state[q] = "RUNNING" => q = sp
    /\ state[sp] \in {"RUNNING", "RUNNABLE"}
    /\ cpu \in {sp, OS}
    /\ cpu = sp => state[sp] = "RUNNING"

\* From exit()'s set_cpu_proc() to its switch the process has no cpu any more.  An
\* external interrupt may come in between; the handler runs with interrupts off.
Leaving == {"exitstate", "exitswitch"}
TopMepc == frames[sp][Len(frames[sp])].mepc

LeavingAt(l) ==
  /\ l \in Leaving
  /\ cur[sp] = sp
  /\ l = "exitswitch" => state[sp] = "RUNNABLE"
  /\ \/ pc = l
     \/ pc \in {"irq", "tick", "leave", "restore"} /\ mode = "M" /\ ~mie /\ TopMepc = l
     \/ pc = "mret" /\ mode = "M" /\ ~mie /\ mepc = l

ExitOK ==
  Alive =>
    /\ sp # OS /\ cpu = OS => \E l \in Leaving : LeavingAt(l)
    /\ cpu = sp => pc \notin Leaving
    /\ cpu = sp /\ pc = "mret" => mepc \notin Leaving
    /\ \A q \in Procs : \A k \in 1 .. Len(frames[q]) :
         frames[q][k].mepc \in Leaving =>
           /\ q = sp /\ q # OS /\ cpu = OS /\ k = Len(frames[q])
           /\ pc \in {"irq", "tick", "leave", "restore"}

\* As long as no interrupt came while the kernel ran, no trap is open on the stack
\* of the system process and one at most on any other, and it goes back to the code
\* of the process.  The system process is in supervisor mode before the first trap
\* only, when no process has a trap to come back to, and in machine mode after it;
\* a handler runs in machine mode and knows the mode it goes back to.
BeforeFirstTrap ==
  /\ mode = "S" /\ pc # "trapinit"
  /\ \A q \in Users : ctx[q].pc \in {"user", "wild"}
  /\ state[OS] = "USED" \/ pc = "switch"
  /\ pc \in {"setcpu", "curstate", "switch"} => slot # OS

AfterTrap == mode = "M" /\ mpp # "U"

CalmOK ==
  ~disturbed =>
    /\ Alive
    /\ mode \in {"S", "M"}
    /\ frames[OS] = <<>>
    /\ \A q \in Users : Len(frames[q]) <= 1
    /\ \A q \in Users : frames[q] # <<>> => frames[q][1].mepc \in UserLabels
    /\ pc = "mret" => mepc \in UserLabels
    /\ sp # OS /\ pc \notin UserLabels => AfterTrap
    /\ sp = OS => pc \in KernelLabels /\ (BeforeFirstTrap \/ AfterTrap)

IInv ==
  /\ TypeOK
  /\ FramesOK
  /\ ContextsOK
  /\ KernelOK
  /\ ProcessOK
  /\ ExitOK
  /\ CalmOK

-----------------------------------------------------------------------------
\* The parts of the type invariant.
States   == {"UNUSED", "USED", "RUNNABLE", "RUNNING"}
Contexts == [stk : Procs, depth : 0 .. MaxNest, pc : Labels]
Stacks   == [Procs -> Seq([mepc : Labels, ret : Labels])]

HartType  == mode \in Modes /\ mpp \in Modes /\ mie \in BOOLEAN /\ mpie \in BOOLEAN /\ mepc \in Labels
PlaceType == pc \in Labels /\ sp \in Procs /\ frames \in Stacks
LoopType  == cur \in [Procs -> Procs] /\ slot \in Procs
TableType == /\ state \in [Procs -> States]
             /\ plock \in [Procs -> BOOLEAN] /\ schedLock \in BOOLEAN
             /\ cpu \in Procs
CtxType   == ctx \in [Procs -> Contexts]

\* The type invariant is its parts, ...
LEMMA Types ==
  TypeOK <=> HartType /\ PlaceType /\ LoopType /\ TableType /\ CtxType /\ disturbed \in BOOLEAN
BY DEF TypeOK, HartType, PlaceType, LoopType, TableType, CtxType, States, Contexts, Stacks

\* ... also after a step.
LEMMA TypesNext ==
  ASSUME HartType', PlaceType', LoopType', TableType', CtxType', disturbed' \in BOOLEAN
  PROVE  TypeOK'
BY DEF TypeOK, HartType, PlaceType, LoopType, TableType, CtxType, States, Contexts, Stacks

\* The system process is none of the others.
LEMMA Processes ==
  Procs = Users \cup {OS} /\ OS \notin Users /\ N \in Users /\ 1 \in Users
BY NAssumption DEF Procs, Users, OS

-----------------------------------------------------------------------------
\* Where the labels are.

\* Every label is a label, and the groups of labels have none in common.
LEMMA LabelGroups ==
  /\ KernelLabels \cup UserLabels \cup TrapLabels \subseteq Labels \ StopLabels
  /\ KernelLabels \cap (UserLabels \cup TrapLabels) = {}
  /\ UserLabels \cap TrapLabels = {}
  /\ Leaving \subseteq OfProcess /\ OfProcess \subseteq Inside
  /\ Inside \subseteq TrapLabels /\ TrapLabels = Inside \cup {"mret"}
BY DEF KernelLabels, UserLabels, TrapLabels, BootLabels, SchedLabels, StopLabels, Labels,
       Leaving, OfProcess, Inside

\* Each label of the kernel's own code is reached on the stack of the system process
\* only, with no trap open on it.
LEMMA OnKernelStack ==
  ASSUME IInv, pc \in KernelLabels
  PROVE  /\ HartType /\ PlaceType /\ LoopType /\ TableType /\ CtxType /\ disturbed \in BOOLEAN
         /\ Alive /\ sp = OS /\ frames[OS] = <<>>
         /\ KernelAt(pc)
         /\ cur[OS] = OS
         /\ \A q \in Procs : ctx[q].stk = q
         /\ \A q \in Users : state[q] \in {"RUNNABLE", "RUNNING"} <=> ctx[q].pc # "wild"
<1>1. Alive
  BY LabelGroups DEF Alive
<1>2. pc \in Base(sp) \cup Inner(sp) /\ (pc \in Base(sp) => frames[sp] = <<>>)
  BY <1>1 DEF IInv, FramesOK
<1>3. sp = OS
  BY <1>2, LabelGroups DEF Base, Inner
<1>4. frames[OS] = <<>>
  BY <1>2, <1>3 DEF Base
<1>5. KernelAt(pc)
  BY <1>1, <1>3 DEF IInv, KernelOK, Pending
<1>6. /\ HartType /\ PlaceType /\ LoopType /\ TableType /\ CtxType /\ disturbed \in BOOLEAN
  BY Types DEF IInv
<1>7. /\ cur[OS] = OS
      /\ \A q \in Procs : ctx[q].stk = q
      /\ \A q \in Users : state[q] \in {"RUNNABLE", "RUNNING"} <=> ctx[q].pc # "wild"
  BY <1>1, <1>3, Processes DEF IInv, ContextsOK
<1> QED
  BY <1>1, <1>3, <1>4, <1>5, <1>6, <1>7

-----------------------------------------------------------------------------
\* The steps of kernel_main() and of the scheduler.

\* A step from one label of the kernel to another keeps the invariant when it leaves
\* the locks and states as the next label expects them.
LEMMA KernelStep ==
  ASSUME IInv, TypeOK', pc \in KernelLabels,
         pc' \in KernelLabels, KernelAt(pc)',
         UNCHANGED <<mode, mpp, sp, frames, disturbed>>,
         cur'[OS] = OS,
         \A q \in Procs : ctx'[q].stk = q,
         \A q \in Users : ctx'[q].depth = ctx[q].depth,
         \A q \in Users : \/ ctx'[q].pc = ctx[q].pc
                          \/ ctx[q].pc = "wild" /\ ctx'[q].pc = "user",
         \A q \in Users : state'[q] \in {"RUNNABLE", "RUNNING"} <=> ctx'[q].pc # "wild",
         BeforeFirstTrap => BeforeFirstTrap'
  PROVE  IInv'
<1>0. Alive /\ sp = OS /\ frames[OS] = <<>>
  BY OnKernelStack
<1>1. Alive' /\ sp' = OS /\ frames'[OS] = <<>> /\ pc' # "mret"
  BY <1>0, LabelGroups DEF Alive
<1>2. FramesOK'
  <2>1. pc' \in Base(sp)' /\ pc' \notin Inside
    BY <1>1, LabelGroups DEF Base
  <2>2. FramesOK
    BY DEF IInv
  <2> QED
    BY <1>0, <1>1, <2>1, <2>2 DEF FramesOK, Base, Inner
<1>3. ContextsOK'
  <2>1. ContextsOK
    BY DEF IInv
  <2> QED
    BY <1>0, <1>1, <2>1 DEF ContextsOK, OS, Users, Procs
<1>4. KernelOK'
  <2>1. ASSUME NEW l \in KernelLabels, Pending(l)'
        PROVE  l = pc'
    BY <1>1, <2>1 DEF Pending
  <2> QED
    BY <2>1 DEF KernelOK, KernelAt
<1>5. ProcessOK'
  BY <1>1 DEF ProcessOK
<1>6. ExitOK'
  <2>1. ExitOK
    BY DEF IInv
  <2>2. pc' \notin Leaving
    BY LabelGroups
  <2> QED
    BY <1>0, <1>1, <2>1, <2>2 DEF ExitOK
<1>7. CalmOK'
  <2>1. CalmOK
    BY DEF IInv
  <2> QED
    BY <1>0, <1>1, <2>1 DEF CalmOK, AfterTrap
<1> QED
  BY <1>2, <1>3, <1>4, <1>5, <1>6, <1>7 DEF IInv

\* create_proc() takes the entry the loop variable stands for.
LEMMA CreateStep ==
  ASSUME IInv, Create
  PROVE  IInv'
<1>1. pc = "create" /\ pc \in KernelLabels
  BY DEF Create, Running, KernelLabels, BootLabels
<1>2. /\ HartType /\ PlaceType /\ LoopType /\ TableType /\ CtxType /\ disturbed \in BOOLEAN
      /\ KernelAt("create")
      /\ cur[OS] = OS
      /\ \A q \in Procs : ctx[q].stk = q
      /\ \A q \in Users : state[q] \in {"RUNNABLE", "RUNNING"} <=> ctx[q].pc # "wild"
  BY <1>1, OnKernelStack
<1>3. /\ slot \in Users
      /\ \A q \in Users : state[q] = IF q < slot THEN "USED" ELSE "UNUSED"
      /\ \A q \in Procs : ~plock[q]
      /\ ~schedLock /\ cpu = OS
  <2>1. /\ slot \in Users /\ ~schedLock /\ cpu = OS
        /\ \A q \in Users : ~plock[q] /\ (q < slot => state[q] = "USED")
                                      /\ (q >= slot => state[q] = "UNUSED")
    BY <1>2 DEF KernelAt, BootLabels, SchedLabels
  <2>2. ~plock[OS]
    BY <1>2, Processes DEF KernelAt, HoldsProcLock
  <2> QED
    BY <2>1, <2>2, Processes DEF Users, Procs
<1>4. state' = [state EXCEPT ![slot] = "USED"]
  <2>1. PICK p \in Users : /\ state[p] = "UNUSED" /\ \A q \in Users : q < p => state[q] # "UNUSED"
                           /\ state' = [state EXCEPT ![p] = "USED"]
    BY DEF Create
  <2>2. p = slot
    BY <1>3, <2>1 DEF Users
  <2> QED
    BY <2>1, <2>2
<1>5. /\ state' \in [Procs -> States]
      /\ \A q \in Procs : state'[q] = IF q = slot THEN "USED" ELSE state[q]
  BY <1>2, <1>3, <1>4, Processes DEF TableType, States
<1>6. slot' \in Users /\ pc' \in KernelLabels /\ pc' \in Labels
  BY <1>3, NAssumption, LabelGroups DEF Create, Users, KernelLabels, BootLabels
<1>7. TypeOK'
  <2>1. HartType' /\ CtxType' /\ disturbed' \in BOOLEAN
    BY <1>2 DEF Create, csrs, HartType, CtxType
  <2>2. PlaceType' /\ LoopType'
    BY <1>2, <1>6, Processes DEF Create, PlaceType, LoopType
  <2>3. TableType'
    BY <1>2, <1>5 DEF Create, TableType
  <2> QED
    BY <2>1, <2>2, <2>3, TypesNext
<1>8. KernelAt(pc)'
  <2>1. plock' = plock /\ schedLock' = schedLock /\ cpu' = cpu
    BY DEF Create
  <2>2. CASE slot = N
    <3>1. pc' = "exec" /\ slot' = 1
      BY <2>2 DEF Create
    <3>2. \A q \in Users : state'[q] = "USED" /\ q >= 1
      BY <1>3, <1>5, <2>2, Processes DEF Users
    <3> QED
      BY <1>3, <1>6, <2>1, <3>1, <3>2, Processes DEF KernelAt, BootLabels, SchedLabels, HoldsProcLock
  <2>3. CASE slot # N
    <3>1. pc' = "create" /\ slot' = slot + 1
      BY <2>3 DEF Create
    <3>2. \A q \in Users : state'[q] = IF q < slot + 1 THEN "USED" ELSE "UNUSED"
      BY <1>3, <1>5, Processes DEF Users
    <3> QED
      BY <1>3, <1>6, <2>1, <3>1, <3>2, Processes DEF KernelAt, BootLabels, SchedLabels, HoldsProcLock, Users
  <2> QED
    BY <2>2, <2>3
<1>9. \A q \in Users : state'[q] \in {"RUNNABLE", "RUNNING"} <=> ctx'[q].pc # "wild"
  BY <1>2, <1>3, <1>5, Processes DEF Create, Users
<1>10. BeforeFirstTrap => BeforeFirstTrap'
  BY <1>3, <1>5, <1>6, Processes DEF Create, Running, BeforeFirstTrap, csrs
<1> QED
  BY <1>1, <1>2, <1>6, <1>7, <1>8, <1>9, <1>10, KernelStep DEF Create, csrs

\* exec() takes the lock of a process that no one has locked.
LEMMA ExecStep ==
  ASSUME IInv, Exec
  PROVE  IInv'
<1>1. pc = "exec" /\ pc \in KernelLabels
  BY DEF Exec, Running, KernelLabels, BootLabels
<1>2. /\ HartType /\ PlaceType /\ LoopType /\ TableType /\ CtxType /\ disturbed \in BOOLEAN
      /\ KernelAt("exec")
      /\ cur[OS] = OS
      /\ \A q \in Procs : ctx[q].stk = q
      /\ \A q \in Users : state[q] \in {"RUNNABLE", "RUNNING"} <=> ctx[q].pc # "wild"
  BY <1>1, OnKernelStack
<1>3. /\ pc' = "load" /\ pc' \in KernelLabels /\ pc' \in Labels
      /\ slot \in Users /\ plock' = [plock EXCEPT ![slot] = TRUE]
  BY <1>2, LabelGroups DEF Exec, KernelLabels, KernelAt, BootLabels
<1>4. /\ plock' \in [Procs -> BOOLEAN]
      /\ \A q \in Procs : plock'[q] = (q = slot \/ plock[q])
  BY <1>2, <1>3, Processes DEF TableType
<1>5. TypeOK'
  <2>1. HartType' /\ LoopType' /\ CtxType' /\ disturbed' \in BOOLEAN
    BY <1>2 DEF Exec, csrs, HartType, LoopType, CtxType
  <2>2. PlaceType' /\ TableType'
    BY <1>2, <1>3, <1>4 DEF Exec, PlaceType, TableType
  <2> QED
    BY <2>1, <2>2, TypesNext
<1>6. KernelAt(pc)'
  BY <1>2, <1>3, <1>4, Processes DEF Exec, KernelAt, Users, BootLabels, SchedLabels, HoldsProcLock
<1>7. BeforeFirstTrap => BeforeFirstTrap'
  BY <1>1, <1>3 DEF Exec, BeforeFirstTrap, csrs
<1>8. pc' \in KernelLabels
  BY <1>3
<1>9. UNCHANGED <<mode, mpp, sp, frames, disturbed, cur, ctx, state>>
  BY DEF Exec, csrs
<1> QED
  BY <1>1, <1>2, <1>5, <1>6, <1>7, <1>8, <1>9, KernelStep

\* The loop of kernel_main() goes on, with the process loaded or not.
LEMMA NextProgramAt ==
  ASSUME TypeOK, KernelAt("load"), NextProgram,
         UNCHANGED <<schedLock, cpu>>,
         \A q \in Procs : plock'[q] = IF q = slot THEN state'[slot] = "USED" ELSE plock[q],
         \A q \in Users \ {slot} : state'[q] = state[q],
         state'[slot] \in {"USED", "RUNNABLE"}
  PROVE  /\ pc' \in KernelLabels /\ pc' \in Labels /\ slot' \in Procs
         /\ KernelAt(pc)'
<1>1. /\ slot \in Users /\ ~schedLock /\ cpu = OS
      /\ \A q \in Users : /\ q < slot => state[q] \in {"USED", "RUNNABLE"}
                          /\ q >= slot => state[q] = "USED"
                          /\ q > slot => ~plock[q]
      /\ \A q \in Procs \ {slot} : plock[q] => q # OS /\ state[q] = "USED"
  BY DEF KernelAt, BootLabels, SchedLabels, HoldsProcLock
<1>2. CASE slot = N
  <2>1. pc' = "sched" /\ slot' = OS
    BY <1>2 DEF NextProgram
  <2>2. \A q \in Users : state'[q] \in {"USED", "RUNNABLE"}
    BY <1>1, <1>2 DEF Users
  <2>3. \A q \in Procs : plock'[q] => q # OS /\ state'[q] = "USED"
    BY <1>1, Processes
  <2> QED
    BY <1>1, <2>1, <2>2, <2>3, Processes, LabelGroups DEF KernelAt, KernelLabels, BootLabels, SchedLabels, HoldsProcLock
<1>3. CASE slot # N
  <2>1. pc' = "exec" /\ slot' = slot + 1 /\ slot' \in Users
    BY <1>1, <1>3, NAssumption DEF NextProgram, Users
  <2>2. \A q \in Users : /\ q < slot + 1 => state'[q] \in {"USED", "RUNNABLE"}
                         /\ q >= slot + 1 => state'[q] = "USED" /\ ~plock'[q]
    BY <1>1, Processes DEF Users
  <2>3. \A q \in Procs : plock'[q] => q # OS /\ state'[q] = "USED"
    BY <1>1, Processes
  <2>4. \A q \in Users : q > slot + 1 => ~plock'[q]
    BY <1>1, <2>2 DEF Users
  <2> QED
    BY <1>1, <2>1, <2>2, <2>3, <2>4, Processes, LabelGroups DEF KernelAt, KernelLabels, BootLabels, SchedLabels, HoldsProcLock
<1> QED
  BY <1>2, <1>3

\* A loaded process is runnable and its lock is free.
LEMMA LoadStep ==
  ASSUME IInv, Load
  PROVE  IInv'
<1>0. TypeOK
  BY DEF IInv
<1>1. pc = "load" /\ pc \in KernelLabels
  BY DEF Load, Running, KernelLabels, BootLabels
<1>2. /\ HartType /\ PlaceType /\ LoopType /\ TableType /\ CtxType /\ disturbed \in BOOLEAN
      /\ KernelAt("load")
      /\ cur[OS] = OS
      /\ \A q \in Procs : ctx[q].stk = q
      /\ \A q \in Users : state[q] \in {"RUNNABLE", "RUNNING"} <=> ctx[q].pc # "wild"
  BY <1>1, OnKernelStack
<1>3. slot \in Users /\ state[slot] = "USED"
  BY <1>2 DEF KernelAt, BootLabels, Users
<1>4. ctx[slot].pc = "wild"
  <2>1. state[slot] \in {"RUNNABLE", "RUNNING"} <=> ctx[slot].pc # "wild"
    BY <1>2, <1>3
  <2> QED
    BY <1>3, <2>1
<1>5. /\ plock' \in [Procs -> BOOLEAN] /\ state' \in [Procs -> States]
      /\ \A q \in Procs : /\ plock'[q] = IF q = slot THEN FALSE ELSE plock[q]
                          /\ state'[q] = IF q = slot THEN "RUNNABLE" ELSE state[q]
  BY <1>2, <1>3, Processes DEF Load, TableType, States
<1>6. /\ ctx' \in [Procs -> Contexts]
      /\ \A q \in Procs \ {slot} : ctx'[q] = ctx[q]
      /\ ctx'[slot].stk = ctx[slot].stk
      /\ ctx'[slot].depth = ctx[slot].depth
      /\ ctx'[slot].pc = "user"
  <2>1. ctx' = [ctx EXCEPT ![slot] = Context(ctx[slot].stk, ctx[slot].depth, "user")]
    BY DEF Load
  <2>2. Context(ctx[slot].stk, ctx[slot].depth, "user") \in Contexts
    <3>1. ctx[slot] \in Contexts
      BY <1>2, <1>3, Processes DEF CtxType
    <3> QED
      BY <3>1 DEF Contexts, Context, Labels, UserLabels
  <2>3. ctx' \in [Procs -> Contexts] /\ \A q \in Procs \ {slot} : ctx'[q] = ctx[q]
    BY <2>1, <2>2, <1>2 DEF CtxType
  <2>4. ctx'[slot] = Context(ctx[slot].stk, ctx[slot].depth, "user")
    BY <2>1, <1>2, <1>3, Processes DEF CtxType
  <2> QED
    BY <2>3, <2>4 DEF Context
<1>7. pc' \in KernelLabels /\ pc' \in Labels /\ slot' \in Procs /\ KernelAt(pc)'
  BY <1>0, <1>2, <1>3, <1>5, Processes, NextProgramAt DEF Load
<1>8. TypeOK'
  <2>1. HartType' /\ LoopType' /\ CtxType' /\ disturbed' \in BOOLEAN
    BY <1>2, <1>6, <1>7 DEF Load, csrs, HartType, LoopType, CtxType
  <2>2. PlaceType' /\ TableType'
    BY <1>2, <1>5, <1>7 DEF Load, PlaceType, TableType
  <2> QED
    BY <2>1, <2>2, TypesNext
<1>9. \A q \in Users : state'[q] \in {"RUNNABLE", "RUNNING"} <=> ctx'[q].pc # "wild"
  <2>1. state'[slot] = "RUNNABLE" /\ ctx'[slot].pc = "user"
    BY <1>3, <1>5, <1>6, Processes
  <2>2. \A q \in Users \ {slot} : state'[q] = state[q] /\ ctx'[q] = ctx[q]
    BY <1>5, <1>6, Processes
  <2> QED
    BY <1>2, <2>1, <2>2
<1>10. BeforeFirstTrap => BeforeFirstTrap'
  <2>1. pc' \notin {"trapinit", "setcpu", "curstate", "switch"} /\ state'[OS] = state[OS] /\ mode' = mode
    BY <1>3, <1>5, Processes DEF Load, NextProgram, csrs
  <2> QED
    BY <1>1, <1>6, <2>1, Processes DEF BeforeFirstTrap
<1>11. /\ \A q \in Procs : ctx'[q].stk = q
       /\ \A q \in Users : ctx'[q].depth = ctx[q].depth
  BY <1>2, <1>6, Processes
<1>12. \A q \in Users : ctx'[q].pc = ctx[q].pc \/ (ctx[q].pc = "wild" /\ ctx'[q].pc = "user")
  BY <1>4, <1>6, Processes
<1> QED
  BY <1>1, <1>2, <1>7, <1>8, <1>9, <1>10, <1>11, <1>12, KernelStep DEF Load, csrs

\* A program that is no ELF file leaves its process as it was, and locked.
LEMMA LoadFailsStep ==
  ASSUME IInv, LoadFails
  PROVE  IInv'
<1>0. TypeOK
  BY DEF IInv
<1>1. pc = "load" /\ pc \in KernelLabels
  BY DEF LoadFails, Running, KernelLabels, BootLabels
<1>2. /\ HartType /\ PlaceType /\ LoopType /\ TableType /\ CtxType /\ disturbed \in BOOLEAN
      /\ KernelAt("load")
      /\ cur[OS] = OS
      /\ \A q \in Procs : ctx[q].stk = q
      /\ \A q \in Users : state[q] \in {"RUNNABLE", "RUNNING"} <=> ctx[q].pc # "wild"
  BY <1>1, OnKernelStack
<1>3. /\ state[slot] = "USED" /\ plock[slot] = TRUE
  <2>1. slot \in Users /\ state[slot] = "USED" /\ plock[slot]
    BY <1>2 DEF KernelAt, BootLabels, HoldsProcLock, Users
  <2> QED
    BY <2>1, <1>2, Processes DEF TableType
<1>4. pc' \in KernelLabels /\ pc' \in Labels /\ slot' \in Procs /\ KernelAt(pc)'
  <2>1. /\ UNCHANGED <<schedLock, cpu>> /\ NextProgram /\ plock' = plock /\ state' = state
    BY DEF LoadFails, table
  <2>2. \A q \in Procs : plock'[q] = IF q = slot THEN state'[slot] = "USED" ELSE plock[q]
    BY <2>1, <1>3
  <2> QED
    BY <1>0, <1>2, <1>3, <2>1, <2>2, NextProgramAt
<1>5. TypeOK'
  <2>1. HartType' /\ LoopType' /\ CtxType' /\ disturbed' \in BOOLEAN
    BY <1>2, <1>4 DEF LoadFails, csrs, table, HartType, LoopType, CtxType
  <2>2. PlaceType' /\ TableType'
    BY <1>2, <1>4 DEF LoadFails, table, PlaceType, TableType
  <2> QED
    BY <2>1, <2>2, TypesNext
<1>6. BeforeFirstTrap => BeforeFirstTrap'
  <2>1. pc' \notin {"trapinit", "setcpu", "curstate", "switch"}
    BY DEF LoadFails, NextProgram
  <2> QED
    BY <1>1, <2>1 DEF LoadFails, BeforeFirstTrap, csrs, table
<1> QED
  BY <1>1, <1>2, <1>4, <1>5, <1>6, KernelStep DEF LoadFails, csrs, table

\* kernel_main() up to its scheduler.
LEMMA BootStep ==
  ASSUME IInv, Boot
  PROVE  IInv'
BY CreateStep, ExecStep, LoadStep, LoadFailsStep DEF Boot

-----------------------------------------------------------------------------
\* The steps of the scheduler.

\* No one holds sched_lock when the scheduler comes to a process.
LEMMA TakeSchedLockStep ==
  ASSUME IInv, TakeSchedLock
  PROVE  IInv'
<1>1. pc = "sched" /\ pc \in KernelLabels
  BY DEF TakeSchedLock, Running, KernelLabels, SchedLabels
<1>2. /\ HartType /\ PlaceType /\ LoopType /\ TableType /\ CtxType /\ disturbed \in BOOLEAN
      /\ KernelAt("sched")
      /\ cur[OS] = OS
      /\ \A q \in Procs : ctx[q].stk = q
      /\ \A q \in Users : state[q] \in {"RUNNABLE", "RUNNING"} <=> ctx[q].pc # "wild"
  BY <1>1, OnKernelStack
<1>3. pc' = "plock" /\ pc' \in KernelLabels /\ pc' \in Labels
  BY LabelGroups DEF TakeSchedLock, KernelLabels, SchedLabels
<1>4. TypeOK'
  <2>1. HartType' /\ LoopType' /\ CtxType' /\ disturbed' \in BOOLEAN
    BY <1>2 DEF TakeSchedLock, csrs, HartType, LoopType, CtxType
  <2>2. PlaceType' /\ TableType'
    BY <1>2, <1>3 DEF TakeSchedLock, PlaceType, TableType
  <2> QED
    BY <2>1, <2>2, TypesNext
<1>5. KernelAt(pc)'
  BY <1>2, <1>3 DEF TakeSchedLock, KernelAt, BootLabels, SchedLabels, HoldsProcLock
<1>6. BeforeFirstTrap => BeforeFirstTrap'
  BY <1>1, <1>3 DEF TakeSchedLock, BeforeFirstTrap, csrs
<1>7. pc' \in KernelLabels
  BY <1>3
<1>8. UNCHANGED <<mode, mpp, sp, frames, disturbed, cur, ctx, state>>
  BY DEF TakeSchedLock, csrs
<1> QED
  BY <1>1, <1>2, <1>4, <1>5, <1>6, <1>7, <1>8, KernelStep

\* The scheduler takes the lock of the process the loop variable stands for.
LEMMA TakeProcLockStep ==
  ASSUME IInv, TakeProcLock
  PROVE  IInv'
<1>1. pc = "plock" /\ pc \in KernelLabels
  BY DEF TakeProcLock, Running, KernelLabels, SchedLabels
<1>2. /\ HartType /\ PlaceType /\ LoopType /\ TableType /\ CtxType /\ disturbed \in BOOLEAN
      /\ KernelAt("plock")
      /\ cur[OS] = OS
      /\ \A q \in Procs : ctx[q].stk = q
      /\ \A q \in Users : state[q] \in {"RUNNABLE", "RUNNING"} <=> ctx[q].pc # "wild"
  BY <1>1, OnKernelStack
<1>3. /\ pc' = "test" /\ pc' \in KernelLabels /\ pc' \in Labels
      /\ plock' \in [Procs -> BOOLEAN]
      /\ \A q \in Procs : plock'[q] = (q = slot \/ plock[q])
  <2>1. pc' = "test" /\ pc' \in KernelLabels /\ pc' \in Labels
    BY LabelGroups DEF TakeProcLock, KernelLabels, SchedLabels
  <2>2. plock' = [plock EXCEPT ![slot] = TRUE]
    BY DEF TakeProcLock
  <2> QED
    BY <1>2, <2>1, <2>2 DEF TableType, LoopType
<1>4. TypeOK'
  <2>1. HartType' /\ LoopType' /\ CtxType' /\ disturbed' \in BOOLEAN
    BY <1>2 DEF TakeProcLock, csrs, HartType, LoopType, CtxType
  <2>2. PlaceType' /\ TableType'
    BY <1>2, <1>3 DEF TakeProcLock, PlaceType, TableType
  <2> QED
    BY <2>1, <2>2, TypesNext
<1>5. KernelAt(pc)'
  BY <1>2, <1>3 DEF TakeProcLock, KernelAt, LoopType, BootLabels, SchedLabels, HoldsProcLock
<1>6. BeforeFirstTrap => BeforeFirstTrap'
  BY <1>1, <1>3 DEF TakeProcLock, BeforeFirstTrap, csrs
<1>7. pc' \in KernelLabels
  BY <1>3
<1>8. UNCHANGED <<mode, mpp, sp, frames, disturbed, cur, ctx, state>>
  BY DEF TakeProcLock, csrs
<1> QED
  BY <1>1, <1>2, <1>4, <1>5, <1>6, <1>7, <1>8, KernelStep

\* A runnable process is chosen: before the first trap it is not the system process.
LEMMA ChooseStep ==
  ASSUME IInv, Choose
  PROVE  IInv'
<1>1. pc = "test" /\ pc \in KernelLabels
  BY DEF Choose, Running, KernelLabels, SchedLabels
<1>2. /\ HartType /\ PlaceType /\ LoopType /\ TableType /\ CtxType /\ disturbed \in BOOLEAN
      /\ KernelAt("test")
      /\ cur[OS] = OS
      /\ \A q \in Procs : ctx[q].stk = q
      /\ \A q \in Users : state[q] \in {"RUNNABLE", "RUNNING"} <=> ctx[q].pc # "wild"
  BY <1>1, OnKernelStack
<1>3. /\ pc' = "setcpu" /\ pc' \in KernelLabels /\ pc' \in Labels
      /\ slot \in Procs /\ state[slot] = "RUNNABLE"
      /\ state' \in [Procs -> States]
      /\ \A q \in Procs : state'[q] = IF q = slot THEN "RUNNING" ELSE state[q]
  <2>1. pc' = "setcpu" /\ pc' \in KernelLabels /\ pc' \in Labels
    BY LabelGroups DEF Choose, KernelLabels, SchedLabels
  <2>2. state' = [state EXCEPT ![slot] = "RUNNING"]
    BY DEF Choose
  <2> QED
    BY <1>2, <2>1, <2>2 DEF Choose, TableType, LoopType, States
<1>4. TypeOK'
  <2>1. HartType' /\ LoopType' /\ CtxType' /\ disturbed' \in BOOLEAN
    BY <1>2 DEF Choose, csrs, HartType, LoopType, CtxType
  <2>2. PlaceType' /\ TableType'
    BY <1>2, <1>3 DEF Choose, PlaceType, TableType
  <2> QED
    BY <2>1, <2>2, TypesNext
<1>5. KernelAt(pc)'
  <2>1. \A q \in Users : state[q] # "RUNNING" /\ state[q] # "UNUSED"
    BY <1>2 DEF KernelAt, SchedLabels
  <2>2. \A q \in Users : /\ state'[q] = "RUNNING" <=> q = slot
                         /\ state'[q] # "UNUSED"
    BY <1>3, <2>1, Processes
  <2>3. \A q \in Procs : plock[q] => q = slot \/ (q # OS /\ state'[q] = "USED")
    BY <1>2, <1>3 DEF KernelAt
  <2>4. schedLock /\ plock[slot] /\ cpu = OS
    BY <1>2 DEF KernelAt, SchedLabels, HoldsProcLock
  <2> QED
    BY <1>3, <2>2, <2>3, <2>4 DEF Choose, KernelAt, BootLabels, SchedLabels, HoldsProcLock
<1>6. BeforeFirstTrap => BeforeFirstTrap'
  <2>1. ASSUME BeforeFirstTrap
        PROVE  slot # OS /\ state'[OS] = "USED"
    BY <1>1, <1>3, <2>1, Processes DEF BeforeFirstTrap
  <2> QED
    BY <1>3, <2>1 DEF Choose, BeforeFirstTrap, csrs
<1>7. \A q \in Users : state'[q] \in {"RUNNABLE", "RUNNING"} <=> ctx'[q].pc # "wild"
  <2>1. \A q \in Users : state'[q] \in {"RUNNABLE", "RUNNING"} <=> state[q] \in {"RUNNABLE", "RUNNING"}
    BY <1>3, Processes
  <2> QED
    BY <1>2, <2>1 DEF Choose
<1>8. pc' \in KernelLabels
  BY <1>3
<1>9. UNCHANGED <<mode, mpp, sp, frames, disturbed, cur, ctx>>
  BY DEF Choose, csrs
<1> QED
  BY <1>1, <1>2, <1>4, <1>5, <1>6, <1>7, <1>8, <1>9, KernelStep

\* A process that is not runnable is passed over with its lock held until the next label.
LEMMA SkipStep ==
  ASSUME IInv, Skip
  PROVE  IInv'
<1>1. pc = "test" /\ pc \in KernelLabels
  BY DEF Skip, Running, KernelLabels, SchedLabels
<1>2. /\ HartType /\ PlaceType /\ LoopType /\ TableType /\ CtxType /\ disturbed \in BOOLEAN
      /\ KernelAt("test")
      /\ cur[OS] = OS
      /\ \A q \in Procs : ctx[q].stk = q
      /\ \A q \in Users : state[q] \in {"RUNNABLE", "RUNNING"} <=> ctx[q].pc # "wild"
  BY <1>1, OnKernelStack
<1>3. pc' = "unlock" /\ pc' \in KernelLabels /\ pc' \in Labels
  BY LabelGroups DEF Skip, KernelLabels, SchedLabels
<1>4. TypeOK'
  <2>1. HartType' /\ LoopType' /\ CtxType' /\ TableType' /\ disturbed' \in BOOLEAN
    BY <1>2 DEF Skip, table, csrs, HartType, LoopType, CtxType, TableType
  <2>2. PlaceType'
    BY <1>2, <1>3 DEF Skip, PlaceType
  <2> QED
    BY <2>1, <2>2, TypesNext
<1>5. KernelAt(pc)'
  BY <1>2, <1>3 DEF Skip, table, KernelAt, BootLabels, SchedLabels, HoldsProcLock
<1>6. BeforeFirstTrap => BeforeFirstTrap'
  BY <1>1, <1>3 DEF Skip, table, BeforeFirstTrap, csrs
<1>7. pc' \in KernelLabels
  BY <1>3
<1>8. UNCHANGED <<mode, mpp, sp, frames, disturbed, cur, ctx, state>>
  BY DEF Skip, csrs, table
<1> QED
  BY <1>1, <1>2, <1>4, <1>5, <1>6, <1>7, <1>8, KernelStep

\* The scheduler hands over from the system process, which cpus[0].proc still is.
LEMMA SetCpuStep ==
  ASSUME IInv, SetCpu
  PROVE  IInv'
<1>1. pc = "setcpu" /\ pc \in KernelLabels
  BY DEF SetCpu, Running, KernelLabels, SchedLabels
<1>2. /\ HartType /\ PlaceType /\ LoopType /\ TableType /\ CtxType /\ disturbed \in BOOLEAN
      /\ KernelAt("setcpu")
      /\ cur[OS] = OS
      /\ \A q \in Procs : ctx[q].stk = q
      /\ \A q \in Users : state[q] \in {"RUNNABLE", "RUNNING"} <=> ctx[q].pc # "wild"
  BY <1>1, OnKernelStack
<1>3. /\ pc' = "curstate" /\ pc' \in KernelLabels /\ pc' \in Labels
      /\ cur' \in [Procs -> Procs] /\ cur'[OS] = OS
      /\ cpu' = slot /\ slot \in Procs
  <2>1. pc' = "curstate" /\ pc' \in KernelLabels /\ pc' \in Labels /\ cpu' = slot
    BY LabelGroups DEF SetCpu, KernelLabels, SchedLabels
  <2>2. cpu = OS /\ sp = OS
    BY <1>1, <1>2, OnKernelStack DEF KernelAt
  <2>3. cur' = [cur EXCEPT ![OS] = OS]
    BY <2>2 DEF SetCpu
  <2> QED
    BY <1>2, <2>1, <2>3, Processes DEF LoopType
<1>4. TypeOK'
  <2>1. HartType' /\ CtxType' /\ disturbed' \in BOOLEAN
    BY <1>2 DEF SetCpu, csrs, HartType, CtxType
  <2>2. PlaceType' /\ LoopType' /\ TableType'
    BY <1>2, <1>3 DEF SetCpu, PlaceType, LoopType, TableType
  <2> QED
    BY <2>1, <2>2, TypesNext
<1>5. KernelAt(pc)'
  BY <1>2, <1>3 DEF SetCpu, KernelAt, BootLabels, SchedLabels, HoldsProcLock
<1>6. BeforeFirstTrap => BeforeFirstTrap'
  BY <1>1, <1>3 DEF SetCpu, BeforeFirstTrap, csrs
<1>9. cur'[OS] = OS
  BY <1>3
<1>7. pc' \in KernelLabels
  BY <1>3
<1>8. UNCHANGED <<mode, mpp, sp, frames, disturbed, ctx, state>>
  BY DEF SetCpu, csrs
<1> QED
  BY <1>1, <1>2, <1>4, <1>5, <1>6, <1>7, <1>8, <1>9, KernelStep

\* The system process becomes runnable as it hands over.
LEMMA CurStateStep ==
  ASSUME IInv, CurState
  PROVE  IInv'
<1>1. pc = "curstate" /\ pc \in KernelLabels
  BY DEF CurState, Running, KernelLabels, SchedLabels
<1>2. /\ HartType /\ PlaceType /\ LoopType /\ TableType /\ CtxType /\ disturbed \in BOOLEAN
      /\ KernelAt("curstate")
      /\ cur[OS] = OS
      /\ \A q \in Procs : ctx[q].stk = q
      /\ \A q \in Users : state[q] \in {"RUNNABLE", "RUNNING"} <=> ctx[q].pc # "wild"
  BY <1>1, OnKernelStack
<1>3. /\ pc' = "switch" /\ pc' \in KernelLabels /\ pc' \in Labels
      /\ state' \in [Procs -> States] /\ state'[OS] = "RUNNABLE"
      /\ \A q \in Users : state'[q] = state[q]
  <2>1. pc' = "switch" /\ pc' \in KernelLabels /\ pc' \in Labels
    BY LabelGroups DEF CurState, KernelLabels, SchedLabels
  <2>2. state' = [state EXCEPT ![OS] = "RUNNABLE"]
    BY <1>1, <1>2, OnKernelStack DEF CurState
  <2> QED
    BY <1>2, <2>1, <2>2, Processes DEF TableType, States
<1>4. TypeOK'
  <2>1. HartType' /\ LoopType' /\ CtxType' /\ disturbed' \in BOOLEAN
    BY <1>2 DEF CurState, csrs, HartType, LoopType, CtxType
  <2>2. PlaceType' /\ TableType'
    BY <1>2, <1>3 DEF CurState, PlaceType, TableType
  <2> QED
    BY <2>1, <2>2, TypesNext
<1>5. KernelAt(pc)'
  <2>1. \A q \in Procs : plock[q] => q = slot \/ (q # OS /\ state'[q] = "USED")
    BY <1>2, <1>3, Processes DEF KernelAt
  <2> QED
    BY <1>2, <1>3, <2>1 DEF CurState, KernelAt, BootLabels, SchedLabels, HoldsProcLock
<1>6. BeforeFirstTrap => BeforeFirstTrap'
  BY <1>1, <1>3 DEF CurState, BeforeFirstTrap, csrs
<1>7. \A q \in Users : state'[q] \in {"RUNNABLE", "RUNNING"} <=> ctx'[q].pc # "wild"
  BY <1>2, <1>3 DEF CurState
<1>8. pc' \in KernelLabels
  BY <1>3
<1>9. UNCHANGED <<mode, mpp, sp, frames, disturbed, cur, ctx>>
  BY DEF CurState, csrs
<1> QED
  BY <1>1, <1>2, <1>4, <1>5, <1>6, <1>7, <1>8, <1>9, KernelStep

\* Back from the switch the scheduler frees the lock it took before it.
LEMMA FreeProcLockStep ==
  ASSUME IInv, FreeProcLock
  PROVE  IInv'
<1>1. pc = "unlock" /\ pc \in KernelLabels
  BY DEF FreeProcLock, Running, KernelLabels, SchedLabels
<1>2. /\ HartType /\ PlaceType /\ LoopType /\ TableType /\ CtxType /\ disturbed \in BOOLEAN
      /\ KernelAt("unlock")
      /\ cur[OS] = OS
      /\ \A q \in Procs : ctx[q].stk = q
      /\ \A q \in Users : state[q] \in {"RUNNABLE", "RUNNING"} <=> ctx[q].pc # "wild"
  BY <1>1, OnKernelStack
<1>3. /\ pc' = "schedunlock" /\ pc' \in KernelLabels /\ pc' \in Labels
      /\ plock' \in [Procs -> BOOLEAN]
      /\ \A q \in Procs : plock'[q] = IF q = slot THEN FALSE ELSE plock[q]
  <2>1. pc' = "schedunlock" /\ pc' \in KernelLabels /\ pc' \in Labels
    BY LabelGroups DEF FreeProcLock, KernelLabels, SchedLabels
  <2>2. plock' = [plock EXCEPT ![slot] = FALSE]
    BY DEF FreeProcLock
  <2> QED
    BY <1>2, <2>1, <2>2 DEF TableType, LoopType
<1>4. TypeOK'
  <2>1. HartType' /\ LoopType' /\ CtxType' /\ disturbed' \in BOOLEAN
    BY <1>2 DEF FreeProcLock, csrs, HartType, LoopType, CtxType
  <2>2. PlaceType' /\ TableType'
    BY <1>2, <1>3 DEF FreeProcLock, PlaceType, TableType
  <2> QED
    BY <2>1, <2>2, TypesNext
<1>5. KernelAt(pc)'
  BY <1>2, <1>3 DEF FreeProcLock, KernelAt, BootLabels, SchedLabels, HoldsProcLock
<1>6. BeforeFirstTrap => BeforeFirstTrap'
  BY <1>1, <1>3 DEF FreeProcLock, BeforeFirstTrap, csrs
<1>7. pc' \in KernelLabels
  BY <1>3
<1>8. UNCHANGED <<mode, mpp, sp, frames, disturbed, cur, ctx, state>>
  BY DEF FreeProcLock, csrs
<1> QED
  BY <1>1, <1>2, <1>4, <1>5, <1>6, <1>7, <1>8, KernelStep

\* The loop variable goes round the table.
LEMMA SlotWraps ==
  ASSUME slot \in Procs
  PROVE  (slot + 1) % (N + 1) \in Procs
BY NAssumption DEF Procs

\* The turn of the loop ends with no lock taken in it held.
LEMMA FreeSchedLockStep ==
  ASSUME IInv, FreeSchedLock
  PROVE  IInv'
<1>1. pc = "schedunlock" /\ pc \in KernelLabels
  BY DEF FreeSchedLock, Running, KernelLabels, SchedLabels
<1>2. /\ HartType /\ PlaceType /\ LoopType /\ TableType /\ CtxType /\ disturbed \in BOOLEAN
      /\ KernelAt("schedunlock")
      /\ cur[OS] = OS
      /\ \A q \in Procs : ctx[q].stk = q
      /\ \A q \in Users : state[q] \in {"RUNNABLE", "RUNNING"} <=> ctx[q].pc # "wild"
  BY <1>1, OnKernelStack
<1>3. /\ pc' = "sched" /\ pc' \in KernelLabels /\ pc' \in Labels
      /\ slot' \in Procs
  <2>1. pc' = "sched" /\ pc' \in KernelLabels /\ pc' \in Labels
    BY LabelGroups DEF FreeSchedLock, KernelLabels, SchedLabels
  <2> QED
    BY <1>2, <2>1, SlotWraps DEF FreeSchedLock, LoopType
<1>4. TypeOK'
  <2>1. HartType' /\ CtxType' /\ disturbed' \in BOOLEAN
    BY <1>2 DEF FreeSchedLock, csrs, HartType, CtxType
  <2>2. PlaceType' /\ LoopType' /\ TableType'
    <3>1. cur' = cur /\ state' = state /\ plock' = plock /\ schedLock' = FALSE /\ cpu' = cpu
          /\ sp' = sp /\ frames' = frames
      BY DEF FreeSchedLock
    <3> QED
      BY <1>2, <1>3, <3>1 DEF PlaceType, LoopType, TableType
  <2> QED
    BY <2>1, <2>2, TypesNext
<1>5. KernelAt(pc)'
  <2>1. /\ \A q \in Procs : plock[q] => q # OS /\ state[q] = "USED"
        /\ \A q \in Users : state[q] # "RUNNING" /\ state[q] # "UNUSED"
        /\ cpu = OS
    BY <1>2 DEF KernelAt, BootLabels, SchedLabels, HoldsProcLock
  <2>2. plock' = plock /\ state' = state /\ cpu' = cpu /\ schedLock' = FALSE
    BY DEF FreeSchedLock
  <2> QED
    BY <1>3, <2>1, <2>2 DEF KernelAt, BootLabels, SchedLabels, HoldsProcLock
<1>6. BeforeFirstTrap => BeforeFirstTrap'
  BY <1>1, <1>3 DEF FreeSchedLock, BeforeFirstTrap, csrs
<1>7. pc' \in KernelLabels
  BY <1>3
<1>8. UNCHANGED <<mode, mpp, sp, frames, disturbed, cur, ctx, state>>
  BY DEF FreeSchedLock, csrs
<1> QED
  BY <1>1, <1>2, <1>4, <1>5, <1>6, <1>7, <1>8, KernelStep

-----------------------------------------------------------------------------
\* The hart stops, and stacks are switched.

\* Nothing is asked of a hart that has stopped after an interrupt came while the
\* kernel ran.
LEMMA StopStep ==
  ASSUME IInv, TypeOK', pc' \in StopLabels, frames' = frames, disturbed'
  PROVE  IInv'
<1>1. ~Alive'
  BY DEF Alive
<1>2. FramesOK'
  BY <1>1 DEF IInv, FramesOK
<1>3. ContextsOK' /\ KernelOK' /\ ProcessOK' /\ ExitOK' /\ CalmOK'
  BY <1>1 DEF ContextsOK, KernelOK, ProcessOK, ExitOK, CalmOK
<1> QED
  BY <1>2, <1>3 DEF IInv

\* A sequence cut at its length is the sequence.
LEMMA WholeSeq ==
  ASSUME NEW S, NEW s \in Seq(S)
  PROVE  SubSeq(s, 1, Len(s)) = s
OBVIOUS

\* A switch from the stack in use finds the other stack as it was left: no frame is
\* lost or added, and the old stack is to go on at l.
LEMMA SwitchStack ==
  ASSUME TypeOK, NEW new \in Procs, NEW l \in Labels \ StopLabels,
         SysSwitch(sp, new, l),
         Len(frames[sp]) <= MaxNest,
         new # sp => /\ ctx[new].stk = new /\ ctx[new].depth = Len(frames[new])
                     /\ ctx[new].pc # "wild"
  PROVE  /\ sp' = new /\ frames' = frames
         /\ pc' = IF new = sp THEN l ELSE ctx[new].pc
         /\ ctx' \in [Procs -> Contexts]
         /\ \A q \in Procs \ {sp} : ctx'[q] = ctx[q]
         /\ ctx'[sp] = Context(sp, Len(frames[sp]), l)
<1>0. PlaceType /\ CtxType
  BY Types
<1>1. l # "wild" /\ l \in Labels
  BY DEF StopLabels
<1>2. frames \in Stacks /\ sp \in Procs /\ ctx \in [Procs -> Contexts]
  BY <1>0 DEF PlaceType, CtxType
<1>3. \A q \in Procs : Len(frames[q]) \in Nat /\ SubSeq(frames[q], 1, Len(frames[q])) = frames[q]
  BY <1>2, WholeSeq DEF Stacks
<1>4. Context(sp, Len(frames[sp]), l) \in Contexts
  BY <1>1, <1>2, <1>3, MaxNestAssumption DEF Context, Contexts
<1> DEFINE saved == [ctx EXCEPT ![sp] = Context(sp, Len(frames[sp]), l)]
<1>5. /\ saved \in [Procs -> Contexts]
      /\ \A q \in Procs \ {sp} : saved[q] = ctx[q]
      /\ saved[sp] = Context(sp, Len(frames[sp]), l)
  BY <1>2, <1>4
<1>6. /\ ctx' = saved
      /\ IF saved[sp].stk = sp /\ saved[new].pc # "wild"
         THEN /\ sp' = saved[new].stk
              /\ frames' = [frames EXCEPT ![saved[new].stk] = SubSeq(@, 1, saved[new].depth)]
              /\ pc' = saved[new].pc
         ELSE pc' = "wild" /\ UNCHANGED <<sp, frames>>
  BY DEF SysSwitch
<1>7. saved[sp].stk = sp /\ saved[new].pc # "wild"
      /\ saved[new].stk = new /\ saved[new].depth = Len(frames[new])
      /\ saved[new].pc = IF new = sp THEN l ELSE ctx[new].pc
  <2>1. CASE new = sp
    BY <1>1, <1>5, <2>1 DEF Context
  <2>2. CASE new # sp
    BY <1>5, <2>2 DEF Context
  <2> QED
    BY <2>1, <2>2
<1> HIDE DEF saved
<1>8. sp' = new /\ pc' = saved[new].pc
      /\ frames' = [frames EXCEPT ![new] = SubSeq(@, 1, Len(frames[new]))]
  BY <1>6, <1>7
<1>9. frames' = frames
  <2>1. SubSeq(frames[new], 1, Len(frames[new])) = frames[new]
    BY <1>3
  <2> QED
    BY <1>2, <1>8, <2>1 DEF Stacks
<1> QED
  BY <1>5, <1>6, <1>7, <1>8, <1>9

\* A switch on the account of a process whose stack is not in use: two activations
\* are on one stack.
LEMMA SwitchWild ==
  ASSUME TypeOK, NEW old \in Procs, NEW new \in Procs, NEW l \in Labels,
         SysSwitch(old, new, l),
         Len(frames[sp]) <= MaxNest, old # sp
  PROVE  /\ pc' = "wild" /\ sp' = sp /\ frames' = frames
         /\ ctx' \in [Procs -> Contexts]
<1>0. PlaceType /\ CtxType
  BY Types
<1>2. frames \in Stacks /\ sp \in Procs /\ ctx \in [Procs -> Contexts]
  BY <1>0 DEF PlaceType, CtxType
<1>3. Len(frames[sp]) \in Nat
  BY <1>2 DEF Stacks
<1>4. Context(sp, Len(frames[sp]), l) \in Contexts
  BY <1>2, <1>3, MaxNestAssumption DEF Context, Contexts
<1> DEFINE saved == [ctx EXCEPT ![old] = Context(sp, Len(frames[sp]), l)]
<1>5. saved \in [Procs -> Contexts] /\ saved[old].stk = sp
  BY <1>2, <1>4 DEF Context
<1>6. /\ ctx' = saved
      /\ IF saved[old].stk = old /\ saved[new].pc # "wild"
         THEN /\ sp' = saved[new].stk
              /\ frames' = [frames EXCEPT ![saved[new].stk] = SubSeq(@, 1, saved[new].depth)]
              /\ pc' = saved[new].pc
         ELSE pc' = "wild" /\ UNCHANGED <<sp, frames>>
  BY DEF SysSwitch
<1> HIDE DEF saved
<1> QED
  BY <1>5, <1>6

\* The stack of a process is in use while the system process waits in its switch.
LEMMA SwitchStep ==
  ASSUME IInv, Switch
  PROVE  IInv'
<1>0. TypeOK /\ FramesOK /\ ContextsOK /\ ExitOK /\ CalmOK
  BY DEF IInv
<1>1. pc = "switch" /\ pc \in KernelLabels
  BY DEF Switch, Running, KernelLabels, SchedLabels
<1>2. /\ HartType /\ PlaceType /\ LoopType /\ TableType /\ CtxType /\ disturbed \in BOOLEAN
      /\ Alive /\ sp = OS /\ frames[OS] = <<>>
      /\ KernelAt("switch")
      /\ cur[OS] = OS
      /\ \A q \in Procs : ctx[q].stk = q
      /\ \A q \in Users : state[q] \in {"RUNNABLE", "RUNNING"} <=> ctx[q].pc # "wild"
  BY <1>1, OnKernelStack
<1>3. /\ schedLock /\ plock[slot] /\ cpu = slot /\ slot \in Procs
      /\ \A q \in Procs : plock[q] => q = slot \/ (q # OS /\ state[q] = "USED")
      /\ \A q \in Users : /\ state[q] # "UNUSED"
                          /\ state[q] = "RUNNING" <=> q = slot
      /\ state[OS] # "RUNNING"
  BY <1>2 DEF KernelAt, SchedLabels, HoldsProcLock, LoopType
<1>4. \A q \in Users : /\ ctx[q].depth = Len(frames[q])
                       /\ \/ ctx[q].pc \in {"user", "wild"} /\ frames[q] = <<>>
                          \/ ctx[q].pc \in {"tail", "exittail"} /\ frames[q] # <<>>
  BY <1>0, <1>2, Processes DEF ContextsOK
<1>5. slot # sp => /\ ctx[slot].stk = slot /\ ctx[slot].depth = Len(frames[slot])
                   /\ ctx[slot].pc # "wild"
  <2>1. slot # sp => slot \in Users /\ state[slot] = "RUNNING"
    BY <1>2, <1>3, Processes
  <2> QED
    BY <1>2, <1>3, <1>4, <2>1
<1>6. /\ sp' = slot /\ frames' = frames
      /\ pc' = IF slot = OS THEN "trapinit" ELSE ctx[slot].pc
      /\ ctx' \in [Procs -> Contexts]
      /\ \A q \in Users : ctx'[q] = ctx[q]
      /\ ctx'[OS] = Context(OS, 0, "trapinit")
  <2>1. SysSwitch(sp, slot, "trapinit")
    BY <1>2 DEF Switch
  <2>2. "trapinit" \in Labels \ StopLabels
    BY DEF Labels, SchedLabels, StopLabels
  <2>3. Len(frames[sp]) = 0 /\ Len(frames[sp]) <= MaxNest
    BY <1>2, MaxNestAssumption
  <2>4. /\ sp' = slot /\ frames' = frames
        /\ pc' = IF slot = sp THEN "trapinit" ELSE ctx[slot].pc
        /\ ctx' \in [Procs -> Contexts]
        /\ \A q \in Procs \ {sp} : ctx'[q] = ctx[q]
        /\ ctx'[sp] = Context(sp, Len(frames[sp]), "trapinit")
    BY <1>0, <1>3, <1>5, <2>1, <2>2, <2>3, SwitchStack
  <2> QED
    BY <1>2, <2>3, <2>4, Processes
<1>7. UNCHANGED <<mode, mie, mpie, mpp, mepc, cur, slot, state, plock, schedLock, cpu, disturbed>>
  BY DEF Switch, csrs
<1>8. pc' \in Labels
  <2>1. slot # OS => ctx[slot] \in Contexts
    BY <1>2, <1>3 DEF CtxType
  <2> QED
    BY <1>6, <2>1 DEF Contexts, Labels, SchedLabels
<1>9. TypeOK'
  <2>1. HartType' /\ CtxType' /\ disturbed' \in BOOLEAN
    BY <1>2, <1>6, <1>7 DEF HartType, CtxType
  <2>2. PlaceType' /\ LoopType' /\ TableType'
    BY <1>2, <1>3, <1>6, <1>7, <1>8 DEF PlaceType, LoopType, TableType
  <2> QED
    BY <2>1, <2>2, TypesNext
<1>10. \A q \in Procs : ctx'[q].stk = q
  BY <1>2, <1>6, Processes DEF Context
<1>11. CASE slot = OS
  <2>1. pc' = "trapinit" /\ sp' = sp
    BY <1>2, <1>6, <1>11
  <2>2. KernelAt(pc)'
    BY <1>2, <1>3, <1>7, <1>11, <2>1, Processes DEF KernelAt, BootLabels, SchedLabels, HoldsProcLock
  <2>3. ~BeforeFirstTrap
    BY <1>1, <1>11 DEF BeforeFirstTrap
  <2>4. pc' \in KernelLabels
    BY <2>1 DEF KernelLabels, SchedLabels
  <2>5. UNCHANGED <<mode, mpp, sp, frames, disturbed, cur, state>>
    BY <1>6, <1>7, <2>1
  <2>6. \A q \in Users : ctx'[q] = ctx[q]
    BY <1>6
  <2> QED
    BY <1>1, <1>2, <1>9, <1>10, <2>2, <2>3, <2>4, <2>5, <2>6, KernelStep
<1>12. CASE slot # OS
  <2>0. slot \in Users /\ sp' = slot /\ pc' = ctx[slot].pc
    BY <1>3, <1>6, <1>12, Processes
  <2>1. \/ pc' = "user" /\ frames'[slot] = <<>>
        \/ pc' \in {"tail", "exittail"} /\ frames'[slot] # <<>>
    BY <1>2, <1>3, <1>4, <1>5, <1>6, <2>0, <1>12
  <2>2. Alive' /\ pc' \notin Leaving /\ pc' # "mret"
    BY <2>1 DEF Alive, StopLabels, Leaving
  <2>3. FramesOK'
    <3>1. pc' \in Base(slot) \cup Inner(slot) /\ (pc' \in Base(slot) => frames'[slot] = <<>>)
                                              /\ (pc' \in Inside => frames'[slot] # <<>>)
      BY <1>12, <2>1, LabelGroups DEF Base, Inner, UserLabels, TrapLabels, Inside
    <3> QED
      BY <1>0, <1>6, <2>0, <2>2, <3>1 DEF FramesOK, Base, Inner
  <2>4. ContextsOK'
    <3>1. \A q \in Procs \ {sp'} : ctx'[q].depth = Len(frames'[q])
      BY <1>2, <1>4, <1>6, Processes DEF Context
    <3>2. ctx'[OS].pc = "trapinit" /\ frames'[OS] = <<>>
      BY <1>2, <1>6 DEF Context
    <3>3. \A q \in Users : /\ \/ ctx'[q].pc \in {"user", "wild"} /\ frames'[q] = <<>>
                              \/ ctx'[q].pc \in {"tail", "exittail"} /\ frames'[q] # <<>>
                           /\ state'[q] \in {"RUNNABLE", "RUNNING"} <=> ctx'[q].pc # "wild"
      BY <1>2, <1>4, <1>6, <1>7
    <3> QED
      BY <1>2, <1>7, <1>10, <3>1, <3>2, <3>3 DEF ContextsOK
  <2>5. KernelOK'
    BY <1>12, <2>0 DEF KernelOK
  <2>6. ProcessOK'
    <3>1. state[slot] = "RUNNING"
      BY <1>3, <2>0
    <3>2. \A q \in Procs : plock[q] => q # OS /\ (q = slot \/ state[q] = "USED")
      BY <1>3, <1>12
    <3>3. \A q \in Procs : state[q] = "RUNNING" => q = slot
      BY <1>3, Processes
    <3> QED
      BY <1>3, <1>7, <2>0, <3>1, <3>2, <3>3 DEF ProcessOK
  <2>7. ExitOK'
    <3>1. \A q \in Procs : \A k \in 1 .. Len(frames[q]) : frames[q][k].mepc \notin Leaving
      BY <1>0, <1>2 DEF ExitOK
    <3> QED
      BY <1>3, <1>6, <1>7, <1>12, <2>0, <2>2, <3>1 DEF ExitOK
  <2>8. CalmOK'
    <3>1. ASSUME ~disturbed, pc' \notin UserLabels
          PROVE  AfterTrap
      <4>1. ~BeforeFirstTrap
        BY <2>0, <2>1, <3>1 DEF BeforeFirstTrap, UserLabels
      <4> QED
        BY <1>0, <1>2, <3>1, <4>1 DEF CalmOK
    <3>2. ASSUME ~disturbed
          PROVE  /\ mode \in {"S", "M"} /\ frames[OS] = <<>>
                 /\ \A q \in Users : Len(frames[q]) <= 1
                 /\ \A q \in Users : frames[q] # <<>> => frames[q][1].mepc \in UserLabels
      BY <1>0, <3>2 DEF CalmOK
    <3> QED
      BY <1>6, <1>7, <1>12, <2>0, <2>2, <3>1, <3>2 DEF CalmOK, AfterTrap
  <2> QED
    BY <1>9, <2>3, <2>4, <2>5, <2>6, <2>7, <2>8 DEF IInv
<1> QED
  BY <1>11, <1>12

\* Back on its stack the system process calls trap_init(), which only machine mode
\* may do: it is in machine mode unless an interrupt came while the kernel ran.
LEMMA SwitchedBackStep ==
  ASSUME IInv, SwitchedBack
  PROVE  IInv'
<1>0. CalmOK
  BY DEF IInv
<1>1. pc = "trapinit" /\ pc \in KernelLabels
  BY DEF SwitchedBack, Running, KernelLabels, SchedLabels
<1>2. /\ HartType /\ PlaceType /\ LoopType /\ TableType /\ CtxType /\ disturbed \in BOOLEAN
      /\ sp = OS
      /\ KernelAt("trapinit")
      /\ cur[OS] = OS
      /\ \A q \in Procs : ctx[q].stk = q
      /\ \A q \in Users : state[q] \in {"RUNNABLE", "RUNNING"} <=> ctx[q].pc # "wild"
  BY <1>1, OnKernelStack
<1>3. UNCHANGED <<sp, frames, cur, slot, state, plock, ctx, schedLock, cpu, disturbed>>
  BY DEF SwitchedBack, table
<1>4. CASE mode = "M"
  <2>1. pc' = "unlock" /\ mie' = TRUE /\ UNCHANGED <<mode, mpie, mpp, mepc>>
    BY <1>4 DEF SwitchedBack, TrapInit
  <2>2. pc' \in KernelLabels /\ pc' \in Labels
    BY <2>1, LabelGroups DEF KernelLabels, SchedLabels
  <2>3. TypeOK'
    <3>1. HartType' /\ CtxType' /\ disturbed' \in BOOLEAN
      BY <1>2, <1>3, <2>1 DEF HartType, CtxType
    <3>2. PlaceType' /\ LoopType' /\ TableType'
      BY <1>2, <1>3, <2>2 DEF PlaceType, LoopType, TableType
    <3> QED
      BY <3>1, <3>2, TypesNext
  <2>4. KernelAt(pc)'
    BY <1>2, <1>3, <2>1 DEF KernelAt, BootLabels, SchedLabels, HoldsProcLock
  <2>5. ~BeforeFirstTrap
    BY <1>1 DEF BeforeFirstTrap
  <2>6. UNCHANGED <<mode, mpp>>
    BY <2>1
  <2> QED
    BY <1>1, <1>2, <1>3, <2>2, <2>3, <2>4, <2>5, <2>6, KernelStep
<1>5. CASE mode # "M"
  <2>1. pc' = "illegal" /\ mode' = "M" /\ mie' = FALSE /\ mpie' = mie /\ mpp' = mode /\ mepc' = pc
    BY <1>5 DEF SwitchedBack, TrapInit
  <2>2. disturbed
    BY <1>0, <1>1, <1>2, <1>5 DEF CalmOK, BeforeFirstTrap, AfterTrap
  <2>3. TypeOK'
    <3>1. HartType' /\ CtxType' /\ disturbed' \in BOOLEAN
      BY <1>1, <1>2, <1>3, <2>1, LabelGroups DEF HartType, CtxType, Modes
    <3>2. PlaceType' /\ LoopType' /\ TableType'
      BY <1>2, <1>3, <2>1 DEF PlaceType, LoopType, TableType, Labels, StopLabels
    <3> QED
      BY <3>1, <3>2, TypesNext
  <2> QED
    BY <1>3, <2>1, <2>2, <2>3, StopStep DEF StopLabels
<1> QED
  BY <1>4, <1>5

\* The whole turn of the scheduler's loop.
LEMMA SchedulerStep ==
  ASSUME IInv, Scheduler
  PROVE  IInv'
BY TakeSchedLockStep, TakeProcLockStep, ChooseStep, SkipStep, SetCpuStep, CurStateStep,
   SwitchStep, SwitchedBackStep, FreeProcLockStep, FreeSchedLockStep
DEF Scheduler

-----------------------------------------------------------------------------
\* Traps are taken and left.

\* The invariant and the types, by their parts.
LEMMA Parts ==
  ASSUME IInv
  PROVE  /\ TypeOK /\ FramesOK /\ ContextsOK /\ KernelOK /\ ProcessOK /\ ExitOK /\ CalmOK
         /\ HartType /\ PlaceType /\ LoopType /\ TableType /\ CtxType /\ disturbed \in BOOLEAN
         /\ sp \in Procs /\ frames \in Stacks
         /\ \A q \in Procs : Len(frames[q]) \in Nat
<1>1. /\ TypeOK /\ FramesOK /\ ContextsOK /\ KernelOK /\ ProcessOK /\ ExitOK /\ CalmOK
  BY DEF IInv
<1>2. HartType /\ PlaceType /\ LoopType /\ TableType /\ CtxType /\ disturbed \in BOOLEAN
  BY <1>1, Types
<1>3. sp \in Procs /\ frames \in Stacks
  BY <1>2 DEF PlaceType
<1>4. \A q \in Procs : Len(frames[q]) \in Nat
  BY <1>3 DEF Stacks
<1> QED
  BY <1>1, <1>2, <1>3, <1>4

\* A trap puts one frame on the stack in use, with the label it comes back to.
LEMMA PushFrame ==
  ASSUME frames \in Stacks, sp \in Procs, pc \in Labels,
         frames' = [frames EXCEPT ![sp] = Append(@, Frame(pc))]
  PROVE  /\ frames' \in Stacks
         /\ \A q \in Procs \ {sp} : frames'[q] = frames[q]
         /\ Len(frames'[sp]) = Len(frames[sp]) + 1
         /\ \A k \in 1 .. Len(frames[sp]) : frames'[sp][k] = frames[sp][k]
         /\ frames'[sp][Len(frames[sp]) + 1].mepc = pc
         /\ frames'[sp] # <<>>
<1>1. Frame(pc) \in [mepc : Labels, ret : Labels] /\ Frame(pc).mepc = pc
  BY DEF Frame
<1>2. frames[sp] \in Seq([mepc : Labels, ret : Labels])
  BY DEF Stacks
<1>3. frames'[sp] = Append(frames[sp], Frame(pc))
  BY DEF Stacks
<1>4. /\ Append(frames[sp], Frame(pc)) \in Seq([mepc : Labels, ret : Labels])
      /\ Len(Append(frames[sp], Frame(pc))) = Len(frames[sp]) + 1
      /\ \A k \in 1 .. Len(frames[sp]) : Append(frames[sp], Frame(pc))[k] = frames[sp][k]
      /\ Append(frames[sp], Frame(pc))[Len(frames[sp]) + 1] = Frame(pc)
      /\ Append(frames[sp], Frame(pc)) # <<>>
  BY <1>1, <1>2
<1>5. frames' \in Stacks /\ \A q \in Procs \ {sp} : frames'[q] = frames[q]
  BY <1>4 DEF Stacks
<1> QED
  BY <1>1, <1>3, <1>4, <1>5

\* A handler that runs with interrupts off is not interrupted: only the code of a
\* process, or code that has turned them on, traps.
LEMMA TrapStep ==
  ASSUME IInv, NEW l \in {"tick", "irq", "syscall"}, Trap(l),
         Alive, UserCode \/ mode # "M" \/ mie,
         Len(frames[sp]) < MaxNest,
         l = "syscall" => UserCode,
         disturbed' = (disturbed \/ ~UserCode)
  PROVE  IInv'
<1>1. /\ FramesOK /\ ContextsOK /\ KernelOK /\ ProcessOK /\ ExitOK /\ CalmOK
      /\ HartType /\ PlaceType /\ LoopType /\ TableType /\ CtxType /\ disturbed \in BOOLEAN
      /\ sp \in Procs /\ frames \in Stacks
      /\ \A q \in Procs : Len(frames[q]) \in Nat
  BY Parts
<1>2. /\ mode' = "M" /\ mpp' = mode /\ mie' = FALSE /\ mpie' = mie /\ mepc' = pc /\ pc' = l
      /\ frames' = [frames EXCEPT ![sp] = Append(@, Frame(pc))]
      /\ UNCHANGED <<sp, cur, slot, state, plock, ctx, schedLock, cpu>>
  BY DEF Trap, table
<1>3. pc \in Labels
  BY <1>1 DEF PlaceType
<1>4. /\ frames' \in Stacks
      /\ \A q \in Procs \ {sp} : frames'[q] = frames[q]
      /\ Len(frames'[sp]) = Len(frames[sp]) + 1
      /\ \A k \in 1 .. Len(frames[sp]) : frames'[sp][k] = frames[sp][k]
      /\ frames'[sp][Len(frames[sp]) + 1].mepc = pc
      /\ frames'[sp] # <<>>
  BY <1>1, <1>2, <1>3, PushFrame
<1>5. /\ Alive' /\ pc' # "mret" /\ pc' \in Inside /\ pc' \notin Leaving /\ pc' \in Labels
      /\ pc' \notin KernelLabels /\ pc' \notin UserLabels
  BY <1>2 DEF Alive, StopLabels, Inside, TrapLabels, Leaving, Labels, KernelLabels, UserLabels,
              BootLabels, SchedLabels
<1>6. pc' \in Inner(sp)
  BY <1>2, <1>5 DEF Inner, Inside, OfProcess, UserCode
<1>7. pc \in Base(sp) \cup Inner(sp) /\ (pc \in Base(sp) => frames[sp] = <<>>)
                                     /\ (pc \in Inside => frames[sp] # <<>>)
  BY <1>1 DEF FramesOK
<1>8. TypeOK'
  <2>1. HartType' /\ CtxType' /\ disturbed' \in BOOLEAN
    BY <1>1, <1>2, <1>3 DEF HartType, CtxType, Modes
  <2>2. PlaceType' /\ LoopType' /\ TableType'
    BY <1>1, <1>2, <1>4, <1>5 DEF PlaceType, LoopType, TableType
  <2> QED
    BY <2>1, <2>2, TypesNext
\* Every frame is one that was there, or the new one.
<1>9. ASSUME NEW q \in Procs, NEW k \in 1 .. Len(frames'[q])
      PROVE  \/ k \in 1 .. Len(frames[q]) /\ frames'[q][k] = frames[q][k]
             \/ q = sp /\ k = Len(frames[sp]) + 1 /\ frames'[q][k].mepc = pc
  BY <1>1, <1>4, <1>9
<1>10. FramesOK'
  <2>1. ASSUME NEW q \in Procs, NEW k \in 1 .. Len(frames'[q])
        PROVE  frames'[q][k].mepc \in IF k = 1 THEN Base(q) \cup {"mret"} ELSE Inner(q)
    <3>1. CASE k \in 1 .. Len(frames[q]) /\ frames'[q][k] = frames[q][k]
      BY <1>1, <3>1 DEF FramesOK
    <3>2. CASE q = sp /\ k = Len(frames[sp]) + 1 /\ frames'[q][k].mepc = pc
      <4>1. CASE frames[sp] = <<>>
        <5>1. k = 1
          BY <3>2, <4>1
        <5>2. pc \in Base(sp) \cup {"mret"}
          BY <1>7, <4>1, LabelGroups DEF Inner
        <5> QED
          BY <3>2, <5>1, <5>2
      <4>2. CASE frames[sp] # <<>>
        <5>1. k # 1
          BY <1>1, <3>2, <4>2 DEF Stacks
        <5>2. pc \in Inner(sp)
          BY <1>7, <4>2
        <5> QED
          BY <3>2, <5>1, <5>2
      <4> QED
        BY <4>1, <4>2
    <3> QED
      BY <1>9, <3>1, <3>2
  <2>2. \A q \in Procs : Len(frames'[q]) <= MaxNest
    BY <1>1, <1>4, MaxNestAssumption DEF FramesOK
  <2>3. pc' \notin Base(sp)
    BY <1>5 DEF Base
  <2>4. \A q \in Procs : Base(q)' = Base(q) /\ Inner(q)' = Inner(q)
    BY DEF Base, Inner
  <2> QED
    BY <1>2, <1>4, <1>5, <1>6, <2>1, <2>2, <2>3 DEF FramesOK, Base, Inner
<1>11. ContextsOK'
  BY <1>1, <1>2, <1>4, Processes DEF ContextsOK
<1>12. KernelOK'
  <2>1. ASSUME sp = OS, NEW m \in KernelLabels, Pending(m)'
        PROVE  KernelAt(m)
    <3>1. PICK k \in 1 .. Len(frames'[OS]) : frames'[OS][k].mepc = m
      BY <1>5, <2>1 DEF Pending
    <3>2. Pending(m)
      BY <1>9, <2>1, <3>1, Processes DEF Pending
    <3> QED
      BY <1>1, <2>1, <3>2 DEF KernelOK
  <2>2. ASSUME NEW m \in KernelLabels, KernelAt(m)
        PROVE  KernelAt(m)'
    BY <1>2, <2>2 DEF KernelAt
  <2> QED
    BY <1>2, <2>1, <2>2 DEF KernelOK
<1>13. ProcessOK'
  BY <1>1, <1>2 DEF ProcessOK
<1>14. ASSUME sp # OS, cpu = OS
       PROVE  pc \in Leaving
  <2>1. PICK m \in Leaving : LeavingAt(m)
    BY <1>1, <1>14 DEF ExitOK
  <2>2. pc = m \/ (pc \in {"irq", "tick", "leave", "restore", "mret"} /\ mode = "M" /\ ~mie)
    BY <2>1 DEF LeavingAt
  <2>3. pc \in {"irq", "tick", "leave", "restore", "mret"} => ~UserCode
    BY DEF UserCode, UserLabels
  <2> QED
    BY <2>2, <2>3
<1>15. ExitOK'
  <2>1. ASSUME sp # OS, cpu = OS
        PROVE  \E m \in Leaving : LeavingAt(m)'
    <3>1. pc \in Leaving
      BY <1>14, <2>1
    <3>2. PICK m \in Leaving : LeavingAt(m)
      BY <1>1, <2>1 DEF ExitOK
    <3>3. m = pc
      BY <3>1, <3>2 DEF LeavingAt, Leaving
    <3>4. pc' \in {"irq", "tick"}
      BY <1>2, <3>1 DEF UserCode, UserLabels, Leaving
    <3>5. TopMepc' = pc
      BY <1>2, <1>4 DEF TopMepc
    <3>6. LeavingAt(m)'
      BY <1>2, <3>2, <3>3, <3>4, <3>5 DEF LeavingAt
    <3> QED
      BY <3>6
  <2>2. ASSUME NEW q \in Procs, NEW k \in 1 .. Len(frames'[q]), frames'[q][k].mepc \in Leaving
        PROVE  /\ q = sp /\ q # OS /\ cpu = OS /\ k = Len(frames'[q])
               /\ pc' \in {"irq", "tick", "leave", "restore"}
    <3>1. CASE k \in 1 .. Len(frames[q]) /\ frames'[q][k] = frames[q][k]
      <4>1. sp # OS /\ cpu = OS /\ pc \in {"irq", "tick", "leave", "restore"}
        BY <1>1, <2>2, <3>1 DEF ExitOK
      <4> QED
        BY <1>14, <4>1 DEF Leaving
    <3>2. CASE q = sp /\ k = Len(frames[sp]) + 1 /\ frames'[q][k].mepc = pc
      <4>1. pc \in Leaving
        BY <2>2, <3>2
      <4>2. sp # OS
        BY <1>7, <4>1, LabelGroups DEF Base, Inner
      <4>3. cpu # sp
        BY <1>1, <4>1 DEF ExitOK
      <4>4. cpu = OS
        BY <1>1, <4>2, <4>3 DEF ProcessOK
      <4>5. pc' \in {"irq", "tick"}
        BY <1>2, <4>1 DEF UserCode, UserLabels, Leaving
      <4> QED
        BY <1>4, <3>2, <4>2, <4>4, <4>5
    <3> QED
      BY <1>9, <3>1, <3>2
  <2> QED
    BY <1>2, <1>5, <2>1, <2>2 DEF ExitOK
<1>16. CalmOK'
  <2>1. ASSUME ~disturbed'
        PROVE  ~disturbed /\ UserCode
    BY <1>1, <2>1
  <2>2. ASSUME ~disturbed'
        PROVE  /\ mode \in {"S", "M"}
               /\ frames'[OS] = <<>>
               /\ \A q \in Users : Len(frames'[q]) <= 1
               /\ \A q \in Users : frames'[q] # <<>> => frames'[q][1].mepc \in UserLabels
    <3>1. sp # OS /\ pc \in UserLabels /\ frames[sp] = <<>>
      BY <1>7, <2>1, <2>2 DEF UserCode, Base
    <3>2. Len(frames'[sp]) = 1 /\ frames'[sp][1].mepc = pc
      BY <1>4, <3>1
    <3>3. /\ mode \in {"S", "M"} /\ frames[OS] = <<>>
          /\ \A q \in Users : Len(frames[q]) <= 1
          /\ \A q \in Users : frames[q] # <<>> => frames[q][1].mepc \in UserLabels
      BY <1>1, <2>1, <2>2 DEF CalmOK
    <3>4. frames'[OS] = frames[OS]
      BY <1>4, <3>1, Processes
    <3>5. ASSUME NEW q \in Users
          PROVE  Len(frames'[q]) <= 1 /\ (frames'[q] # <<>> => frames'[q][1].mepc \in UserLabels)
      <4>1. CASE q = sp
        <5>1. Len(frames'[q]) = 1
          BY <3>2, <4>1
        <5>2. frames'[q][1].mepc \in UserLabels
          BY <3>1, <3>2, <4>1, Zenon
        <5> QED
          BY <5>1, <5>2
      <4>2. CASE q # sp
        BY <1>4, <3>3, <4>2, Processes
      <4> QED
        BY <4>1, <4>2
    <3> QED
      BY <3>3, <3>4, <3>5
  <2> QED
    BY <1>2, <1>5, <2>1, <2>2 DEF CalmOK, AfterTrap, UserCode
<1> QED
  BY <1>8, <1>10, <1>11, <1>12, <1>13, <1>15, <1>16 DEF IInv

\* An interrupt of the timer or of a device.
LEMMA InterruptStep ==
  ASSUME IInv, TimerInterrupt \/ ExternalInterrupt
  PROVE  IInv'
<1>1. PICK l \in {"tick", "irq"} :
        /\ Interruptible /\ Len(frames[sp]) < MaxNest
        /\ Trap(l) /\ disturbed' = (disturbed \/ ~UserCode)
  BY DEF TimerInterrupt, ExternalInterrupt, Interrupt
<1> QED
  BY <1>1, TrapStep DEF Interruptible, Alive

\* A system call.
LEMMA EcallStep ==
  ASSUME IInv, Ecall
  PROVE  IInv'
<1>1. /\ UserCode /\ Len(frames[sp]) < MaxNest
      /\ Trap("syscall") /\ disturbed' = disturbed
  BY DEF Ecall
<1>2. Alive
  BY <1>1 DEF UserCode, UserLabels, Alive, StopLabels
<1>3. disturbed' = (disturbed \/ ~UserCode)
  BY <1>1, Parts
<1> QED
  BY <1>1, <1>2, <1>3, TrapStep

\* What a handler changes in a frame does not change where the trap came from.
SameFrames ==
  \A q \in Procs : /\ Len(frames'[q]) = Len(frames[q])
                   /\ frames'[q] = <<>> <=> frames[q] = <<>>
                   /\ \A k \in 1 .. Len(frames[q]) : frames'[q][k].mepc = frames[q][k].mepc

\* ... nor does a step that leaves the frames alone.
LEMMA FramesKept ==
  ASSUME frames' = frames
  PROVE  SameFrames
BY DEF SameFrames

\* A step of a handler on its stack, to another label of the handler.
LEMMA InsideStep ==
  ASSUME IInv, TypeOK', pc \in Inside, pc' \in Inside, pc' \in Inner(sp),
         UNCHANGED <<sp, slot, plock, schedLock, mode, mpp, disturbed>>,
         SameFrames, cur'[OS] = cur[OS],
         \A q \in Procs \ {sp} : state'[q] = state[q] /\ ctx'[q] = ctx[q],
         ctx'[sp].stk = sp,
         sp = OS => UNCHANGED cpu /\ state'[OS] \in {state[OS], "RUNNABLE"},
         ProcessOK', ExitOK'
  PROVE  IInv'
<1>1. /\ FramesOK /\ ContextsOK /\ KernelOK /\ CalmOK
      /\ sp \in Procs
      /\ \A q \in Procs : Len(frames[q]) \in Nat
  BY Parts
<1>2. /\ Alive /\ Alive' /\ pc # "mret" /\ pc' # "mret"
      /\ pc \notin KernelLabels /\ pc' \notin KernelLabels
      /\ pc \notin UserLabels /\ pc' \notin UserLabels
  BY DEF Alive, StopLabels, Inside, TrapLabels, KernelLabels, UserLabels, BootLabels, SchedLabels
<1>3. FramesOK'
  <2>1. frames[sp] # <<>>
    BY <1>1, <1>2 DEF FramesOK
  <2>2. frames'[sp] # <<>>
    BY <1>1, <2>1 DEF SameFrames
  <2>3. \A q \in Procs : \A k \in 1 .. Len(frames'[q]) :
          frames'[q][k].mepc \in IF k = 1 THEN Base(q) \cup {"mret"} ELSE Inner(q)
    <3>1. ASSUME NEW q \in Procs, NEW k \in 1 .. Len(frames'[q])
          PROVE  k \in 1 .. Len(frames[q]) /\ frames'[q][k].mepc = frames[q][k].mepc
      BY <3>1 DEF SameFrames
    <3> QED
      BY <1>1, <3>1 DEF FramesOK
  <2>4. \A q \in Procs : Len(frames'[q]) <= MaxNest
    BY <1>1 DEF SameFrames, FramesOK
  <2>5. pc' \notin Base(sp)
    BY <1>2 DEF Base
  <2> QED
    BY <1>2, <2>2, <2>3, <2>4, <2>5 DEF FramesOK, Base, Inner
<1>4. ContextsOK'
  <2>1. \A q \in Procs : Len(frames'[q]) = Len(frames[q]) /\ (frames'[q] = <<>> <=> frames[q] = <<>>)
    BY DEF SameFrames
  <2> QED
    BY <1>1, <1>2, <2>1, Processes DEF ContextsOK
<1>5. KernelOK'
  <2>1. ASSUME sp = OS, NEW m \in KernelLabels, Pending(m)'
        PROVE  KernelAt(m)
    <3>1. PICK k \in 1 .. Len(frames'[OS]) : frames'[OS][k].mepc = m
      BY <1>2, <2>1 DEF Pending
    <3>2. k \in 1 .. Len(frames[OS]) /\ frames[OS][k].mepc = m
      BY <3>1, Processes DEF SameFrames
    <3>3. Pending(m)
      BY <3>2 DEF Pending
    <3> QED
      BY <1>1, <1>2, <2>1, <3>3 DEF KernelOK
  <2>2. ASSUME sp = OS, NEW m \in KernelLabels, KernelAt(m)
        PROVE  KernelAt(m)'
    <3>1. \A q \in Users : state'[q] = state[q]
      BY <2>2, Processes
    <3>2. ASSUME NEW q \in Procs, plock[q]
          PROVE  \/ q # OS /\ state'[q] = "USED"
                 \/ q = slot /\ m \in HoldsProcLock
      <4>1. \/ q # OS /\ state[q] = "USED"
            \/ q = slot /\ m \in HoldsProcLock
        BY <2>2, <3>2 DEF KernelAt
      <4>2. q # OS => state'[q] = state[q]
        BY <2>2
      <4> QED
        BY <4>1, <4>2
    <3> QED
      BY <2>2, <3>1, <3>2 DEF KernelAt
  <2> QED
    BY <2>1, <2>2 DEF KernelOK
<1>6. CalmOK'
  <2>1. ASSUME ~disturbed
        PROVE  /\ mode \in {"S", "M"} /\ sp # OS /\ AfterTrap
               /\ frames'[OS] = <<>>
               /\ \A q \in Users : Len(frames'[q]) <= 1
    BY <1>1, <1>2, <2>1, Processes DEF CalmOK, SameFrames
  <2>2. ASSUME ~disturbed, NEW q \in Users, frames'[q] # <<>>
        PROVE  frames'[q][1].mepc \in UserLabels
    <3>1. frames[q] # <<>> /\ q \in Procs
      BY <2>2, Processes DEF SameFrames
    <3>2. frames[q][1].mepc \in UserLabels
      BY <1>1, <2>2, <3>1 DEF CalmOK
    <3>3. 1 \in 1 .. Len(frames[q])
      BY <3>1, Parts DEF Stacks
    <3> QED
      BY <3>1, <3>2, <3>3 DEF SameFrames
  <2> QED
    BY <1>2, <2>1, <2>2 DEF CalmOK, AfterTrap
<1> QED
  BY <1>3, <1>4, <1>5, <1>6 DEF IInv

\* Outside the stretch of exit() in which it has no cpu a process has the cpu on its
\* stack, and no trap is open that came in that stretch.
LEMMA NotLeaving ==
  ASSUME IInv, Alive, pc \notin Leaving \cup {"irq", "tick", "leave", "restore", "mret"}
  PROVE  /\ sp # OS => cpu = sp
         /\ \A q \in Procs : \A k \in 1 .. Len(frames[q]) : frames[q][k].mepc \notin Leaving
<1>1. ProcessOK /\ ExitOK
  BY Parts
<1>2. \A m \in Leaving : ~LeavingAt(m)
  BY DEF LeavingAt
<1>3. sp # OS => cpu = sp
  BY <1>1, <1>2 DEF ExitOK, ProcessOK
<1> QED
  BY <1>1, <1>3 DEF ExitOK

\* A step of a handler outside that stretch, with the process table as it was.
LEMMA PlainStep ==
  ASSUME IInv, TypeOK', pc \in {"tail", "syscall", "exit", "exittail"}, pc' \in {"leave", "exit"},
         pc' = "exit" => sp # OS,
         UNCHANGED <<sp, cur, slot, table, mode, mpp, disturbed>>,
         SameFrames
  PROVE  IInv'
<1>1. Alive /\ pc \in Inside /\ pc' \in Inside /\ pc' \in Inner(sp) /\ pc' \notin Leaving /\ pc' # "mret"
  BY DEF Alive, StopLabels, Inside, TrapLabels, Inner, OfProcess, Leaving
<1>2. /\ sp # OS => cpu = sp
      /\ \A q \in Procs : \A k \in 1 .. Len(frames[q]) : frames[q][k].mepc \notin Leaving
  BY <1>1, NotLeaving DEF Leaving
<1>3. ProcessOK'
  BY <1>1, Parts DEF ProcessOK, table
<1>4. ExitOK'
  <2>1. \A q \in Procs : \A k \in 1 .. Len(frames'[q]) : frames'[q][k].mepc \notin Leaving
    BY <1>2 DEF SameFrames
  <2>2. sp' # OS => cpu' # OS
    BY <1>2 DEF table
  <2> QED
    BY <1>1, <2>1, <2>2 DEF ExitOK
<1>5. UNCHANGED <<slot, plock, ctx, schedLock, state, cpu, cur>>
  BY DEF table
<1>6. ctx[sp].stk = sp
  BY <1>1, Parts DEF ContextsOK
<1> QED
  BY <1>1, <1>3, <1>4, <1>5, <1>6, InsideStep

\* trap_init() on the way out of a handler: in machine mode it goes on, and it is in
\* machine mode unless an interrupt came while the kernel ran.
LEMMA TickTailStep ==
  ASSUME IInv, TickTail
  PROVE  IInv'
<1>1. /\ FramesOK /\ CalmOK
      /\ HartType /\ PlaceType /\ LoopType /\ TableType /\ CtxType /\ disturbed \in BOOLEAN
  BY Parts
<1>2. pc = "tail" /\ UNCHANGED <<sp, frames, cur, slot, table, disturbed>>
  BY DEF TickTail, Running
<1>3. LoopType' /\ TableType' /\ CtxType' /\ disturbed' \in BOOLEAN
  BY <1>1, <1>2 DEF table, LoopType, TableType, CtxType
<1>4. CASE mode = "M"
  <2>1. pc' = "leave" /\ mie' = TRUE /\ UNCHANGED <<mode, mpie, mpp, mepc>>
    BY <1>4 DEF TickTail, TrapInit
  <2>2. HartType' /\ PlaceType'
    BY <1>1, <1>2, <2>1 DEF HartType, PlaceType, Labels, TrapLabels
  <2>3. TypeOK'
    BY <1>3, <2>2, TypesNext
  <2> QED
    BY <1>2, <2>1, <2>3, FramesKept, PlainStep
<1>5. CASE mode # "M"
  <2>1. pc' = "illegal" /\ mode' = "M" /\ mie' = FALSE /\ mpie' = mie /\ mpp' = mode /\ mepc' = pc
    BY <1>5 DEF TickTail, TrapInit
  <2>2. disturbed
    <3>1. pc \notin UserLabels \cup KernelLabels
      BY <1>2 DEF UserLabels, KernelLabels, BootLabels, SchedLabels
    <3> QED
      BY <1>1, <1>5, <3>1 DEF CalmOK, AfterTrap
  <2>3. HartType' /\ PlaceType'
    BY <1>1, <1>2, <2>1 DEF HartType, PlaceType, Labels, TrapLabels, StopLabels, Modes
  <2>4. TypeOK'
    BY <1>3, <2>3, TypesNext
  <2> QED
    BY <1>2, <2>1, <2>2, <2>4, StopStep DEF StopLabels
<1> QED
  BY <1>4, <1>5

\* A sequence that is not empty has a last element.
LEMMA LastElement ==
  ASSUME NEW S, NEW s \in Seq(S), s # <<>>
  PROVE  Len(s) \in Nat /\ Len(s) >= 1 /\ Len(s) \in 1 .. Len(s) /\ s[Len(s)] \in S
<1>1. Len(s) \in Nat /\ Len(s) # 0
  OBVIOUS
<1> QED
  BY <1>1

\* do_syscall() changes the address that trap_handler() returns, in the frame on top.
LEMMA ReturnBehindKeeps ==
  ASSUME frames \in Stacks, sp \in Procs, frames[sp] # <<>>, frames' = ReturnBehind
  PROVE  SameFrames /\ frames' \in Stacks
<1> DEFINE n == Len(frames[sp])
           F == [mepc |-> frames[sp][n].mepc, ret |-> "after"]
<1>0. frames[sp] \in Seq([mepc : Labels, ret : Labels])
  BY DEF Stacks
<1>1. n \in 1 .. Len(frames[sp]) /\ frames[sp][n] \in [mepc : Labels, ret : Labels]
  BY <1>0, LastElement
<1>2. F \in [mepc : Labels, ret : Labels] /\ F.mepc = frames[sp][n].mepc
  BY <1>1 DEF Labels, UserLabels
<1>3. frames' = [frames EXCEPT ![sp] = [frames[sp] EXCEPT ![n] = F]]
  BY DEF ReturnBehind, TopFrame
<1> DEFINE s == [frames[sp] EXCEPT ![n] = F]
<1>4. s \in Seq([mepc : Labels, ret : Labels]) /\ Len(s) = Len(frames[sp])
  BY <1>0, <1>1, <1>2
<1>5. \A k \in 1 .. Len(frames[sp]) : s[k].mepc = frames[sp][k].mepc
  BY <1>0, <1>1, <1>2
<1>6. s # <<>>
  BY <1>0, <1>1, <1>4
<1>7. /\ frames' \in Stacks /\ frames'[sp] = s
      /\ \A q \in Procs \ {sp} : frames'[q] = frames[q]
  BY <1>3, <1>4 DEF Stacks
<1> HIDE DEF s
<1> QED
  BY <1>4, <1>5, <1>6, <1>7 DEF SameFrames

\* malloc, free and unknown calls return behind the ecall.
LEMMA SyscallStep ==
  ASSUME IInv, Syscall
  PROVE  IInv'
<1>1. /\ FramesOK
      /\ HartType /\ PlaceType /\ LoopType /\ TableType /\ CtxType /\ disturbed \in BOOLEAN
      /\ sp \in Procs /\ frames \in Stacks
  BY Parts
<1>2. pc = "syscall" /\ pc' = "leave" /\ frames' = ReturnBehind
  BY DEF Syscall, Running
<1>3. frames[sp] # <<>>
  BY <1>1, <1>2 DEF FramesOK, Alive, StopLabels, Inside, TrapLabels
<1>4. SameFrames /\ frames' \in Stacks
  BY <1>1, <1>2, <1>3, ReturnBehindKeeps
<1>5. UNCHANGED <<sp, cur, slot, table, mode, mie, mpie, mepc, mpp, disturbed>>
  BY DEF Syscall, csrs
<1>6. TypeOK'
  <2>1. LoopType' /\ TableType' /\ CtxType' /\ disturbed' \in BOOLEAN
    BY <1>1, <1>5 DEF table, LoopType, TableType, CtxType
  <2>2. HartType' /\ PlaceType'
    BY <1>1, <1>2, <1>4, <1>5 DEF HartType, PlaceType, Labels, TrapLabels
  <2> QED
    BY <2>1, <2>2, TypesNext
<1> QED
  BY <1>2, <1>4, <1>5, <1>6, PlainStep

\* exit() turns interrupts on.
LEMMA ExitFirstStep ==
  ASSUME IInv, Exit
  PROVE  IInv'
<1>1. /\ FramesOK
      /\ HartType /\ PlaceType /\ LoopType /\ TableType /\ CtxType /\ disturbed \in BOOLEAN
  BY Parts
<1>2. pc = "syscall" /\ pc' = "exit" /\ mie' = TRUE
  BY DEF Exit, Running
<1>3. sp # OS
  BY <1>1, <1>2 DEF FramesOK, Alive, StopLabels, Base, Inner, OfProcess, KernelLabels, BootLabels,
                    SchedLabels
<1>4. UNCHANGED <<sp, frames, cur, slot, table, mode, mpie, mepc, mpp, disturbed>>
  BY DEF Exit
<1>5. TypeOK'
  <2>1. LoopType' /\ TableType' /\ CtxType' /\ disturbed' \in BOOLEAN
    BY <1>1, <1>4 DEF table, LoopType, TableType, CtxType
  <2>2. HartType' /\ PlaceType'
    BY <1>1, <1>2, <1>4 DEF HartType, PlaceType, Labels, TrapLabels
  <2> QED
    BY <2>1, <2>2, TypesNext
<1> QED
  BY <1>2, <1>3, <1>4, <1>5, FramesKept, PlainStep

\* A process that had exited comes back and returns behind the ecall.
LEMMA ExitTailStep ==
  ASSUME IInv, ExitTail
  PROVE  IInv'
<1>1. /\ FramesOK /\ CalmOK
      /\ HartType /\ PlaceType /\ LoopType /\ TableType /\ CtxType /\ disturbed \in BOOLEAN
      /\ sp \in Procs /\ frames \in Stacks
  BY Parts
<1>2. pc = "exittail" /\ UNCHANGED <<sp, cur, slot, table, disturbed>>
  BY DEF ExitTail, Running
<1>3. LoopType' /\ TableType' /\ CtxType' /\ disturbed' \in BOOLEAN
  BY <1>1, <1>2 DEF table, LoopType, TableType, CtxType
<1>4. CASE mode = "M"
  <2>1. pc' = "leave" /\ mie' = TRUE /\ UNCHANGED <<mode, mpie, mpp, mepc>> /\ frames' = ReturnBehind
    BY <1>4 DEF ExitTail, TrapInit
  <2>2. frames[sp] # <<>>
    BY <1>1, <1>2 DEF FramesOK, Alive, StopLabels, Inside, TrapLabels
  <2>3. SameFrames /\ frames' \in Stacks
    BY <1>1, <2>1, <2>2, ReturnBehindKeeps
  <2>4. HartType' /\ PlaceType'
    BY <1>1, <1>2, <2>1, <2>3 DEF HartType, PlaceType, Labels, TrapLabels
  <2>5. TypeOK'
    BY <1>3, <2>4, TypesNext
  <2> QED
    BY <1>2, <2>1, <2>3, <2>5, PlainStep
<1>5. CASE mode # "M"
  <2>1. /\ pc' = "illegal" /\ mode' = "M" /\ mie' = FALSE /\ mpie' = mie /\ mpp' = mode /\ mepc' = pc
        /\ frames' = frames
    BY <1>5 DEF ExitTail, TrapInit
  <2>2. disturbed
    <3>1. pc \notin UserLabels \cup KernelLabels
      BY <1>2 DEF UserLabels, KernelLabels, BootLabels, SchedLabels
    <3> QED
      BY <1>1, <1>5, <3>1 DEF CalmOK, AfterTrap
  <2>3. HartType' /\ PlaceType'
    BY <1>1, <1>2, <2>1 DEF HartType, PlaceType, Labels, TrapLabels, StopLabels, Modes
  <2>4. TypeOK'
    BY <1>3, <2>3, TypesNext
  <2> QED
    BY <1>2, <2>1, <2>2, <2>4, StopStep DEF StopLabels
<1> QED
  BY <1>4, <1>5

\* The device has been served, or mepc set: the handler goes on with interrupts as
\* they were.
LEMMA WayOutStep ==
  ASSUME IInv, Irq \/ Leave
  PROVE  IInv'
<1>1. /\ FramesOK /\ ExitOK /\ ProcessOK
      /\ HartType /\ PlaceType /\ LoopType /\ TableType /\ CtxType /\ disturbed \in BOOLEAN
      /\ sp \in Procs /\ frames \in Stacks
  BY Parts
<1>2. /\ pc \in {"irq", "leave"} /\ pc' \in {"leave", "restore"}
      /\ UNCHANGED <<mode, mie, mpie, mpp, sp, frames, cur, slot, table, disturbed>>
  BY DEF Irq, Leave, Running, csrs
<1>3. UNCHANGED <<state, plock, ctx, schedLock, cpu>>
  BY <1>2 DEF table
<1>4. Alive /\ pc \in Inside /\ pc' \in Inside /\ pc' \in Inner(sp) /\ pc' \notin Leaving /\ pc' # "mret"
  BY <1>2 DEF Alive, StopLabels, Inside, TrapLabels, Inner, OfProcess, Leaving
<1>5. mepc' \in Labels
  <2>1. CASE Irq
    BY <1>1, <2>1 DEF Irq, csrs, HartType
  <2>2. CASE Leave
    <3>1. frames[sp] \in Seq([mepc : Labels, ret : Labels]) /\ frames[sp] # <<>>
      BY <1>1, <1>4 DEF Stacks, FramesOK
    <3>2. TopFrame \in [mepc : Labels, ret : Labels]
      BY <3>1, LastElement DEF TopFrame
    <3> QED
      BY <2>2, <3>2 DEF Leave
  <2> QED
    BY <2>1, <2>2
<1>6. TypeOK'
  <2>1. LoopType' /\ TableType' /\ CtxType' /\ disturbed' \in BOOLEAN
    BY <1>1, <1>2, <1>3 DEF LoopType, TableType, CtxType
  <2>2. HartType' /\ PlaceType'
    BY <1>1, <1>2, <1>5 DEF HartType, PlaceType, Labels, TrapLabels
  <2> QED
    BY <2>1, <2>2, TypesNext
<1>7. ProcessOK'
  BY <1>1, <1>2, <1>3, <1>4 DEF ProcessOK
<1>8. ExitOK'
  <2>1. ASSUME NEW m \in Leaving, LeavingAt(m)
        PROVE  LeavingAt(m)'
    <3>1. pc # m
      BY <1>2 DEF Leaving
    <3>2. pc \in {"irq", "leave"} /\ mode = "M" /\ ~mie /\ TopMepc = m
      BY <1>2, <2>1, <3>1 DEF LeavingAt
    <3>3. TopMepc' = TopMepc
      BY <1>2 DEF TopMepc
    <3> QED
      BY <1>2, <1>3, <2>1, <3>2, <3>3 DEF LeavingAt
  <2>2. sp' # OS /\ cpu' = OS => \E m \in Leaving : LeavingAt(m)'
    BY <1>1, <1>2, <1>3, <1>4, <2>1 DEF ExitOK
  <2>3. \A q \in Procs : \A k \in 1 .. Len(frames[q]) :
          frames[q][k].mepc \in Leaving => q = sp /\ q # OS /\ cpu = OS /\ k = Len(frames[q])
    BY <1>1, <1>4 DEF ExitOK
  <2> QED
    BY <1>2, <1>3, <1>4, <2>2, <2>3 DEF ExitOK
<1>9. SameFrames
  BY <1>2, FramesKept
<1>10. ctx[sp].stk = sp
  BY <1>1, <1>4, Parts DEF ContextsOK
<1> QED
  BY <1>2, <1>3, <1>4, <1>6, <1>7, <1>8, <1>9, <1>10, InsideStep

\* A sequence without its last element.
LEMMA CutLast ==
  ASSUME NEW S, NEW s \in Seq(S), s # <<>>
  PROVE  /\ SubSeq(s, 1, Len(s) - 1) \in Seq(S)
         /\ Len(SubSeq(s, 1, Len(s) - 1)) = Len(s) - 1
         /\ \A k \in 1 .. Len(s) - 1 : SubSeq(s, 1, Len(s) - 1)[k] = s[k]
         /\ SubSeq(s, 1, Len(s) - 1) = <<>> <=> Len(s) = 1
<1>1. Len(s) \in Nat /\ Len(s) >= 1
  BY LastElement
<1>2. PICK n \in Nat : n = Len(s) - 1
  BY <1>1
<1>3. \A i \in 1 .. n : s[i] \in S
  BY <1>1, <1>2
<1>4. /\ SubSeq(s, 1, n) \in Seq(S)
      /\ Len(SubSeq(s, 1, n)) = IF 1 <= n THEN n - 1 + 1 ELSE 0
      /\ \A i \in 1 .. n - 1 + 1 : SubSeq(s, 1, n)[i] = s[1 + i - 1]
  BY <1>3, SubSeqProperties
<1>5. Len(SubSeq(s, 1, n)) = n
  BY <1>4
<1>6. ASSUME NEW i \in 1 .. n
      PROVE  SubSeq(s, 1, n)[i] = s[i]
  <2>1. i \in 1 .. n - 1 + 1 /\ 1 + i - 1 = i
    OBVIOUS
  <2> QED
    BY <1>4, <2>1
<1>7. SubSeq(s, 1, n) = <<>> <=> n = 0
  BY <1>4, <1>5
<1>8. n = 0 <=> Len(s) = 1
  BY <1>1, <1>2
<1> QED
  BY <1>2, <1>4, <1>5, <1>6, <1>7, <1>8

\* The frame on top is taken away.
LEMMA PopFrame ==
  ASSUME frames \in Stacks, sp \in Procs, frames[sp] # <<>>,
         frames' = [frames EXCEPT ![sp] = SubSeq(@, 1, Len(@) - 1)]
  PROVE  /\ frames' \in Stacks
         /\ \A q \in Procs \ {sp} : frames'[q] = frames[q]
         /\ Len(frames'[sp]) = Len(frames[sp]) - 1
         /\ \A k \in 1 .. Len(frames[sp]) - 1 : frames'[sp][k] = frames[sp][k]
         /\ frames'[sp] = <<>> <=> Len(frames[sp]) = 1
<1>1. frames[sp] \in Seq([mepc : Labels, ret : Labels])
  BY DEF Stacks
<1> DEFINE s == SubSeq(frames[sp], 1, Len(frames[sp]) - 1)
<1>2. /\ s \in Seq([mepc : Labels, ret : Labels])
      /\ Len(s) = Len(frames[sp]) - 1
      /\ \A k \in 1 .. Len(frames[sp]) - 1 : s[k] = frames[sp][k]
      /\ s = <<>> <=> Len(frames[sp]) = 1
  BY <1>1, CutLast
<1>3. /\ frames' \in Stacks /\ frames'[sp] = s
      /\ \A q \in Procs \ {sp} : frames'[q] = frames[q]
  BY <1>2 DEF Stacks
<1> HIDE DEF s
<1> QED
  BY <1>2, <1>3

\* reg_load takes the frame on top away and goes on with the mepc in it.
LEMMA RestoreStep ==
  ASSUME IInv, Restore
  PROVE  IInv'
<1>1. /\ FramesOK /\ ContextsOK /\ KernelOK /\ ProcessOK /\ ExitOK /\ CalmOK
      /\ HartType /\ PlaceType /\ LoopType /\ TableType /\ CtxType /\ disturbed \in BOOLEAN
      /\ sp \in Procs /\ frames \in Stacks
      /\ \A q \in Procs : Len(frames[q]) \in Nat
  BY Parts
<1>2. /\ pc = "restore" /\ pc' = "mret"
      /\ UNCHANGED <<mode, mie, mpie, mpp, sp, cur, slot, state, plock, ctx, schedLock, cpu, disturbed>>
      /\ mepc' = TopMepc
      /\ frames' = [frames EXCEPT ![sp] = SubSeq(@, 1, Len(@) - 1)]
  BY DEF Restore, Running, table, TopFrame, TopMepc
<1>3. /\ Alive /\ pc \in Inside /\ Alive' /\ pc' \notin Inside /\ pc' \notin Leaving /\ pc' \in Labels
      /\ pc' \notin KernelLabels /\ pc' \notin UserLabels /\ pc' \in Inner(sp)
      /\ pc \notin KernelLabels /\ pc \notin UserLabels
  BY <1>2 DEF Alive, StopLabels, Inside, TrapLabels, Leaving, Labels, KernelLabels, UserLabels,
              BootLabels, SchedLabels, Inner, OfProcess
<1>4. frames[sp] # <<>>
  BY <1>1, <1>3 DEF FramesOK
<1>5. /\ frames' \in Stacks
      /\ \A q \in Procs \ {sp} : frames'[q] = frames[q]
      /\ Len(frames'[sp]) = Len(frames[sp]) - 1
      /\ \A k \in 1 .. Len(frames[sp]) - 1 : frames'[sp][k] = frames[sp][k]
      /\ frames'[sp] = <<>> <=> Len(frames[sp]) = 1
  BY <1>1, <1>2, <1>4, PopFrame
<1> DEFINE n == Len(frames[sp])
<1>6. n \in Nat /\ n >= 1 /\ n \in 1 .. n /\ frames[sp][n] \in [mepc : Labels, ret : Labels] /\ TopMepc = frames[sp][n].mepc
  <2>1. frames[sp] \in Seq([mepc : Labels, ret : Labels])
    BY <1>1 DEF Stacks
  <2> QED
    BY <1>4, <2>1, LastElement DEF TopMepc
<1>7. TypeOK'
  <2>1. LoopType' /\ TableType' /\ CtxType' /\ disturbed' \in BOOLEAN
    BY <1>1, <1>2 DEF LoopType, TableType, CtxType
  <2>2. HartType' /\ PlaceType'
    BY <1>1, <1>2, <1>3, <1>5, <1>6 DEF HartType, PlaceType
  <2> QED
    BY <2>1, <2>2, TypesNext
\* Every frame that is left was there, and not on top of the stack in use.
<1>8. ASSUME NEW q \in Procs, NEW k \in 1 .. Len(frames'[q])
      PROVE  /\ k \in 1 .. Len(frames[q]) /\ frames'[q][k] = frames[q][k]
             /\ q = sp => k # n
  BY <1>1, <1>5, <1>8
<1>9. FramesOK'
  <2>1. \A q \in Procs : \A k \in 1 .. Len(frames'[q]) :
          frames'[q][k].mepc \in IF k = 1 THEN Base(q) \cup {"mret"} ELSE Inner(q)
    BY <1>1, <1>8 DEF FramesOK
  <2>2. \A q \in Procs : Len(frames'[q]) <= MaxNest
    BY <1>1, <1>5, MaxNestAssumption DEF FramesOK
  <2>3. mepc' \in IF frames'[sp] = <<>> THEN Base(sp) \cup {"mret"} ELSE Inner(sp)
    <3>1. TopMepc \in IF n = 1 THEN Base(sp) \cup {"mret"} ELSE Inner(sp)
      BY <1>1, <1>6 DEF FramesOK
    <3> QED
      BY <1>2, <1>5, <3>1
  <2>4. pc' \notin Base(sp)
    BY <1>3 DEF Base
  <2> QED
    BY <1>2, <1>3, <2>1, <2>2, <2>3, <2>4 DEF FramesOK, Base, Inner
<1>10. ContextsOK'
  BY <1>1, <1>2, <1>3, <1>5, Processes DEF ContextsOK
<1>11. KernelOK'
  <2>1. ASSUME sp = OS, NEW m \in KernelLabels, Pending(m)'
        PROVE  KernelAt(m)
    <3>1. CASE mepc' = m
      <4>1. frames[OS][n].mepc = m /\ n \in 1 .. Len(frames[OS])
        BY <1>2, <1>6, <2>1, <3>1
      <4>2. Pending(m)
        BY <4>1 DEF Pending
      <4> QED
        BY <1>1, <1>3, <2>1, <4>2 DEF KernelOK
    <3>2. CASE mepc' # m
      <4>1. PICK k \in 1 .. Len(frames'[OS]) : frames'[OS][k].mepc = m
        BY <1>3, <2>1, <3>2 DEF Pending
      <4>2. k \in 1 .. Len(frames[OS]) /\ frames[OS][k].mepc = m
        BY <1>8, <4>1, Processes
      <4>3. Pending(m)
        BY <4>2 DEF Pending
      <4> QED
        BY <1>1, <1>3, <2>1, <4>3 DEF KernelOK
    <3> QED
      BY <3>1, <3>2
  <2>2. ASSUME NEW m \in KernelLabels, KernelAt(m)
        PROVE  KernelAt(m)'
    BY <1>2, <2>2 DEF KernelAt
  <2> QED
    BY <1>2, <2>1, <2>2 DEF KernelOK
<1>12. ProcessOK'
  BY <1>1, <1>2, <1>3 DEF ProcessOK
<1>13. ExitOK'
  <2>1. ASSUME NEW m \in Leaving, LeavingAt(m)
        PROVE  LeavingAt(m)'
    <3>1. mode = "M" /\ ~mie /\ TopMepc = m
      BY <1>2, <2>1 DEF LeavingAt, Leaving
    <3> QED
      BY <1>2, <2>1, <3>1 DEF LeavingAt
  <2>2. sp' # OS /\ cpu' = OS => \E m \in Leaving : LeavingAt(m)'
    BY <1>1, <1>2, <1>3, <2>1 DEF ExitOK
  <2>3. cpu = sp => mepc' \notin Leaving
    BY <1>1, <1>2, <1>3, <1>6 DEF ExitOK
  <2>4. \A q \in Procs : \A k \in 1 .. Len(frames'[q]) : frames'[q][k].mepc \notin Leaving
    BY <1>1, <1>3, <1>8 DEF ExitOK
  <2> QED
    BY <1>2, <1>3, <2>2, <2>3, <2>4 DEF ExitOK
<1>14. CalmOK'
  <2>1. ASSUME ~disturbed
        PROVE  /\ mode \in {"S", "M"} /\ sp # OS /\ AfterTrap /\ frames[OS] = <<>>
               /\ \A q \in Users : Len(frames[q]) <= 1
               /\ \A q \in Users : frames[q] # <<>> => frames[q][1].mepc \in UserLabels
    BY <1>1, <1>3, <2>1 DEF CalmOK
  <2>2. ASSUME ~disturbed
        PROVE  n = 1 /\ frames'[sp] = <<>> /\ mepc' \in UserLabels
    <3>1. sp \in Users
      BY <1>1, <2>1, <2>2, Processes
    <3>2. n = 1
      <4>1. n <= 1
        BY <2>1, <2>2, <3>1
      <4>2. PICK i \in Nat : i = n
        BY <1>6
      <4>3. i >= 1
        BY <1>6, <4>2
      <4>4. i <= 1
        BY <4>1, <4>2
      <4>5. i = 1
        BY <4>3, <4>4
      <4> QED
        BY <4>2, <4>5
    <3> QED
      BY <1>2, <1>4, <1>5, <1>6, <2>1, <2>2, <3>1, <3>2
  <2>3. ASSUME ~disturbed, NEW q \in Users
        PROVE  frames'[q] = <<>> \/ frames'[q] = frames[q]
    BY <1>5, <2>2, <2>3, Processes
  <2>4. ASSUME ~disturbed
        PROVE  /\ frames'[OS] = <<>>
               /\ \A q \in Users : Len(frames'[q]) <= 1
               /\ \A q \in Users : frames'[q] # <<>> => frames'[q][1].mepc \in UserLabels
    <3>1. frames'[OS] = <<>>
      BY <1>5, <2>1, <2>4, Processes
    <3>2. ASSUME NEW q \in Users
          PROVE  Len(frames'[q]) <= 1 /\ (frames'[q] # <<>> => frames'[q][1].mepc \in UserLabels)
      BY <2>1, <2>3, <2>4
    <3> QED
      BY <3>1, <3>2
  <2> QED
    BY <1>2, <1>3, <2>1, <2>2, <2>4 DEF CalmOK, AfterTrap
<1> QED
  BY <1>7, <1>9, <1>10, <1>11, <1>12, <1>13, <1>14 DEF IInv

\* The mret goes on where mepc says, in the mode the trap came from.
LEMMA MretStep ==
  ASSUME IInv, Mret
  PROVE  IInv'
<1>1. /\ FramesOK /\ ContextsOK /\ KernelOK /\ ProcessOK /\ ExitOK /\ CalmOK
      /\ HartType /\ PlaceType /\ LoopType /\ TableType /\ CtxType /\ disturbed \in BOOLEAN
      /\ sp \in Procs
  BY Parts
<1>2. /\ pc = "mret" /\ pc' = mepc /\ mode' = mpp /\ mpp' = "U" /\ mie' = mpie /\ mpie' = TRUE
      /\ UNCHANGED <<mepc, sp, frames, cur, slot, state, plock, ctx, schedLock, cpu, disturbed>>
  BY DEF Mret, Running, table
<1>3. Alive /\ pc \notin KernelLabels /\ pc \notin UserLabels
  BY <1>2 DEF Alive, StopLabels, KernelLabels, UserLabels, BootLabels, SchedLabels
<1>4. mepc \in IF frames[sp] = <<>> THEN Base(sp) \cup {"mret"} ELSE Inner(sp)
  BY <1>1, <1>2, <1>3 DEF FramesOK
<1>5. Alive'
  BY <1>2, <1>4, LabelGroups DEF Alive, Base, Inner
<1>6. TypeOK'
  <2>1. LoopType' /\ TableType' /\ CtxType' /\ disturbed' \in BOOLEAN
    BY <1>1, <1>2 DEF LoopType, TableType, CtxType
  <2>2. HartType' /\ PlaceType'
    BY <1>1, <1>2 DEF HartType, PlaceType, Modes
  <2> QED
    BY <2>1, <2>2, TypesNext
<1>7. FramesOK'
  <2>1. \A q \in Procs : \A k \in 1 .. Len(frames[q]) :
          frames[q][k].mepc \in IF k = 1 THEN Base(q) \cup {"mret"} ELSE Inner(q)
    BY <1>1 DEF FramesOK
  <2>2. \A q \in Procs : Len(frames[q]) <= MaxNest
    BY <1>1 DEF FramesOK
  <2>3. CASE frames[sp] = <<>>
    <3>1. mepc \in Base(sp) \cup {"mret"} /\ "mret" \in Inner(sp) /\ mepc \notin Inside
      BY <1>4, <2>3, LabelGroups DEF Base, Inner, OfProcess, TrapLabels, Inside
    <3> QED
      BY <1>2, <2>1, <2>2, <2>3, <3>1 DEF FramesOK, Base, Inner
  <2>4. CASE frames[sp] # <<>>
    <3>1. mepc \in Inner(sp) /\ mepc \notin Base(sp)
      BY <1>4, <2>4, LabelGroups DEF Base, Inner
    <3> QED
      BY <1>2, <2>1, <2>2, <2>4, <3>1 DEF FramesOK, Base, Inner
  <2> QED
    BY <2>3, <2>4
<1>8. ContextsOK'
  BY <1>1, <1>2, <1>3 DEF ContextsOK
<1>9. KernelOK'
  <2>1. ASSUME NEW m \in KernelLabels, Pending(m)'
        PROVE  Pending(m)
    BY <1>2, <2>1 DEF Pending
  <2>2. ASSUME NEW m \in KernelLabels, KernelAt(m)
        PROVE  KernelAt(m)'
    BY <1>2, <2>2 DEF KernelAt
  <2> QED
    BY <1>1, <1>2, <1>3, <2>1, <2>2 DEF KernelOK
<1>10. ProcessOK'
  BY <1>1, <1>2, <1>3 DEF ProcessOK
<1>11. \A q \in Procs : \A k \in 1 .. Len(frames[q]) : frames[q][k].mepc \notin Leaving
  BY <1>1, <1>2, <1>3 DEF ExitOK
<1>12. ExitOK'
  <2>1. ASSUME NEW m \in Leaving, LeavingAt(m)
        PROVE  LeavingAt(m)'
    <3>1. mepc = m
      BY <1>2, <2>1 DEF LeavingAt, Leaving
    <3> QED
      BY <1>2, <2>1, <3>1 DEF LeavingAt
  <2>2. sp' # OS /\ cpu' = OS => \E m \in Leaving : LeavingAt(m)'
    BY <1>1, <1>2, <1>3, <2>1 DEF ExitOK
  <2>3. cpu = sp => mepc \notin Leaving
    BY <1>1, <1>2, <1>3 DEF ExitOK
  <2> QED
    BY <1>2, <1>11, <2>2, <2>3 DEF ExitOK
<1>13. CalmOK'
  <2>1. ASSUME ~disturbed
        PROVE  /\ sp # OS /\ AfterTrap /\ frames[OS] = <<>> /\ mepc \in UserLabels
               /\ \A q \in Users : Len(frames[q]) <= 1
               /\ \A q \in Users : frames[q] # <<>> => frames[q][1].mepc \in UserLabels
    BY <1>1, <1>2, <1>3, <2>1 DEF CalmOK
  <2>2. ASSUME ~disturbed
        PROVE  mode' \in {"S", "M"} /\ pc' \in UserLabels /\ pc' # "mret"
    BY <1>1, <1>2, <2>1, <2>2, LabelGroups DEF HartType, Modes, AfterTrap
  <2> QED
    BY <1>2, <1>5, <2>1, <2>2 DEF CalmOK
<1> QED
  BY <1>6, <1>7, <1>8, <1>9, <1>10, <1>12, <1>13 DEF IInv

-----------------------------------------------------------------------------
\* A process gives the hart back.

\* exit() leaves the cpu to the system process before it switches to it ...
LEMMA ExitSetCpuStep ==
  ASSUME IInv, ExitSetCpu
  PROVE  IInv'
<1>1. /\ FramesOK /\ ContextsOK /\ ProcessOK
      /\ HartType /\ PlaceType /\ LoopType /\ TableType /\ CtxType /\ disturbed \in BOOLEAN
      /\ sp \in Procs
  BY Parts
<1>2. /\ pc = "exit" /\ pc' = "exitstate" /\ cpu' = OS /\ cur' = [cur EXCEPT ![sp] = cpu]
      /\ UNCHANGED <<mode, mie, mpie, mpp, mepc, sp, frames, slot, state, plock, ctx, schedLock, disturbed>>
  BY DEF ExitSetCpu, Running, csrs
<1>3. Alive /\ pc \in Inside /\ pc' \in Inside /\ pc' \in Leaving /\ pc' \in Labels
  BY <1>2 DEF Alive, StopLabels, Inside, TrapLabels, Leaving, Labels
<1>4. sp # OS /\ pc' \in Inner(sp)
  BY <1>1, <1>2, <1>3 DEF FramesOK, Base, Inner, OfProcess, TrapLabels, KernelLabels, BootLabels,
                          SchedLabels
<1>5. /\ cpu = sp
      /\ \A q \in Procs : \A k \in 1 .. Len(frames[q]) : frames[q][k].mepc \notin Leaving
  BY <1>2, <1>3, <1>4, NotLeaving DEF Leaving
<1>6. cur' \in [Procs -> Procs] /\ cur'[sp] = sp /\ cur'[OS] = cur[OS]
  BY <1>1, <1>2, <1>4, <1>5, Processes DEF LoopType
<1>7. TypeOK'
  <2>1. HartType' /\ CtxType' /\ disturbed' \in BOOLEAN
    BY <1>1, <1>2 DEF HartType, CtxType
  <2>2. PlaceType' /\ LoopType' /\ TableType'
    BY <1>1, <1>2, <1>3, <1>6, Processes DEF PlaceType, LoopType, TableType
  <2> QED
    BY <2>1, <2>2, TypesNext
<1>8. ProcessOK'
  BY <1>1, <1>2, <1>3, <1>4 DEF ProcessOK
<1>9. ExitOK'
  <2>1. LeavingAt("exitstate")'
    BY <1>2, <1>6 DEF LeavingAt, Leaving
  <2>2. \E m \in Leaving : LeavingAt(m)'
    BY <2>1 DEF Leaving
  <2>3. cpu' # sp'
    BY <1>2, <1>4
  <2> QED
    BY <1>2, <1>5, <2>2, <2>3 DEF ExitOK
<1>10. ctx[sp].stk = sp
  BY <1>1, <1>3 DEF ContextsOK
<1>11. SameFrames
  BY <1>2, FramesKept
<1>12. UNCHANGED <<sp, slot, plock, schedLock, mode, mpp, disturbed, ctx, state>>
  BY <1>2
<1> QED
  BY <1>3, <1>4, <1>6, <1>7, <1>8, <1>9, <1>10, <1>11, <1>12, InsideStep

\* ... then marks itself as runnable, ...
LEMMA ExitStateStep ==
  ASSUME IInv, ExitState
  PROVE  IInv'
<1>1. /\ FramesOK /\ ContextsOK /\ ProcessOK /\ ExitOK
      /\ HartType /\ PlaceType /\ LoopType /\ TableType /\ CtxType /\ disturbed \in BOOLEAN
      /\ sp \in Procs
  BY Parts
<1>2. /\ pc = "exitstate" /\ pc' = "exitswitch" /\ state' = [state EXCEPT ![cur[sp]] = "RUNNABLE"]
      /\ UNCHANGED <<mode, mie, mpie, mpp, mepc, sp, frames, cur, slot, plock, ctx, schedLock, cpu, disturbed>>
  BY DEF ExitState, Running, csrs
<1>3. /\ Alive /\ pc \in Inside /\ pc \in Leaving
      /\ pc' \in Inside /\ pc' \in Leaving /\ pc' \in Labels
  BY <1>2 DEF Alive, StopLabels, Inside, TrapLabels, Leaving, Labels
<1>4. sp # OS /\ pc' \in Inner(sp)
  BY <1>1, <1>2, <1>3 DEF FramesOK, Base, Inner, OfProcess, TrapLabels, KernelLabels, BootLabels,
                          SchedLabels
<1>5. cpu = OS
  BY <1>1, <1>3, <1>4 DEF ExitOK, ProcessOK
<1>6. cur[sp] = sp
  BY <1>1, <1>3, <1>4, <1>5 DEF ExitOK, LeavingAt
<1>7. /\ state' \in [Procs -> States]
      /\ state'[sp] = "RUNNABLE"
      /\ \A q \in Procs \ {sp} : state'[q] = state[q]
  BY <1>1, <1>2, <1>6 DEF TableType, States
<1>8. TypeOK'
  <2>1. HartType' /\ CtxType' /\ disturbed' \in BOOLEAN
    BY <1>1, <1>2 DEF HartType, CtxType
  <2>2. PlaceType' /\ LoopType' /\ TableType'
    BY <1>1, <1>2, <1>3, <1>7 DEF PlaceType, LoopType, TableType
  <2> QED
    BY <2>1, <2>2, TypesNext
<1>9. ProcessOK'
  <2>1. /\ schedLock /\ plock[sp] /\ slot = sp
        /\ \A q \in Procs : plock[q] => q # OS /\ (q = sp \/ state[q] = "USED")
        /\ \A q \in Users : state[q] # "UNUSED"
        /\ \A q \in Procs : state[q] = "RUNNING" => q = sp
    BY <1>1, <1>3, <1>4 DEF ProcessOK
  <2> QED
    BY <1>2, <1>4, <1>5, <1>7, <2>1, Processes DEF ProcessOK
<1>10. ExitOK'
  <2>1. LeavingAt("exitswitch")'
    BY <1>2, <1>6, <1>7 DEF LeavingAt, Leaving
  <2>2. \E m \in Leaving : LeavingAt(m)'
    BY <2>1 DEF Leaving
  <2>3. cpu' # sp'
    BY <1>2, <1>4, <1>5
  <2>4. \A q \in Procs : \A k \in 1 .. Len(frames[q]) : frames[q][k].mepc \notin Leaving
    BY <1>1, <1>2, <1>3 DEF ExitOK
  <2> QED
    BY <1>2, <2>2, <2>3, <2>4 DEF ExitOK
<1>11. ctx[sp].stk = sp
  BY <1>1, <1>3 DEF ContextsOK
<1>12. SameFrames
  BY <1>2, FramesKept
<1>13. UNCHANGED <<sp, slot, plock, schedLock, mode, mpp, disturbed, ctx, cur>>
  BY <1>2
<1> QED
  BY <1>3, <1>4, <1>7, <1>8, <1>9, <1>10, <1>11, <1>12, <1>13, InsideStep

\* ... and as every process that gives the hart back it comes to the system process
\* where that waits in its switch, with the locks the scheduler took.
LEMMA BackToKernel ==
  ASSUME IInv, TypeOK', Alive, sp # OS, pc \in Inside,
         NEW l \in {"tail", "exittail"},
         SysSwitch(sp, OS, l),
         cpu' = OS, state'[sp] = "RUNNABLE",
         \A q \in Procs \ {sp} : state'[q] = state[q],
         \A q \in Procs : \A k \in 1 .. Len(frames[q]) : frames[q][k].mepc \notin Leaving,
         UNCHANGED <<cur, slot, plock, schedLock, mode, mpp, disturbed>>
  PROVE  IInv'
<1>1. /\ TypeOK /\ FramesOK /\ ContextsOK /\ ProcessOK /\ CalmOK
      /\ PlaceType /\ sp \in Procs /\ frames \in Stacks
      /\ \A q \in Procs : Len(frames[q]) \in Nat
  BY Parts
<1>2. /\ ctx[OS].stk = OS /\ ctx[OS].depth = Len(frames[OS])
      /\ ctx[OS].pc = "trapinit" /\ frames[OS] = <<>>
      /\ cur[OS] = OS
      /\ \A q \in Procs : ctx[q].stk = q
  BY <1>1, Processes DEF ContextsOK
<1>3. /\ frames[sp] # <<>>
      /\ \A q \in Procs : Len(frames[q]) <= MaxNest
  BY <1>1 DEF FramesOK
<1>4. /\ sp' = OS /\ frames' = frames /\ pc' = "trapinit"
      /\ \A q \in Procs \ {sp} : ctx'[q] = ctx[q]
      /\ ctx'[sp] = Context(sp, Len(frames[sp]), l)
  <2>1. l \in Labels \ StopLabels
    BY DEF Labels, TrapLabels, StopLabels
  <2> QED
    BY <1>1, <1>2, <1>3, <2>1, Processes, SwitchStack
<1>5. /\ Alive' /\ pc' # "mret" /\ pc' \in KernelLabels /\ pc' \notin Inside /\ pc' \notin Leaving
  BY <1>4 DEF Alive, StopLabels, KernelLabels, SchedLabels, Inside, TrapLabels, Leaving
<1>6. FramesOK'
  <2>1. pc' \in Base(OS)
    BY <1>5 DEF Base
  <2> QED
    BY <1>1, <1>2, <1>4, <1>5, <2>1 DEF FramesOK, Base, Inner
<1>7. ContextsOK'
  <2>1. /\ ctx'[sp].stk = sp /\ ctx'[sp].depth = Len(frames[sp]) /\ ctx'[sp].pc = l
    BY <1>4 DEF Context
  <2>2. \A q \in Procs : ctx'[q].stk = q
    BY <1>2, <1>4, <2>1
  <2>3. \A q \in Procs \ {OS} : ctx'[q].depth = Len(frames[q])
    BY <1>1, <1>4, <2>1 DEF ContextsOK
  <2>4. \A q \in Users : \/ ctx'[q].pc \in {"user", "wild"} /\ frames[q] = <<>>
                         \/ ctx'[q].pc \in {"tail", "exittail"} /\ frames[q] # <<>>
    BY <1>1, <1>3, <1>4, <2>1, Processes DEF ContextsOK
  <2>5. \A q \in Users : state'[q] \in {"RUNNABLE", "RUNNING"} <=> ctx'[q].pc # "wild"
    BY <1>1, <1>4, <2>1, Processes DEF ContextsOK
  <2> QED
    BY <1>2, <1>4, <2>2, <2>3, <2>4, <2>5 DEF ContextsOK
<1>8. KernelOK'
  <2>1. /\ schedLock /\ plock[sp] /\ slot = sp
        /\ \A q \in Procs : plock[q] => q # OS /\ (q = sp \/ state[q] = "USED")
        /\ \A q \in Users : state[q] # "UNUSED"
        /\ \A q \in Procs : state[q] = "RUNNING" => q = sp
    BY <1>1 DEF ProcessOK
  <2>2. \A q \in Users : state'[q] # "UNUSED" /\ state'[q] # "RUNNING"
    BY <2>1, Processes
  <2>3. \A q \in Procs : plock'[q] => \/ q # OS /\ state'[q] = "USED"
                                      \/ q = slot /\ "trapinit" \in HoldsProcLock
    BY <2>1 DEF HoldsProcLock
  <2>4. KernelAt("trapinit")'
    BY <2>1, <2>2, <2>3 DEF KernelAt, BootLabels, SchedLabels, HoldsProcLock
  <2>5. ASSUME NEW m \in KernelLabels, Pending(m)'
        PROVE  m = "trapinit"
    BY <1>2, <1>4, <2>5 DEF Pending
  <2> QED
    BY <2>4, <2>5 DEF KernelOK
<1>9. ProcessOK'
  BY <1>4 DEF ProcessOK
<1>10. ExitOK'
  BY <1>4, <1>5 DEF ExitOK
<1>11. CalmOK'
  <2>1. ASSUME ~disturbed
        PROVE  AfterTrap
    <3>1. pc \notin UserLabels
      BY LabelGroups
    <3> QED
      BY <1>1, <2>1, <3>1 DEF CalmOK
  <2> QED
    BY <1>1, <1>4, <1>5, <2>1 DEF CalmOK, AfterTrap
<1> QED
  BY <1>6, <1>7, <1>8, <1>9, <1>10, <1>11 DEF IInv

\* exit() gives the hart back with the process runnable.
LEMMA ExitSwitchStep ==
  ASSUME IInv, ExitSwitch
  PROVE  IInv'
<1>1. /\ TypeOK /\ FramesOK /\ ContextsOK /\ ProcessOK /\ ExitOK
      /\ HartType /\ PlaceType /\ LoopType /\ TableType /\ CtxType /\ disturbed \in BOOLEAN
      /\ sp \in Procs
  BY Parts
<1>2. /\ pc = "exitswitch" /\ SysSwitch(cur[sp], OS, "exittail")
      /\ UNCHANGED <<mode, mie, mpie, mpp, mepc, cur, slot, state, plock, schedLock, cpu, disturbed>>
  BY DEF ExitSwitch, Running, csrs
<1>3. Alive /\ pc \in Inside /\ pc \in Leaving
  BY <1>2 DEF Alive, StopLabels, Inside, TrapLabels, Leaving
<1>4. sp # OS
  BY <1>1, <1>2, <1>3 DEF FramesOK, Base, Inner, OfProcess, KernelLabels, BootLabels, SchedLabels
<1>5. cpu = OS
  BY <1>1, <1>3, <1>4 DEF ExitOK, ProcessOK
<1>6. cur[sp] = sp /\ state[sp] = "RUNNABLE"
  <2>1. PICK m \in Leaving : LeavingAt(m)
    BY <1>1, <1>3, <1>4, <1>5 DEF ExitOK
  <2>2. m = "exitswitch"
    BY <1>2, <2>1 DEF LeavingAt
  <2> QED
    BY <2>1, <2>2 DEF LeavingAt
<1>7. \A q \in Procs : \A k \in 1 .. Len(frames[q]) : frames[q][k].mepc \notin Leaving
  BY <1>1, <1>2, <1>3 DEF ExitOK
<1>8. TypeOK'
  <2>1. /\ ctx[OS].stk = OS /\ ctx[OS].depth = Len(frames[OS]) /\ ctx[OS].pc = "trapinit"
        /\ Len(frames[sp]) <= MaxNest
    BY <1>1, <1>3, <1>4, Processes DEF ContextsOK, FramesOK
  <2>2. "exittail" \in Labels \ StopLabels
    BY DEF Labels, TrapLabels, StopLabels
  <2>3. sp' = OS /\ frames' = frames /\ pc' = "trapinit" /\ ctx' \in [Procs -> Contexts]
    BY <1>1, <1>2, <1>4, <1>6, <2>1, <2>2, Processes, SwitchStack
  <2>4. HartType' /\ CtxType' /\ disturbed' \in BOOLEAN
    BY <1>1, <1>2, <2>3 DEF HartType, CtxType
  <2>5. PlaceType' /\ LoopType' /\ TableType'
    BY <1>1, <1>2, <2>3, Processes DEF PlaceType, LoopType, TableType, Labels, SchedLabels
  <2> QED
    BY <2>4, <2>5, TypesNext
<1> QED
  BY <1>2, <1>3, <1>4, <1>5, <1>6, <1>7, <1>8, BackToKernel

\* The timer takes the hart from a process that has the cpu.  When it comes on the
\* stack of the system process the interrupted code goes on, unless a process has
\* been chosen already; then, and when exit() has given the cpu away, two activations
\* are on one stack.
LEMMA TickStep ==
  ASSUME IInv, Tick
  PROVE  IInv'
<1>1. /\ TypeOK /\ FramesOK /\ ContextsOK /\ ProcessOK /\ ExitOK /\ CalmOK
      /\ HartType /\ PlaceType /\ LoopType /\ TableType /\ CtxType /\ disturbed \in BOOLEAN
      /\ sp \in Procs /\ frames \in Stacks
      /\ \A q \in Procs : Len(frames[q]) \in Nat
  BY Parts
<1>2. /\ pc = "tick" /\ SysSwitch(cpu, OS, "tail") /\ cpu' = OS
      /\ state' = [state EXCEPT ![cpu] = "RUNNABLE"]
      /\ UNCHANGED <<mode, mie, mpie, mpp, mepc, cur, slot, plock, schedLock, disturbed>>
  BY DEF Tick, Running, csrs
<1>3. Alive /\ pc \in Inside /\ pc \notin Leaving /\ pc \notin KernelLabels /\ pc \notin UserLabels
  BY <1>2 DEF Alive, StopLabels, Inside, TrapLabels, Leaving, KernelLabels, BootLabels, SchedLabels,
              UserLabels
<1>4. cpu \in Procs /\ "tail" \in Labels \ StopLabels /\ Len(frames[sp]) <= MaxNest
  BY <1>1 DEF TableType, Labels, TrapLabels, StopLabels, FramesOK
<1>5. /\ state' \in [Procs -> States]
      /\ state'[cpu] = "RUNNABLE"
      /\ \A q \in Procs \ {cpu} : state'[q] = state[q]
  BY <1>1, <1>2 DEF TableType, States
<1>6. HartType' /\ LoopType' /\ TableType' /\ disturbed' \in BOOLEAN
  BY <1>1, <1>2, <1>5, Processes DEF HartType, LoopType, TableType
<1>7. CASE cpu # sp
  <2>1. /\ pc' = "wild" /\ sp' = sp /\ frames' = frames
        /\ ctx' \in [Procs -> Contexts]
    BY <1>1, <1>2, <1>4, <1>7, Processes, SwitchWild
  <2>2. disturbed
    <3>1. CASE sp = OS
      BY <1>1, <1>3, <3>1 DEF CalmOK
    <3>2. CASE sp # OS
      <4>1. cpu = OS
        BY <1>1, <1>3, <1>7, <3>2 DEF ProcessOK
      <4>2. PICK m \in Leaving : LeavingAt(m)
        BY <1>1, <1>3, <3>2, <4>1 DEF ExitOK
      <4>3. TopMepc \in Leaving
        BY <1>2, <4>2 DEF LeavingAt, Leaving
      <4>4. SUFFICES ASSUME ~disturbed
                     PROVE  FALSE
        OBVIOUS
      <4>5. sp \in Users /\ frames[sp] # <<>>
        BY <1>1, <1>3, <3>2, Processes DEF FramesOK
      <4>6. Len(frames[sp]) <= 1 /\ frames[sp][1].mepc \in UserLabels
        BY <1>1, <4>4, <4>5 DEF CalmOK
      <4>7. PICK i \in Nat : i = Len(frames[sp]) /\ i >= 1
        <5>1. frames[sp] \in Seq([mepc : Labels, ret : Labels])
          BY <1>1 DEF Stacks
        <5> QED
          BY <4>5, <5>1, LastElement
      <4>8. i >= 1
        BY <4>7
      <4>9. i <= 1
        BY <4>6, <4>7
      <4>10. i = 1
        BY <4>8, <4>9
      <4> QED
        BY <4>3, <4>6, <4>7, <4>10, LabelGroups DEF TopMepc
    <3> QED
      BY <3>1, <3>2
  <2>3. TypeOK'
    <3>1. PlaceType' /\ CtxType'
      BY <1>1, <2>1 DEF PlaceType, CtxType, Labels, StopLabels
    <3> QED
      BY <1>6, <3>1, TypesNext
  <2>4. disturbed'
    BY <1>2, <2>2
  <2> QED
    BY <2>1, <2>3, <2>4, StopStep DEF StopLabels
<1>8. CASE cpu = sp /\ sp # OS
  <2>1. \A q \in Procs : \A k \in 1 .. Len(frames[q]) : frames[q][k].mepc \notin Leaving
    BY <1>1, <1>3, <1>8 DEF ExitOK
  <2>2. TypeOK'
    <3>1. ctx[OS].stk = OS /\ ctx[OS].depth = Len(frames[OS]) /\ ctx[OS].pc = "trapinit"
      BY <1>1, <1>3, <1>8, Processes DEF ContextsOK
    <3>2. sp' = OS /\ frames' = frames /\ pc' = "trapinit" /\ ctx' \in [Procs -> Contexts]
      BY <1>1, <1>2, <1>4, <1>8, <3>1, Processes, SwitchStack
    <3>3. PlaceType' /\ CtxType'
      BY <1>1, <3>2, Processes DEF PlaceType, CtxType, Labels, SchedLabels
    <3> QED
      BY <1>6, <3>3, TypesNext
  <2> QED
    BY <1>2, <1>3, <1>5, <1>8, <2>1, <2>2, BackToKernel
<1>9. CASE cpu = sp /\ sp = OS
  <2>1. /\ sp' = OS /\ frames' = frames /\ pc' = "tail" /\ ctx' \in [Procs -> Contexts]
        /\ \A q \in Procs \ {sp} : ctx'[q] = ctx[q]
        /\ ctx'[sp] = Context(sp, Len(frames[sp]), "tail")
    BY <1>1, <1>2, <1>4, <1>9, Processes, SwitchStack
  <2>2. TypeOK'
    <3>1. PlaceType' /\ CtxType'
      BY <1>1, <2>1, Processes DEF PlaceType, CtxType, Labels, TrapLabels
    <3> QED
      BY <1>6, <3>1, TypesNext
  <2>3. ProcessOK'
    BY <2>1 DEF ProcessOK
  <2>4. \A q \in Procs : \A k \in 1 .. Len(frames[q]) : frames[q][k].mepc \notin Leaving
    BY <1>1, <1>3, <1>9 DEF ExitOK
  <2>5. ExitOK'
    BY <2>1, <2>4 DEF ExitOK, Leaving
  <2>6. pc' \in Inside /\ pc' \in Inner(sp)
    BY <1>9, <2>1 DEF Inside, Inner, OfProcess, TrapLabels
  <2>7. ctx'[sp].stk = sp
    BY <2>1 DEF Context
  <2>8. SameFrames
    BY <2>1, FramesKept
  <2>9. UNCHANGED <<sp, slot, plock, schedLock, mode, mpp, disturbed, cur, cpu>>
    BY <1>2, <1>9, <2>1
  <2>10. \A q \in Procs \ {sp} : state'[q] = state[q] /\ ctx'[q] = ctx[q]
    BY <1>5, <1>9, <2>1
  <2>11. state'[OS] \in {state[OS], "RUNNABLE"}
    BY <1>5, <1>9
  <2> QED
    BY <1>3, <2>2, <2>3, <2>5, <2>6, <2>7, <2>8, <2>9, <2>10, <2>11, InsideStep
<1> QED
  BY <1>7, <1>8, <1>9

-----------------------------------------------------------------------------
\* The code of a process computes, and user mode faults at its first instruction.

\* A process computes with its locks and its stack as they are.
LEMMA ComputeStep ==
  ASSUME IInv, Compute
  PROVE  IInv'
<1>1. /\ TypeOK /\ FramesOK /\ ContextsOK /\ ProcessOK /\ ExitOK /\ CalmOK
      /\ HartType /\ PlaceType /\ LoopType /\ TableType /\ CtxType /\ disturbed \in BOOLEAN
      /\ sp \in Procs
  BY Parts
<1>2. /\ sp # OS /\ pc \in UserLabels /\ pc' \in UserLabels
      /\ UNCHANGED <<mode, mie, mpie, mpp, mepc, sp, frames, cur, slot, state, plock, ctx, schedLock,
                     cpu, disturbed>>
  BY DEF Compute, UserCode, UserLabels, csrs, table
<1>3. /\ Alive /\ Alive' /\ pc \notin Leaving /\ pc' \notin Leaving /\ pc # "mret" /\ pc' # "mret"
      /\ pc \notin {"irq", "tick", "leave", "restore"} /\ pc' \in Labels
      /\ pc' \notin Inside
  BY <1>2 DEF Alive, StopLabels, UserLabels, Leaving, Labels, Inside, TrapLabels
<1>4. TypeOK'
  <2>1. HartType' /\ CtxType' /\ LoopType' /\ TableType' /\ disturbed' \in BOOLEAN
    BY <1>1, <1>2 DEF HartType, CtxType, LoopType, TableType
  <2>2. PlaceType'
    BY <1>1, <1>2, <1>3 DEF PlaceType
  <2> QED
    BY <2>1, <2>2, TypesNext
<1>5. FramesOK'
  <2>1. pc \in Base(sp) /\ pc' \in Base(sp)
    BY <1>2 DEF Base
  <2> QED
    BY <1>1, <1>2, <1>3, <2>1 DEF FramesOK, Base, Inner
<1>6. ContextsOK'
  BY <1>1, <1>2, <1>3 DEF ContextsOK
<1>7. KernelOK'
  BY <1>2 DEF KernelOK
<1>8. ProcessOK'
  BY <1>1, <1>2, <1>3 DEF ProcessOK
<1>9. ExitOK'
  <2>1. /\ cpu = sp
        /\ \A q \in Procs : \A k \in 1 .. Len(frames[q]) : frames[q][k].mepc \notin Leaving
    BY <1>2, <1>3, NotLeaving
  <2> QED
    BY <1>2, <1>3, <2>1 DEF ExitOK
<1>10. CalmOK'
  BY <1>1, <1>2, <1>3 DEF CalmOK
<1> QED
  BY <1>4, <1>5, <1>6, <1>7, <1>8, <1>9, <1>10 DEF IInv

\* User mode is entered only after an interrupt came while the kernel ran.
LEMMA PageFaultStep ==
  ASSUME IInv, PageFault
  PROVE  IInv'
<1>1. /\ CalmOK
      /\ HartType /\ PlaceType /\ LoopType /\ TableType /\ CtxType /\ disturbed \in BOOLEAN
  BY Parts
<1>2. /\ mode = "U" /\ pc' = "pagefault"
      /\ mode' = "M" /\ mpp' = "U" /\ mpie' = mie /\ mie' = FALSE
      /\ UNCHANGED <<mepc, sp, frames, cur, slot, state, plock, ctx, schedLock, cpu, disturbed>>
  BY DEF PageFault, table
<1>3. disturbed
  BY <1>1, <1>2 DEF CalmOK
<1>4. TypeOK'
  <2>1. CtxType' /\ LoopType' /\ TableType' /\ disturbed' \in BOOLEAN
    BY <1>1, <1>2 DEF CtxType, LoopType, TableType
  <2>2. HartType' /\ PlaceType'
    BY <1>1, <1>2 DEF HartType, PlaceType, Modes, Labels, StopLabels
  <2> QED
    BY <2>1, <2>2, TypesNext
<1> QED
  BY <1>2, <1>3, <1>4, StopStep DEF StopLabels

-----------------------------------------------------------------------------
\* boot() leaves a kernel that satisfies the invariant.
LEMMA InitOK ==
  Init => IInv
<1> SUFFICES ASSUME Init
             PROVE  IInv
  OBVIOUS
<1>1. /\ mode = "S" /\ mie \in BOOLEAN /\ mpie = TRUE /\ mpp = "U" /\ mepc = "create"
      /\ sp = OS /\ pc = "create" /\ slot = 1 /\ schedLock = FALSE /\ cpu = OS /\ disturbed = FALSE
      /\ frames = [p \in Procs |-> <<>>] /\ cur = [p \in Procs |-> OS]
      /\ state = [p \in Procs |-> IF p = OS THEN "USED" ELSE "UNUSED"]
      /\ plock = [p \in Procs |-> FALSE]
      /\ ctx = [p \in Procs |-> Context(p, 0, "wild")]
  BY DEF Init
<1>2. \A p \in Procs : Context(p, 0, "wild") \in Contexts
  BY MaxNestAssumption DEF Context, Contexts, Labels, StopLabels
<1>3. /\ Alive /\ pc \in KernelLabels /\ pc \in Labels /\ pc # "mret" /\ pc \notin Inside
      /\ pc \notin Leaving
  BY <1>1 DEF Alive, StopLabels, KernelLabels, BootLabels, Labels, Inside, TrapLabels, Leaving
<1>4. TypeOK
  <2>1. HartType
    BY <1>1 DEF HartType, Modes, Labels, BootLabels
  <2>2. PlaceType
    <3>1. <<>> \in Seq([mepc : Labels, ret : Labels])
      OBVIOUS
    <3> QED
      BY <1>1, <1>3, <3>1, Processes DEF PlaceType, Stacks
  <2>3. LoopType /\ TableType
    BY <1>1, Processes DEF LoopType, TableType, States
  <2>4. CtxType
    BY <1>1, <1>2 DEF CtxType
  <2> QED
    BY <1>1, <2>1, <2>2, <2>3, <2>4, Types
<1>5. \A q \in Procs : frames[q] = <<>> /\ Len(frames[q]) = 0
  BY <1>1
<1>6. \A q \in Procs : ctx[q].stk = q /\ ctx[q].depth = 0 /\ ctx[q].pc = "wild"
  BY <1>1 DEF Context
<1>7. FramesOK
  <2>1. pc \in Base(sp)
    BY <1>1, <1>3 DEF Base
  <2>2. \A q \in Procs : \A k \in 1 .. Len(frames[q]) : FALSE
    BY <1>5
  <2>3. \A q \in Procs : Len(frames[q]) <= MaxNest
    BY <1>5, MaxNestAssumption
  <2>4. frames[sp] = <<>>
    BY <1>1, <1>5, Processes
  <2> QED
    BY <1>3, <2>1, <2>2, <2>3, <2>4 DEF FramesOK
<1>8. ContextsOK
  BY <1>1, <1>5, <1>6, Processes DEF ContextsOK
<1>9. KernelOK
  <2>1. KernelAt("create")
    <3>1. \A q \in Users : state[q] = "UNUSED"
      BY <1>1, Processes
    <3>2. \A q \in Procs : ~plock[q]
      BY <1>1
    <3>3. \A q \in Users : ~(q < 1) /\ ~plock[q]
      BY <3>2, Processes DEF Users
    <3> QED
      BY <1>1, <3>1, <3>2, <3>3, Processes DEF KernelAt, BootLabels, SchedLabels, HoldsProcLock
  <2>2. ASSUME NEW m \in KernelLabels, Pending(m)
        PROVE  m = "create"
    BY <1>1, <1>5, <2>2, Processes DEF Pending
  <2> QED
    BY <2>1, <2>2 DEF KernelOK
<1>10. ProcessOK
  BY <1>1 DEF ProcessOK
<1>11. ExitOK
  BY <1>1, <1>3, <1>5 DEF ExitOK
<1>12. CalmOK
  <2>1. state[OS] = "USED" /\ \A q \in Users : Len(frames[q]) <= 1 /\ frames[q] = <<>>
    BY <1>1, <1>5, Processes
  <2>2. BeforeFirstTrap
    BY <1>1, <1>6, <2>1, Processes DEF BeforeFirstTrap
  <2> QED
    BY <1>1, <1>3, <1>5, <2>1, <2>2, Processes DEF CalmOK
<1> QED
  BY <1>4, <1>7, <1>8, <1>9, <1>10, <1>11, <1>12 DEF IInv

\* Every step keeps the invariant.
LEMMA NextOK ==
  ASSUME IInv, [Next]_vars
  PROVE  IInv'
<1>1. CASE Boot
  BY <1>1, BootStep
<1>2. CASE Scheduler
  BY <1>2, SchedulerStep
<1>3. CASE Handler
  BY <1>3, TickStep, TickTailStep, WayOutStep, RestoreStep, MretStep DEF Handler
<1>4. CASE SystemCall
  BY <1>4, EcallStep, SyscallStep, ExitFirstStep, ExitSetCpuStep, ExitStateStep, ExitSwitchStep,
     ExitTailStep
  DEF SystemCall
<1>5. CASE Compute
  BY <1>5, ComputeStep
<1>6. CASE PageFault
  BY <1>6, PageFaultStep
<1>7. CASE TimerInterrupt \/ ExternalInterrupt
  BY <1>7, InterruptStep
<1>8. CASE UNCHANGED vars
  <2>1. UNCHANGED <<mode, mie, mpie, mpp, mepc, sp, pc, frames, cur, slot, state, plock, ctx, schedLock,
                    cpu, disturbed>>
    BY <1>8 DEF vars, csrs, table
  <2>2. TypeOK' /\ FramesOK' /\ ContextsOK'
    BY <2>1 DEF IInv, TypeOK, Alive, FramesOK, ContextsOK
  <2>3. KernelOK'
    <3>1. \A m \in KernelLabels : (Pending(m)' <=> Pending(m)) /\ (KernelAt(m)' <=> KernelAt(m))
      BY <2>1 DEF Pending, KernelAt
    <3> QED
      BY <2>1, <3>1 DEF IInv, KernelOK, Alive
  <2>4. ProcessOK'
    BY <2>1 DEF IInv, ProcessOK, Alive
  <2>5. ExitOK'
    <3>1. \A m \in Leaving : LeavingAt(m)' <=> LeavingAt(m)
      BY <2>1 DEF LeavingAt, TopMepc
    <3> QED
      BY <2>1, <3>1 DEF IInv, ExitOK, Alive
  <2>6. CalmOK'
    BY <2>1 DEF IInv, CalmOK, Alive, BeforeFirstTrap, AfterTrap
  <2> QED
    BY <2>2, <2>3, <2>4, <2>5, <2>6 DEF IInv
<1> QED
  BY <1>1, <1>2, <1>3, <1>4, <1>5, <1>6, <1>7, <1>8 DEF Next, Execute

-----------------------------------------------------------------------------
\* The invariant holds in every state the kernel comes to.
THEOREM Invariance == Spec => []IInv
<1>1. Init => IInv
  BY InitOK
<1>2. IInv /\ [Next]_vars => IInv'
  BY NextOK
<1> QED
  BY <1>1, <1>2, PTL DEF Spec

\* The hart, the stacks and the process table stay within their types: no switch
\* saves more frames than are open, and the loop variable stays in the table.
THEOREM TypeCorrectness == Spec => []TypeOK
<1>1. IInv => TypeOK
  BY DEF IInv
<1> QED
  BY <1>1, Invariance, PTL

\* However the interrupts fall, while the code of a process runs the scheduler holds
\* sched_lock and the lock of that process, which is the one that runs, and the
\* scheduler comes back to its loop with the locks it took freed.
THEOREM LocksHandedOff == Spec => []LockHandOff
<1>1. ASSUME IInv
      PROVE  LockHandOff
  <2>1. ProcessOK /\ ExitOK /\ TypeOK
    BY <1>1, Parts
  <2>2. ASSUME UserCode
        PROVE  /\ schedLock /\ plock[sp] /\ cpu = sp /\ slot = sp
               /\ \A p \in Procs : state[p] = "RUNNING" <=> p = sp
    <3>1. Alive /\ sp # OS /\ pc \notin Leaving \cup {"irq", "tick", "leave", "restore", "mret"}
      BY <2>2 DEF UserCode, UserLabels, Alive, StopLabels, Leaving
    <3>2. cpu = sp
      BY <1>1, <3>1, NotLeaving
    <3> QED
      BY <2>1, <3>1, <3>2 DEF ProcessOK
  <2>3. ASSUME pc \in {"sched", "plock"}
        PROVE  KernelAt(pc)
    BY <1>1, <2>3, OnKernelStack DEF KernelLabels, SchedLabels
  <2>4. pc = "sched" => ~schedLock
    BY <2>3 DEF KernelAt
  <2>5. pc = "plock" /\ plock[slot] => slot # OS /\ state[slot] = "USED"
    <3>1. slot \in Procs
      BY <1>1, Parts DEF LoopType
    <3> QED
      BY <2>3, <3>1 DEF KernelAt, HoldsProcLock
  <2> QED
    BY <2>2, <2>4, <2>5 DEF LockHandOff
<1> QED
  BY <1>1, Invariance, PTL

\* The hart stops at an illegal instruction or a page fault, or mixes two activations
\* on one stack, only after an interrupt came while the kernel ran.
THEOREM StopsAreDisturbances == Spec => []StopsOnlyIfDisturbed
<1>1. IInv => StopsOnlyIfDisturbed
  BY DEF IInv, CalmOK, Alive, StopsOnlyIfDisturbed
<1> QED
  BY <1>1, Invariance, PTL

\* Until an interrupt comes while the kernel runs no trap frame is left on a stack
\* longer than its trap.
THEOREM CalmFrames == Spec => [](~disturbed => FramesBalanced)
<1>1. ASSUME IInv, ~disturbed
      PROVE  FramesBalanced
  <2>1. FramesOK /\ CalmOK
    BY <1>1, Parts
  <2>2. frames[OS] = <<>> /\ \A p \in Users : Len(frames[p]) <= 1
    BY <1>1, <2>1 DEF CalmOK
  <2>3. UserCode => frames[sp] = <<>>
    BY <2>1, LabelGroups DEF UserCode, FramesOK, Base, Alive
  <2> QED
    BY <2>2, <2>3 DEF FramesBalanced
<1> QED
  BY <1>1, Invariance, PTL

\* On a hart on which no interrupt comes while the kernel runs trap frames never pile
\* up, whatever the processes do and however often they are interrupted.
THEOREM FramesNeverPileUp ==
  ASSUME ~KernelTicks, ~KernelIrqs
  PROVE  Spec => []FramesBalanced
<1>1. Init => ~disturbed
  BY DEF Init
<1>2. ~disturbed /\ [Next]_vars => ~disturbed'
  <2> SUFFICES ASSUME ~disturbed, [Next]_vars
               PROVE  ~disturbed'
    OBVIOUS
  <2>1. CASE TimerInterrupt \/ ExternalInterrupt
    BY <2>1 DEF TimerInterrupt, ExternalInterrupt, Interrupt
  <2>2. CASE Execute \/ UNCHANGED vars
    BY <2>2
    DEF vars, Execute, Boot, Create, Exec, Load, LoadFails, Scheduler, TakeSchedLock, TakeProcLock,
        Choose, Skip, SetCpu, CurState, Switch, SwitchedBack, FreeProcLock, FreeSchedLock, Handler,
        Tick, TickTail, Irq, Leave, Restore, Mret, SystemCall, Ecall, Syscall, Exit, ExitSetCpu,
        ExitState, ExitSwitch, ExitTail, Compute, PageFault
  <2> QED
    BY <2>1, <2>2 DEF Next
<1> QED
  BY <1>1, <1>2, CalmFrames, PTL DEF Spec

-----------------------------------------------------------------------------
(***************************************************************************)
(* The scheduler gives the hart to the processes in the order of the       *)
(* table: Kernel implements RoundRobin, for every number of processes,     *)
(* when every program is loaded and no interrupt comes while the kernel    *)
(* runs.                                                                   *)
(***************************************************************************)

Quiet == ~KernelTicks /\ ~KernelIrqs /\ ~LoadMayFail

\* Every process is runnable, or runs, once the scheduler has the hart for the first
\* time; kernel_main() makes them runnable in the order of the table.
AllLoaded == \A q \in Users : state[q] \in {"RUNNABLE", "RUNNING"}

LoadedOK ==
  /\ pc \in {"exec", "load"} => \A q \in Users : q < slot => state[q] = "RUNNABLE"
  /\ pc \in SchedLabels \/ sp # OS => AllLoaded

QInv == IInv /\ ~disturbed /\ LoadedOK

-----------------------------------------------------------------------------
\* On a quiet hart nothing but its own code runs.
LEMMA QuietStep ==
  ASSUME Quiet, ~disturbed, Next
  PROVE  /\ Boot \/ Scheduler \/ Handler \/ SystemCall \/ Compute \/ PageFault
            \/ (UserCode /\ Trap("tick")) \/ (UserCode /\ Trap("irq"))
         /\ ~disturbed'
<1>1. CASE TimerInterrupt
  BY <1>1 DEF TimerInterrupt, Interrupt, Quiet
<1>2. CASE ExternalInterrupt
  BY <1>2 DEF ExternalInterrupt, Interrupt, Quiet
<1>3. CASE Execute
  <2>1. UNCHANGED disturbed
    BY <1>3
    DEF Execute, Boot, Create, Exec, Load, LoadFails, Scheduler, TakeSchedLock, TakeProcLock,
        Choose, Skip, SetCpu, CurState, Switch, SwitchedBack, FreeProcLock, FreeSchedLock, Handler,
        Tick, TickTail, Irq, Leave, Restore, Mret, SystemCall, Ecall, Syscall, Exit, ExitSetCpu,
        ExitState, ExitSwitch, ExitTail, Compute, PageFault
  <2> QED
    BY <1>3, <2>1 DEF Execute
<1> QED
  BY <1>1, <1>2, <1>3 DEF Next

\* An undisturbed hart is at a label of the kernel on the stack of the system process
\* and at no label of the kernel on another.
LEMMA WhereItIs ==
  ASSUME IInv, ~disturbed
  PROVE  /\ Alive
         /\ sp = OS <=> pc \in KernelLabels
<1>1. CalmOK /\ FramesOK
  BY DEF IInv
<1>2. Alive /\ (sp = OS => pc \in KernelLabels)
  BY <1>1 DEF CalmOK
<1>3. pc \in KernelLabels => sp = OS
  BY OnKernelStack
<1> QED
  BY <1>2, <1>3

\* Outside kernel_main()'s first loops the states of the processes change between
\* runnable and running only.
LEMMA StatesStep ==
  ASSUME TypeOK, Scheduler \/ Handler \/ SystemCall \/ Compute \/ PageFault
                 \/ Trap("tick") \/ Trap("irq"),
         AllLoaded
  PROVE  AllLoaded'
<1>1. /\ state \in [Procs -> States] /\ slot \in Procs /\ cpu \in Procs /\ cur[sp] \in Procs
  BY Types DEF TableType, LoopType, PlaceType
<1>2. \/ state' = state
      \/ \E p \in Procs : state' = [state EXCEPT ![p] = "RUNNABLE"]
      \/ \E p \in Procs : state' = [state EXCEPT ![p] = "RUNNING"]
  BY <1>1
  DEF Scheduler, TakeSchedLock, TakeProcLock, Choose, Skip, SetCpu, CurState, Switch, SwitchedBack,
      FreeProcLock, FreeSchedLock, Handler, Tick, TickTail, Irq, Leave, Restore, Mret, SystemCall,
      Ecall, Syscall, Exit, ExitSetCpu, ExitState, ExitSwitch, ExitTail, Compute, PageFault, Trap,
      table
<1> QED
  BY <1>1, <1>2, Processes DEF AllLoaded

-----------------------------------------------------------------------------
\* The steps of a process, on its stack.
OnStack ==
  \/ Handler \/ SystemCall \/ Compute \/ PageFault
  \/ UserCode /\ (Trap("tick") \/ Trap("irq"))

\* They find no label of the kernel.
LEMMA OffKernel ==
  ASSUME IInv, ~disturbed, OnStack
  PROVE  sp # OS
<1>1. mode # "U"
  BY WhereItIs DEF IInv, CalmOK
<1>2. pc \in TrapLabels \cup UserLabels
  <2>1. CASE Handler
    BY <2>1 DEF Handler, Tick, TickTail, Irq, Leave, Restore, Mret, Running, TrapLabels
  <2>2. CASE SystemCall
    BY <2>2
    DEF SystemCall, Ecall, Syscall, Exit, ExitSetCpu, ExitState, ExitSwitch, ExitTail, Running,
        UserCode, TrapLabels
  <2>3. CASE Compute \/ PageFault \/ UserCode
    BY <1>1, <2>3 DEF Compute, PageFault, UserCode
  <2> QED
    BY <2>1, <2>2, <2>3 DEF OnStack
<1> QED
  BY <1>2, WhereItIs, LabelGroups

\* The scheduler's steps start at its labels.
LEMMA AtScheduler ==
  ASSUME Scheduler
  PROVE  pc \in SchedLabels
BY DEF Scheduler, TakeSchedLock, TakeProcLock, Choose, Skip, SetCpu, CurState, Switch, SwitchedBack,
       FreeProcLock, FreeSchedLock, Running, SchedLabels

\* kernel_main() loads the programs one after the other.
LEMMA BootLoads ==
  ASSUME Quiet, QInv, Boot
  PROVE  LoadedOK'
<1>1. pc \in BootLabels
  BY DEF Boot, Create, Exec, Load, LoadFails, Running, BootLabels
<1>2. pc \in KernelLabels
  BY <1>1 DEF KernelLabels
<1>3. /\ sp = OS /\ KernelAt(pc) /\ slot \in Procs /\ state \in [Procs -> States]
  BY <1>2, OnKernelStack DEF QInv, LoopType, TableType
<1>4. slot \in Users
  BY <1>1, <1>3 DEF KernelAt
<1>5. LoadedOK
  BY DEF QInv
<1>6. CASE Create
  <2>1. pc' \in {"create", "exec"} /\ (pc' = "exec" => slot' = 1) /\ sp' = OS
    BY <1>3, <1>6 DEF Create
  <2> QED
    BY <2>1 DEF LoadedOK, SchedLabels, Users
<1>7. CASE Exec
  BY <1>3, <1>5, <1>7 DEF LoadedOK, Exec, Running, SchedLabels
<1>8. CASE Load
  <2>1. \A q \in Users : q < slot => state[q] = "RUNNABLE"
    BY <1>5, <1>8 DEF LoadedOK, Load, Running
  <2>2. \A q \in Users : state'[q] = IF q = slot THEN "RUNNABLE" ELSE state[q]
    BY <1>3, <1>8, Processes DEF Load
  <2>3. \A q \in Users : q <= slot => state'[q] = "RUNNABLE"
    BY <1>4, <2>1, <2>2 DEF Users
  <2>4. sp' = OS /\ NextProgram
    BY <1>3, <1>8 DEF Load
  <2>5. CASE slot = N
    <3>1. pc' = "sched"
      BY <2>4, <2>5 DEF NextProgram
    <3>2. \A q \in Users : state'[q] = "RUNNABLE"
      BY <2>3, <2>5 DEF Users
    <3> QED
      BY <3>1, <3>2 DEF LoadedOK, AllLoaded
  <2>6. CASE slot # N
    <3>1. pc' = "exec" /\ slot' = slot + 1
      BY <2>4, <2>6 DEF NextProgram
    <3>2. \A q \in Users : q < slot' => state'[q] = "RUNNABLE"
      BY <1>4, <2>3, <3>1 DEF Users
    <3> QED
      BY <2>4, <3>1, <3>2 DEF LoadedOK, SchedLabels
  <2> QED
    BY <2>5, <2>6
<1> QED
  BY <1>6, <1>7, <1>8 DEF Boot, LoadFails, Quiet

\* The programs stay loaded.
LEMMA QStep ==
  ASSUME Quiet, QInv, [Next]_vars
  PROVE  QInv'
<1>1. IInv'
  BY NextOK DEF QInv
<1>2. CASE UNCHANGED vars
  BY <1>1, <1>2 DEF QInv, LoadedOK, AllLoaded, vars, table
<1>3. CASE Next
  <2>1. /\ Boot \/ Scheduler \/ OnStack
        /\ ~disturbed'
    BY <1>3, QuietStep DEF QInv, OnStack
  <2>2. CASE Boot
    BY <1>1, <2>1, <2>2, BootLoads DEF QInv
  <2>3. CASE Scheduler \/ OnStack
    <3>1. AllLoaded
      BY <2>3, OffKernel, AtScheduler DEF QInv, LoadedOK
    <3>2. AllLoaded'
      BY <2>3, <3>1, StatesStep DEF OnStack, QInv, IInv
    <3>3. ASSUME pc' \in {"exec", "load"} PROVE FALSE
      <4>1. pc' \in KernelLabels
        BY <3>3 DEF KernelLabels, BootLabels
      <4>2. KernelAt(pc)'
        <5>1. Alive' /\ FramesOK' /\ KernelOK'
          BY <1>1, <2>1 DEF IInv, CalmOK
        <5>2. sp' = OS
          BY <4>1, <5>1, LabelGroups DEF FramesOK, Base, Inner
        <5> QED
          BY <4>1, <5>1, <5>2 DEF KernelOK, Pending
      <4>3. slot' \in Users /\ state'[slot'] = "USED"
        BY <3>3, <4>2 DEF KernelAt, BootLabels, Users
      <4> QED
        BY <3>2, <4>3 DEF AllLoaded
    <3> QED
      BY <1>1, <2>1, <3>2, <3>3 DEF QInv, LoadedOK
  <2> QED
    BY <2>1, <2>2, <2>3
<1> QED
  BY <1>2, <1>3

-----------------------------------------------------------------------------
\* What the turn is, by the label.
LEMMA TurnIs ==
  ASSUME slot \in Procs
  PROVE  /\ sp # OS => Turn = (slot % N) + 1
         /\ sp = OS /\ pc \in {"trapinit", "unlock", "schedunlock"} => Turn = (slot % N) + 1
         /\ sp = OS /\ pc \in BootLabels => Turn = 1
         /\ sp = OS /\ pc \in {"sched", "plock", "test", "setcpu", "curstate", "switch"} =>
              Turn = IF slot = OS THEN 1 ELSE slot
BY DEF Turn, BootLabels

\* The table is gone through in a ring, and the system process counts as none.
LEMMA Ring ==
  ASSUME slot \in Procs
  PROVE  /\ slot = OS => (slot % N) + 1 = 1
         /\ LET s == (slot + 1) % (N + 1)
            IN  (slot % N) + 1 = IF s = OS THEN 1 ELSE s
<1>1. N \in Nat /\ N >= 1 /\ slot \in Nat /\ slot <= N
  BY NAssumption DEF Procs
<1>2. CASE slot = N
  BY <1>1, <1>2 DEF OS
<1>3. CASE slot < N
  BY <1>1, <1>3 DEF OS
<1> QED
  BY <1>1, <1>2, <1>3

\* A switch from a process goes back to where the scheduler called proc_exec().
LEMMA SwitchBack ==
  ASSUME NEW old \in Procs, NEW l, sp \in Procs, sp # OS, ctx \in [Procs -> Contexts],
         ctx[OS].stk = OS, ctx[OS].pc = "trapinit",
         SysSwitch(old, OS, l), pc' # "wild"
  PROVE  sp' = OS /\ pc' = "trapinit"
<1> DEFINE saved == [ctx EXCEPT ![old] = Context(sp, Len(frames[sp]), l)]
<1>1. saved[old] = Context(sp, Len(frames[sp]), l)
  OBVIOUS
<1>2. saved[old].stk = old
  BY DEF SysSwitch
<1>3. old = sp
  BY <1>1, <1>2 DEF Context
<1>4. saved[OS] = ctx[OS]
  BY <1>3, Processes
<1> QED
  BY <1>2, <1>4 DEF SysSwitch

-----------------------------------------------------------------------------
\* The steps of kernel_main() leave the turn with the first process.
LEMMA BootTurn ==
  ASSUME QInv, QInv', Boot
  PROVE  UNCHANGED <<sp, Turn>>
<1>1. pc \in BootLabels /\ pc \in KernelLabels
  BY DEF Boot, Create, Exec, Load, LoadFails, Running, BootLabels, KernelLabels
<1>2. sp = OS
  BY <1>1, OnKernelStack DEF QInv
<1>3. sp' = OS /\ (pc' \in BootLabels \/ (pc' = "sched" /\ slot' = OS))
  BY <1>2 DEF Boot, Create, Exec, Load, LoadFails, NextProgram, BootLabels
<1>4. Turn = 1 /\ Turn' = 1
  BY <1>1, <1>2, <1>3 DEF Turn, BootLabels
<1> QED
  BY <1>2, <1>3, <1>4

\* The scheduler's steps leave the turn as it is, but for the switch to a process.
LEMMA SchedulerTurn ==
  ASSUME QInv, QInv', Scheduler
  PROVE  UNCHANGED <<sp, Turn>> \/ Promise!Dispatch
<1>1. pc \in SchedLabels /\ pc \in KernelLabels
  BY AtScheduler DEF KernelLabels
<1>2. /\ sp = OS /\ KernelAt(pc) /\ slot \in Procs /\ state \in [Procs -> States]
      /\ cur[OS] = OS /\ ctx \in [Procs -> Contexts]
      /\ \A q \in Procs : ctx[q].stk = q
  BY <1>1, OnKernelStack DEF QInv, LoopType, TableType, CtxType
<1>3. Alive'
  BY DEF QInv, IInv, CalmOK
<1>4. CASE TakeSchedLock \/ TakeProcLock \/ Choose \/ SetCpu \/ CurState
  BY <1>2, <1>4
  DEF TakeSchedLock, TakeProcLock, Choose, SetCpu, CurState, Running, Turn, BootLabels
<1>5. CASE Skip
  <2>1. slot \notin Users
    <3>1. AllLoaded /\ pc = "test" /\ state[slot] # "RUNNABLE"
      BY <1>1, <1>5 DEF QInv, LoadedOK, Skip, Running
    <3>2. \A q \in Users : state[q] # "RUNNING"
      BY <1>2, <3>1 DEF KernelAt
    <3> QED
      BY <3>1, <3>2 DEF AllLoaded
  <2>2. slot = OS
    BY <1>2, <2>1, Processes
  <2>3. (slot % N) + 1 = 1
    BY <1>2, <2>2, Ring
  <2> QED
    BY <1>2, <1>5, <2>2, <2>3 DEF Skip, Running, Turn, BootLabels
<1>6. CASE Switch
  <2>1. pc = "switch" /\ slot' = slot /\ SysSwitch(OS, slot, "trapinit") /\ pc' # "wild"
    BY <1>2, <1>3, <1>6 DEF Switch, Running, Alive, StopLabels
  <2> DEFINE saved == [ctx EXCEPT ![OS] = Context(OS, Len(frames[OS]), "trapinit")]
  <2>2. sp' = saved[slot].stk /\ pc' = saved[slot].pc
    BY <1>2, <2>1 DEF SysSwitch
  <2>3. CASE slot = OS
    <3>1. saved[slot] = Context(OS, Len(frames[OS]), "trapinit")
      BY <1>2, <2>3
    <3>2. sp' = OS /\ pc' = "trapinit"
      BY <2>2, <3>1 DEF Context
    <3>3. (slot % N) + 1 = 1
      BY <1>2, <2>3, Ring
    <3> QED
      BY <1>2, <2>1, <2>3, <3>2, <3>3 DEF Turn, BootLabels
  <2>4. CASE slot # OS
    <3>1. saved[slot] = ctx[slot]
      BY <2>4
    <3>2. sp' = slot
      BY <1>2, <2>2, <3>1
    <3>3. Turn = slot /\ Turn' = (slot % N) + 1
      BY <1>2, <2>1, <2>4, <3>2 DEF Turn, BootLabels
    <3> QED
      BY <1>2, <3>2, <3>3 DEF Promise!Dispatch, Promise!After, OS
  <2> QED
    BY <2>3, <2>4
<1>7. CASE SwitchedBack
  <2>1. pc' = "unlock"
    BY <1>3, <1>7 DEF SwitchedBack, TrapInit, Alive, StopLabels
  <2> QED
    BY <1>2, <1>7, <2>1 DEF SwitchedBack, Running, Turn
<1>8. CASE FreeProcLock
  BY <1>2, <1>8 DEF FreeProcLock, Running, Turn
<1>9. CASE FreeSchedLock
  <2>1. Turn = (slot % N) + 1 /\ sp' = sp
    BY <1>2, <1>9 DEF FreeSchedLock, Running, Turn
  <2>2. Turn' = IF slot' = OS THEN 1 ELSE slot'
    BY <1>2, <1>9, <2>1 DEF FreeSchedLock, Turn, BootLabels
  <2>3. slot' = (slot + 1) % (N + 1)
    BY <1>9 DEF FreeSchedLock
  <2> QED
    BY <1>2, <2>1, <2>2, <2>3, Ring
<1> QED
  BY <1>4, <1>5, <1>6, <1>7, <1>8, <1>9 DEF Scheduler

\* The steps of a process leave the turn as it is, and the ones that switch give the
\* hart back.
LEMMA ProcessTurn ==
  ASSUME QInv, QInv', OnStack
  PROVE  UNCHANGED <<sp, Turn>> \/ Promise!TakeBack
<1>1. sp # OS
  BY OffKernel DEF QInv
<1>2. Alive' /\ Alive /\ FramesOK /\ ContextsOK /\ ProcessOK /\ TypeOK
  BY DEF QInv, IInv, CalmOK
<1>3. /\ slot = sp /\ cpu \in {sp, OS}
      /\ ctx[OS].stk = OS /\ ctx[OS].pc = "trapinit"
      /\ sp \in Procs /\ ctx \in [Procs -> Contexts] /\ cur[sp] \in Procs /\ cpu \in Procs
  BY <1>1, <1>2, Types, Processes
  DEF ProcessOK, ContextsOK, PlaceType, CtxType, LoopType, TableType
<1>4. pc' # "wild"
  BY <1>2 DEF Alive, StopLabels
<1>5. slot' = slot
  BY
  DEF OnStack, Handler, Tick, TickTail, Irq, Leave, Restore, Mret, SystemCall, Ecall, Syscall, Exit,
      ExitSetCpu, ExitState, ExitSwitch, ExitTail, Compute, PageFault, Trap
<1>6. Turn = (slot % N) + 1
  BY <1>1 DEF Turn
<1>7. CASE Tick \/ ExitSwitch
  <2>1. \E old \in Procs, l \in {"tail", "exittail"} : SysSwitch(old, OS, l)
    BY <1>3, <1>7 DEF Tick, ExitSwitch
  <2>2. sp' = OS /\ pc' = "trapinit"
    BY <1>1, <1>3, <1>4, <2>1, SwitchBack
  <2>3. Turn' = (slot % N) + 1
    BY <1>5, <2>2 DEF Turn
  <2> QED
    BY <1>1, <1>6, <2>2, <2>3 DEF Promise!TakeBack, OS
<1>8. CASE ~(Tick \/ ExitSwitch)
  <2>1. sp' = sp
    BY <1>8
    DEF OnStack, Handler, TickTail, Irq, Leave, Restore, Mret, SystemCall, Ecall, Syscall, Exit,
        ExitSetCpu, ExitState, ExitTail, Compute, PageFault, Trap
  <2>2. Turn' = (slot % N) + 1
    BY <1>1, <1>5, <2>1 DEF Turn
  <2> QED
    BY <1>6, <2>1, <2>2
<1> QED
  BY <1>7, <1>8

-----------------------------------------------------------------------------
\* The scheduler gives the hart to the processes in the order of the table, one at a
\* time, gets it back from the one that had it, and leaves none out.
THEOREM RoundRobinOrder ==
  ASSUME Quiet
  PROVE  Spec => ImplementsRoundRobin
<1>1. Init => QInv /\ Promise!Init
  <2> SUFFICES ASSUME Init PROVE QInv /\ Promise!Init
    OBVIOUS
  <2>1. IInv
    BY InitOK
  <2> QED
    BY <2>1 DEF Init, QInv, LoadedOK, SchedLabels, Promise!Init, Turn, BootLabels, OS
<1>2. QInv /\ [Next]_vars => QInv'
  BY QStep
<1>3. QInv /\ QInv' /\ [Next]_vars => [Promise!Next]_<<sp, Turn>>
  <2> SUFFICES ASSUME QInv, QInv', [Next]_vars PROVE [Promise!Next]_<<sp, Turn>>
    OBVIOUS
  <2>1. CASE UNCHANGED vars
    BY <2>1 DEF vars, Turn
  <2>2. CASE Next
    <3>1. Boot \/ Scheduler \/ OnStack
      BY <2>2, QuietStep DEF QInv, OnStack
    <3> QED
      BY <3>1, BootTurn, SchedulerTurn, ProcessTurn DEF Promise!Next
  <2> QED
    BY <2>1, <2>2
<1> QED
  BY <1>1, <1>2, <1>3, PTL DEF Spec, ImplementsRoundRobin, Promise!Spec
=============================================================================
