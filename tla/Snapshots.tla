----------------------------- MODULE Snapshots -----------------------------
(***************************************************************************)
(* Boot, traps and context switches of the kernel as it was after each     *)
(* day, from day 2-1 to day 6: os.c, trap.c, timer.c, plic.c, uart.c,      *)
(* syscall.c and sys.s of each snapshot on one RISC-V hart with a timer, a *)
(* PLIC, a UART and, on days 5-1 to 5-4, a disk that is waited for.  What  *)
(* a request to the disk consists of is in VirtioDisk.                     *)
(*                                                                         *)
(* What a snapshot executes is a text, a list of operations per program,   *)
(* with the order of its writes to control registers and devices.  An      *)
(* interrupt is taken between any two operations, also between any two     *)
(* instructions of sys_switch, when the hart allows it.  The handler runs  *)
(* with interrupts off, against devices that go on.                        *)
(*                                                                         *)
(* The registers hold tokens that say whose value they are, a context and  *)
(* a trap frame are words of memory, and sys.s moves the one to the other  *)
(* as Frames says.  There are two stacks: that of os_main(), "os", and     *)
(* that of user_task0() or, on day 6, of a process, "task".                *)
(*                                                                         *)
(* In day 6 interrupts arrive while the kernel boots, until set_cpu_proc() *)
(* and while the process runs.  Those in between are the subject of Kernel,*)
(* and so is what follows the first return to the scheduler.               *)
(***************************************************************************)
EXTENDS Days, FiniteSets

CONSTANTS
  Days,      \* the snapshots
  MaxTyped   \* bound on the characters that are typed

ASSUME DaysAssumption ==
  Days \subseteq AllDays
ASSUME MaxTypedAssumption == MaxTyped \in Nat

-----------------------------------------------------------------------------
VARIABLES
  day,    \* the snapshot that runs
  pc,     \* the place that is executed
  regs,   \* the registers, with satp and mepc
  csr,    \* privilege mode, mstatus, mie and whether mtvec is set
  frame,  \* the trap frame of each stack and, in word 32, the word above it
  ctx,    \* ctx_os and ctx_task, or the contexts of two processes
  hnd,    \* what trap_handler() returns, and the cause of the trap
  dev,    \* timer, UART, PLIC, and the request that the disk has
  heap,   \* blocks that system calls have allocated
  cpu,    \* has set_cpu_proc() been called?
  hist    \* history: what the last trap interrupted, and what was seen of it

vars == <<day, pc, regs, csr, frame, ctx, hnd, dev, heap, cpu, hist>>

Stacks == {"os", "task"}

\* Values carry what they are, so that any two can be told apart.
Place(code, n) == <<"pc", code, n>>
Sp(o, depth)   == <<"sp", o, depth>>
Reg(o, r)      == <<"reg", o, r>>
Context(o)     == <<"ctx", o, 0>>
Number(n)      == <<"number", "", n>>
Junk           == <<"junk", "", 0>>

CSRs == {"satp", "mepc"}

\* The program of a stack, and the place that follows another.
ProgramOf(o) == IF o = "os" THEN OfDay(day).os ELSE OfDay(day).task
Following(p) ==
  LET q == ProgramOf(p[2])
  IN  IF p[3] < Len(q.text) THEN Place(p[2], p[3] + 1)
      ELSE IF q.endless THEN Place(p[2], q.loop)
      ELSE Place("end", 0)

Ordinary == pc[2] \in Stacks
Op       == ProgramOf(pc[2]).text[pc[3]]

Init ==
  /\ day \in Days
  /\ pc = Place("os", 1)
  /\ regs = [r \in Regs \cup CSRs |-> IF r = "sp" THEN Sp("os", 0) ELSE Reg("os", r)]
  /\ csr = [mode |-> "M", MIE |-> FALSE, mie |-> {}, mpie |-> FALSE, mpp |-> "U",
            mtvec |-> FALSE, tmp |-> [MIE |-> FALSE, mpie |-> FALSE]]
  /\ frame = [o \in Stacks |-> [w \in 0 .. FrameWords |->
                                IF w < FrameWords THEN Junk ELSE <<"own", o, 0>>]]
  /\ ctx = [o \in Stacks |-> [w \in 0 .. 30 |->
              CASE o = "task" /\ w = 0 -> Place("task", 1)
                [] o = "task" /\ w = 1 -> Sp("task", 0)
                [] OTHER               -> <<"word", o, w>>]]
  /\ hnd = [epc |-> Place("os", 1), cause |-> 0]
  /\ dev = [timer |-> "off", ier |-> FALSE, dr |-> FALSE, rbr |-> 0, plic |-> {},
            claimed |-> FALSE, disk |-> "idle"]
  /\ heap = {}
  /\ cpu = FALSE
  /\ hist = [pc |-> Place("os", 1), regs |-> <<>>, mode |-> "M", word |-> Junk,
             ran |-> TRUE, disturbed |-> FALSE, typed |-> 0, echoed |-> <<>>, raced |-> FALSE]

-----------------------------------------------------------------------------
\* A trap, and the first instructions of trap_vector: a frame below the stack
\* pointer takes the registers, and trap_handler() may change all but those that
\* a called function keeps.
Kept == Saved \cup {"sp", "gp", "tp"} \cup CSRs

\* The causes of interrupts are negative, as they are in mcause.
TimerCause    == -7
ExternalCause == -11
Branch(cause) ==
  CASE cause = TimerCause    -> "timer_handler"
    [] cause = ExternalCause -> "external_handler"
    [] OTHER -> IF cause \in OfDay(day).handler.syscalls THEN "do_syscall" ELSE "exception"

\* Between the write of mepc and the mret that uses it.
InModeSwitch == Ordinary /\ Op \in {"r_mstatus", "w_mstatus", "mret"}

Trap(before, cause) ==
  LET o == before.sp[2]
      r == [before EXCEPT !.sp = Sp(o, before.sp[3] + 1), !.mepc = pc]
  IN  /\ regs' = [x \in DOMAIN r |-> IF x \in Kept THEN r[x] ELSE Junk]
      /\ frame' = [frame EXCEPT ![o] = Store(OfDay(day).save, r, frame[o])]
      /\ csr' = [csr EXCEPT !.mode = "M", !.mpp = csr.mode, !.mpie = csr.MIE, !.MIE = FALSE]
      /\ hnd' = [epc |-> pc, cause |-> cause]
      /\ pc' = Place(Branch(cause), IF cause < 0 THEN 1 ELSE 0)
      /\ hist' = [hist EXCEPT !.pc = pc, !.regs = before, !.mode = csr.mode,
                              !.word = frame[o][FrameWords],
                              !.disturbed = @ \/ (cause < 0 /\ InModeSwitch)]

UartInterrupt == dev.ier /\ dev.dr /\ dev.plic = {"priority", "enable"} /\ ~dev.claimed

DiskInterrupt == dev.disk = "pending" /\ dev.plic = {"priority", "enable"} /\ ~dev.claimed

ExternalPending == (UartInterrupt \/ DiskInterrupt) /\ "MEIE" \in csr.mie
TimerPending    == dev.timer = "due" /\ "MTIE" \in csr.mie

\* In day 6 the interrupts from set_cpu_proc() on are left to Kernel, but for
\* those of the process.
Followed == day = "6" => (~cpu \/ pc[2] = "task")

Interruptible ==
  /\ pc[2] \in Stacks \cup {"sys_switch"}
  /\ csr.mode # "M" \/ csr.MIE
  /\ Followed

TakeInterrupt ==
  /\ Interruptible
  /\ \/ ExternalPending /\ Trap(regs, ExternalCause)
     \/ TimerPending /\ ~ExternalPending /\ Trap(regs, TimerCause)
  /\ UNCHANGED <<day, ctx, dev, heap, cpu>>

\* Variant: the stack pointer is not moved back over the frame.
TrapReturnNoPop ==
  /\ pc = Place("leave", 0)
  /\ LET r == Load(OfDay(day).load, frame[regs.sp[2]], [regs EXCEPT !.mepc = hnd.epc])
     IN  regs' = r /\ pc' = r.mepc
  /\ csr' = [csr EXCEPT !.mode = csr.mpp, !.mpp = "U", !.MIE = csr.mpie, !.mpie = TRUE]
  /\ UNCHANGED <<day, frame, ctx, hnd, dev, heap, cpu, hist>>

\* reg_load, and mret.  What is left below the stack pointer is forgotten, and so
\* is the history of the trap.
TrapReturn ==
  /\ pc = Place("leave", 0)
  /\ LET o == regs.sp[2]
         r == Load(OfDay(day).load, frame[o], [regs EXCEPT !.mepc = hnd.epc])
     IN  /\ regs' = [r EXCEPT !.sp = Sp(r.sp[2], r.sp[3] - 1)]
         /\ pc' = r.mepc
         /\ frame' = [frame EXCEPT ![o] = [w \in DOMAIN @ |-> IF w < FrameWords THEN Junk ELSE @[w]]]
  /\ csr' = [csr EXCEPT !.mode = csr.mpp, !.mpp = "U", !.MIE = csr.mpie, !.mpie = TRUE]
  /\ hnd' = [epc |-> Place("os", 1), cause |-> 0]
  /\ hist' = [hist EXCEPT !.pc = Place("os", 1), !.regs = <<>>, !.word = Junk]
  /\ UNCHANGED <<day, ctx, dev, heap, cpu>>

-----------------------------------------------------------------------------
\* trap_handler(): the steps of a handler, and what follows step k.
StepsOf(h) == IF h = "timer_handler" THEN OfDay(day).handler.timer
              ELSE OfDay(day).handler.external

InHandler(h, op) == pc[2] = h /\ StepsOf(h)[pc[3]] = op
NextIn(h) == IF pc[3] < Len(StepsOf(h)) THEN Place(h, pc[3] + 1) ELSE Place("leave", 0)

\* Variant: the timer is not set again.
SetTickNot ==
  /\ InHandler("timer_handler", "mtimecmp")
  /\ pc' = NextIn("timer_handler")
  /\ UNCHANGED <<day, regs, csr, frame, ctx, hnd, dev, heap, cpu, hist>>

\* timer_handler() sets the next tick.  In day 6 it leaves the current process for
\* the system process; in a boot that has not come to set_cpu_proc() it writes
\* through the null pointer, which is a fault in the handler itself.
SetTick ==
  /\ InHandler("timer_handler", "mtimecmp")
  /\ dev' = [dev EXCEPT !.timer = "armed"]
  /\ pc' = NextIn("timer_handler")
  /\ UNCHANGED <<day, regs, csr, frame, ctx, hnd, heap, cpu, hist>>

TickSwitch ==
  /\ InHandler("timer_handler", "proc_exec")
  /\ cpu
  /\ pc' = Place("sys_switch", 1)
  /\ regs' = [regs EXCEPT !.ra = Place("leave", 0), !.a0 = Context("task"), !.a1 = Context("os")]
  /\ UNCHANGED <<day, csr, frame, ctx, hnd, dev, heap, cpu, hist>>

TickFaults ==
  /\ InHandler("timer_handler", "proc_exec")
  /\ ~cpu
  /\ pc' = Place("hang", 7)
  /\ UNCHANGED <<day, regs, csr, frame, ctx, hnd, dev, heap, cpu, hist>>

\* external_handler(): the claim, the loop of getchar() or virtio_disk_intr(), the
\* completion.  Of two interrupts with one priority the PLIC gives that with the lower
\* number, which is the disk's.
Claim ==
  /\ InHandler("external_handler", "claim")
  /\ dev' = [dev EXCEPT !.claimed = TRUE, !.disk = IF @ = "pending" THEN "claimed" ELSE @]
  /\ pc' = NextIn("external_handler")
  /\ UNCHANGED <<day, regs, csr, frame, ctx, hnd, heap, cpu, hist>>

NoCharacter ==
  /\ InHandler("external_handler", "status") /\ ~dev.dr
  /\ pc' = Place("external_handler", pc[3] + Len(getchar31))
  /\ UNCHANGED <<day, regs, csr, frame, ctx, hnd, dev, heap, cpu, hist>>

\* Variant: the status is not looked at.
HasCharacterBlind ==
  /\ InHandler("external_handler", "status")
  /\ pc' = NextIn("external_handler")
  /\ UNCHANGED <<day, regs, csr, frame, ctx, hnd, dev, heap, cpu, hist>>

HasCharacter ==
  /\ InHandler("external_handler", "status") /\ dev.dr
  /\ pc' = NextIn("external_handler")
  /\ UNCHANGED <<day, regs, csr, frame, ctx, hnd, dev, heap, cpu, hist>>

\* The first read is a comparison with the carriage return, which is echoed as a
\* line feed; any other character is read again.
ReadData ==
  /\ InHandler("external_handler", "data")
  /\ dev' = [dev EXCEPT !.dr = FALSE]
  /\ \/ pc' = NextIn("external_handler") /\ UNCHANGED hist
     \/ /\ pc' = Place("external_handler", pc[3] - 1)
        /\ hist' = [hist EXCEPT !.echoed = Append(@, dev.rbr)]
  /\ UNCHANGED <<day, regs, csr, frame, ctx, hnd, heap, cpu>>

ReadAgain ==
  /\ InHandler("external_handler", "data_again")
  /\ dev' = [dev EXCEPT !.dr = FALSE]
  /\ pc' = Place("external_handler", pc[3] - 2)
  /\ hist' = [hist EXCEPT !.echoed = Append(@, dev.rbr), !.raced = @ \/ dev.dr]
  /\ UNCHANGED <<day, regs, csr, frame, ctx, hnd, heap, cpu>>

\* Variant: the request is not marked as done.
VirtioDiskIntrNot ==
  /\ InHandler("external_handler", "virtio_disk_intr")
  /\ pc' = NextIn("external_handler")
  /\ UNCHANGED <<day, regs, csr, frame, ctx, hnd, dev, heap, cpu, hist>>

\* virtio_disk_intr(), if the interrupt that was claimed is the disk's.
VirtioDiskIntr ==
  /\ InHandler("external_handler", "virtio_disk_intr")
  /\ dev' = [dev EXCEPT !.disk = IF @ = "claimed" THEN "idle" ELSE @]
  /\ pc' = NextIn("external_handler")
  /\ UNCHANGED <<day, regs, csr, frame, ctx, hnd, heap, cpu, hist>>

Complete ==
  /\ InHandler("external_handler", "complete")
  /\ dev' = [dev EXCEPT !.claimed = FALSE]
  /\ pc' = NextIn("external_handler")
  /\ UNCHANGED <<day, regs, csr, frame, ctx, hnd, heap, cpu, hist>>

\* do_syscall() works on the frame: a7 is its word 16, a0 its word 9.  The return
\* address moves behind the ecall.
A0Word == 9
A7Word == 16

DoSyscall ==
  /\ pc = Place("do_syscall", 0)
  /\ LET o == regs.sp[2]
         service == ServiceOf(day)[frame[o][A7Word][3]]
         b == Min((1 .. 3) \ heap)
     IN  \/ /\ service = "malloc"
            /\ heap' = heap \cup {b}
            /\ frame' = [frame EXCEPT ![o][A0Word] = <<"block", "", b>>]
         \/ /\ service = "free"
            /\ heap' = {n \in heap : frame[o][A0Word] # <<"block", "", n>>}
            /\ frame' = [frame EXCEPT ![o][A0Word] = Number(0)]
  /\ hnd' = [hnd EXCEPT !.epc = Following(@)]
  /\ pc' = Place("leave", 0)
  /\ UNCHANGED <<day, regs, csr, ctx, dev, cpu, hist>>

Exception ==
  /\ pc = Place("exception", 0)
  /\ pc' = IF hnd.cause \in OfDay(day).handler.hangs THEN Place("hang", hnd.cause)
           ELSE Place("leave", 0)
  /\ UNCHANGED <<day, regs, csr, frame, ctx, hnd, dev, heap, cpu, hist>>

-----------------------------------------------------------------------------
\* The operations of the programs.  Control registers are out of reach outside
\* machine mode, and every page is out of reach of user mode.
Privileged == ToSet(switch_to_s_mode4)

Doing(op) ==
  /\ Ordinary /\ csr.mode # "U"
  /\ Op = op
  /\ csr.mode = "S" => op \notin Privileged

Onward == /\ pc' = Following(pc)
          /\ hist' = [hist EXCEPT !.ran = TRUE]

PlainOps == {"page_init", "vm_init", "virtio_disk_init", "proc_init", "print", "scratch"}

Plain ==
  /\ \E op \in PlainOps : Doing(op)
  /\ Onward
  /\ UNCHANGED <<day, regs, csr, frame, ctx, hnd, dev, heap, cpu>>

SetVector ==
  /\ Doing("mtvec") /\ Onward
  /\ csr' = [csr EXCEPT !.mtvec = TRUE]
  /\ UNCHANGED <<day, regs, frame, ctx, hnd, dev, heap, cpu>>

EnableInterrupts ==
  /\ Doing("MIE") /\ Onward
  /\ csr' = [csr EXCEPT !.MIE = TRUE]
  /\ UNCHANGED <<day, regs, frame, ctx, hnd, dev, heap, cpu>>

EnableSources ==
  /\ \/ Doing("MEIE") /\ csr' = [csr EXCEPT !.mie = @ \cup {"MEIE"}]
     \/ Doing("MTIE") /\ csr' = [csr EXCEPT !.mie = @ \cup {"MTIE"}]
     \/ Doing("MEIE_MTIE") /\ csr' = [csr EXCEPT !.mie = {"MEIE", "MTIE"}]
  /\ Onward
  /\ UNCHANGED <<day, regs, frame, ctx, hnd, dev, heap, cpu>>

SetUpDevice ==
  /\ \/ Doing("mtimecmp") /\ dev' = [dev EXCEPT !.timer = "armed"]
     \/ Doing("IER") /\ dev' = [dev EXCEPT !.ier = TRUE]
     \/ Doing("priority") /\ dev' = [dev EXCEPT !.plic = @ \cup {"priority"}]
     \/ Doing("enable") /\ dev' = [dev EXCEPT !.plic = @ \cup {"enable"}]
  /\ Onward
  /\ UNCHANGED <<day, regs, csr, frame, ctx, hnd, heap, cpu>>

\* virtio_disk_rw() notifies the disk, and waits as long as the request is not done.
RequestDisk ==
  /\ Doing("disk_request") /\ Onward
  /\ dev' = [dev EXCEPT !.disk = "busy"]
  /\ UNCHANGED <<day, regs, csr, frame, ctx, hnd, heap, cpu>>

WaitDisk ==
  /\ Doing("disk_wait")
  /\ \/ dev.disk = "idle" /\ Onward
     \/ dev.disk # "idle" /\ UNCHANGED pc /\ hist' = [hist EXCEPT !.ran = TRUE]
  /\ UNCHANGED <<day, regs, csr, frame, ctx, hnd, dev, heap, cpu>>

SetCpuProc ==
  /\ Doing("set_cpu_proc") /\ Onward
  /\ cpu' = TRUE
  /\ UNCHANGED <<day, regs, csr, frame, ctx, hnd, dev, heap>>

\* switch_to_s_mode().
WriteMepc ==
  /\ Doing("w_mepc") /\ Onward
  /\ regs' = [regs EXCEPT !.mepc = Place("os", pc[3] + Len(switch_to_s_mode4))]
  /\ UNCHANGED <<day, csr, frame, ctx, hnd, dev, heap, cpu>>

ReadMstatus ==
  /\ Doing("r_mstatus") /\ Onward
  /\ csr' = [csr EXCEPT !.tmp = [MIE |-> csr.MIE, mpie |-> csr.mpie]]
  /\ UNCHANGED <<day, regs, frame, ctx, hnd, dev, heap, cpu>>

WriteMstatus ==
  /\ Doing("w_mstatus") /\ Onward
  /\ csr' = [csr EXCEPT !.MIE = csr.tmp.MIE, !.mpie = csr.tmp.mpie, !.mpp = "S"]
  /\ UNCHANGED <<day, regs, frame, ctx, hnd, dev, heap, cpu>>

Mret ==
  /\ Doing("mret")
  /\ pc' = regs.mepc
  /\ csr' = [csr EXCEPT !.mode = csr.mpp, !.mpp = "U", !.MIE = csr.mpie, !.mpie = TRUE]
  /\ hist' = [hist EXCEPT !.ran = TRUE]
  /\ UNCHANGED <<day, regs, frame, ctx, hnd, dev, heap, cpu>>

Illegal ==
  /\ Ordinary
  /\ \/ csr.mode = "U" /\ Trap(regs, 12)
     \/ csr.mode = "S" /\ Op \in Privileged /\ Trap(regs, 2)
  /\ UNCHANGED <<day, ctx, dev, heap, cpu>>

\* sys_malloc() and sys_free(): the number goes to a7, the ecall traps.
SystemCall ==
  /\ \/ /\ Doing("malloc")
        /\ Trap([regs EXCEPT !.a7 = Number(NumberOf(day).malloc), !.a0 = <<"size", "", 3>>], 11)
     \/ /\ Doing("free")
        /\ Trap([regs EXCEPT !.a7 = Number(NumberOf(day).free)], 11)
  /\ UNCHANGED <<day, ctx, dev, heap, cpu>>

\* The call of sys_switch() with the other context, and its instructions.
CallSwitch ==
  /\ Doing("sys_switch")
  /\ pc' = Place("sys_switch", 1)
  /\ regs' = [regs EXCEPT !.ra = Following(pc), !.a0 = Context(pc[2]),
                          !.a1 = Context(IF pc[2] = "os" THEN "task" ELSE "os")]
  /\ hist' = [hist EXCEPT !.ran = TRUE]
  /\ UNCHANGED <<day, csr, frame, ctx, hnd, dev, heap, cpu>>

SwitchStep ==
  /\ pc[2] = "sys_switch"
  /\ LET save == sys_switch(day).save
         load == sys_switch(day).load
         k    == pc[3]
         n    == Len(save)
     IN  \/ /\ k <= n
            /\ ctx' = [ctx EXCEPT ![regs.a0[2]][save[k][2]] = regs[save[k][1]]]
            /\ pc' = Place("sys_switch", k + 1)
            /\ UNCHANGED regs
         \/ /\ k > n /\ k <= n + Len(load)
            /\ regs' = [regs EXCEPT ![load[k - n][1]] = ctx[regs.a1[2]][load[k - n][2]]]
            /\ pc' = Place("sys_switch", k + 1)
            /\ UNCHANGED ctx
         \/ /\ k > n + Len(load)
            /\ pc' = regs.ra
            /\ UNCHANGED <<regs, ctx>>
  /\ hist' = [hist EXCEPT !.ran = TRUE]
  /\ UNCHANGED <<day, csr, frame, hnd, dev, heap, cpu>>

-----------------------------------------------------------------------------
\* The devices.  A tick comes every 10^7 cycles, and 10^6 in day 6: the code that
\* is interrupted has gone on since the last one.
TimePasses ==
  /\ dev.timer = "armed" /\ hist.ran
  /\ pc[2] \notin {"end", "hang"}
  /\ dev' = [dev EXCEPT !.timer = "due"]
  /\ hist' = [hist EXCEPT !.ran = FALSE]
  /\ UNCHANGED <<day, pc, regs, csr, frame, ctx, hnd, heap, cpu>>

\* Without FIFO the receiver takes a character when the last one has been read.
Type ==
  /\ hist.typed < MaxTyped
  /\ ~dev.dr
  /\ dev' = [dev EXCEPT !.dr = TRUE, !.rbr = hist.typed + 1]
  /\ hist' = [hist EXCEPT !.typed = @ + 1]
  /\ UNCHANGED <<day, pc, regs, csr, frame, ctx, hnd, heap, cpu>>

\* The disk has done, or failed, the request, and raises its interrupt.
DiskAnswers ==
  /\ dev.disk = "busy"
  /\ dev' = [dev EXCEPT !.disk = "pending"]
  /\ UNCHANGED <<day, pc, regs, csr, frame, ctx, hnd, heap, cpu, hist>>

Handling == \/ SetTick \/ TickSwitch \/ TickFaults \/ Claim \/ NoCharacter \/ HasCharacter
            \/ ReadData \/ ReadAgain \/ VirtioDiskIntr \/ Complete \/ DoSyscall \/ Exception
            \/ TrapReturn

Step == \/ Plain \/ SetVector \/ EnableInterrupts \/ EnableSources \/ SetUpDevice
        \/ RequestDisk \/ WaitDisk \/ SetCpuProc
        \/ WriteMepc \/ ReadMstatus \/ WriteMstatus \/ Mret \/ Illegal \/ SystemCall
        \/ CallSwitch \/ SwitchStep

Hart == TakeInterrupt \/ Handling \/ Step

Next == Hart \/ TimePasses \/ Type \/ DiskAnswers

\* The hart runs, it takes an interrupt that stays pending between two
\* operations, time goes on, and the disk answers.
Spec ==
  /\ Init /\ [][Next]_vars
  /\ WF_vars(Hart) /\ SF_vars(TakeInterrupt) /\ WF_vars(TimePasses) /\ WF_vars(DiskAnswers)

-----------------------------------------------------------------------------
HandlerCode == {"timer_handler", "external_handler", "do_syscall", "exception", "leave", "hang"}

Values == {"pc", "sp", "reg", "ctx", "number", "junk", "own", "word", "block", "size"}

\* Type invariant.  The loops of days 3-2 and 3-3 free what they have allocated,
\* so there is never a second block.
TypeOK ==
  /\ day \in Days
  /\ pc[1] = "pc" /\ pc[2] \in Stacks \cup HandlerCode \cup {"sys_switch", "end"}
  /\ \A r \in DOMAIN regs : regs[r][1] \in Values
  /\ regs.sp[1] = "sp" /\ regs.sp[2] \in Stacks /\ regs.sp[3] \in 0 .. 1
  /\ csr.mode \in {"M", "S", "U"} /\ csr.mpp \in {"M", "S", "U"}
  /\ csr.mie \subseteq {"MEIE", "MTIE"}
  /\ \A o \in Stacks : \A w \in 0 .. FrameWords : frame[o][w][1] \in Values
  /\ dev.timer \in {"off", "armed", "due"} /\ dev.rbr \in 0 .. MaxTyped
  /\ dev.disk \in {"idle", "busy", "pending", "claimed"}
  /\ heap \subseteq {1}

\* The code that is interrupted cannot tell.  Wherever a trap is taken, also in
\* the middle of sys_switch, on the stack it has just changed to, or between a
\* system call and the use of its result, the mret leads back to the same place
\* in the same mode with every register as it was, and the word at the stack
\* pointer is as it was.  After a system call the place is the next one and a0 is
\* the result.  In day 6 the word takes the mepc that reg_save stores 256 bytes
\* above the frame.
InterruptInvisible ==
  [][ (pc = Place("leave", 0) /\ pc' # pc) =>
        /\ hnd.cause \notin {8, 9, 11} => pc' = hist.pc
        /\ hnd.cause \in {8, 9, 11} => pc' = Following(hist.pc)
        /\ csr'.mode = hist.mode
        /\ \A r \in Regs \cup {"satp"} :
             regs'[r] = hist.regs[r] \/ (r = "a0" /\ hnd.cause = 11)
        /\ hnd.cause = 11 => regs'.a0 \in {Number(0)} \cup {<<"block", "", n>> : n \in heap}
        /\ frame'[regs'.sp[2]][FrameWords] = IF day = "6" THEN hist.pc ELSE hist.word ]_vars

\* sys_switch keeps what a called function keeps: when os_main() runs, it has its
\* own stack pointer and its own saved registers, though user_task0() or a
\* process, interrupted or not, has run in between on another stack.
SwitchKeepsContext ==
  Ordinary => /\ regs.sp = Sp(pc[2], 0)
              /\ pc[2] = "os" => \A r \in Saved : regs[r] = Reg("os", r)

\* The kernel ends in while(1) of trap_handler() only when an interrupt came
\* between the write of mepc and the mret of switch_to_s_mode(), or a tick came
\* in day 6 before set_cpu_proc(); and every trap finds mtvec set: no order of
\* the init functions of any snapshot turns an interrupt on before it.
HangsOnlyIfDisturbed ==
  /\ pc[2] \in HandlerCode => csr.mtvec
  /\ pc[2] = "hang" => \/ hist.disturbed
                       \/ day = "6" /\ ~cpu /\ pc[3] = 7

\* The handler of this day fetches the characters.
Drains == "status" \in ToSet(OfDay(day).handler.external)

\* The characters reach the screen once each and in order, and none that has been
\* typed is missing unless one arrived between the two reads of getchar().
EchoedInOrder ==
  /\ \A j, k \in DOMAIN hist.echoed : j < k => hist.echoed[j] < hist.echoed[k]
  /\ (~hist.raced /\ Drains /\ ~InHandler("external_handler", "data_again")) =>
       Len(hist.echoed) + (IF dev.dr THEN 1 ELSE 0) = hist.typed

\* A character is waiting and the handler of this day does not fetch it: the
\* interrupt comes back as soon as it has been completed.
Storm == dev.dr /\ ~Drains /\ dev.ier

\* The kernel gets to its loop, past every wait for the disk that the test of the day
\* or fs_init() makes, and back to it after every interrupt, but for a hang and for a
\* storm of the UART.
LoopLives ==
  []<>(\/ Ordinary /\ pc[3] >= ProgramOf(pc[2]).loop
       \/ pc[2] \in {"end", "hang"}
       \/ Storm)

\* Each tick is served, and the timer set again, but for a hang or a storm.
TickServed ==
  (dev.timer = "due" /\ pc[2] # "hang")
     ~> (dev.timer = "armed" \/ pc[2] \in {"end", "hang"} \/ Storm)
=============================================================================
