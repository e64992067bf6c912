-------------------------------- MODULE Days --------------------------------
(***************************************************************************)
(* What each snapshot of the kernel, from day 2-1 to day 6, executes when  *)
(* it boots, loops and handles a trap: os.c, trap.c, timer.c, plic.c,      *)
(* uart.c, syscall.c, usys.s and s_mode.h, and the requests of virtio.c,   *)
(* one group of definitions per file, with a suffix for the day.  A        *)
(* function is the list of its writes to control registers and devices and *)
(* of its calls, in the order of the source.  A later snapshot that        *)
(* carries a function over names the one it repeats.                       *)
(***************************************************************************)
EXTENDS Frames

-----------------------------------------------------------------------------
\* uart.c: the line control does not matter, the interrupt enable does.
uart_init31 == <<"IER">>
uart_init32 == uart_init31
uart_init33 == uart_init31
uart_init4  == uart_init31
uart_init51 == uart_init31
uart_init52 == uart_init31
uart_init53 == uart_init31
uart_init54 == uart_init31
uart_init6  == uart_init31

\* getchar(): the status, and the data, twice.
getchar31 == <<"status", "data", "data_again">>
getchar4  == getchar31
getchar6  == getchar31

\* timer.c.  The scratch area is set up and never used.
timer_init22 == <<"mtimecmp", "mtvec", "MIE", "MTIE">>
timer_init23 == <<"mtimecmp", "scratch", "MTIE">>
timer_init31 == <<"mtimecmp", "scratch">>
timer_init32 == timer_init31
timer_init33 == timer_init31
timer_init4  == timer_init31
timer_init51 == timer_init31
timer_init52 == timer_init31
timer_init53 == timer_init31
timer_init54 == timer_init31
timer_init6  == timer_init31

timer_handler22 == <<"mtimecmp">>
timer_handler23 == timer_handler22
timer_handler31 == timer_handler22
timer_handler32 == timer_handler22
timer_handler33 == timer_handler22
timer_handler4  == timer_handler22
timer_handler51 == timer_handler22
timer_handler52 == timer_handler22
timer_handler53 == timer_handler22
timer_handler54 == timer_handler22
timer_handler6  == <<"mtimecmp", "proc_exec">>

\* plic.c.
plic_init31 == <<"priority", "enable">>
plic_init32 == plic_init31
plic_init33 == plic_init31
plic_init4  == plic_init31
plic_init51 == <<"priority", "enable", "enable", "priority">>
plic_init52 == plic_init51
plic_init53 == plic_init51
plic_init54 == plic_init51
plic_init6  == plic_init51

-----------------------------------------------------------------------------
\* trap.c.
\* Day 4 sets the vector, the interrupt sources and the enable bit of supervisor mode
\* as well (trap.c:6, :9, :12).  Nothing is delegated to that mode, so they have no
\* effect and are left out.
trap_init23 == <<"mtvec", "MIE">>
trap_init31 == <<"mtvec", "MEIE", "MTIE", "MIE">>
trap_init32 == trap_init31
trap_init33 == trap_init31
trap_init4  == <<"mtvec", "MEIE_MTIE", "MIE">>
trap_init51 == trap_init31
trap_init52 == trap_init31
trap_init53 == trap_init31
trap_init54 == trap_init31
\* Variant: interrupts are enabled before the vector is set.
trap_init6Late == <<"MEIE_MTIE", "MIE", "mtvec">>
trap_init6  == trap_init4

\* The loop of getchar() is commented out in some snapshots.  From day 5-1 on there is
\* a branch for the disk.  That of day 6 is left out: its kernel asks the disk between
\* set_cpu_proc() and the first switch, which is the subject of Kernel and VirtioDisk.
external_handler31 == <<"claim">> \o getchar31 \o <<"complete">>
external_handler32 == <<"claim", "complete">>
external_handler33 == external_handler32
external_handler4  == <<"claim">> \o getchar4 \o <<"complete">>
external_handler51 == <<"claim", "virtio_disk_intr", "complete">>
external_handler52 == external_handler51
external_handler53 == external_handler51
external_handler54 == external_handler51
external_handler6  == <<"claim">> \o getchar6 \o <<"complete">>

\* trap_handler(): the handlers of the two interrupts, the exceptions that are
\* system calls, and those that end in while(1).
Handler(timer, external, syscalls, hangs) ==
  [timer |-> timer, external |-> external, syscalls |-> syscalls, hangs |-> hangs]

Causes == 0 .. 15
trap_handler23 == Handler(timer_handler23, <<>>, {}, Causes)
trap_handler31 == Handler(timer_handler31, external_handler31, {}, Causes)
trap_handler32 == Handler(timer_handler32, external_handler32, {8, 11}, {})
trap_handler33 == Handler(timer_handler33, external_handler33, {8, 11}, {})
trap_handler4  == Handler(timer_handler4, external_handler4, {8, 9, 11}, Causes \ {8, 9, 11})
trap_handler51 == Handler(timer_handler51, external_handler51, {8, 9, 11}, {2, 5, 7, 12, 13})
trap_handler52 == Handler(timer_handler52, external_handler52, {8, 9, 11}, {2, 5, 7, 12, 13})
trap_handler53 == Handler(timer_handler53, external_handler53, {8, 9, 11}, {2, 5, 7, 12, 13})
trap_handler54 == Handler(timer_handler54, external_handler54, {8, 9, 11}, {2, 5, 7, 12, 13})
trap_handler6  == Handler(timer_handler6, external_handler6, {8, 9, 11}, {2, 5, 7, 12, 13})

\* Day 2-1 has no traps.  In day 2-2 the vector is sys_timer, which calls timer_handler() for every trap.
NoHandler   == Handler(<<>>, <<>>, {}, {})
sys_timer22 == Handler(timer_handler22, <<>>, {}, {})

\* syscall.c and usys.s: the function of a number, and the number of a function.
do_syscall32 == <<"malloc", "free">>
do_syscall33 == do_syscall32
usys32 == [malloc |-> 1, free |-> 2]
usys33 == usys32

-----------------------------------------------------------------------------
\* s_mode.h.
switch_to_s_mode4  == <<"w_mepc", "r_mstatus", "w_mstatus", "mret">>
switch_to_s_mode51 == switch_to_s_mode4
switch_to_s_mode52 == switch_to_s_mode4
switch_to_s_mode53 == switch_to_s_mode4
switch_to_s_mode54 == switch_to_s_mode4
switch_to_s_mode6  == switch_to_s_mode4

\* virtio.c: a request, and the loop that waits for virtio_disk_intr() to say it is done.
virtio_disk_rw51 == <<"disk_request", "disk_wait">>
virtio_disk_rw52 == virtio_disk_rw51
virtio_disk_rw53 == virtio_disk_rw51
virtio_disk_rw54 == virtio_disk_rw51

\* bio.c and fs.c, as requests to the disk.  fs_init() reads block 0, and formats a new
\* disk; kernel_main() begins with a test.  They make two requests or more, one after
\* the other, fs_init() one or more: two and one stand for any number.
fs_init53 == virtio_disk_rw53
fs_init54 == virtio_disk_rw54

test_virtio_disk51 == virtio_disk_rw51 \o virtio_disk_rw51
test_bio52 == virtio_disk_rw52 \o virtio_disk_rw52
test_fs53  == virtio_disk_rw53 \o virtio_disk_rw53
dump_fs54  == virtio_disk_rw54 \o virtio_disk_rw54

\* A program: its operations one after the other, the last ones, from place loop
\* on, for ever.
Program(boot, rest) == [text |-> boot \o rest, loop |-> Len(boot) + 1, endless |-> rest # <<>>]

\* os.c: boot() or the first lines of os_main(), on days 5-1 to 5-4 the test of
\* kernel_main(), and the endless loop.
os21 == Program(<<"page_init", "sys_switch">>, <<"print">>)
os22 == Program(<<"page_init">> \o timer_init22 \o <<"sys_switch">>, <<"print">>)
os23 == Program(<<"page_init">> \o trap_init23 \o timer_init23, <<"print">>)
os31 == Program(uart_init31 \o <<"page_init">> \o trap_init31 \o timer_init31 \o plic_init31,
                <<"print">>)
os32 == Program(uart_init32 \o <<"page_init">> \o trap_init32 \o timer_init32 \o plic_init32,
                <<"malloc", "free">>)
os33 == Program(uart_init33 \o <<"page_init">> \o trap_init33 \o timer_init33 \o plic_init33,
                <<"malloc", "free">>)
os4  == Program(uart_init4 \o <<"page_init">> \o trap_init4 \o timer_init4 \o plic_init4
                  \o <<"vm_init">> \o switch_to_s_mode4, <<"print">>)
os51 == Program(uart_init51 \o <<"page_init">> \o trap_init51 \o timer_init51 \o plic_init51
                  \o <<"vm_init", "virtio_disk_init">> \o switch_to_s_mode51 \o test_virtio_disk51,
                <<"print">>)
os52 == Program(uart_init52 \o <<"page_init">> \o trap_init52 \o timer_init52 \o plic_init52
                  \o <<"vm_init", "virtio_disk_init">> \o switch_to_s_mode52 \o test_bio52,
                <<"print">>)
os53 == Program(uart_init53 \o <<"page_init">> \o trap_init53 \o timer_init53 \o plic_init53
                  \o <<"vm_init", "virtio_disk_init">> \o fs_init53 \o switch_to_s_mode53
                  \o test_fs53, <<"print">>)
os54 == Program(uart_init54 \o <<"page_init">> \o trap_init54 \o timer_init54 \o plic_init54
                  \o <<"vm_init", "virtio_disk_init">> \o fs_init54 \o switch_to_s_mode54
                  \o dump_fs54, <<"print">>)
os6  == Program(<<"page_init">> \o uart_init6 \o timer_init6 \o trap_init6 \o plic_init6
                  \o <<"vm_init", "virtio_disk_init", "proc_init", "set_cpu_proc">>
                  \o switch_to_s_mode6 \o <<"sys_switch">> \o trap_init6, <<>>)

\* user_task0() switches back; a process of day 6 computes for ever.
user_task0_21 == Program(<<"print", "sys_switch">>, <<>>)
user_task0_22 == Program(<<"print", "sys_switch">>, <<>>)
user_main6    == Program(<<>>, <<"print">>)
NoTask        == Program(<<>>, <<>>)

\* The snapshots, put together.
Snapshot(os, task, handler, save, load) ==
  [os |-> os, task |-> task, handler |-> handler, save |-> save, load |-> load]

AllDays == {"2-1", "2-2", "2-3", "3-1", "3-2", "3-3", "4", "5-1", "5-2", "5-3", "5-4", "6"}

OfDay(d) ==
  CASE d = "2-1" -> Snapshot(os21, user_task0_21, NoHandler, <<>>, <<>>)
    [] d = "2-2" -> Snapshot(os22, user_task0_22, sys_timer22, reg_save22, reg_load22)
    [] d = "2-3" -> Snapshot(os23, NoTask, trap_handler23, reg_save23, reg_load23)
    [] d = "3-1" -> Snapshot(os31, NoTask, trap_handler31, reg_save31, reg_load31)
    [] d = "3-2" -> Snapshot(os32, NoTask, trap_handler32, reg_save32, reg_load32)
    [] d = "3-3" -> Snapshot(os33, NoTask, trap_handler33, reg_save33, reg_load33)
    [] d = "4"   -> Snapshot(os4,  NoTask, trap_handler4,  reg_save4,  reg_load4)
    [] d = "5-1" -> Snapshot(os51, NoTask, trap_handler51, reg_save51, reg_load51)
    [] d = "5-2" -> Snapshot(os52, NoTask, trap_handler52, reg_save52, reg_load52)
    [] d = "5-3" -> Snapshot(os53, NoTask, trap_handler53, reg_save53, reg_load53)
    [] d = "5-4" -> Snapshot(os54, NoTask, trap_handler54, reg_save54, reg_load54)
    [] d = "6"   -> Snapshot(os6,  user_main6, trap_handler6, reg_save6, reg_load6)

\* do_syscall() and the stubs, where a loop makes system calls.
ServiceOf(d) == IF d = "3-3" THEN do_syscall33 ELSE do_syscall32
NumberOf(d)  == IF d = "3-3" THEN usys33 ELSE usys32

\* The instructions of sys_switch.
sys_switch(d) ==
  CASE d = "2-1" -> [save |-> ctx_save21, load |-> ctx_load21]
    [] d = "2-2" -> [save |-> ctx_save22, load |-> ctx_load22]
    [] OTHER     -> [save |-> ctx_save6, load |-> ctx_load6]
=============================================================================
