# TLA+ models of the riscv64 study kernel

The repository is a series of snapshots of one small kernel for RISC-V, `day1-1` to `day6-process`;
each directory is the whole kernel as it was after that day. The last one, `day6-process`, is modelled in detail:
allocator, disk driver, file system, virtual memory, scheduler. What differs from day to day, how each of them boots, traps,
switches, allocates and prints, is modelled for every day. Paths below are relative to `day6-process/src` unless they
say otherwise.

## The system

| Component | Code | State | Operations |
|---|---|---|---|
| page allocator | `mem.c` | the table of `struct Page` at `HEAP_START`, one lock | `page_init`, `malloc`, `free` |
| virtual memory | `vm.c` | page tables of three levels | `walk`, `map_page`, `map_pages`, `vm_init` |
| disk driver | `virtio.c` | descriptors, avail and used ring, `info[]`, `vdisk_lock` | `virtio_disk_rw`, `virtio_disk_intr` |
| block i/o | `bio.c` | a `struct buf` for each call | `bread`, `bwrite`, `dalloc`, `dfree` |
| file system | `fs.c` | 2048 blocks of 1 KB: superblock, inodes, directory lists, data | `fs_create`, `fs_write`, `fs_read`, `fs_mkdir`, `fs_rm`, `fs_rmdir` |
| image builder | `mkfs/mkfs.c` | an image file | `main`, `addFile`, with the file system code on the host |
| processes, scheduler | `proc.c` | `processes[]`, `cpus[]`, `sched_lock`, a lock for each process | `create_proc`, `exec`, `proc_exec`, `scheduler` |
| context switch, trap entry | `sys.s` | contexts, trap frames on the stacks | `sys_switch`, `trap_vector` |
| traps, PLIC | `trap.c`, `plic.c` | control registers of the hart | `trap_init`, `trap_handler`, `external_handler` |
| timer | `timer.c` | `mtimecmp` | `timer_init`, `timer_handler` |
| system calls | `syscall.c`, `usys.s` | none | malloc, free, exit |
| boot | `os.c`, `bootloader.s`, `s_mode.h` | control registers of the hart | `os_main`, `boot`, `switch_to_s_mode` |
| spinlock | `lock.c` | one word | `lock_acquire`, `lock_free` |
| UART | `uart.c` | the receiver | `uart_init`, `getchar` |
| strings, printf | `string.c`, `printf.c` | the position of `strtok` | conversions and copies |

How they interact:

* `kernel_main` (supervisor mode) creates the processes, loads their programs (`exec` → `fs_read` →
  `bread` → `virtio_disk_rw`) and calls `scheduler()` for ever.
* `scheduler` takes `sched_lock` and the lock of a process and switches to it with both locks held. A
  timer interrupt, or `sys_exit`, switches back to the stack of the system process, where the same call
  of `scheduler` frees the locks.
* `virtio_disk_rw` hands a chain of three descriptors to the device and spins on `b->disk`. The device
  raises an interrupt; `trap_vector` → `trap_handler` → `external_handler` → `virtio_disk_intr`
  resets `b->disk` in the middle of that spin.
* Everything takes memory from `malloc`, in whole pages.

What is hard here: the interrupt handler shares the rings with the driver and the device; a context
switch happens in the middle of a trap handler, on a stack that is left behind with a frame on it; the
hart's `mstatus` and `mepc` are shared by all processes; interrupts can arrive in the scheduler itself;
locks are taken before a switch and freed after it. Every hazard is listed with its line and the
properties that cover it in `PROJECT.json`.

What makes each component correct:

* page allocator: blocks do not overlap, nothing is lost, a fresh page is zero, and `malloc` fails only
  when it must;
* disk driver: a call is one atomic access to the disk, the device never writes into memory that was
  given back, every request ends;
* scheduler and traps: each process gets the hart in turn for ever, resumes where it was interrupted, and
  the locks are where `scheduler` left them;
* file system: the blocks of the directory tree form a tree, every block is in it or free, and whatever
  becomes of a call, the files it is not about stay as they are;
* virtual memory: an address space is a partial map from pages to pages with permissions, a page keeps its first mapping,
  and no table is lost or shared;
* boot and traps: the vector is set before the first interrupt, an interrupt cannot be noticed by what it interrupts, and
  the kernel comes back to its loop after each;
* image builder: what was added is in the image as it was given;
* strings and printf: tokens are the names of the path, copies change the bytes they have to, a number is printed as
  what it is.

## The modules

| Module | What it is |
|---|---|
| `BlockStore` | abstract allocator: blocks that are handed out never overlap |
| `PageHeap` | `mem.c` |
| `PageHeapProofs` | theorems about `PageHeap` |
| `BlockDevice` | abstract disk: a call takes effect once, between its start and its end, or fails |
| `VirtioDisk` | `virtio.c`, `bread` and `bwrite`, the interrupt path, the device |
| `VirtioDiskProofs` | theorems about `VirtioDisk`, with its refinement of `BlockDevice` |
| `RoundRobin` | abstract scheduler: one process after the other |
| `Kernel` | `proc.c`, `timer.c`, `trap.c`, `sys.s`, `syscall.c`, `kernel_main` and the hart |
| `KernelProofs` | theorems about `Kernel`, with its refinement of `RoundRobin` |
| `DirectoryTree` | abstract file system: a tree of named objects in which a call takes effect as a whole |
| `FileSystem` | `fs.c`, with `dalloc` and `dfree` of `bio.c` |
| `FileSystemProofs` | theorems about `FileSystem`, with its refinement of `DirectoryTree` |
| `ImageBuilder` | `mkfs.c` on top of `FileSystem`, and the kernel that starts on the image or on a disk of zeros and may be switched off |
| `ImageBuilderProofs` | the theorem about `ImageBuilder`: what a crash leaves of the files |
| `AddressMap` | abstract address spaces: partial maps that only grow |
| `PageTable` | `vm.c` of days 4, 5 and 6, and the address spaces of `proc.c` |
| `PageTableProofs` | theorems about `PageTable`: what `map_pages` has done when it returns, and the refinement of `AddressMap` |
| `Frames` | the macros of `sys.s` of every day: which register goes to which word |
| `Days` | what every day executes when it boots, loops and handles a trap |
| `Snapshots` | a hart with timer, PLIC, UART and a disk to wait for that executes a day of `Days` with the stores and loads of `Frames` |
| `SnapshotsProofs` | theorems about `Snapshots` |
| `Printf`, `Strings`, `HeapDays` | `printf.c`, `string.c` and `mem.c` of every day |
| `Ranks` | the places of a format or a path in order |
| `LibraryProofs` | theorems about `HeapDays`, `Strings` and `Printf`, with lemmas about `Ranks` |
| `Library` | `Printf`, `Strings` and `HeapDays` together: one of them is active in a behaviour |
| `MC...` | values of constants and symmetry for TLC |

A definition called *Variant* in a module is a version of the code's step with a plausible mistake in it.
No specification uses it. It shows that the property next to it in `PROJECT.json` would notice.

### PageHeap

The table is the function `flag`; its indexes go beyond the heap by the constant `Gap`, because the inner
loop of `malloc` has no bound and reads on in the gap between the table and the page-aligned
`_alloc_start`. An action is one turn of a loop: `OuterLoop`, `InnerLoop`, `InnerBreak` and `OutOfMemory`
are the scan, `Mark` is the marking of the found entries, `Free`, `ClearPage` and `ClearLast` are the walk
of `free`. `ClearBehindTable` is what happens to a block that left the heap: the `ptr` of an entry behind the
table is 0, so `_clear` stores to address 0 and the machine stops. `Store` is any owner writing to its
block; `dirty` remembers it. `live` is the set of blocks that are handed out.

Only one call is in progress at a time. One hart runs, no interrupt handler calls `malloc` or `free`, and
a system call runs with interrupts off. `malloc(0)`, which writes the flag of an entry before the found
one, and `free` of an address that is no block are in `HeapDays`.

### VirtioDisk

Threads, the interrupt handler and the device take steps. A thread step is the code between two accesses
to memory that another actor uses; no thread moves while the handler runs, since there is one hart and
interrupts are off in the handler. In day 6 the only thread that uses the disk is `kernel_main`; the
driver has a lock for more, and two threads are checked. The device is modelled from what the driver
expects of it: it reads chains from the avail ring, executes or fails them, writes the status, adds to the
used ring and raises its interrupt, and it looks at the ring only after a notification. The interrupt
goes through a PLIC gateway (`claimed`) that stays closed until `plic_complete`.

A buffer is named by the thread whose call allocated it. `avail.idx`, `used.idx` and `usedIdx` wrap at
`IdxMod`, a multiple of `NUM` as 2^16 is a multiple of 8.

The refinement mapping to `BlockDevice` puts the effect of a call where the device writes the status
byte, not where the thread sees it: from then on a read's result is in `b->data` and on its way to the
caller.

### Kernel

The state is the hart (`mode`, `mie`, `mpie`, `mpp`, `mepc`, the stack `sp`, the label `pc`), the trap
frames and the local variables on each stack, and the process table with its locks. A saved context is a
stack, how many frames are open on it, and a label. Loading a context whose stack is in use by another
activation is the label `wild`: the model stops there and does not guess what two activations on one
stack do to each other.

`Interrupt` is enabled between any two steps when the hart allows it (`mode # "M" \/ mie`). In user
programs it may always arrive; the constants `KernelTicks` and `KernelIrqs` say whether the timer and
the devices may also interrupt the kernel itself. That separates what is true of the design from what is
true of the code as it runs: with `KernelTicks` the kernel can stop (see below).

A process runs in the mode it is switched to. The first process starts in supervisor mode, because
`kernel_main` runs there; after a tick the scheduler runs in machine mode. User mode is reached only by
mistake; no page is mapped for it, so its first fetch is a page fault, and the handler of a page fault is
`while(1)`.

`sys_exit` makes its process runnable again (`proc_exec` does that for every process it leaves), and the
trap it came from ends like any other: it returns to the `ecall`. The model does the same.

### FileSystem

The state is the disk, a function from block numbers to blocks of five kinds (zeros, superblock, inode, list,
data). A call of `fs.c` reads and computes freely but changes the disk only by `bwrite`, one block at a time;
the code is sequential, and in day 6 one thread uses it. So a call is one action that computes, from the disk it
finds, the list of its writes (`todo`), its return value and its output (`call`), and each write is then a
step of its own (`WriteBlock`). `Put` and `Dalloc` thread the disk and the list of writes through a call in the
order of the code; a block read back inside the call is the block it wrote. `goal` is a history variable: what
the disk means, as a tree of objects and as the set of blocks that are taken but no part of the tree, when
the writes are done. The refinement mapping to `DirectoryTree` reads it, and `WriteBlock` is a stutter.

Nothing tells `find_inode` that a block is no list block. On a path through a file it reads the file's first data block as
one and follows the block numbers that it finds in the data (`Beyond`): it may come to the end of some list, go round for ever, or find an
inode of the name that it looks for, which the call then reads, writes or removes. `Words` has the numbers that each content holds at these places. A
failing `bread` leaves the caller's buffer as it was (`ReadNext`), so a walk beyond the disk stays where it is and looks once
more at the inode that it saw last.

A call that loops for ever ends the model with `stop = "lost"`, once the writes that it has made are on the disk: `fs_rm` frees blocks until it comes to the broken
place of a chain. The null pointer of `fs_mkdir` ends it with `"fault"`. When a call has run out of blocks and the entries in front of the
broken place are then removed, the directory has no list block left at all, and what `fs_create` and `fs_mkdir` take for one is an
uninitialised variable: in such a directory (`Bare`) they may find the name, loop, or write their link to any block (`Tails`), which ends the model with `"wild"`;
`fs_rmdir` sees any flag there (`FirstFlag`). A path that looks for a name in a bare directory is a bound of the model: it is not followed.
Two more are in `AsList`: names are shorter than 14 characters, so that an inode read as a list block names block 0, and no data spells a name that is looked for.

The constant `Stress` says what may happen beside legal calls: a crash between two writes (`Crash` of `ImageBuilder`), a disk that runs full
in the middle of a call, a path that goes where its call does not expect, a creation in a bare directory. Each of them breaks a promise of the
code (see the disagreements), so the properties are checked with and without them.

Contents are sequences of chunks, one for each block; the part of a block that a short write leaves alone is not
modelled, and `fs_read` reads the whole file. `strtok` is abstracted to a sequence of names; names of 256 and more
characters, which `strncpy` would leave unterminated, are left out. The kernel itself only reads files (`exec`);
`mkfs` creates and writes them on the host with the same `fs.c` (see below).

A call is answered by a step of its own, `Answer`, after its last write, and only then comes the next call.

With `host` the same actions are `fs.c` as it runs inside of mkfs: there a write behind the last block makes the
image longer instead of failing (`PutHost`), and a free block is one of zeros (`FreeHost`).

### ImageBuilder

`main` formats the image and gives one file after the other to `addFile`, whose steps are `fs_create` (`Create`) and `fs_write`
(`Write`), with the writes of `FileSystem` between them. What they return is not looked at. Files are named by the last
component of their path, so a name may come again; a file that cannot be read is passed over. `added` remembers what was
given last under each name. `Boot` hands the image to the kernel, whose calls are `Next` of `FileSystem`.

### PageTable

Memory is an array of pages seen as tables of entries. `walk` is one action per level (`Descend`, `MakeTable`, `NoTable`),
`map_pages` one turn per page (`Refuse`, `Walk`, `NextPage`), and `Translate` is the hardware, which reads the same tables
without `walk`. The rest of the kernel takes pages from the same heap and gives them back (`Take`, `Give`), so `malloc` fails
at any point of a walk. `day` chooses among the three versions, which differ in what they map, in where the root table is
and in the order of the parameters of `map_pages`. The refinement mapping reads an address space with `Translate` on
every page: `AddressMap` speaks of maps and knows nothing of tables.

Addresses are counted in units of which `PGSIZE` make a page, so ranges start and end inside pages, as the stacks and
contexts that `create_proc` maps do. `missed` remembers the pages for which `malloc` failed.

### Frames, Days and Snapshots

`Days` has a definition per function and day: a function is the list of its writes to control registers and devices and of
its calls. A later day that carries a function over names the earlier one, so the differences can be read off: the order of
`trap_init` and `timer_init`, the getchar loop that is commented out on days 3-2, 3-3 and 5, the tick that switches on day 6.
`Frames` has the stores and loads of `sys.s`. `Snapshots` executes them: `regs` maps each register to a token that says whose
value it is (`<<"reg", "os", "s3">>`), and contexts and frames are words that hold such tokens, so a register that is
not saved, or loaded from the wrong word, is found wherever it is lost. An interrupt is taken between any two operations,
also between two instructions of `sys_switch`; a handler runs to its end with interrupts off, while the devices go on.

From day 5-1 on the kernel waits for its disk, in `fs_init` while it boots (days 5-3 and 5-4) and in the test with which `kernel_main`
begins: `RequestDisk` is the notification of `virtio_disk_rw`, `WaitDisk` its loop, `DiskAnswers` the device and `VirtioDiskIntr` the branch
of `external_handler`. What a request consists of is in `VirtioDisk`. The tests make between two and hundreds of requests, one after the other,
and `fs_init` one or, on a new disk, several; `Days` has two and one of them. A wait ends in the state in which the request began,
so more of them lead to no other states. The corresponding branch and waits of day 6 are in `Kernel` and `VirtioDisk`.

`trap_handler` may change every register that a called function may change (`Kept` are the others). The receiver of the
UART has one place, as without FIFO. On day 6 the interrupts between `set_cpu_proc` and the first process, and all that
follows the first return to the scheduler, are left to `Kernel`.

### Printf, Strings and HeapDays

These functions call nothing of the kernel, so they share a run (`Library`). `Printf` walks a format one turn of the loop at a
time; there are `IntHalf` negative ints and `LongHalf` negative long longs, and `Wrap` is what the negation of the least one does. `Strings` has
`strtok_r` one character at a time, called as `find_inode` calls it, with walks that are given up in the middle and others
that start while the static position still points into the old copy. `HeapDays` has whole calls of `malloc` and `free` of
every day, with every argument: 0, null, the inside of a page or of a block, a page that is free. A call that leaves the table
makes the state wild, which is where the model ends.

## What is checked

| Run | Bounds | States | Shows |
|---|---|---|---|
| `page_heap` | 4 pages, gap of 2, requests of 1 to 3 pages | 174 000 | safety, the search, `CallsEnd` and `BlockStore` |
| `page_heap_end` | same | | *violated*: `BlocksInHeap` |
| `virtio` | 2 threads, 2 blocks, 2 values, 3 descriptors; the second thread uses one of the blocks | 303 000 | safety, `HolderFinishes`, and `BlockDevice` |
| `kernel_quiet` | 3 processes, interrupts in user programs | 489 | `FramesBalanced`, `EveryProcessRuns`, `RoundRobin` |
| `kernel_noisy` | 2 processes, interrupts anywhere, failing loads, 2 nested traps | 1 million | `LockHandOff`, `StopsOnlyIfDisturbed` |
| `kernel_return` | 2 processes, no interrupts in the kernel | | *violated*, see below |
| `file_system` | 9 blocks, 2 names, paths of 2 names, files of up to 3 chunks of 2 kinds | 375 000 | `TreeSound`, `DirectoryTree` |
| `file_system_stress` | an image of 8 blocks with up to 3 files, then calls of the kernel; 2 names, 2 kinds of chunks, crashes, full disk, stray paths, no creation in a bare directory | 397 000 | the image holds what was added, other files are spared, no further blocks are lost |
| `file_system_full` | 8 blocks, 1 name, bare directories | | *violated*, see below |
| `page_table` | tables of 3 entries, 9 heap pages, kernel and 2 processes, 3 shapes of requests, one of them empty, 4 events | 332 000 | tables, ranges, and `AddressMap` |
| `snapshots` | 12 days, 2 characters typed, 2 or 3 requests to the disk on days 5 | 51 000 | traps, switches, boot, waits for the disk, ticks and characters |
| `library` | all formats of up to 3 characters and those of 4 over `%ldx`, ints of 5 and longs of 7 bits, paths and texts of a few characters, 4 pages | 147 000 | `PrintsFormat`, `TokensAreNames`, `StringsRight`, `HeapSound` |

Why the bounds are enough. Four pages hold a hole between two blocks, a hole that is too short, and a
request that runs over the end; the proofs remove this bound. Two threads are enough for one to use
descriptors and ring entries that the other has just given back, which is the only way requests
of different threads touch; three descriptors make every request use all of them again, in another order
than the one before, and indexes that wrap every third request wrap at every place of a request. Two processes already give a switch from one process
to another, three a turn that is not simply "the other one". `MaxNest`, the number of traps open on one
stack, is 2: an interrupt inside a handler. In `kernel_quiet` it is not reached, which `FramesBalanced` shows.

The file system needs 3 blocks when it is empty and 3 more for each file or directory: 9 hold two entries, so that
the first and the last one of a list are removed, in one directory or below each other, or a file
of three blocks. With 8 blocks the second entry is the one that fills the disk. The disk fills up in all of these
runs, since `fs_rmdir` loses a block each time.

Three files with two names give the builder a name that comes again, longer or shorter, and fill the eight blocks
with one left for an inode and none for its data, with two and none for the end of the list, and in the middle of a file.
There a content that is read as a list block names no inode on the disk and goes on at the first list block of the root directory: a path through
a file comes to the file itself, to another one, to the end of the list or nowhere. In `file_system` no path goes through a file.

Three entries in a
table make 27 pages of addresses at three levels: the ranges that the kernels map, scaled, lie in different tables, share
them, and cross from one to the next; the kernel, two processes and the rest of the kernel compete for nine pages, fewer than the
tables of all of them need, and four events (`MaxEvents`: pages taken or given back, and mappings asked for) let the heap
run out at any level of any walk and fill up again. A
tick and two characters in `snapshots` come at any moment, the tick again whenever the interrupted code has gone on;
with the second character one arrives between the two reads of `getchar`, and in the handler of the first. Four
characters hold the longest directive, `%lld`, or two short ones; three hold every way to cut one short, over the letters
that `printf` looks at and one it does not. A format that is one directive is printed with every value.

Deadlock is not checked in `page_table` (a null root table faults and the events are bounded), `snapshots` (a fault
ends in `while(1)`, a task may end) and `library` (a call ends), in `file_system_stress` (a crash, a loop without end or a fault is the last step, and the list of a full image may lead into data), in
`page_heap` (the machine stops when `free` clears behind the table), in `kernel_noisy` (it stops at an illegal
instruction or a page fault) and in the violated runs.

### Fairness

* `PageHeap`: weak fairness of the loops' steps. The hart executes the call it is in.
* `VirtioDisk`: strong fairness of the steps of a thread that has the lock, because the handler disables
  them again and again but the scheduler comes back to the thread; weak fairness of taking the lock, which
  promises nothing to a thread that finds it taken each time it looks; weak fairness of the device and
  of the handler, since an interrupt that is pending is taken.
* `Snapshots`: weak fairness of the hart, which executes; strong fairness of `TakeInterrupt`, because an interrupt that
  stays pending is taken between two operations although each operation disables that very step for a moment; weak
  fairness of `TimePasses`, since `mtime` runs on, and of `DiskAnswers`: the device answers each request, if only with an error. Nobody has to type.
* `Kernel`: weak fairness of execution, strong fairness of the timer. `timer_handler` sets `mtimecmp`
  each time and the interrupt stays pending while another one is served.

### Disagreements

* `BlocksInHeap`: `malloc(n)` with fewer than n entries left takes entries behind the table
  (`mem.c:51`). The block ends beyond `_alloc_end`.
* `ReturnsWhereHandlerSaid`: `reg_load` overwrites the `mepc` that `trap_vector` has just set
  (`sys.s:84` after `:152`). The `return_pc += 4` of a system call is lost and the `ecall` is executed again.
* `ReturnTellsEffect`: on a full disk `fs_create` and `fs_mkdir` return -6 and -7 ("Failed to update the parent directory",
  `fs.c:208`) although the directory names the new entry, and its list now leads to block 2048. `fs_write`
  returns 0 for data that went nowhere. The property also says that a creation that returns 0 adds something ("Step 6: Update the parent directory to
  include a reference to the new file", `fs.c:187`), which is wrong in a bare directory: the link goes to the block that lies on the stack. TLC
  shows it when only that clause is left; with the others, the shorter trace to the -6 comes first.

Seen on the way and not stated as runs; the properties named allow for each of them and for nothing else:

* scheduler (`StopsOnlyIfDisturbed`): a tick between `set_cpu_proc` and `sys_switch` (`proc.c:102`) saves the stack of
  the system process as the context of the chosen one; a tick in `kernel_main` before the first switch leaves the
  scheduler in supervisor mode, where the `csrw mtvec` of `trap_init` is illegal; `mstatus` is not in the frame, so a
  process may be resumed in another mode. `proc_exec` writes the state of the system process without its lock,
  although `proc.h:22` asks for it.
* boot (`HangsOnlyIfDisturbed`): on days 4 to 6 an interrupt between the write of `mepc` and the `mret` of
  `switch_to_s_mode` overwrites `mepc` and MPP, and the kernel ends in `while(1)` of a fault; on day 6 a tick before
  `set_cpu_proc` switches from a null process.
* UART (`LoopLives`, `TickServed`): on days 3-2, 3-3 and 5 nobody reads a character that was typed, so its interrupt comes
  back for ever. `getchar` reads the register twice (`uart.c:31`); a character that arrives in between replaces the
  first (`EchoedInOrder`).
* frame (`InterruptInvisible`): on day 6 `mepc` is stored above the frame, in the word of the interrupted code at its stack
  pointer, which the compiler happens not to use for long.
* image builder (`ImageHoldsFiles`): on an image without free blocks `dalloc` returns 2048 again and again, `fwrite` makes the
  image longer (`mkfs.c:46`), and the end of the root directory and the data of several files share that block; every call returns 0.
* allocator (`HeapSound`): `free` of day 3-3 keeps the lock when it refuses an address;
  `malloc(0)` hands out the first page whoever has it; the address behind the last page makes `free` leave the table.
* `printf` (`PrintsFormat`): a format that ends in `%` is read beyond its end; the least `long long` is
  printed with characters that are no digits; `%x` of a negative int has 16 digits from day 2-3 on.
* strings (`StringsRight`): `memcpy` of days 5-1 and 5-2 returns its source, not the copy as the standard library's does; nobody uses what it
  returns. `strdup` returns NULL without memory, and `find_inode` gives that to `strtok`, which goes on in the path of an earlier call.
* virtual memory: `map_pages` returns 0 whatever happened (`RangeServed`); a null root table is cleared like a page.
* file system (`FilesKept`): `fs_mkdir` tests `path` where it means `parentDir` and follows a null pointer (`fs.c:312`);
  `find_inode` reads the data of a file on the path as a directory list, and the call may write or remove the file that the numbers in it lead to; `fs_rmdir("/")` frees the root inode, after which
  every call is refused; a crash between the last two writes of `fs_create` leaves a list that ends in a block of
  flag 1 that refers to nothing.
* `bread` of day 5-2 returns 1 for success, and 0 from day 5-3 on; all callers follow.

`FilesKept` and `CrashKeepsFiles` are the other side of the file system's: wherever the data of a file leads a call, and if it never comes back,
it changes one file at most, and only `fs_write` and `fs_rm` change one. A creation in a bare directory keeps no such promise.

`StopsOnlyIfDisturbed` is the other side of the kernel's: the kernel stops only after an interrupt was taken
while the kernel itself ran.

## What is proved

`PageHeapProofs`, checked by TLAPS for every `NumPages > 0`, every `Gap` and every set of requests of 1 to
`Gap + 1` pages (the scan of such a request stays in the gap):

* `TypeCorrectness`, `Disjointness`, `FlagEncoding`, `FreshPagesZero`: the invariants of the run;
* `MallocFirstFit`, `MallocFailsWhenFull`, and with them `SearchIsRight`: the action property;
* `Refinement`: `PageHeap` implements `BlockStore`.

All rest on one inductive invariant, `IInv`. Disjointness alone is not inductive: when `malloc` marks a
block, it knows only that the flags it read were 0. So `IInv` adds that the flags encode the live blocks
(`FlagsEncodeLive`), and what each loop has established so far: in the scan, the entries from `start` to
`i - 1` are free and no place before `start` fits (`ScanOK`); in `free`, `i` is inside the victim
(`FreeingOK`). The zero pages need the encoding too, to know that a store goes to a page whose flag is set.
There is one lemma for each group of actions (`ScanStep`, `MarkStep`, `FreeStep`, `ClearStep`, `OtherStep`).

`LibraryProofs` about `HeapDays`, for every address and size of the heap, page size, entry size and length of requests, as long as the heap
has room for two pages:

* `HeapInvariant`: the inductive invariant;
* `PagesAlwaysFit`: the table and the pages of each version fit and are apart, also with the alignment of day 4 on;
* `HeapAlwaysSound`: blocks stay apart and the table describes them, whatever is passed to `free` except the inside of
  a block, until somebody calls `malloc(0)`;
* `HangNeedsRefusal`, a part of it: the lock is never waited for in vain but on day 3-3 after a refused `free`.

All rest on one inductive invariant, `Invariant`: blocks are inside the table and not empty as long as nothing was misused, the flags describe
them, and the lock is taken only in the version of day 3-3 with `refused` set. `Malloc` needs the flags to know that a free run belongs to
nobody, `FreePage` needs that a flag of 2 ends a block to know that the walk over the flags stops at its last page.
`Division` and `Layout` are the arithmetic of `page_init`.

`VirtioDiskProofs`, for every set of threads and blocks, every number of descriptors from three on (`virtio_disk_rw` takes
three) and every multiple of it at which the ring indexes wrap:

* `TypeCorrectness`, `NoDescriptorLost`, `BufferIsDevices`, `OneCompletion`: the invariants of the run `virtio`;
* `Refinement`: `VirtioDisk` implements `BlockDevice`.

They rest on one inductive invariant. Who may touch which descriptor is not said by any variable of the driver: it follows from how
far a request has come, and that follows from the distances between the four ring indexes. So `IInv` has one formula for each
stage, `Quiet`, `Published`, `Working` and `Answered`, which fixes the indexes, where the device and the handler may be, and whether an
interrupt is pending; `EntriesOK` says for each stage which ring entry names the chain and what its status byte is; `ChainOK`
says that the chain of the lock's holder is well formed and that all other descriptors are free. `Answered` has a case for the handler between its look at the
used ring and the acknowledgement: that is where the interrupt of an answer could be acknowledged away, and why `OneCompletion` is
no consequence of the other parts alone. That indexes which wrap at a multiple of `NUM` go on naming the next entry is `IndexFacts`; that
`alloc3_desc` finds three different descriptors is `ThreeFree`, from the well-foundedness of `<`. In the refinement the step
`DevTransfer` is the call's effect, or its failure, and every other step of driver, handler and device is a stutter, a call or its end.

`KernelProofs`, for every number of processes, every set of processes that make system calls, every `MaxNest`, and any choice of
`KernelTicks`, `KernelIrqs` and `LoadMayFail`:

* `TypeCorrectness`, `LocksHandedOff`, `StopsAreDisturbances`: the invariants, the last two with interrupts everywhere;
* `CalmFrames`: `FramesBalanced` holds until an interrupt comes while the kernel runs, and `FramesNeverPileUp`: always, when none may come.

The inductive invariant has to say what the code that is *not* running knows, since it runs again after a switch or a trap.
`KernelAt(l)` is what the scheduler, or `kernel_main`, knows at label `l`: the locks, the states, the cpu. `KernelOK` demands it for every label that
is `Pending`: the one that runs, and every one that a trap frame on the stack of the system process will go back to. `ContextsOK` says where each stack
that is not in use goes on: the system process behind its `sys_switch`, with no trap open; a process that has not run at its entry, a process
that has at the end of `timer_handler` or of `exit`, with a trap open. `ProcessOK` has the locks while a process's stack is in use.
`ExitOK` is the stretch of `exit` in which the process has no cpu but still its stack: it runs with interrupts on, so an
external interrupt may come in, or a tick that ends on a wrong stack. `CalmOK` is what an undisturbed hart adds: the mode before the first trap and after
it, and at most one frame on a stack. There is one lemma for each action, and a few for what actions have in common: pushing a
frame, popping it, a switch between stacks (`SwitchStack`, `SwitchWild`), a step inside a trap (`InsideStep`).

The refinement of `RoundRobin` is proved for every number of processes when no interrupt comes in the kernel and every program loads (`Quiet`, the constants of
`kernel_quiet`): `RoundRobinOrder`, the kernel implements `RoundRobin`. Without these hypotheses it does not: a process that was not loaded is passed over.
On top of `IInv` it needs that every process is runnable or runs once the scheduler has
the hart (`LoadedOK`), so that `Skip` happens to the system process only. `Switch` to a process is `Dispatch`, the switches of `timer_handler`
and `exit` are `TakeBack`, and the turn, which is computed from the loop variable and the label, is left alone by all other steps.

`PageTableProofs`, for every number of entries of a table from two on, every size of a page, every heap, every set
of processes, all requests, any place of the devices and each of the three versions of the code:

* `TypeCorrectness`, `TablesOnce`: the invariants of the run `page_table`;
* `RangesServed`: what `map_pages` has done when it returns;
* `TablesAreMaps`: `PageTable` implements `AddressMap`.

Nothing in memory says what level a table is of, and `walk` is right only because an entry of level `l` never leads to a table of
another level than `l - 1`. So the inductive invariant has `TreeOK`: there *is* a function that gives each page a level such that roots have 2, an
entry without permissions leads one level down and only entries at level 0 have permissions. It is existential, since the level of a table that `walk` makes
is what the call in progress decides; `NewRoot` and `MakeTableStep` give the next function. `NamedOnce` has each table at one place.
`TreeOK` also has that a page that is no table holds no valid entry, which is what `proc_init` needs when it takes a root
without clearing it: it rests on `free`, which clears what it gets back.
On top of that `MapInv` says that `walk` is on the way to its page (`PathOK`) and what has become of the pages of the call that have
had their turn (`ServedOK`). The refinement rests on three lemmas about what the hardware finds: `IndexesTell`, the three indexes of a page tell it from all
others below `MAXVA`; `WaysTell`, two ways to the same table of the lowest level are one way in one space; and from both `EnterFinds`, an
entry that `map_page` writes changes what is found for one page in one space and for no other. `MakeTableFinds` has that a new table changes nothing,
because it is clear and the entry that leads to it was not valid.

`LibraryProofs` about `Strings`, for all strings of any length over any characters (`Code` gives each its number), and any size of the array that is copied to;
`StringSpec` and `StrtokSpec` are the two parts of `Library` that `Strings` has:

* `StringsAreRight`: copies and scans of every version;
* `TokensAreTheNames`: `strtok_r` as `find_inode` calls it.

A call is at one byte, and its invariant has what it has done with those in front (`CopyOK`, `ScanOK`); that a copy of `strdup`, which looks
for the NUL in what it has written, ends at all where it should is a part of it. For `strtok_r` the invariant counts: as many tokens were handed out as names begin in front of
the position where the search goes on (`Before`), and from there on the copy still has the bytes of the path (`Same`). The NULs that were
written lie in front of it. `OneMoreBehind` has that exactly one name begins from the start of a token to its end, `TokenIsName` that what the
caller reads up to the new NUL is that name. No induction over strings is needed: each loop is a sequence of steps.

`LibraryProofs` about `Printf`, for every format, every version, every value, and all widths such that the negative ints divide the negative long longs (which powers of
two do); `PrintfSpec` is the part of `Library` that `Printf` has:

* `PrintfIsRight`: the walk, the arguments and the digits (`PrintsFormat`).

The walk has a step for each turn of the loop. Its invariant `InStep` is about formats in which every `%` begins a directive of the version: as many turns were made as
begin in front of the position, and each put out what it had to. `PlainTurn` has that the next turn begins behind a directive and nothing is skipped, and `Within` that
only the end of a format that cuts a directive is run over. The conversions are not steps but functions, and `Quotients` and `ValueOf` are defined
by recursion. What they are is proved without induction over data: by the least number for which it fails (`LeastIsIn`, from the well-foundedness of the
numbers; `Climbs`). `Iterates` has that the recursion of `Quotients` defines something, `QuotientsEnd` that the loop
of `print_int` ends, `DigitsAreNumeral` that Horner's scheme goes back through the same quotients, and `RemainderTwice` that what `%x` prints of a
negative int ends in the digits of the int.

`SnapshotsProofs`, for every set of the twelve days and any number of typed characters:

* `TypeCorrect`, `SwitchRight`, `HangsRight`, `EchoRight`: the invariants of the run `snapshots`;
* `Invisible`: the action property `InterruptInvisible`.

They rest on one inductive invariant, `Inv`. The code on a stack may be stopped anywhere, by a trap or in the middle of `sys_switch`, and what it finds when it
goes on depends on what was stored meanwhile. So `CodeInv` says what the code relies on at each place, for the place and the registers of the code that runs or,
in a trap, of the code that was interrupted: `OsAt` and `TaskAt` in the two programs, `Leaving` and `Returning` in `sys_switch`, with the words that its first `k` instructions have stored or loaded.
`SavedInv` says what a trap has stored of these registers: all words of the frame (`FrameHolds`), but for `a0` of a system call that has been served.
Together they give `Restores`, that `reg_load` and `mret` bring back what was there, and the invariant of the
return is then the one of the entry. `SwitchKeepsContext` alone is not inductive: it says nothing of the words in `ctx` and `frame` on which it depends.
`VectorInv` is why no interrupt comes before `mtvec` (the place is at most the one of the write, and interrupts are off), `ModeInv` why `mret` goes to S-mode, and why nothing is illegal, unless an
interrupt came in between; `HeapInv` what `free` gets, which is what `malloc` has returned through the frame; `EchoInv` where the characters are between the two reads of `getchar`.

The programs of the days are data, and differ. The proofs use only their `Shape`: a boot of `BootLen` operations that writes `mtvec` in front of the first `MIE`, then what the
day ends with: a loop that prints, a loop of system calls, a switch of stacks, a switch to S-mode, or on day 6 both. `Shapes` proves it of each day, `Switches`
that the loads of each `sys_switch` find the words of its stores, `Stores` and `Loads` what the macros of trap entry move. Then there is one lemma for each action; `TrapInv` is what interrupts,
exceptions and system calls have in common.

`FileSystemProofs`, for every disk of at least four blocks, any names, contents and sizes of files and any depth of paths, under the hypothesis `Calm`:
no call comes upon a disk that runs full in its middle, no path leads through a file, `fs_mkdir` is not called below a directory that does not exist and `fs_rmdir` not for the root
(`Stress` has neither `"full"` nor `"stray"`, as in the run `file_system`); no directory is bare then. What data means as a list, `Words`, is arbitrary. A disk that is full when a call starts is included, and so is a call that finds one
block for its inode and none for the rest:

* `TypeCorrect`, `TreesSound`: the invariants of the run `file_system`;
* `PromiseKept`: `FileSystem` implements `DirectoryTree`;
* `FilesStay`: the action property `FilesKept`, which the run `file_system_stress` checks without the hypothesis;
* `BlocksKept`: the action property `OnlyRmdirLoses`.

Without `Calm` neither is the tree sound nor is the promise kept, as the disagreements show: on a full disk a list leads out of it, a null pointer is followed. What the code
does then is in the runs `file_system_stress` and `file_system_full`.

Nothing on the disk says where an inode's blocks end but the blocks themselves, so soundness in terms of walks along the disk cannot be carried from one write to the next.
The proof turns it round. A layout (`Layout`) gives each inode its blocks, its entries and its data as sequences, each inode but the root one parent,
a level one below that parent's, and no block to two; `Holds(d, G)` says what the disk `d` has in each of these blocks. The inductive invariant `IInv` is that there *is* a layout,
and that the writes still to be made (`todo`) lead to a disk that holds it and whose objects and lost blocks are those of `goal` (`Settled`, `Aim`, `Reaches`): between two writes of a call the disk itself
holds no layout. The lemmas then have three parts. What the operators find on a disk that holds a layout is what the layout says: walks
and chains (`AlongIs`, `WalkIs`), the tree and its objects (`TreeIs`, `ObjectsIs`), the search for a name and a path, which gives the same answer as the one in
`DirectoryTree`. What each call writes leads to a disk that holds another layout: a new entry, in the last list block, whose successor becomes the last
(`fs_create`, `fs_mkdir`); a file with more blocks, by an invariant of the loop of `fs_write` from turn to turn; a list with one entry less, at its head or behind
another (`fs_rm`, `fs_rmdir`), and the blocks of a file given back while they are still read. And the objects of that layout are those that `DirectoryTree` has after the
same call. That `dalloc` hands out no block of the layout is what keeps `BlocksOnce`: every block of a layout has a flag that is not 0 on the disk that holds it.
The levels are why the tree is found in `Depth` turns, and why no directory is below itself. On a disk with a layout
the lost blocks are those with a flag that the layout does not own (`LostIs`), so what a call loses is what it takes and its layout does not get (`Spills`): nothing, or
the one block that `OnlyRmdirLoses` names. `fs_write` never gives a block back, and `fs_rm` gives back those of the file, however many. Recursive functions, over the blocks of a list or the chunks of a file,
are handled as in `Printf`: by the least number for which the claim fails.

`ImageBuilderProofs`, for the same disks and under the same hypothesis: `CrashSafe`, that is `CrashKeepsFiles` for a kernel that starts on a disk of zeros
and is switched off between any two writes.
In the middle of a call the disk holds no layout, so the conjunct `Safe` of `IInv` speaks of every disk that the writes still to be made lead through: it spares
(`Sparing`) the files that the call is not about. `Around(G, x)` are the disks on which the layout `G` can be read but for the object `x`: what
does not belong to a layout may hold anything, and a list may end in a block that refers to nothing. A disk around the old layout or around the new one
spares the files, and each call changes sides with one write: `fs_create` and `fs_mkdir` write the inode and its blocks
before the entry that leads to them, `fs_write` rewrites the blocks of its own file only, `fs_rm` and `fs_rmdir` link past an entry, and what they have freed
before belongs to the object that goes. The objects in `goal` are those of the finished call, so the file of a creation counts as changed until its entry is
written, that of `fs_write` until its last block is, and that of `fs_rm` never.

Each invariant was first checked with TLC: that of `VirtioDisk` with four descriptors, two threads and indexes that wrap at 8 (803 000 states), that
of `Kernel` with everything allowed for two processes and two nested traps (3.3 million states), one process and three, and three processes and one,
that of `PageTable` with the levels as a function of the state for three events (95 000 states), that of `Snapshots` on all twelve days with two typed characters (51 000 states).

Only model-checked:

* the liveness properties `CallsEnd`, `HolderFinishes`, `EveryProcessRuns`, `LoopLives` and `TickServed`: liveness under
  fairness is beyond the prover;
* the file system under stress: what a call leaves on a disk that runs full, in a directory without a list, or on a path through a file;
* `CrashKeepsFiles` of a kernel that starts on a built image, and `ImageHoldsFiles`: on the host the disk grows with a write behind its end, and the image
  runs full in the middle of calls.

## What is not modelled

PMP setup and the virtio feature negotiation: registers written once, without a state the properties could tell apart.
The text that is printed, and ELF beyond "is a program or not". `virtio.c` of days 5 and
`fs.c` of days 5-3 and 5-4, which differ from day 6 in layout, includes and prints only. The amoswap of `lock.c`, which is one
instruction. Memory ordering: the driver has full barriers at each hand-over, and the model is sequentially
consistent. Several harts: `bootloader.s` parks all but the first.

Some hazards of the list really happen, and the properties that name them except just these: the endless list after a crash in `fs_create` (`CrashKeepsFiles`
spares the files, not the call), `malloc(0)` and `free` inside a block (`HeapSound`), the word above the frame on day 6 (`InterruptInvisible`), an interrupt inside
`switch_to_s_mode` and a tick before `set_cpu_proc` (`HangsOnlyIfDisturbed`), the storm of the UART (`LoopLives`, `TickServed`), a character
between the two reads of `getchar` (`EchoedInOrder`) and a format that ends in a directive (`PrintsFormat`). They are listed above as disagreements,
and their notes in `PROJECT.json` say which part a property leaves.

Two hazards have no property: the memory that `bread` and `find_inode` keep when a request or a search fails, since memory is no part of the disk
model, and a crash inside `fs_rm`, since the file system's model ends at a crash. A next step would be the restart: the calls
of `fs.c` on a disk that a crash left behind; then `Kernel` and `VirtioDisk`
together, the disk wait of `exec` with ticks.
