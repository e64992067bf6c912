----------------------------- MODULE VirtioDisk -----------------------------
(***************************************************************************)
(* The disk driver, day6-process/src/virtio.c, with its callers bread()    *)
(* and bwrite() of bio.c, the part of trap.c and plic.c that brings the    *)
(* completion interrupt to it, and the device at the other end of the      *)
(* rings.                                                                  *)
(*                                                                         *)
(* Three kinds of actors.  Threads call bread() and bwrite().  The handler *)
(* of the external interrupt preempts them: one hart runs, with interrupts *)
(* off in the handler, so no thread moves until it returns.  The device    *)
(* reads and writes memory at any time.  A thread step is the code between *)
(* two accesses to memory that the device or the handler reads as well.    *)
(*                                                                         *)
(* A buffer is named by the thread whose call allocated it.  A descriptor  *)
(* is reduced to its chain (more, next) and to the buffer it points to, if *)
(* it points to one.                                                       *)
(***************************************************************************)
EXTENDS Integers, FiniteSets

CONSTANTS
  Threads,    \* kernel threads that use the disk
  BlockNos,   \* blocks of the disk
  BlocksOf,   \* the blocks that each thread reads and writes
  Block0,     \* the block number 0
  Values,     \* what a block can hold
  Zeros,      \* a block of zeros
  NUM,        \* number of descriptors and of entries of each ring
  IdxMod,     \* where the 16-bit ring indexes wrap: 2^16 in the code
  NoThread    \* "no thread": a null buffer pointer, a free lock

ASSUME NUMAssumption == NUM \in Nat /\ NUM >= 3
ASSUME IdxModAssumption == IdxMod \in Nat \ {0} /\ IdxMod % NUM = 0
ASSUME ZerosAssumption == Zeros \in Values /\ Block0 \in BlockNos
ASSUME BlocksOfAssumption == BlocksOf \in [Threads -> SUBSET BlockNos]
ASSUME NoThreadAssumption == NoThread \notin Threads

VARIABLES
  \* the threads
  pc,         \* where each thread is in bread() or bwrite()
  write,      \* argument of the call
  blockno,    \* b->blockno
  mem,        \* the caller's block of memory
  data,       \* b->data
  owned,      \* b->disk = 1: the disk owns the buffer
  successful, \* b->successful
  ok,         \* the latest call has returned and reported success
  head,       \* idx[0]
  \* struct disk and the rings
  lock,       \* vdisk_lock: its holder
  free,       \* descriptors that are free
  desc,       \* the descriptor table
  ops,        \* command headers
  infoB,      \* info[].b
  status,     \* info[].status: 255 not answered, 0 success, 1 failure
  avail,      \* avail ring: its entries and its idx
  used,       \* used ring: its entries and its idx
  usedIdx,    \* disk.used_idx
  \* the interrupt path
  handler,    \* where external_handler() is; "none" when it is not running
  seen,       \* InterruptStatus as the handler read it
  isr,        \* the device's InterruptStatus
  claimed,    \* the PLIC waits for the completion of the interrupt
  \* the device
  dev,        \* what it does next
  devHead,    \* head of the chain it works on
  lastAvail,  \* how far it has read the avail ring
  notified,   \* QueueNotify was written since it last found the ring empty
  store       \* contents of the disk

threadVars == <<pc, write, blockno, mem, data, owned, successful, ok, head>>
ringVars   == <<lock, free, desc, ops, infoB, status, avail, used, usedIdx>>
irqVars    == <<handler, seen, isr, claimed>>
devVars    == <<dev, devHead, lastAvail, notified, store>>
vars == <<threadVars, ringVars, irqVars, devVars>>

Descs == 0 .. NUM - 1
NoDesc == [buf |-> NoThread, more |-> FALSE, next |-> 0]

\* Variant: the index does not wrap.
SuccNoWrap(n) == n + 1

\* An index of a ring after its increment.
Succ(n) == (n + 1) % IdxMod

-----------------------------------------------------------------------------
\* virtio_disk_init()
Init ==
  /\ pc = [t \in Threads |-> "idle"]
  /\ write = [t \in Threads |-> FALSE]
  /\ blockno = [t \in Threads |-> Block0]
  /\ mem = [t \in Threads |-> Zeros]
  /\ data = [t \in Threads |-> Zeros]
  /\ owned = [t \in Threads |-> FALSE]
  /\ successful = [t \in Threads |-> FALSE]
  /\ ok = [t \in Threads |-> FALSE]
  /\ head = [t \in Threads |-> 0]
  /\ lock = NoThread
  /\ free = Descs
  /\ desc = [d \in Descs |-> NoDesc]
  /\ ops = [d \in Descs |-> [write |-> FALSE, blockno |-> Block0]]
  /\ infoB = [d \in Descs |-> NoThread]
  /\ status = [d \in Descs |-> 0]
  /\ avail = [ring |-> [d \in Descs |-> 0], idx |-> 0]
  /\ used = [ring |-> [d \in Descs |-> 0], idx |-> 0]
  /\ usedIdx = 0
  /\ handler = "none"
  /\ seen = FALSE
  /\ isr = FALSE
  /\ claimed = FALSE
  /\ dev = "idle"
  /\ devHead = 0
  /\ lastAvail = 0
  /\ notified = FALSE
  /\ store \in [BlockNos -> Values]

-----------------------------------------------------------------------------
\* A thread runs when no handler does.
At(t, l) == handler = "none" /\ pc[t] = l
Goto(t, l) == pc' = [pc EXCEPT ![t] = l]

\* bread() up to the lock: the buffer comes out of fresh, zeroed pages.
CallRead(t, n) ==
  /\ At(t, "idle")
  /\ write' = [write EXCEPT ![t] = FALSE]
  /\ blockno' = [blockno EXCEPT ![t] = n]
  /\ ok' = [ok EXCEPT ![t] = FALSE]
  /\ Goto(t, "acquire")
  /\ UNCHANGED <<mem, data, owned, successful, head, ringVars, irqVars, devVars>>

\* bwrite() up to the lock: the block v of the caller is copied into the buffer.
CallWrite(t, n, v) ==
  /\ At(t, "idle")
  /\ write' = [write EXCEPT ![t] = TRUE]
  /\ blockno' = [blockno EXCEPT ![t] = n]
  /\ mem' = [mem EXCEPT ![t] = v]
  /\ data' = [data EXCEPT ![t] = v]
  /\ ok' = [ok EXCEPT ![t] = FALSE]
  /\ Goto(t, "acquire")
  /\ UNCHANGED <<owned, successful, head, ringVars, irqVars, devVars>>

Acquire(t) ==
  /\ At(t, "acquire")
  /\ lock = NoThread
  /\ lock' = t
  /\ Goto(t, "alloc")
  /\ UNCHANGED <<write, blockno, mem, data, owned, successful, ok, head,
                 free, desc, ops, infoB, status, avail, used, usedIdx,
                 irqVars, devVars>>

LowestFree(S) == CHOOSE d \in S : \A e \in S : d <= e

\* alloc3_desc() takes the three lowest free descriptors (it gives back what it
\* took and is called again when there are fewer), and the chain is written
\* into them: the command, the buffer, the status byte.
AllocAndFormat(t) ==
  /\ At(t, "alloc")
  /\ Cardinality(free) >= 3
  /\ LET d0 == LowestFree(free)
         d1 == LowestFree(free \ {d0})
         d2 == LowestFree(free \ {d0, d1})
     IN  /\ free' = free \ {d0, d1, d2}
         /\ head' = [head EXCEPT ![t] = d0]
         /\ ops' = [ops EXCEPT ![d0] = [write |-> write[t], blockno |-> blockno[t]]]
         /\ desc' = [desc EXCEPT ![d0] = [buf |-> NoThread, more |-> TRUE, next |-> d1],
                                 ![d1] = [buf |-> t, more |-> TRUE, next |-> d2],
                                 ![d2] = NoDesc]
         /\ status' = [status EXCEPT ![d0] = 255]
  /\ Goto(t, "record")
  /\ UNCHANGED <<write, blockno, mem, data, owned, successful, ok,
                 lock, infoB, avail, used, usedIdx, irqVars, devVars>>

\* Variant: the buffer is not entered in info[].
RecordWithoutInfo(t) ==
  /\ At(t, "record")
  /\ owned' = [owned EXCEPT ![t] = TRUE]
  /\ avail' = [avail EXCEPT !.ring[avail.idx % NUM] = head[t]]
  /\ Goto(t, "publish")
  /\ UNCHANGED <<write, blockno, mem, data, successful, ok, head,
                 lock, free, desc, ops, infoB, status, used, usedIdx, irqVars, devVars>>

\* The buffer is handed over to the disk.
Record(t) ==
  /\ At(t, "record")
  /\ owned' = [owned EXCEPT ![t] = TRUE]
  /\ infoB' = [infoB EXCEPT ![head[t]] = t]
  /\ avail' = [avail EXCEPT !.ring[avail.idx % NUM] = head[t]]
  /\ Goto(t, "publish")
  /\ UNCHANGED <<write, blockno, mem, data, successful, ok, head,
                 lock, free, desc, ops, status, used, usedIdx, irqVars, devVars>>

Publish(t) ==
  /\ At(t, "publish")
  /\ avail' = [avail EXCEPT !.idx = Succ(@)]
  /\ Goto(t, "notify")
  /\ UNCHANGED <<write, blockno, mem, data, owned, successful, ok, head,
                 lock, free, desc, ops, infoB, status, used, usedIdx, irqVars, devVars>>

Notify(t) ==
  /\ At(t, "notify")
  /\ notified' = TRUE
  /\ Goto(t, "wait")
  /\ UNCHANGED <<write, blockno, mem, data, owned, successful, ok, head,
                 ringVars, irqVars, dev, devHead, lastAvail, store>>

\* Variant: free_chain() takes the next index after free_desc() has reset it.
ChainAfterReset(d) == {d}

\* The descriptors of the chain that starts at d: every chain is built of three.
\* free_chain() reads the next index of a descriptor before free_desc() resets it.
Follow(d) == IF desc[d].more THEN {desc[d].next} ELSE {}
Chain(d) == {d} \cup Follow(d) \cup UNION {Follow(e) : e \in Follow(d)}

\* The busy wait ends: the buffer is the caller's again and the chain is freed.
FreeChain(t) ==
  /\ At(t, "wait")
  /\ ~owned[t]
  /\ infoB' = [infoB EXCEPT ![head[t]] = NoThread]
  /\ free' = free \cup Chain(head[t])
  /\ desc' = [d \in Descs |-> IF d \in Chain(head[t]) THEN NoDesc ELSE desc[d]]
  /\ Goto(t, "release")
  /\ UNCHANGED <<write, blockno, mem, data, owned, successful, ok, head,
                 lock, ops, status, avail, used, usedIdx, irqVars, devVars>>

Release(t) ==
  /\ At(t, "release")
  /\ lock' = NoThread
  /\ Goto(t, "return")
  /\ UNCHANGED <<write, blockno, mem, data, owned, successful, ok, head,
                 free, desc, ops, infoB, status, avail, used, usedIdx,
                 irqVars, devVars>>

\* The rest of bread() and bwrite(): a read that succeeded is copied out, and the
\* buffer is gone (bread() keeps the one of a failed read for ever; the next call
\* has a fresh one in either case).
Return(t) ==
  /\ At(t, "return")
  /\ ok' = [ok EXCEPT ![t] = successful[t]]
  /\ mem' = [mem EXCEPT ![t] = IF successful[t] /\ ~write[t] THEN data[t] ELSE @]
  /\ write' = [write EXCEPT ![t] = FALSE]
  /\ blockno' = [blockno EXCEPT ![t] = Block0]
  /\ data' = [data EXCEPT ![t] = Zeros]
  /\ successful' = [successful EXCEPT ![t] = FALSE]
  /\ Goto(t, "idle")
  /\ UNCHANGED <<owned, head, ringVars, irqVars, devVars>>

-----------------------------------------------------------------------------
\* The device takes the next chain of the avail ring ...
DevTake ==
  /\ dev = "idle" /\ notified
  /\ lastAvail # avail.idx
  /\ devHead' = avail.ring[lastAvail % NUM]
  /\ lastAvail' = Succ(lastAvail)
  /\ dev' = "transfer"
  /\ UNCHANGED <<threadVars, ringVars, irqVars, notified, store>>

\* ... or goes to sleep until the next notification.
DevSleep ==
  /\ dev = "idle" /\ notified
  /\ lastAvail = avail.idx
  /\ notified' = FALSE
  /\ UNCHANGED <<threadVars, ringVars, irqVars, dev, devHead, lastAvail, store>>

\* The buffer the second descriptor of the chain points to.
DevBuffer == desc[desc[devHead].next].buf

\* The command is executed, or fails and moves no data; the status is written.
DevTransfer(s) ==
  /\ dev = "transfer"
  /\ LET op == ops[devHead]
     IN  /\ store' = IF s = 0 /\ op.write
                     THEN [store EXCEPT ![op.blockno] = data[DevBuffer]] ELSE store
         /\ data' = IF s = 0 /\ ~op.write
                    THEN [data EXCEPT ![DevBuffer] = store[op.blockno]] ELSE data
  /\ status' = [status EXCEPT ![devHead] = s]
  /\ dev' = "used"
  /\ UNCHANGED <<pc, write, blockno, mem, owned, successful, ok, head,
                 lock, free, desc, ops, infoB, avail, used, usedIdx,
                 irqVars, devHead, lastAvail, notified>>

DevUsed ==
  /\ dev = "used"
  /\ used' = [ring |-> [used.ring EXCEPT ![used.idx % NUM] = devHead],
              idx  |-> Succ(used.idx)]
  /\ dev' = "raise"
  /\ UNCHANGED <<threadVars, lock, free, desc, ops, infoB, status, avail, usedIdx,
                 irqVars, devHead, lastAvail, notified, store>>

DevRaise ==
  /\ dev = "raise"
  /\ isr' = TRUE
  /\ dev' = "idle"
  /\ UNCHANGED <<threadVars, ringVars, handler, seen, claimed,
                 devHead, lastAvail, notified, store>>

-----------------------------------------------------------------------------
\* The interrupt line of the device is up and the PLIC is not waiting for a
\* completion: the hart traps, and external_handler() claims the interrupt.
Claim ==
  /\ handler = "none"
  /\ isr /\ ~claimed
  /\ claimed' = TRUE
  /\ handler' = "status"
  /\ UNCHANGED <<threadVars, ringVars, seen, isr, devVars>>

\* Variant: the interrupt is not acknowledged.
AckNothing ==
  /\ handler = "ack"
  /\ handler' = "loop"
  /\ UNCHANGED <<threadVars, ringVars, isr, seen, claimed, devVars>>

\* virtio_disk_intr() reads InterruptStatus and acknowledges what it read ...
ReadStatus ==
  /\ handler = "status"
  /\ seen' = isr
  /\ handler' = "ack"
  /\ UNCHANGED <<threadVars, ringVars, isr, claimed, devVars>>

Ack ==
  /\ handler = "ack"
  /\ isr' = (isr /\ ~seen)
  /\ handler' = "loop"
  /\ UNCHANGED <<threadVars, ringVars, seen, claimed, devVars>>

\* ... and takes the entries off the used ring.
UsedHead == used.ring[usedIdx % NUM]

\* Variant: the status is not looked at.
TakeUsedBlind ==
  /\ handler = "loop"
  /\ usedIdx # used.idx
  /\ LET b == infoB[UsedHead]
     IN  /\ successful' = [successful EXCEPT ![b] = TRUE]
         /\ owned' = [owned EXCEPT ![b] = FALSE]
  /\ usedIdx' = Succ(usedIdx)
  /\ UNCHANGED <<pc, write, blockno, mem, data, ok, head,
                 lock, free, desc, ops, infoB, status, avail, used, irqVars, devVars>>

\* Variant: used_idx is not moved on.
TakeUsedStays ==
  /\ handler = "loop"
  /\ usedIdx # used.idx
  /\ LET b == infoB[UsedHead]
     IN  /\ successful' = [successful EXCEPT ![b] = (status[UsedHead] = 0)]
         /\ owned' = [owned EXCEPT ![b] = FALSE]
  /\ UNCHANGED <<pc, write, blockno, mem, data, ok, head,
                 lock, free, desc, ops, infoB, status, avail, used, usedIdx, irqVars, devVars>>

TakeUsed ==
  /\ handler = "loop"
  /\ usedIdx # used.idx
  /\ LET b == infoB[UsedHead]
     IN  /\ successful' = [successful EXCEPT ![b] = (status[UsedHead] = 0)]
         /\ owned' = [owned EXCEPT ![b] = FALSE]
  /\ usedIdx' = Succ(usedIdx)
  /\ UNCHANGED <<pc, write, blockno, mem, data, ok, head,
                 lock, free, desc, ops, infoB, status, avail, used, irqVars, devVars>>

UsedEmpty ==
  /\ handler = "loop"
  /\ usedIdx = used.idx
  /\ handler' = "complete"
  /\ UNCHANGED <<threadVars, ringVars, seen, isr, claimed, devVars>>

Complete ==
  /\ handler = "complete"
  /\ claimed' = FALSE
  /\ handler' = "none"
  /\ UNCHANGED <<threadVars, ringVars, seen, isr, devVars>>

-----------------------------------------------------------------------------
\* A call that has started goes on.
ThreadStep(t) ==
  \/ AllocAndFormat(t) \/ Record(t) \/ Publish(t) \/ Notify(t)
  \/ FreeChain(t) \/ Release(t) \/ Return(t)

Device == DevTake \/ DevSleep \/ (\E s \in {0, 1} : DevTransfer(s)) \/ DevUsed \/ DevRaise

Handler == Claim \/ ReadStatus \/ Ack \/ TakeUsed \/ UsedEmpty \/ Complete

Next ==
  \/ \E t \in Threads :
       \/ \E n \in BlocksOf[t] : CallRead(t, n)
       \/ \E n \in BlocksOf[t], v \in Values : CallWrite(t, n, v)
       \/ Acquire(t)
       \/ ThreadStep(t)
  \/ Device
  \/ Handler

Spec == Init /\ [][Next]_vars

\* The scheduler goes round over the threads, so a thread that can go on whenever
\* the handler is not running does go on; a thread that spins on the lock may
\* miss every moment the lock is free.  The device serves its queue, and an
\* interrupt that stays pending is taken.
FairSpec ==
  /\ Spec
  /\ \A t \in Threads : SF_vars(ThreadStep(t)) /\ WF_vars(Acquire(t))
  /\ WF_vars(Device)
  /\ WF_vars(Handler)

-----------------------------------------------------------------------------
Requests == {"record", "publish", "notify", "wait"}

TypeOK ==
  /\ pc \in [Threads -> {"idle", "acquire", "alloc", "release", "return"} \cup Requests]
  /\ write \in [Threads -> BOOLEAN]
  /\ blockno \in [Threads -> BlockNos]
  /\ mem \in [Threads -> Values] /\ data \in [Threads -> Values]
  /\ owned \in [Threads -> BOOLEAN]
  /\ successful \in [Threads -> BOOLEAN]
  /\ ok \in [Threads -> BOOLEAN]
  /\ head \in [Threads -> Descs]
  /\ lock \in Threads \cup {NoThread}
  /\ free \subseteq Descs
  /\ desc \in [Descs -> [buf : Threads \cup {NoThread}, more : BOOLEAN, next : Descs]]
  /\ ops \in [Descs -> [write : BOOLEAN, blockno : BlockNos]]
  /\ infoB \in [Descs -> Threads \cup {NoThread}]
  /\ status \in [Descs -> {0, 1, 255}]
  /\ avail \in [ring : [Descs -> Descs], idx : 0 .. IdxMod - 1]
  /\ used \in [ring : [Descs -> Descs], idx : 0 .. IdxMod - 1]
  /\ usedIdx \in 0 .. IdxMod - 1
  /\ handler \in {"none", "status", "ack", "loop", "complete"}
  /\ seen \in BOOLEAN /\ isr \in BOOLEAN /\ claimed \in BOOLEAN
  /\ dev \in {"idle", "transfer", "used", "raise"}
  /\ devHead \in Descs
  /\ lastAvail \in 0 .. IdxMod - 1
  /\ notified \in BOOLEAN
  /\ store \in [BlockNos -> Values]

\* A descriptor is taken exactly while it is in the chain of the thread that
\* holds the lock: no descriptor is lost over any number of requests, so
\* alloc3_desc(), which has nobody to wait for, never fails.
DescriptorsAccounted ==
  /\ \A t \in Threads : pc[t] \in Requests => /\ lock = t
                                              /\ Cardinality(Chain(head[t])) = 3
  /\ Descs \ free =
       UNION {Chain(head[t]) : t \in {u \in Threads : pc[u] \in Requests}}

\* While a chain is with the device or on its way back (from the publication of
\* its head to the moment the handler takes it off the used ring), its thread is
\* still in virtio_disk_rw() and the buffer belongs to the disk: the device never
\* writes into a buffer that bread() has already given back to malloc(), and the
\* handler finds the buffer of every entry of the used ring in info[].
WithDevice == (avail.idx - usedIdx) % IdxMod

DeviceOwnsBuffer ==
  /\ WithDevice \in {0, 1}
  /\ WithDevice = 1 =>
       \E t \in Threads : /\ pc[t] \in {"notify", "wait"} /\ owned[t]
                          /\ desc[desc[head[t]].next].buf = t
                          /\ infoB[head[t]] = t
                          /\ dev # "idle" => devHead = head[t]
                          /\ usedIdx # used.idx => UsedHead = head[t]

\* Each interrupt the handler claims brings exactly one completion: the interrupt
\* for nothing that a comment in virtio_disk_intr() calls harmless cannot occur
\* with the lock held from end to end of a request.
OneCompletionPerInterrupt ==
  handler \in {"status", "ack"} => used.idx = Succ(usedIdx)

\* A thread that gets the lock finishes its call: the completion interrupt is
\* never lost between the device, the PLIC and the handler.
HolderFinishes ==
  \A t \in Threads : lock = t ~> pc[t] = "idle"

-----------------------------------------------------------------------------
\* The call has taken effect, or has failed.
Served(t) ==
  \/ pc[t] \in {"release", "return"}
  \/ pc[t] \in Requests /\ status[head[t]] # 255

Succeeded(t) ==
  IF pc[t] \in Requests THEN status[head[t]] = 0 ELSE successful[t]

\* The call as its caller sees it.
ClientOf(t) ==
  [st      |-> IF pc[t] = "idle" THEN "idle" ELSE IF Served(t) THEN "done" ELSE "pending",
   write   |-> write[t],
   blockno |-> blockno[t],
   mem     |-> IF Served(t) /\ Succeeded(t) /\ ~write[t] THEN data[t] ELSE mem[t],
   ok      |-> IF Served(t) THEN Succeeded(t) ELSE ok[t]]

\* Driver, handler and device together are the disk that BlockDevice promises.
Promise == INSTANCE BlockDevice WITH client <- [t \in Threads |-> ClientOf(t)]

ImplementsBlockDevice == Promise!Spec
=============================================================================
