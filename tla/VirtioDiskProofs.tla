-------------------------- MODULE VirtioDiskProofs --------------------------
(***************************************************************************)
(* Proofs about VirtioDisk, for every set of threads, every contents of    *)
(* the disk, every number of descriptors from three on and every multiple  *)
(* of it at which the ring indexes wrap.                                   *)
(***************************************************************************)
EXTENDS VirtioDisk, FiniteSetTheorems, WellFoundedInduction, TLAPS

\* The chain of a request: command, buffer, status byte.
Second(t) == desc[head[t]].next
Third(t) == desc[Second(t)].next

\* The lock is held from the first descriptor taken to the last one freed.
LockOK ==
  \A t \in Threads : lock = t <=> pc[t] \in Requests \cup {"alloc", "release"}

\* The chain of the request under way is well formed, and takes the descriptors
\* that are not free.
ChainOK ==
  /\ \A t \in Threads : pc[t] \in Requests =>
       /\ head[t] # Second(t) /\ head[t] # Third(t) /\ Second(t) # Third(t)
       /\ desc[head[t]].more
       /\ desc[Second(t)].more /\ desc[Second(t)].buf = t
       /\ desc[Third(t)] = NoDesc
       /\ Descs \ free = {head[t], Second(t), Third(t)}
       /\ ops[head[t]] = [write |-> write[t], blockno |-> blockno[t]]
       /\ pc[t] # "record" => infoB[head[t]] = t
  /\ (\A t \in Threads : pc[t] \notin Requests) => free = Descs

-----------------------------------------------------------------------------
\* The stages of a request, by the indexes of the rings.  Nothing is published:
Quiet ==
  /\ avail.idx = usedIdx /\ lastAvail = usedIdx /\ used.idx = usedIdx
  /\ dev = "idle"
  /\ ~isr /\ handler \in {"none", "loop", "complete"}

\* a chain is published and the device has not seen it,
Published ==
  /\ avail.idx = Succ(usedIdx) /\ lastAvail = usedIdx /\ used.idx = usedIdx
  /\ dev = "idle"
  /\ ~isr /\ handler = "none"

\* the device works on it,
Working ==
  /\ avail.idx = Succ(usedIdx) /\ lastAvail = avail.idx /\ used.idx = usedIdx
  /\ dev \in {"transfer", "used"}
  /\ ~isr /\ handler = "none"

\* it is on the used ring, and the handler has not taken it off.
Answered ==
  /\ avail.idx = Succ(usedIdx) /\ lastAvail = avail.idx /\ used.idx = avail.idx
  /\ \/ dev = "raise" /\ ~isr /\ handler = "none"
     \/ dev = "idle" /\ isr /\ handler \in {"none", "status"}
     \/ dev = "idle" /\ isr /\ seen /\ handler = "ack"
     \/ dev = "idle" /\ ~isr /\ handler = "loop"

StageOK == Quiet \/ Published \/ Working \/ Answered

\* Outside these labels of its call a thread has nothing published.
StageOfThread ==
  /\ ~Quiet => \E t \in Threads : pc[t] \in {"notify", "wait"}
  /\ \A t \in Threads : owned[t] =>
       \/ pc[t] = "publish"
       \/ pc[t] \in {"notify", "wait"} /\ ~Quiet
  /\ \A t \in Threads : pc[t] \in {"notify", "wait"} /\ ~Quiet => owned[t]
  /\ \A t \in Threads : pc[t] = "publish" => owned[t]

\* The entries of the rings and the status byte, stage by stage.
EntriesOK ==
  \A t \in Threads :
    /\ pc[t] = "record" => status[head[t]] = 255
    /\ pc[t] = "publish" =>
         status[head[t]] = 255 /\ avail.ring[avail.idx % NUM] = head[t]
    /\ pc[t] \in {"notify", "wait"} =>
         /\ Quiet => /\ status[head[t]] # 255
                     /\ successful[t] = (status[head[t]] = 0)
         /\ Published => /\ status[head[t]] = 255
                         /\ avail.ring[lastAvail % NUM] = head[t]
         /\ Working => /\ devHead = head[t]
                       /\ (status[head[t]] = 255) <=> (dev = "transfer")
         /\ Answered => /\ status[head[t]] # 255
                        /\ dev = "raise" => devHead = head[t]
                        /\ UsedHead = head[t]

\* A write that has not taken effect still has the caller's block to write.
BufferOK ==
  \A t \in Threads : write[t] /\ pc[t] # "idle" => data[t] = mem[t]

IInv ==
  /\ TypeOK
  /\ LockOK
  /\ ChainOK
  /\ StageOK
  /\ StageOfThread
  /\ EntriesOK
  /\ BufferOK

-----------------------------------------------------------------------------
\* The least element that CHOOSE names exists: < is well founded.
LEMMA LowestFreeIsFree ==
  ASSUME NEW S \in SUBSET Descs, S # {}
  PROVE  LowestFree(S) \in S
<1>1. S \subseteq Nat
  BY NUMAssumption DEF Descs
<1>2. PICK d \in S : \A e \in S : ~ (<<e, d>> \in OpToRel(<, Nat))
  BY <1>1, WFMin, NatLessThanWellFounded
<1>3. \A e \in S : ~ (e < d)
  BY <1>1, <1>2 DEF OpToRel
<1>4. \A e \in S : d <= e
  BY <1>1, <1>3
<1> QED BY <1>4 DEF LowestFree

\* An index of a ring stays one, moves on, and names an entry.
LEMMA IndexFacts ==
  ASSUME NEW n \in 0 .. IdxMod - 1
  PROVE  /\ Succ(n) \in 0 .. IdxMod - 1
         /\ Succ(n) # n
         /\ (Succ(n) - n) % IdxMod = 1
         /\ (n - n) % IdxMod = 0
         /\ n % NUM \in Descs
<1>1. IdxMod >= 3
  <2>1. IdxMod >= NUM
    BY NUMAssumption, IdxModAssumption
  <2> QED BY <2>1, NUMAssumption, IdxModAssumption
<1>2. n % NUM \in Descs
  BY NUMAssumption, IdxModAssumption DEF Descs
<1>3. CASE n = IdxMod - 1
  <2>1. Succ(n) = 0
    BY <1>1, <1>3, IdxModAssumption DEF Succ
  <2>2. (0 - n) % IdxMod = 1
    BY <1>1, <1>3, IdxModAssumption
  <2> QED BY <1>1, <1>2, <1>3, <2>1, <2>2, IdxModAssumption
<1>4. CASE n < IdxMod - 1
  <2>1. Succ(n) = n + 1
    BY <1>1, <1>4, IdxModAssumption DEF Succ
  <2>2. ((n + 1) - n) % IdxMod = 1
    BY <1>1, IdxModAssumption
  <2> QED BY <1>1, <1>2, <1>4, <2>1, <2>2, IdxModAssumption
<1> QED BY <1>3, <1>4, IdxModAssumption

\* A set of three different things has three elements.
LEMMA CardinalityThree ==
  ASSUME NEW a, NEW b, NEW c, a # b, a # c, b # c
  PROVE  Cardinality({a, b, c}) = 3
<1>1. IsFiniteSet({a}) /\ Cardinality({a}) = 1
  BY FS_Singleton
<1>2. IsFiniteSet({a} \cup {b}) /\ Cardinality({a} \cup {b}) = 2
  BY <1>1, FS_AddElement
<1>3. Cardinality({a} \cup {b} \cup {c}) = 3
  BY <1>2, FS_AddElement
<1>4. {a, b, c} = {a} \cup {b} \cup {c}
  OBVIOUS
<1> QED BY <1>3, <1>4

\* alloc3_desc() finds three different descriptors when three are free.
LEMMA ThreeFree ==
  ASSUME NEW S \in SUBSET Descs, Cardinality(S) >= 3
  PROVE  LET d0 == LowestFree(S)
             d1 == LowestFree(S \ {d0})
             d2 == LowestFree(S \ {d0, d1})
         IN  /\ d0 \in S /\ d1 \in S /\ d2 \in S
             /\ d0 # d1 /\ d0 # d2 /\ d1 # d2
<1> DEFINE d0 == LowestFree(S)
           d1 == LowestFree(S \ {d0})
           d2 == LowestFree(S \ {d0, d1})
<1>1. IsFiniteSet(S)
  <2>1. IsFiniteSet(0 .. NUM - 1)
    BY FS_Interval, NUMAssumption
  <2> QED BY <2>1, FS_Subset DEF Descs
<1>2. S # {}
  BY FS_EmptySet
<1>3. d0 \in S
  BY <1>2, LowestFreeIsFree
<1>4. IsFiniteSet(S \ {d0}) /\ Cardinality(S \ {d0}) = Cardinality(S) - 1
  BY <1>1, <1>3, FS_RemoveElement
<1>5. Cardinality(S) \in Nat
  BY <1>1, FS_CardinalityType
<1>6. S \ {d0} # {}
  BY <1>4, <1>5, FS_EmptySet
<1>7. d1 \in S \ {d0}
  BY <1>6, LowestFreeIsFree
<1>8. Cardinality((S \ {d0}) \ {d1}) = Cardinality(S \ {d0}) - 1
  BY <1>4, <1>7, FS_RemoveElement
<1>9. S \ {d0, d1} # {}
  <2>1. S \ {d0, d1} = (S \ {d0}) \ {d1}
    OBVIOUS
  <2>2. Cardinality(S \ {d0, d1}) # 0
    BY <2>1, <1>4, <1>5, <1>8
  <2> QED BY <2>2, FS_EmptySet
<1>10. d2 \in S \ {d0, d1}
  BY <1>9, LowestFreeIsFree
<1> QED BY <1>3, <1>7, <1>10

-----------------------------------------------------------------------------
\* virtio_disk_init() establishes the invariant.
LEMMA InitOK == Init => IInv
<1> SUFFICES ASSUME Init
             PROVE  IInv
  OBVIOUS
<1> USE NUMAssumption, IdxModAssumption, ZerosAssumption
<1>1. TypeOK
  <2>1. 0 \in Descs /\ 0 \in 0 .. IdxMod - 1
    BY DEF Descs
  <2>2. desc \in [Descs -> [buf : Threads \cup {NoThread}, more : BOOLEAN, next : Descs]]
    BY <2>1 DEF Init, NoDesc
  <2>3. /\ avail \in [ring : [Descs -> Descs], idx : 0 .. IdxMod - 1]
        /\ used \in [ring : [Descs -> Descs], idx : 0 .. IdxMod - 1]
    BY <2>1 DEF Init
  <2> QED BY <2>1, <2>2, <2>3 DEF Init, TypeOK
<1>2. LockOK
  BY NoThreadAssumption DEF Init, LockOK, Requests
<1>3. ChainOK
  BY DEF Init, ChainOK, Requests
<1>4. Quiet
  BY DEF Init, Quiet
<1>5. StageOK
  BY <1>4 DEF StageOK
<1>6. StageOfThread
  BY <1>4 DEF Init, StageOfThread
<1>7. EntriesOK
  BY DEF Init, EntriesOK
<1>8. BufferOK
  BY DEF Init, BufferOK
<1> QED BY <1>1, <1>2, <1>3, <1>5, <1>6, <1>7, <1>8 DEF IInv

\* One thread at a time is between acquire() and release().
LEMMA HolderAlone ==
  ASSUME IInv, NEW t \in Threads, NEW u \in Threads,
         pc[t] \in Requests \cup {"alloc", "release"},
         pc[u] \in Requests \cup {"alloc", "release"}
  PROVE  t = u
BY DEF IInv, LockOK

\* The stages exclude one another, and nothing but the first has an empty used
\* ring and nothing published.
LEMMA StagesExclusive ==
  ASSUME IInv
  PROVE  /\ Published \/ Working \/ Answered => ~Quiet
         /\ Published => ~Working /\ ~Answered
         /\ Working => ~Answered
         /\ Answered <=> usedIdx # used.idx
<1>1. usedIdx \in 0 .. IdxMod - 1
  BY DEF IInv, TypeOK
<1>2. Succ(usedIdx) # usedIdx
  BY <1>1, IndexFacts
<1> QED BY <1>2 DEF IInv, StageOK, Quiet, Published, Working, Answered

\* The parts of a call outside virtio_disk_rw()'s work on the rings: the call,
\* acquire(), release(), and what bread() and bwrite() do afterwards.
LEMMA OutsideRings ==
  ASSUME IInv, NEW t \in Threads,
         \/ \E n \in BlocksOf[t] : CallRead(t, n)
         \/ \E n \in BlocksOf[t], v \in Values : CallWrite(t, n, v)
         \/ Acquire(t) \/ Release(t) \/ Return(t)
  PROVE  IInv'
<1>1. /\ UNCHANGED <<owned, head, free, desc, ops, infoB, status, avail, used, usedIdx>>
      /\ UNCHANGED <<irqVars, devVars>>
      /\ \A u \in Threads : /\ pc[u] \in Requests <=> pc'[u] \in Requests
                            /\ pc[u] \in Requests => UNCHANGED <<pc[u], write[u], blockno[u], successful[u]>>
  <2>1. /\ pc \in [Threads -> {"idle", "acquire", "alloc", "release", "return"} \cup Requests]
        /\ write \in [Threads -> BOOLEAN] /\ blockno \in [Threads -> BlockNos]
        /\ successful \in [Threads -> BOOLEAN]
    BY DEF IInv, TypeOK
  <2>2. CASE \E n \in BlocksOf[t] : CallRead(t, n)
    BY <2>1, <2>2 DEF CallRead, At, Goto, ringVars, Requests
  <2>3. CASE \E n \in BlocksOf[t], v \in Values : CallWrite(t, n, v)
    BY <2>1, <2>3 DEF CallWrite, At, Goto, ringVars, Requests
  <2>4. CASE Acquire(t)
    BY <2>1, <2>4 DEF Acquire, At, Goto, ringVars, Requests
  <2>5. CASE Release(t)
    BY <2>1, <2>5 DEF Release, At, Goto, ringVars, Requests
  <2>6. CASE Return(t)
    BY <2>1, <2>6 DEF Return, At, Goto, ringVars, Requests
  <2> QED BY <2>2, <2>3, <2>4, <2>5, <2>6
<1>2. TypeOK'
  <2>1. BlocksOf[t] \subseteq BlockNos
    BY BlocksOfAssumption
  <2>2. UNCHANGED <<owned, head, free, desc, ops, infoB, status, avail, used, usedIdx,
                    handler, seen, isr, claimed, dev, devHead, lastAvail, notified, store>>
    BY <1>1 DEF irqVars, devVars
  <2>3. /\ pc' \in [Threads -> {"idle", "acquire", "alloc", "release", "return"} \cup Requests]
        /\ write' \in [Threads -> BOOLEAN]
        /\ blockno' \in [Threads -> BlockNos]
        /\ mem' \in [Threads -> Values] /\ data' \in [Threads -> Values]
        /\ successful' \in [Threads -> BOOLEAN]
        /\ ok' \in [Threads -> BOOLEAN]
        /\ lock' \in Threads \cup {NoThread}
    <3>1. TypeOK
      BY DEF IInv
    <3>2. CASE \E n \in BlocksOf[t] : CallRead(t, n)
      BY <2>1, <3>1, <3>2 DEF TypeOK, CallRead, Goto, ringVars
    <3>3. CASE \E n \in BlocksOf[t], v \in Values : CallWrite(t, n, v)
      BY <2>1, <3>1, <3>3 DEF TypeOK, CallWrite, Goto, ringVars
    <3>4. CASE Acquire(t)
      BY <3>1, <3>4 DEF TypeOK, Acquire, Goto
    <3>5. CASE Release(t)
      BY <3>1, <3>5 DEF TypeOK, Release, Goto
    <3>6. CASE Return(t)
      BY <3>1, <3>6, ZerosAssumption DEF TypeOK, Return, Goto, ringVars
    <3> QED BY <3>2, <3>3, <3>4, <3>5, <3>6
  <2> QED BY <2>2, <2>3 DEF IInv, TypeOK
<1>3. LockOK'
  BY NoThreadAssumption
  DEF IInv, TypeOK, LockOK, CallRead, CallWrite, Acquire, Release, Return, At, Goto, ringVars, Requests
<1>4. ChainOK'
  BY <1>1 DEF IInv, ChainOK, Second, Third
<1>5. /\ Quiet' = Quiet /\ Published' = Published
      /\ Working' = Working /\ Answered' = Answered
  BY <1>1 DEF irqVars, devVars, Quiet, Published, Working, Answered
<1>6. StageOK'
  BY <1>5 DEF IInv, StageOK
<1>7. \A u \in Threads : \A l \in Requests : pc'[u] = l <=> pc[u] = l
  BY <1>1
<1>8. StageOfThread'
  BY <1>1, <1>5, <1>7 DEF IInv, StageOfThread, Requests
<1>9. EntriesOK'
  BY <1>1, <1>5, <1>7 DEF IInv, EntriesOK, Requests, UsedHead, devVars
<1>10. BufferOK'
  BY DEF IInv, TypeOK, BufferOK, CallRead, CallWrite, Acquire, Release, Return, At, Goto, ringVars
<1> QED BY <1>2, <1>3, <1>4, <1>6, <1>8, <1>9, <1>10 DEF IInv

\* The chain is built out of three free descriptors.
LEMMA AllocAndFormatStep ==
  ASSUME IInv, NEW t \in Threads, AllocAndFormat(t)
  PROVE  IInv'
<1> DEFINE d0 == LowestFree(free)
           d1 == LowestFree(free \ {d0})
           d2 == LowestFree(free \ {d0, d1})
<1>1. TypeOK
  BY DEF IInv
<1>2. /\ d0 \in free /\ d1 \in free /\ d2 \in free
      /\ d0 # d1 /\ d0 # d2 /\ d1 # d2
      /\ d0 \in Descs /\ d1 \in Descs /\ d2 \in Descs
  BY <1>1, ThreeFree DEF TypeOK, AllocAndFormat
<1>3. /\ pc[t] = "alloc" /\ handler = "none"
      /\ pc' = [pc EXCEPT ![t] = "record"]
      /\ free' = free \ {d0, d1, d2}
      /\ head' = [head EXCEPT ![t] = d0]
      /\ ops' = [ops EXCEPT ![d0] = [write |-> write[t], blockno |-> blockno[t]]]
      /\ desc' = [desc EXCEPT ![d0] = [buf |-> NoThread, more |-> TRUE, next |-> d1],
                              ![d1] = [buf |-> t, more |-> TRUE, next |-> d2],
                              ![d2] = NoDesc]
      /\ status' = [status EXCEPT ![d0] = 255]
      /\ UNCHANGED <<write, blockno, mem, data, owned, successful, ok,
                     lock, infoB, avail, used, usedIdx, irqVars, devVars>>
  BY DEF AllocAndFormat, At, Goto
<1> HIDE DEF d0, d1, d2
<1>4. \A u \in Threads : pc[u] \notin Requests
  <2>1. "alloc" \notin Requests
    BY DEF Requests
  <2> QED BY <1>3, <2>1, HolderAlone
<1>5. free = Descs
  BY <1>4 DEF IInv, ChainOK
<1>6. \A u \in Threads : pc'[u] \in Requests => u = t
  BY <1>1, <1>3, <1>4 DEF TypeOK
<1>7. /\ pc'[t] = "record" /\ head'[t] = d0
      /\ desc'[d0] = [buf |-> NoThread, more |-> TRUE, next |-> d1]
      /\ desc'[d1] = [buf |-> t, more |-> TRUE, next |-> d2]
      /\ desc'[d2] = NoDesc
      /\ ops'[d0] = [write |-> write[t], blockno |-> blockno[t]]
      /\ status'[d0] = 255
  <2>1. /\ DOMAIN desc = Descs /\ DOMAIN ops = Descs /\ DOMAIN status = Descs
        /\ DOMAIN head = Threads /\ DOMAIN pc = Threads
    BY <1>1 DEF TypeOK
  <2>2. /\ desc'[d0] = [buf |-> NoThread, more |-> TRUE, next |-> d1]
        /\ desc'[d1] = [buf |-> t, more |-> TRUE, next |-> d2]
        /\ desc'[d2] = NoDesc
    BY <1>2, <1>3, <2>1
  <2> QED BY <1>2, <1>3, <2>1, <2>2
<1>8. TypeOK'
  <2>1. NoDesc \in [buf : Threads \cup {NoThread}, more : BOOLEAN, next : Descs]
    BY NUMAssumption DEF NoDesc, Descs
  <2>2. desc' \in [Descs -> [buf : Threads \cup {NoThread}, more : BOOLEAN, next : Descs]]
    BY <1>1, <1>2, <1>3, <2>1 DEF TypeOK
  <2>3. /\ ops' \in [Descs -> [write : BOOLEAN, blockno : BlockNos]]
        /\ status' \in [Descs -> {0, 1, 255}]
        /\ head' \in [Threads -> Descs]
        /\ free' \subseteq Descs
        /\ pc' \in [Threads -> {"idle", "acquire", "alloc", "release", "return"} \cup Requests]
    BY <1>1, <1>2, <1>3 DEF TypeOK, Requests
  <2> QED BY <1>1, <1>3, <2>2, <2>3 DEF TypeOK, irqVars, devVars
<1>9. LockOK'
  BY <1>1, <1>3 DEF IInv, TypeOK, LockOK, Requests
<1>10. ChainOK'
  <2>1. Descs \ free' = {d0, d1, d2}
    BY <1>2, <1>3, <1>5
  <2>2. Second(t)' = d1 /\ Third(t)' = d2
    BY <1>7 DEF Second, Third
  <2>3. pc'[t] \in Requests
    BY <1>7 DEF Requests
  <2> QED BY <1>2, <1>3, <1>6, <1>7, <2>1, <2>2, <2>3 DEF ChainOK
<1>11. Quiet
  BY <1>4 DEF IInv, StageOfThread, Requests
<1>12. Quiet' /\ StageOK'
  BY <1>3, <1>11 DEF Quiet, StageOK, irqVars, devVars
<1>13. StageOfThread'
  BY <1>1, <1>3, <1>4, <1>12 DEF IInv, TypeOK, StageOfThread, Requests
<1>14. EntriesOK'
  BY <1>6, <1>7 DEF EntriesOK, Requests
<1>15. BufferOK'
  BY <1>1, <1>3 DEF IInv, TypeOK, BufferOK
<1> QED BY <1>8, <1>9, <1>10, <1>12, <1>13, <1>14, <1>15 DEF IInv

\* The head goes into the avail ring and the buffer to the disk.
LEMMA RecordStep ==
  ASSUME IInv, NEW t \in Threads, Record(t)
  PROVE  IInv'
<1>1. TypeOK
  BY DEF IInv
<1>2. pc[t] = "record" /\ pc[t] \in Requests /\ handler = "none"
  BY DEF Record, At, Requests
<1>3. \A u \in Threads : pc[u] \in Requests => u = t
  BY <1>2, HolderAlone
<1>4. Quiet
  BY <1>2, <1>3 DEF IInv, StageOfThread, Requests
<1>5. avail.idx % NUM \in Descs
  BY <1>1, IndexFacts DEF TypeOK
<1>6. /\ pc' = [pc EXCEPT ![t] = "publish"]
      /\ owned' = [owned EXCEPT ![t] = TRUE]
      /\ infoB' = [infoB EXCEPT ![head[t]] = t]
      /\ avail' = [avail EXCEPT !.ring[avail.idx % NUM] = head[t]]
      /\ UNCHANGED <<write, blockno, mem, data, successful, ok, head,
                     lock, free, desc, ops, status, used, usedIdx>>
      /\ UNCHANGED <<handler, seen, isr, claimed, dev, devHead, lastAvail, notified, store>>
  BY DEF Record, At, Goto, irqVars, devVars
<1>7. /\ avail' \in [ring : [Descs -> Descs], idx : 0 .. IdxMod - 1]
      /\ avail'.idx = avail.idx /\ avail'.ring[avail.idx % NUM] = head[t]
  <2>1. /\ avail \in [ring : [Descs -> Descs], idx : 0 .. IdxMod - 1]
        /\ head[t] \in Descs
    BY <1>1 DEF TypeOK
  <2>2. avail.ring \in [Descs -> Descs]
    BY <2>1
  <2>3. avail' = [ring |-> [avail.ring EXCEPT ![avail.idx % NUM] = head[t]],
                  idx  |-> avail.idx]
    BY <1>6, <2>1
  <2> QED BY <1>5, <2>1, <2>2, <2>3
<1>8. \A u \in Threads : pc'[u] = IF u = t THEN "publish" ELSE pc[u]
  BY <1>1, <1>6 DEF TypeOK
<1>9. TypeOK'
  BY <1>1, <1>6, <1>7 DEF TypeOK, Requests
<1>10. LockOK'
  BY <1>2, <1>6, <1>8 DEF IInv, LockOK, Requests
<1>11. ChainOK'
  BY <1>1, <1>2, <1>3, <1>6, <1>8 DEF IInv, TypeOK, ChainOK, Second, Third, Requests
<1>12. Quiet' /\ StageOK'
  BY <1>4, <1>6, <1>7 DEF Quiet, StageOK
<1>13. StageOfThread'
  BY <1>1, <1>3, <1>6, <1>8, <1>12 DEF IInv, TypeOK, StageOfThread, Requests
<1>14. EntriesOK'
  BY <1>2, <1>3, <1>6, <1>7, <1>8 DEF IInv, EntriesOK, Requests
<1>15. BufferOK'
  BY <1>2, <1>6, <1>8 DEF IInv, BufferOK
<1> QED BY <1>9, <1>10, <1>11, <1>12, <1>13, <1>14, <1>15 DEF IInv

\* The index of the avail ring is moved on: the chain is with the device.
LEMMA PublishStep ==
  ASSUME IInv, NEW t \in Threads, Publish(t)
  PROVE  IInv'
<1>1. TypeOK
  BY DEF IInv
<1>2. pc[t] = "publish" /\ pc[t] \in Requests /\ handler = "none"
  BY DEF Publish, At, Requests
<1>3. \A u \in Threads : pc[u] \in Requests => u = t
  BY <1>2, HolderAlone
<1>4. Quiet
  BY <1>2, <1>3 DEF IInv, StageOfThread, Requests
<1>5. /\ pc' = [pc EXCEPT ![t] = "notify"]
      /\ avail' = [avail EXCEPT !.idx = Succ(@)]
      /\ UNCHANGED <<write, blockno, mem, data, owned, successful, ok, head,
                     lock, free, desc, ops, infoB, status, used, usedIdx>>
      /\ UNCHANGED <<handler, seen, isr, claimed, dev, devHead, lastAvail, notified, store>>
  BY DEF Publish, At, Goto, irqVars, devVars
<1>6. /\ avail' \in [ring : [Descs -> Descs], idx : 0 .. IdxMod - 1]
      /\ avail'.idx = Succ(avail.idx) /\ avail'.ring = avail.ring
  BY <1>1, <1>5, IndexFacts DEF TypeOK
<1>7. \A u \in Threads : pc'[u] = IF u = t THEN "notify" ELSE pc[u]
  BY <1>1, <1>5 DEF TypeOK
<1>8. TypeOK'
  BY <1>1, <1>5, <1>6 DEF TypeOK, Requests
<1>9. LockOK'
  BY <1>2, <1>5, <1>7 DEF IInv, LockOK, Requests
<1>10. ChainOK'
  BY <1>2, <1>5, <1>7 DEF IInv, ChainOK, Second, Third, Requests
<1>11. Published'
  BY <1>2, <1>4, <1>5, <1>6 DEF Quiet, Published
<1>12. StageOK' /\ ~Quiet' /\ ~Working' /\ ~Answered'
  <2>1. Succ(usedIdx) # usedIdx
    BY <1>1, IndexFacts DEF TypeOK
  <2> QED BY <1>5, <1>11, <2>1 DEF StageOK, Published, Quiet, Working, Answered
<1>13. StageOfThread'
  BY <1>2, <1>3, <1>4, <1>5, <1>7, <1>12 DEF IInv, StageOfThread, Requests
<1>14. EntriesOK'
  <2>1. status[head[t]] = 255 /\ avail.ring[lastAvail % NUM] = head[t]
    BY <1>2, <1>4 DEF IInv, EntriesOK, Quiet
  <2> QED BY <2>1, <1>3, <1>5, <1>6, <1>7, <1>12 DEF EntriesOK, Requests
<1>15. BufferOK'
  BY <1>2, <1>5, <1>7 DEF IInv, BufferOK
<1> QED BY <1>8, <1>9, <1>10, <1>12, <1>13, <1>14, <1>15 DEF IInv

\* QueueNotify is written: the thread goes on to its busy wait.
LEMMA NotifyStep ==
  ASSUME IInv, NEW t \in Threads, Notify(t)
  PROVE  IInv'
<1>1. TypeOK
  BY DEF IInv
<1>2. /\ pc[t] = "notify"
      /\ pc' = [pc EXCEPT ![t] = "wait"] /\ notified' = TRUE
      /\ UNCHANGED <<write, blockno, mem, data, owned, successful, ok, head>>
      /\ UNCHANGED <<lock, free, desc, ops, infoB, status, avail, used, usedIdx>>
      /\ UNCHANGED <<handler, seen, isr, claimed, dev, devHead, lastAvail, store>>
  BY DEF Notify, At, Goto, ringVars, irqVars
<1>3. \A u \in Threads : pc'[u] = IF u = t THEN "wait" ELSE pc[u]
  BY <1>1, <1>2 DEF TypeOK
<1>4. TypeOK'
  BY <1>1, <1>2 DEF TypeOK, Requests
<1>5. LockOK'
  BY <1>2, <1>3 DEF IInv, LockOK, Requests
<1>6. ChainOK'
  BY <1>2, <1>3 DEF IInv, ChainOK, Second, Third, Requests
<1>7. /\ Quiet' = Quiet /\ Published' = Published
      /\ Working' = Working /\ Answered' = Answered
  BY <1>2 DEF Quiet, Published, Working, Answered
<1>8. StageOK'
  BY <1>7 DEF IInv, StageOK
<1>9. \A u \in Threads : /\ pc'[u] \in {"notify", "wait"} <=> pc[u] \in {"notify", "wait"}
                         /\ \A l \in {"record", "publish"} : pc'[u] = l <=> pc[u] = l
  BY <1>2, <1>3
<1>10. StageOfThread'
  BY <1>2, <1>7, <1>9 DEF IInv, StageOfThread
<1>11. EntriesOK'
  BY <1>2, <1>7, <1>9 DEF IInv, EntriesOK, UsedHead
<1>12. BufferOK'
  BY <1>2, <1>3 DEF IInv, BufferOK
<1> QED BY <1>4, <1>5, <1>6, <1>8, <1>10, <1>11, <1>12 DEF IInv

\* The chain that free_chain() walks is the one of the request.
LEMMA ChainIsThree ==
  ASSUME IInv, NEW t \in Threads, pc[t] \in Requests
  PROVE  Chain(head[t]) = {head[t], Second(t), Third(t)}
<1>1. /\ desc[head[t]].more /\ desc[Second(t)].more
  BY DEF IInv, ChainOK
<1>2. Follow(head[t]) = {Second(t)}
  BY <1>1 DEF Follow, Second
<1>3. Follow(Second(t)) = {Third(t)}
  BY <1>1 DEF Follow, Third
<1> QED BY <1>2, <1>3 DEF Chain

\* The buffer is the caller's again and the chain is freed.
LEMMA FreeChainStep ==
  ASSUME IInv, NEW t \in Threads, FreeChain(t)
  PROVE  IInv'
<1>1. TypeOK
  BY DEF IInv
<1>2. pc[t] = "wait" /\ pc[t] \in Requests /\ ~owned[t]
  BY DEF FreeChain, At, Requests
<1>3. \A u \in Threads : pc[u] \in Requests => u = t
  BY <1>2, HolderAlone
<1>4. Quiet
  BY <1>2 DEF IInv, StageOfThread
<1>5. /\ pc' = [pc EXCEPT ![t] = "release"]
      /\ infoB' = [infoB EXCEPT ![head[t]] = NoThread]
      /\ free' = free \cup Chain(head[t])
      /\ desc' = [d \in Descs |-> IF d \in Chain(head[t]) THEN NoDesc ELSE desc[d]]
      /\ UNCHANGED <<write, blockno, mem, data, owned, successful, ok, head,
                     lock, ops, status, avail, used, usedIdx>>
      /\ UNCHANGED <<handler, seen, isr, claimed, dev, devHead, lastAvail, notified, store>>
  BY DEF FreeChain, At, Goto, irqVars, devVars
<1>6. free' = Descs
  <2>1. Descs \ free = Chain(head[t])
    BY <1>2, ChainIsThree DEF IInv, ChainOK
  <2> QED BY <1>1, <1>5, <2>1 DEF TypeOK
<1>7. \A u \in Threads : pc'[u] = IF u = t THEN "release" ELSE pc[u]
  BY <1>1, <1>5 DEF TypeOK
<1>8. \A u \in Threads : pc'[u] \notin Requests
  BY <1>3, <1>7 DEF Requests
<1>9. TypeOK'
  <2>1. NoDesc \in [buf : Threads \cup {NoThread}, more : BOOLEAN, next : Descs]
    BY NUMAssumption DEF NoDesc, Descs
  <2>2. desc' \in [Descs -> [buf : Threads \cup {NoThread}, more : BOOLEAN, next : Descs]]
    BY <1>1, <1>5, <2>1 DEF TypeOK
  <2> QED BY <1>1, <1>5, <1>6, <2>2 DEF TypeOK
<1>10. LockOK'
  BY <1>2, <1>5, <1>7 DEF IInv, LockOK, Requests
<1>11. ChainOK'
  BY <1>6, <1>8 DEF ChainOK
<1>12. Quiet' /\ StageOK'
  BY <1>4, <1>5 DEF Quiet, StageOK
<1>13. StageOfThread'
  BY <1>2, <1>4, <1>5, <1>7, <1>8, <1>12 DEF IInv, StageOfThread, Requests
<1>14. EntriesOK'
  BY <1>8 DEF EntriesOK, Requests
<1>15. BufferOK'
  BY <1>2, <1>5, <1>7 DEF IInv, BufferOK
<1> QED BY <1>9, <1>10, <1>11, <1>12, <1>13, <1>14, <1>15 DEF IInv

-----------------------------------------------------------------------------
\* The device's buffer is the one of the thread whose chain it works on.
LEMMA DeviceAndThread ==
  ASSUME IInv, ~Quiet
  PROVE  \E t \in Threads :
           /\ pc[t] \in {"notify", "wait"} /\ owned[t]
           /\ \A u \in Threads : pc[u] \in Requests => u = t
           /\ infoB[head[t]] = t /\ desc[Second(t)].buf = t
           /\ ops[head[t]] = [write |-> write[t], blockno |-> blockno[t]]
<1>1. PICK t \in Threads : pc[t] \in {"notify", "wait"}
  BY DEF IInv, StageOfThread
<1>2. pc[t] \in Requests /\ pc[t] # "record"
  BY <1>1 DEF Requests
<1>3. \A u \in Threads : pc[u] \in Requests => u = t
  BY <1>2, HolderAlone
<1> QED BY <1>1, <1>2, <1>3 DEF IInv, ChainOK, StageOfThread

\* The device takes the chain, or goes to sleep.
LEMMA TakeOrSleepStep ==
  ASSUME IInv, DevTake \/ DevSleep
  PROVE  IInv'
<1>1. TypeOK
  BY DEF IInv
<1>2. CASE DevTake
  <2>1. /\ dev = "idle" /\ lastAvail # avail.idx
        /\ devHead' = avail.ring[lastAvail % NUM]
        /\ lastAvail' = Succ(lastAvail)
        /\ dev' = "transfer"
        /\ UNCHANGED <<pc, write, blockno, mem, data, owned, successful, ok, head>>
        /\ UNCHANGED <<lock, free, desc, ops, infoB, status, avail, used, usedIdx>>
        /\ UNCHANGED <<handler, seen, isr, claimed, notified, store>>
    BY <1>2 DEF DevTake, threadVars, ringVars, irqVars
  <2>2. Published
    BY <2>1 DEF IInv, StageOK, Quiet, Published, Working, Answered
  <2>3. Working' /\ StageOK'
    BY <2>1, <2>2 DEF Published, Working, StageOK
  <2>4. ~Quiet /\ ~Quiet' /\ ~Published' /\ ~Answered'
    BY <2>1, <2>2, <2>3, StagesExclusive DEF Quiet, Published, Working, Answered
  <2>5. TypeOK'
    <3>1. lastAvail' \in 0 .. IdxMod - 1 /\ devHead' \in Descs
      BY <1>1, <2>1, IndexFacts DEF TypeOK
    <3> QED BY <1>1, <2>1, <3>1 DEF TypeOK
  <2>6. LockOK' /\ ChainOK' /\ StageOfThread' /\ BufferOK'
    BY <2>1, <2>4 DEF IInv, LockOK, ChainOK, Second, Third, StageOfThread, BufferOK
  <2>7. EntriesOK'
    BY <2>1, <2>2, <2>4 DEF IInv, EntriesOK
  <2> QED BY <2>3, <2>5, <2>6, <2>7 DEF IInv
<1>3. CASE DevSleep
  <2>1. /\ UNCHANGED <<pc, write, blockno, mem, data, owned, successful, ok, head>>
        /\ UNCHANGED <<lock, free, desc, ops, infoB, status, avail, used, usedIdx>>
        /\ UNCHANGED <<handler, seen, isr, claimed, dev, devHead, lastAvail, store>>
        /\ notified' = FALSE
    BY <1>3 DEF DevSleep, threadVars, ringVars, irqVars
  <2>2. TypeOK'
    BY <1>1, <2>1 DEF TypeOK
  <2> QED BY <2>1, <2>2 DEF IInv, LockOK, ChainOK, Second, Third, StageOK, StageOfThread,
        EntriesOK, BufferOK, Quiet, Published, Working, Answered, UsedHead
<1> QED BY <1>2, <1>3

\* The device executes the command and writes the status byte.
LEMMA TransferStep ==
  ASSUME IInv, NEW s \in {0, 1}, DevTransfer(s)
  PROVE  IInv'
<1>1. TypeOK
  BY DEF IInv
<1>2. Working /\ dev = "transfer"
  BY DEF IInv, DevTransfer, StageOK, Quiet, Published, Working, Answered
<1>3. ~Quiet /\ ~Published /\ ~Answered
  BY <1>2, StagesExclusive
<1>4. PICK t \in Threads : /\ pc[t] \in {"notify", "wait"}
                           /\ \A u \in Threads : pc[u] \in Requests => u = t
                           /\ desc[Second(t)].buf = t
                           /\ ops[head[t]] = [write |-> write[t], blockno |-> blockno[t]]
  BY <1>3, DeviceAndThread
<1>5. devHead = head[t] /\ DevBuffer = t
  BY <1>2, <1>4 DEF IInv, EntriesOK, DevBuffer, Second
<1>6. /\ store' = IF s = 0 /\ write[t] THEN [store EXCEPT ![blockno[t]] = data[t]] ELSE store
      /\ data' = IF s = 0 /\ ~write[t] THEN [data EXCEPT ![t] = store[blockno[t]]] ELSE data
      /\ status' = [status EXCEPT ![head[t]] = s]
      /\ dev' = "used"
      /\ UNCHANGED <<pc, write, blockno, mem, owned, successful, ok, head,
                     lock, free, desc, ops, infoB, avail, used, usedIdx>>
      /\ UNCHANGED <<handler, seen, isr, claimed, devHead, lastAvail, notified>>
  <2>1. ops[devHead].write = write[t] /\ ops[devHead].blockno = blockno[t]
    BY <1>4, <1>5
  <2>2. /\ store' = IF s = 0 /\ write[t] THEN [store EXCEPT ![blockno[t]] = data[DevBuffer]] ELSE store
        /\ data' = IF s = 0 /\ ~write[t] THEN [data EXCEPT ![DevBuffer] = store[blockno[t]]] ELSE data
    BY <2>1 DEF DevTransfer
  <2>3. /\ status' = [status EXCEPT ![devHead] = s]
        /\ dev' = "used"
        /\ UNCHANGED <<pc, write, blockno, mem, owned, successful, ok, head,
                       lock, free, desc, ops, infoB, avail, used, usedIdx>>
        /\ UNCHANGED <<handler, seen, isr, claimed, devHead, lastAvail, notified>>
    BY DEF DevTransfer, irqVars
  <2> QED BY <1>5, <2>2, <2>3
<1>7. TypeOK'
  <2>1. /\ store' \in [BlockNos -> Values] /\ data' \in [Threads -> Values]
        /\ status' \in [Descs -> {0, 1, 255}]
    BY <1>1, <1>6 DEF TypeOK
  <2> QED BY <1>1, <1>6, <2>1 DEF TypeOK
<1>8. LockOK' /\ ChainOK'
  BY <1>6 DEF IInv, LockOK, ChainOK, Second, Third
<1>9. Working' /\ StageOK'
  BY <1>2, <1>6 DEF Working, StageOK
<1>10. ~Quiet' /\ ~Published' /\ ~Answered'
  BY <1>2, <1>3, <1>6 DEF Quiet, Published, Working, Answered
<1>11. StageOfThread'
  BY <1>3, <1>6, <1>10 DEF IInv, StageOfThread
<1>12. EntriesOK'
  <2>1. status'[head[t]] = s /\ s # 255
    BY <1>1, <1>6 DEF TypeOK
  <2>2. \A u \in Threads : pc'[u] \in Requests => u = t
    BY <1>4, <1>6
  <2> QED BY <1>4, <1>5, <1>6, <1>10, <2>1, <2>2 DEF EntriesOK, Requests
<1>13. BufferOK'
  BY <1>1, <1>6 DEF IInv, TypeOK, BufferOK
<1> QED BY <1>7, <1>8, <1>9, <1>11, <1>12, <1>13 DEF IInv

\* The device puts the chain on the used ring.
LEMMA UsedStep ==
  ASSUME IInv, DevUsed
  PROVE  IInv'
<1>1. TypeOK
  BY DEF IInv
<1>2. Working /\ dev = "used"
  BY DEF IInv, DevUsed, StageOK, Quiet, Published, Working, Answered
<1>3. ~Quiet
  BY <1>2, StagesExclusive
<1>4. /\ used' = [ring |-> [used.ring EXCEPT ![used.idx % NUM] = devHead],
                  idx  |-> Succ(used.idx)]
      /\ dev' = "raise"
      /\ UNCHANGED <<pc, write, blockno, mem, data, owned, successful, ok, head,
                     lock, free, desc, ops, infoB, status, avail, usedIdx>>
      /\ UNCHANGED <<handler, seen, isr, claimed, devHead, lastAvail, notified, store>>
  BY DEF DevUsed, threadVars, irqVars
<1>5. /\ used' \in [ring : [Descs -> Descs], idx : 0 .. IdxMod - 1]
      /\ used'.idx = Succ(used.idx) /\ used'.ring[used.idx % NUM] = devHead
  <2>1. /\ used.ring \in [Descs -> Descs] /\ used.idx \in 0 .. IdxMod - 1
        /\ devHead \in Descs
    BY <1>1 DEF TypeOK
  <2> QED BY <1>4, <2>1, IndexFacts
<1>6. TypeOK'
  BY <1>1, <1>4, <1>5 DEF TypeOK
<1>7. LockOK' /\ ChainOK' /\ BufferOK'
  BY <1>4 DEF IInv, LockOK, ChainOK, Second, Third, BufferOK
<1>8. Answered' /\ StageOK'
  BY <1>2, <1>4, <1>5 DEF Working, Answered, StageOK
<1>9. ~Quiet' /\ ~Published' /\ ~Working'
  BY <1>3, <1>4, <1>8 DEF Quiet, Published, Working, Answered
<1>10. StageOfThread'
  BY <1>3, <1>4, <1>9 DEF IInv, StageOfThread
<1>11. EntriesOK'
  <2>1. UsedHead' = devHead
    BY <1>2, <1>4, <1>5 DEF UsedHead, Working
  <2> QED BY <1>2, <1>4, <1>9, <2>1 DEF IInv, EntriesOK
<1> QED BY <1>6, <1>7, <1>8, <1>10, <1>11 DEF IInv

\* The interrupt is raised, claimed and acknowledged, and its handler ends: the
\* rings stay as they are.
LEMMA InterruptStep ==
  ASSUME IInv, DevRaise \/ Claim \/ ReadStatus \/ Ack \/ UsedEmpty \/ Complete
  PROVE  IInv'
<1>1. TypeOK
  BY DEF IInv
<1>2. /\ UNCHANGED <<pc, write, blockno, mem, data, owned, successful, ok, head>>
      /\ UNCHANGED <<lock, free, desc, ops, infoB, status, avail, used, usedIdx>>
      /\ UNCHANGED <<devHead, lastAvail, notified, store>>
  BY DEF DevRaise, Claim, ReadStatus, Ack, UsedEmpty, Complete, threadVars, ringVars, devVars
<1>3. TypeOK'
  <2>1. /\ handler' \in {"none", "status", "ack", "loop", "complete"}
        /\ seen' \in BOOLEAN /\ isr' \in BOOLEAN /\ claimed' \in BOOLEAN
        /\ dev' \in {"idle", "transfer", "used", "raise"}
    <3>1. /\ handler \in {"none", "status", "ack", "loop", "complete"}
          /\ seen \in BOOLEAN /\ isr \in BOOLEAN /\ claimed \in BOOLEAN
          /\ dev \in {"idle", "transfer", "used", "raise"}
      BY <1>1 DEF TypeOK
    <3> QED BY <3>1 DEF DevRaise, Claim, ReadStatus, Ack, UsedEmpty, Complete, devVars
  <2> QED BY <1>1, <1>2, <2>1 DEF TypeOK
<1>4. /\ Quiet => Quiet'
      /\ Published => Published'
      /\ Working => Working'
      /\ Answered => Answered'
      /\ dev' = "raise" => dev = "raise"
      /\ dev' = "transfer" <=> dev = "transfer"
  <2>1. Succ(usedIdx) # usedIdx
    BY <1>1, IndexFacts DEF TypeOK
  <2>2. CASE DevRaise
    BY <1>2, <2>1, <2>2 DEF DevRaise, Quiet, Published, Working, Answered
  <2>3. CASE Claim
    BY <1>2, <2>1, <2>3 DEF Claim, devVars, Quiet, Published, Working, Answered
  <2>4. CASE ReadStatus
    BY <1>2, <2>1, <2>4 DEF ReadStatus, devVars, Quiet, Published, Working, Answered
  <2>5. CASE Ack
    BY <1>2, <2>1, <2>5 DEF Ack, devVars, Quiet, Published, Working, Answered
  <2>6. CASE UsedEmpty
    BY <1>2, <2>1, <2>6 DEF UsedEmpty, devVars, Quiet, Published, Working, Answered
  <2>7. CASE Complete
    BY <1>2, <2>1, <2>7 DEF Complete, devVars, Quiet, Published, Working, Answered
  <2> QED BY <2>2, <2>3, <2>4, <2>5, <2>6, <2>7
<1>5. StageOK'
  BY <1>4 DEF IInv, StageOK
<1>6. /\ Quiet' <=> Quiet
      /\ Published' <=> Published
      /\ Working' <=> Working
      /\ Answered' <=> Answered
  <2>1. Succ(usedIdx) # usedIdx
    BY <1>1, IndexFacts DEF TypeOK
  <2>2. /\ Quiet' => ~Published' /\ ~Working' /\ ~Answered'
        /\ Published' => ~Working' /\ ~Answered'
        /\ Working' => ~Answered'
    BY <1>2, <2>1 DEF Quiet, Published, Working, Answered
  <2>3. Quiet \/ Published \/ Working \/ Answered
    BY DEF IInv, StageOK
  <2> QED BY <1>4, <2>2, <2>3
<1>7. LockOK' /\ ChainOK' /\ BufferOK' /\ StageOfThread'
  BY <1>2, <1>6 DEF IInv, LockOK, ChainOK, Second, Third, BufferOK, StageOfThread
<1>8. EntriesOK'
  BY <1>2, <1>4, <1>6 DEF IInv, EntriesOK, UsedHead
<1> QED BY <1>3, <1>5, <1>7, <1>8 DEF IInv

\* The handler takes the chain off the used ring: the buffer is its thread's.
LEMMA TakeUsedStep ==
  ASSUME IInv, TakeUsed
  PROVE  IInv'
<1>1. TypeOK
  BY DEF IInv
<1>2. Answered /\ dev = "idle" /\ ~isr /\ handler = "loop"
  BY DEF IInv, TakeUsed, StageOK, Quiet, Published, Working, Answered
<1>3. ~Quiet /\ ~Published /\ ~Working
  BY <1>2, StagesExclusive
<1>4. PICK t \in Threads : /\ pc[t] \in {"notify", "wait"}
                           /\ \A u \in Threads : pc[u] \in Requests => u = t
                           /\ infoB[head[t]] = t
  BY <1>3, DeviceAndThread
<1>5. UsedHead = head[t] /\ status[head[t]] # 255
  BY <1>2, <1>4 DEF IInv, EntriesOK
<1>6. /\ successful' = [successful EXCEPT ![t] = (status[head[t]] = 0)]
      /\ owned' = [owned EXCEPT ![t] = FALSE]
      /\ usedIdx' = Succ(usedIdx)
      /\ UNCHANGED <<pc, write, blockno, mem, data, ok, head,
                     lock, free, desc, ops, infoB, status, avail, used>>
      /\ UNCHANGED <<handler, seen, isr, claimed, dev, devHead, lastAvail, notified, store>>
  BY <1>4, <1>5 DEF TakeUsed, irqVars, devVars
<1>7. TypeOK'
  <2>1. usedIdx' \in 0 .. IdxMod - 1
    BY <1>1, <1>6, IndexFacts DEF TypeOK
  <2>2. successful' \in [Threads -> BOOLEAN] /\ owned' \in [Threads -> BOOLEAN]
    BY <1>1, <1>6 DEF TypeOK
  <2> QED BY <1>1, <1>6, <2>1, <2>2 DEF TypeOK
<1>8. LockOK' /\ ChainOK' /\ BufferOK'
  BY <1>6 DEF IInv, LockOK, ChainOK, Second, Third, BufferOK
<1>9. Quiet' /\ StageOK'
  BY <1>2, <1>6 DEF Quiet, Answered, StageOK
<1>10. ~Published' /\ ~Working' /\ ~Answered'
  <2>1. Succ(usedIdx') # usedIdx'
    BY <1>7, IndexFacts DEF TypeOK
  <2> QED BY <1>9, <2>1 DEF Quiet, Published, Working, Answered
<1>11. \A u \in Threads : ~owned'[u]
  BY <1>1, <1>3, <1>4, <1>6 DEF IInv, TypeOK, StageOfThread, Requests
<1>12. StageOfThread'
  BY <1>3, <1>4, <1>6, <1>9, <1>11 DEF IInv, StageOfThread, Requests
<1>13. EntriesOK'
  <2>1. successful'[t] = (status[head[t]] = 0)
    BY <1>1, <1>6 DEF TypeOK
  <2> QED BY <1>4, <1>5, <1>6, <1>9, <1>10, <2>1 DEF EntriesOK, Requests
<1> QED BY <1>7, <1>8, <1>9, <1>12, <1>13 DEF IInv

-----------------------------------------------------------------------------
\* Every step of driver, handler and device keeps the invariant.
LEMMA NextOK == IInv /\ [Next]_vars => IInv'
<1> SUFFICES ASSUME IInv, [Next]_vars
             PROVE  IInv'
  OBVIOUS
<1>1. ASSUME NEW t \in Threads,
             \/ \E n \in BlocksOf[t] : CallRead(t, n)
             \/ \E n \in BlocksOf[t], v \in Values : CallWrite(t, n, v)
             \/ Acquire(t) \/ ThreadStep(t)
      PROVE  IInv'
  BY <1>1, OutsideRings, AllocAndFormatStep, RecordStep, PublishStep, NotifyStep, FreeChainStep
  DEF ThreadStep
<1>2. CASE Device
  BY <1>2, TakeOrSleepStep, TransferStep, UsedStep, InterruptStep DEF Device
<1>3. CASE Handler
  BY <1>3, InterruptStep, TakeUsedStep DEF Handler
<1>4. CASE UNCHANGED vars
  <2>1. /\ UNCHANGED <<pc, write, blockno, mem, data, owned, successful, ok, head>>
        /\ UNCHANGED <<lock, free, desc, ops, infoB, status, avail, used, usedIdx>>
        /\ UNCHANGED <<handler, seen, isr, claimed, dev, devHead, lastAvail, notified, store>>
    BY <1>4 DEF vars, threadVars, ringVars, irqVars, devVars
  <2>2. TypeOK'
    BY <2>1 DEF IInv, TypeOK
  <2> QED BY <2>1, <2>2 DEF IInv, LockOK, ChainOK, Second, Third, StageOK, StageOfThread,
        EntriesOK, BufferOK, Quiet, Published, Working, Answered, UsedHead
<1> QED BY <1>1, <1>2, <1>3, <1>4 DEF Next

\* The inductive invariant holds in every reachable state.
THEOREM Invariance == Spec => []IInv
BY InitOK, NextOK, PTL DEF Spec

\* The driver's tables, the rings and the registers keep their types: every
\* index the driver, the handler or the device uses is inside its table.
THEOREM TypeCorrectness == Spec => []TypeOK
<1>1. IInv => TypeOK
  BY DEF IInv
<1> QED BY <1>1, Invariance, PTL

\* A descriptor is taken exactly while it is in the chain of the holder of the lock.
THEOREM NoDescriptorLost == Spec => []DescriptorsAccounted
<1>1. ASSUME IInv
      PROVE  DescriptorsAccounted
  <2>1. ASSUME NEW t \in Threads, pc[t] \in Requests
        PROVE  lock = t /\ Cardinality(Chain(head[t])) = 3
    <3>1. lock = t
      BY <1>1, <2>1 DEF IInv, LockOK
    <3>2. /\ head[t] # Second(t) /\ head[t] # Third(t) /\ Second(t) # Third(t)
      BY <1>1, <2>1 DEF IInv, ChainOK
    <3>3. Cardinality({head[t], Second(t), Third(t)}) = 3
      BY <3>2, CardinalityThree
    <3> QED BY <1>1, <2>1, <3>1, <3>3, ChainIsThree
  <2>2. CASE \E t \in Threads : pc[t] \in Requests
    <3>1. PICK t \in Threads : pc[t] \in Requests
      BY <2>2
    <3>2. {u \in Threads : pc[u] \in Requests} = {t}
      BY <1>1, <3>1, HolderAlone
    <3>3. Descs \ free = Chain(head[t])
      BY <1>1, <3>1, ChainIsThree DEF IInv, ChainOK
    <3>4. UNION {Chain(head[u]) : u \in {w \in Threads : pc[w] \in Requests}} = Chain(head[t])
      BY <3>2
    <3> QED BY <2>1, <3>3, <3>4 DEF DescriptorsAccounted
  <2>3. CASE ~ \E t \in Threads : pc[t] \in Requests
    <3>1. free = Descs
      BY <1>1, <2>3 DEF IInv, ChainOK
    <3>2. UNION {Chain(head[u]) : u \in {w \in Threads : pc[w] \in Requests}} = {}
      BY <2>3
    <3> QED BY <2>1, <3>1, <3>2 DEF DescriptorsAccounted
  <2> QED BY <2>2, <2>3
<1> QED BY <1>1, Invariance, PTL

\* From publication to completion the chain and the buffer are the device's, and
\* the thread waits for them.
THEOREM BufferIsDevices == Spec => []DeviceOwnsBuffer
<1>1. ASSUME IInv
      PROVE  DeviceOwnsBuffer
  <2>1. usedIdx \in 0 .. IdxMod - 1
    BY <1>1 DEF IInv, TypeOK
  <2>2. CASE Quiet
    <3>1. WithDevice = 0
      BY <2>1, <2>2, IndexFacts DEF Quiet, WithDevice
    <3> QED BY <3>1 DEF DeviceOwnsBuffer
  <2>3. CASE ~Quiet
    <3>1. Published \/ Working \/ Answered
      BY <1>1, <2>3 DEF IInv, StageOK
    <3>2. avail.idx = Succ(usedIdx)
      BY <3>1 DEF Published, Working, Answered
    <3>3. WithDevice = 1
      BY <2>1, <3>2, IndexFacts DEF WithDevice
    <3>4. PICK t \in Threads : /\ pc[t] \in {"notify", "wait"} /\ owned[t]
                               /\ infoB[head[t]] = t /\ desc[Second(t)].buf = t
      BY <1>1, <2>3, DeviceAndThread
    <3>5. /\ dev # "idle" => devHead = head[t]
          /\ usedIdx # used.idx => UsedHead = head[t]
      BY <1>1, <3>1, <3>4, StagesExclusive DEF IInv, EntriesOK, Published, Working, Answered
    <3> QED BY <3>3, <3>4, <3>5 DEF DeviceOwnsBuffer, Second
  <2> QED BY <2>2, <2>3
<1> QED BY <1>1, Invariance, PTL

\* Each interrupt that is claimed brings exactly one completion.
THEOREM OneCompletion == Spec => []OneCompletionPerInterrupt
<1>1. IInv => OneCompletionPerInterrupt
  BY DEF IInv, StageOK, Quiet, Published, Working, Answered, OneCompletionPerInterrupt
<1> QED BY <1>1, Invariance, PTL

-----------------------------------------------------------------------------
\* The refinement.  A step that changes what no caller sees is a stutter of
\* the promise; DevTransfer is the instant at which a call takes effect.
Client == [t \in Threads |-> ClientOf(t)]

\* At the start no call is open.
LEMMA InitRefines == Init => Promise!Init
<1> SUFFICES ASSUME Init
             PROVE  Promise!Init
  OBVIOUS
<1>1. ASSUME NEW t \in Threads
      PROVE  ClientOf(t) = [st |-> "idle", write |-> FALSE, blockno |-> Block0,
                            mem |-> Zeros, ok |-> FALSE]
  BY DEF Init, ClientOf, Served, Succeeded, Requests
<1>2. \A t \in Threads : ClientOf(t) \in {c \in Promise!Clients : c.st = "idle"}
  <2> DEFINE c0 == [st |-> "idle", write |-> FALSE, blockno |-> Block0,
                    mem |-> Zeros, ok |-> FALSE]
  <2>1. c0 \in Promise!Clients
    BY ZerosAssumption DEF Promise!Clients
  <2>2. c0.st = "idle"
    OBVIOUS
  <2>3. \A t \in Threads : ClientOf(t) = c0
    BY <1>1
  <2> HIDE DEF c0
  <2> QED BY <2>1, <2>2, <2>3
<1>3. Client \in [Threads -> {c \in Promise!Clients : c.st = "idle"}]
  BY <1>2 DEF Client
<1> QED BY <1>3 DEF Init, Promise!Init, Client

\* The driver's own steps up to the busy wait, and the ones after it.
LEMMA DriverStutters ==
  ASSUME IInv, NEW t \in Threads,
         \/ Acquire(t) \/ AllocAndFormat(t) \/ Record(t) \/ Publish(t) \/ Notify(t)
         \/ FreeChain(t) \/ Release(t)
  PROVE  UNCHANGED <<store, Client>>
<1>1. TypeOK
  BY DEF IInv
<1>2. UNCHANGED <<write, blockno, mem, data, successful, ok, store>>
  BY DEF Acquire, AllocAndFormat, Record, Publish, Notify, FreeChain, Release,
     devVars, threadVars
<1>3. ASSUME NEW u \in Threads, u # t
      PROVE  /\ pc'[u] = pc[u] /\ head'[u] = head[u]
             /\ pc[u] \in Requests => status'[head[u]] = status[head[u]]
  <2>1. pc'[u] = pc[u] /\ head'[u] = head[u]
    BY <1>1, <1>3
    DEF TypeOK, Acquire, AllocAndFormat, Record, Publish, Notify, FreeChain, Release, Goto
  <2>2. CASE AllocAndFormat(t)
    <3>1. pc[t] = "alloc"
      BY <2>2 DEF AllocAndFormat, At
    <3>2. pc[u] \notin Requests
      BY <1>3, <3>1, HolderAlone
    <3> QED BY <2>1, <3>2
  <2>3. CASE ~AllocAndFormat(t)
    <3>1. status' = status
      BY <2>3 DEF Acquire, Record, Publish, Notify, FreeChain, Release, ringVars
    <3> QED BY <2>1, <3>1
  <2> QED BY <2>2, <2>3
<1>4. ASSUME NEW u \in Threads, u # t
      PROVE  ClientOf(u)' = ClientOf(u)
  BY <1>2, <1>3, <1>4 DEF ClientOf, Served, Succeeded
<1>5. ClientOf(t)' = ClientOf(t)
  <2>1. CASE Acquire(t)
    <3>1. pc[t] = "acquire" /\ pc'[t] = "alloc"
      BY <1>1, <2>1 DEF TypeOK, Acquire, At, Goto
    <3> QED BY <1>2, <3>1 DEF ClientOf, Served, Requests
  <2>2. CASE AllocAndFormat(t)
    <3>1. pc[t] = "alloc" /\ pc'[t] = "record"
      BY <1>1, <2>2 DEF TypeOK, AllocAndFormat, At, Goto
    <3>2. IInv'
      BY <2>2, AllocAndFormatStep
    <3>3. status'[head'[t]] = 255
      BY <3>1, <3>2 DEF IInv, EntriesOK
    <3> QED BY <1>2, <3>1, <3>3 DEF ClientOf, Served, Requests
  <2>3. CASE Record(t) \/ Publish(t) \/ Notify(t)
    <3>1. /\ pc[t] \in Requests /\ pc'[t] \in Requests
          /\ head' = head /\ status' = status
          /\ "idle" \notin Requests /\ "release" \notin Requests /\ "return" \notin Requests
      BY <1>1, <2>3 DEF TypeOK, Record, Publish, Notify, At, Goto, ringVars, Requests
    <3> QED BY <1>2, <3>1 DEF ClientOf, Served, Succeeded
  <2>4. CASE FreeChain(t)
    <3>1. pc[t] = "wait" /\ pc'[t] = "release" /\ ~owned[t]
      BY <1>1, <2>4 DEF TypeOK, FreeChain, At, Goto
    <3>2. Quiet
      BY <3>1 DEF IInv, StageOfThread
    <3>3. status[head[t]] # 255 /\ successful[t] = (status[head[t]] = 0)
      BY <3>1, <3>2 DEF IInv, EntriesOK
    <3>4. Served(t) /\ Served(t)' /\ (Succeeded(t) <=> Succeeded(t)')
      BY <1>2, <3>1, <3>3 DEF Served, Succeeded, Requests
    <3>5. Succeeded(t) = successful[t] /\ Succeeded(t)' = successful[t]
      BY <1>2, <3>1, <3>3 DEF Succeeded, Requests
    <3> QED BY <1>2, <3>1, <3>4, <3>5 DEF ClientOf
  <2>5. CASE Release(t)
    <3>1. pc[t] = "release" /\ pc'[t] = "return"
      BY <1>1, <2>5 DEF TypeOK, Release, At, Goto
    <3> QED BY <1>2, <3>1 DEF ClientOf, Served, Succeeded, Requests
  <2> QED BY <2>1, <2>2, <2>3, <2>4, <2>5
<1> QED BY <1>2, <1>4, <1>5 DEF Client

\* What the device and the handler do besides DevTransfer.
LEMMA RingsStutter ==
  ASSUME IInv, DevTake \/ DevSleep \/ DevUsed \/ DevRaise \/ Handler
  PROVE  UNCHANGED <<store, Client>>
<1>1. UNCHANGED <<pc, write, blockno, mem, data, ok, head, status, store>>
  BY DEF DevTake, DevSleep, DevUsed, DevRaise, Handler, Claim, ReadStatus, Ack, TakeUsed,
     UsedEmpty, Complete, threadVars, ringVars, devVars
<1>2. ASSUME NEW u \in Threads, pc[u] \notin Requests
      PROVE  successful'[u] = successful[u]
  <2>1. CASE TakeUsed
    <3>1. ~Quiet
      BY <2>1, StagesExclusive DEF TakeUsed, Quiet
    <3>2. PICK t \in Threads : /\ pc[t] \in {"notify", "wait"} /\ infoB[head[t]] = t
      BY <3>1, DeviceAndThread
    <3>3. Answered
      BY <2>1, StagesExclusive DEF TakeUsed
    <3>4. infoB[UsedHead] = t /\ t # u
      BY <1>2, <3>2, <3>3 DEF IInv, EntriesOK, Requests
    <3> QED BY <2>1, <3>4 DEF TakeUsed, IInv, TypeOK
  <2>2. CASE ~TakeUsed
    BY <2>2 DEF DevTake, DevSleep, DevUsed, DevRaise, Handler, Claim, ReadStatus, Ack,
       UsedEmpty, Complete, threadVars
  <2> QED BY <2>1, <2>2
<1>3. \A u \in Threads : ClientOf(u)' = ClientOf(u)
  BY <1>1, <1>2 DEF ClientOf, Served, Succeeded
<1> QED BY <1>1, <1>3 DEF Client

\* What it takes to see that one caller's entry changes to c.
LEMMA OneCallChanges ==
  ASSUME NEW t \in Threads, NEW c,
         ClientOf(t)' = c,
         \A u \in Threads \ {t} : ClientOf(u)' = ClientOf(u)
  PROVE  Client' = [Client EXCEPT ![t] = c]
BY DEF Client

\* bread() or bwrite() is called.
LEMMA CallRefines ==
  ASSUME IInv, NEW t \in Threads,
         \/ \E n \in BlocksOf[t] : CallRead(t, n)
         \/ \E n \in BlocksOf[t], v \in Values : CallWrite(t, n, v)
  PROVE  Promise!Next
<1>1. TypeOK
  BY DEF IInv
<1>2. /\ UNCHANGED <<successful, head, status, store>>
      /\ \A u \in Threads \ {t} :
           UNCHANGED <<pc[u], write[u], blockno[u], mem[u], data[u], ok[u]>>
  BY <1>1 DEF TypeOK, CallRead, CallWrite, Goto, ringVars, devVars
<1>3. \A u \in Threads \ {t} : ClientOf(u)' = ClientOf(u)
  BY <1>2 DEF ClientOf, Served, Succeeded
<1>4. pc[t] = "idle" /\ pc'[t] = "acquire"
  BY <1>1 DEF TypeOK, CallRead, CallWrite, At, Goto
<1>5. ClientOf(t) = [st |-> "idle", write |-> write[t], blockno |-> blockno[t],
                     mem |-> mem[t], ok |-> ok[t]]
  BY <1>4 DEF ClientOf, Served, Requests
<1>6. ClientOf(t)' = [st |-> "pending", write |-> write'[t], blockno |-> blockno'[t],
                      mem |-> mem'[t], ok |-> ok'[t]]
  BY <1>4 DEF ClientOf, Served, Requests
<1>7. CASE \E n \in BlocksOf[t] : CallRead(t, n)
  <2>1. PICK n \in BlocksOf[t] : CallRead(t, n)
    BY <1>7
  <2>2. n \in BlockNos
    BY BlocksOfAssumption
  <2>3. write'[t] = FALSE /\ blockno'[t] = n /\ mem'[t] = mem[t] /\ ok'[t] = FALSE
    BY <1>1, <2>1 DEF TypeOK, CallRead
  <2>4. Client' = [Client EXCEPT ![t] = [st |-> "pending", write |-> FALSE,
                                         blockno |-> n, mem |-> Client[t].mem, ok |-> FALSE]]
    <3>1. Client[t].mem = mem[t]
      BY <1>5 DEF Client
    <3>2. ClientOf(t)' = [st |-> "pending", write |-> FALSE,
                          blockno |-> n, mem |-> Client[t].mem, ok |-> FALSE]
      BY <1>6, <2>3, <3>1
    <3> QED BY <1>3, <3>2, OneCallChanges
  <2>5. Client[t].st = "idle"
    BY <1>5 DEF Client
  <2>6. Promise!InvokeRead(t, n)
    BY <1>2, <2>4, <2>5 DEF Promise!InvokeRead, Client
  <2> QED BY <2>2, <2>6 DEF Promise!Next
<1>8. CASE \E n \in BlocksOf[t], v \in Values : CallWrite(t, n, v)
  <2>1. PICK n \in BlocksOf[t], v \in Values : CallWrite(t, n, v)
    BY <1>8
  <2>2. n \in BlockNos
    BY BlocksOfAssumption
  <2>3. write'[t] = TRUE /\ blockno'[t] = n /\ mem'[t] = v /\ ok'[t] = FALSE
    BY <1>1, <2>1 DEF TypeOK, CallWrite
  <2>4. Client' = [Client EXCEPT ![t] = [st |-> "pending", write |-> TRUE,
                                         blockno |-> n, mem |-> v, ok |-> FALSE]]
    <3>1. ClientOf(t)' = [st |-> "pending", write |-> TRUE,
                          blockno |-> n, mem |-> v, ok |-> FALSE]
      BY <1>6, <2>3
    <3> QED BY <1>3, <3>1, OneCallChanges
  <2>5. Client[t].st = "idle"
    BY <1>5 DEF Client
  <2>6. Promise!InvokeWrite(t, n, v)
    BY <1>2, <2>4, <2>5 DEF Promise!InvokeWrite, Client
  <2> QED BY <2>2, <2>6 DEF Promise!Next
<1> QED BY <1>7, <1>8

\* bread() or bwrite() returns.
LEMMA ReturnRefines ==
  ASSUME IInv, NEW t \in Threads, Return(t)
  PROVE  Promise!Next
<1>1. TypeOK
  BY DEF IInv
<1>2. /\ UNCHANGED <<head, status, store>>
      /\ \A u \in Threads \ {t} :
           UNCHANGED <<pc[u], write[u], blockno[u], mem[u], data[u], ok[u], successful[u]>>
  BY <1>1 DEF TypeOK, Return, Goto, ringVars, devVars
<1>3. \A u \in Threads \ {t} : ClientOf(u)' = ClientOf(u)
  BY <1>2 DEF ClientOf, Served, Succeeded
<1>4. pc[t] = "return" /\ pc'[t] = "idle"
  BY <1>1 DEF TypeOK, Return, At, Goto
<1>5. ClientOf(t) = [st |-> "done", write |-> write[t], blockno |-> blockno[t],
                     mem |-> IF successful[t] /\ ~write[t] THEN data[t] ELSE mem[t],
                     ok |-> successful[t]]
  BY <1>4 DEF ClientOf, Served, Succeeded, Requests
<1>6. ClientOf(t)' = [st |-> "idle", write |-> write'[t], blockno |-> blockno'[t],
                      mem |-> mem'[t], ok |-> ok'[t]]
  BY <1>4 DEF ClientOf, Served, Requests
<1>7. /\ write'[t] = FALSE /\ blockno'[t] = Block0 /\ ok'[t] = successful[t]
      /\ mem'[t] = IF successful[t] /\ ~write[t] THEN data[t] ELSE mem[t]
  BY <1>1 DEF TypeOK, Return
<1>8. Client' = [Client EXCEPT ![t] = [st |-> "idle", write |-> FALSE,
                                       blockno |-> Block0, mem |-> Client[t].mem, ok |-> Client[t].ok]]
  <2>1. Client[t].mem = mem'[t] /\ Client[t].ok = ok'[t]
    BY <1>5, <1>7 DEF Client
  <2>2. ClientOf(t)' = [st |-> "idle", write |-> FALSE,
                        blockno |-> Block0, mem |-> Client[t].mem, ok |-> Client[t].ok]
    BY <1>6, <1>7, <2>1
  <2> QED BY <1>3, <2>2, OneCallChanges
<1>9. Client[t].st = "done"
  BY <1>5 DEF Client
<1>10. Promise!Respond(t)
  BY <1>2, <1>8, <1>9 DEF Promise!Respond, Client
<1> QED BY <1>10 DEF Promise!Next

\* The device executes a command: this is where the call takes effect, or fails.
LEMMA TransferRefines ==
  ASSUME IInv, NEW s \in {0, 1}, DevTransfer(s)
  PROVE  Promise!Next
<1>1. TypeOK
  BY DEF IInv
<1>2. Working /\ dev = "transfer" /\ ~Quiet
  BY StagesExclusive DEF IInv, DevTransfer, StageOK, Quiet, Published, Working, Answered
<1>3. PICK t \in Threads : /\ pc[t] \in {"notify", "wait"}
                           /\ \A u \in Threads : pc[u] \in Requests => u = t
                           /\ desc[Second(t)].buf = t
                           /\ ops[head[t]] = [write |-> write[t], blockno |-> blockno[t]]
  BY <1>2, DeviceAndThread
<1>4. devHead = head[t] /\ DevBuffer = t /\ status[head[t]] = 255
  BY <1>2, <1>3 DEF IInv, EntriesOK, DevBuffer, Second
<1>5. ops[devHead].write = write[t] /\ ops[devHead].blockno = blockno[t]
  BY <1>3, <1>4
<1>6. /\ store' = IF s = 0 /\ write[t] THEN [store EXCEPT ![blockno[t]] = data[t]] ELSE store
      /\ data' = IF s = 0 /\ ~write[t] THEN [data EXCEPT ![t] = store[blockno[t]]] ELSE data
      /\ status' = [status EXCEPT ![head[t]] = s]
      /\ UNCHANGED <<pc, write, blockno, mem, successful, ok, head>>
  BY <1>4, <1>5 DEF DevTransfer
<1>7. ASSUME NEW u \in Threads \ {t}
      PROVE  ClientOf(u)' = ClientOf(u)
  <2>1. pc[u] \notin Requests /\ data'[u] = data[u]
    BY <1>1, <1>3, <1>6 DEF TypeOK
  <2> QED BY <1>6, <2>1 DEF ClientOf, Served, Succeeded
<1>8. /\ pc[t] \in Requests
      /\ pc[t] # "idle" /\ pc[t] \notin {"release", "return"}
      /\ status'[head[t]] = s
  BY <1>1, <1>3, <1>6 DEF TypeOK, Requests
<1>9. ClientOf(t) = [st |-> "pending", write |-> write[t], blockno |-> blockno[t],
                     mem |-> mem[t], ok |-> ok[t]]
  BY <1>4, <1>8 DEF ClientOf, Served
<1>10. ClientOf(t)' = [st |-> "done", write |-> write[t], blockno |-> blockno[t],
                       mem |-> IF s = 0 /\ ~write[t] THEN data'[t] ELSE mem[t],
                       ok |-> s = 0]
  <2>1. Served(t)' /\ Succeeded(t)' = (s = 0)
    <3>1. pc'[t] \in Requests /\ head'[t] = head[t] /\ s # 255
      BY <1>6, <1>8
    <3> QED BY <1>8, <3>1 DEF Served, Succeeded
  <2>2. pc'[t] # "idle" /\ write'[t] = write[t] /\ blockno'[t] = blockno[t] /\ mem'[t] = mem[t]
    BY <1>6, <1>8
  <2>3. CASE s = 0
    BY <2>1, <2>2, <2>3 DEF ClientOf
  <2>4. CASE s = 1
    BY <2>1, <2>2, <2>4 DEF ClientOf
  <2> QED BY <2>3, <2>4
<1>11. Client[t] = ClientOf(t)
  BY DEF Client
<1>12. CASE s = 1
  <2>1. Client' = [Client EXCEPT ![t] = [st |-> "done", write |-> Client[t].write,
                                         blockno |-> Client[t].blockno, mem |-> Client[t].mem, ok |-> FALSE]]
    <3>1. /\ Client[t].write = write[t] /\ Client[t].blockno = blockno[t]
          /\ Client[t].mem = mem[t]
      BY <1>9 DEF Client
    <3>2. ClientOf(t)' = [st |-> "done", write |-> Client[t].write,
                          blockno |-> Client[t].blockno, mem |-> Client[t].mem, ok |-> FALSE]
      <4>1. (s = 0) = FALSE
        BY <1>12
      <4>2. (IF s = 0 /\ ~write[t] THEN data'[t] ELSE mem[t]) = mem[t]
        BY <1>12
      <4> QED BY <1>10, <3>1, <4>1, <4>2, Zenon
    <3> QED BY <1>7, <3>2, OneCallChanges
  <2>2. Client[t].st = "pending" /\ store' = store
    BY <1>6, <1>9, <1>11, <1>12
  <2>3. Promise!Fail(t)
    BY <2>1, <2>2 DEF Promise!Fail, Promise!Finish, Client
  <2> QED BY <2>3 DEF Promise!Next
<1>13. CASE s = 0 /\ write[t]
  <2>1. Client' = [Client EXCEPT ![t] = [st |-> "done", write |-> Client[t].write,
                                         blockno |-> Client[t].blockno, mem |-> Client[t].mem, ok |-> TRUE]]
    <3>1. /\ Client[t].write = write[t] /\ Client[t].blockno = blockno[t]
          /\ Client[t].mem = mem[t]
      BY <1>9 DEF Client
    <3>2. ClientOf(t)' = [st |-> "done", write |-> Client[t].write,
                          blockno |-> Client[t].blockno, mem |-> Client[t].mem, ok |-> TRUE]
      BY <1>10, <1>13, <3>1
    <3> QED BY <1>7, <3>2, OneCallChanges
  <2>2. data[t] = mem[t]
    BY <1>8, <1>13 DEF IInv, BufferOK
  <2>3. /\ Client[t].st = "pending" /\ Client[t].write
        /\ store' = [store EXCEPT ![Client[t].blockno] = Client[t].mem]
    BY <1>6, <1>9, <1>11, <1>13, <2>2
  <2>4. Promise!PerformWrite(t)
    BY <2>1, <2>3 DEF Promise!PerformWrite, Promise!Finish, Client
  <2> QED BY <2>4 DEF Promise!Next
<1>14. CASE s = 0 /\ ~write[t]
  <2>1. data'[t] = store[blockno[t]]
    BY <1>1, <1>6, <1>14 DEF TypeOK
  <2>2. Client' = [Client EXCEPT ![t] = [st |-> "done", write |-> Client[t].write,
                                         blockno |-> Client[t].blockno, mem |-> store[Client[t].blockno], ok |-> TRUE]]
    <3>1. /\ Client[t].write = write[t] /\ Client[t].blockno = blockno[t]
          /\ data'[t] = store[Client[t].blockno]
      BY <1>9, <2>1 DEF Client
    <3>2. ClientOf(t)' = [st |-> "done", write |-> Client[t].write,
                          blockno |-> Client[t].blockno, mem |-> store[Client[t].blockno], ok |-> TRUE]
      BY <1>10, <1>14, <3>1
    <3> QED BY <1>7, <3>2, OneCallChanges
  <2>3. /\ Client[t].st = "pending" /\ ~Client[t].write /\ store' = store
        /\ data'[t] = store[Client[t].blockno]
    BY <1>6, <1>9, <1>11, <1>14, <2>1
  <2>4. Promise!PerformRead(t)
    BY <2>2, <2>3 DEF Promise!PerformRead, Promise!Finish, Client
  <2> QED BY <2>4 DEF Promise!Next
<1> QED BY <1>12, <1>13, <1>14

\* Driver, handler and device together are the disk that BlockDevice promises.
THEOREM Refinement == Spec => ImplementsBlockDevice
<1>1. ASSUME IInv, [Next]_vars
      PROVE  [Promise!Next]_<<store, Client>>
  <2>1. ASSUME NEW t \in Threads,
               \/ \E n \in BlocksOf[t] : CallRead(t, n)
               \/ \E n \in BlocksOf[t], v \in Values : CallWrite(t, n, v)
               \/ Acquire(t) \/ ThreadStep(t)
        PROVE  [Promise!Next]_<<store, Client>>
    BY <1>1, <2>1, CallRefines, ReturnRefines, DriverStutters DEF ThreadStep
  <2>2. CASE Device
    BY <1>1, <2>2, RingsStutter, TransferRefines DEF Device
  <2>3. CASE Handler
    BY <1>1, <2>3, RingsStutter
  <2>4. CASE UNCHANGED vars
    BY <2>4 DEF vars, threadVars, ringVars, devVars, Client, ClientOf, Served, Succeeded
  <2> QED BY <1>1, <2>1, <2>2, <2>3, <2>4 DEF Next
<1>2. ASSUME IInv, [Next]_vars
      PROVE  [Promise!Next]_<<store, [t \in Threads |-> ClientOf(t)]>>
  BY <1>1, <1>2 DEF Client
<1> QED BY <1>2, InitRefines, Invariance, PTL DEF Spec, ImplementsBlockDevice, Promise!Spec
=============================================================================
