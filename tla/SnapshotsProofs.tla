--------------------------- MODULE SnapshotsProofs ---------------------------
(***************************************************************************)
(* Proofs about Snapshots, for any of the twelve days and any number of    *)
(* typed characters: traps return what they have taken, sys_switch keeps   *)
(* what a callee keeps, a hang has its known causes, and the echo is in    *)
(* order.                                                                  *)
(*                                                                         *)
(* The invariant Inv says what the code at each place relies on, whether   *)
(* it runs or a trap has interrupted it.  The programs of the days come    *)
(* in by the shape of their texts: a boot that sets the vector before it   *)
(* turns interrupts on, then a loop, a switch of stacks or one of modes.   *)
(***************************************************************************)
EXTENDS Snapshots, SequenceTheorems, TLAPS

----------------------------------------------------------------------------
(***************************************************************************)
(* Registers, and the frames and contexts that hold them                   *)
(***************************************************************************)

\* The registers are the 31 that trap entry names in order.
LEMMA RegsAre ==
  /\ Regs = {"ra", "sp", "gp", "tp", "t0", "t1", "t2", "s0", "s1",
             "a0", "a1", "a2", "a3", "a4", "a5", "a6", "a7",
             "s2", "s3", "s4", "s5", "s6", "s7", "s8", "s9", "s10", "s11",
             "t3", "t4", "t5", "t6"}
  /\ \A r \in Regs : \E k \in 1 .. 31 : InOrder[k] = r
  /\ Len(InOrder) = 31
<1>1. Len(InOrder) = 31 /\ DOMAIN InOrder = 1 .. 31
  BY DEF InOrder
<1>2. Regs = {InOrder[k] : k \in 1 .. 31}
  BY <1>1 DEF Regs, ToSet
<1>3. {InOrder[k] : k \in 1 .. 31} = {"ra", "sp", "gp", "tp", "t0", "t1", "t2", "s0", "s1",
             "a0", "a1", "a2", "a3", "a4", "a5", "a6", "a7",
             "s2", "s3", "s4", "s5", "s6", "s7", "s8", "s9", "s10", "s11",
             "t3", "t4", "t5", "t6"}
  BY DEF InOrder
<1> QED BY <1>1, <1>2, <1>3

\* The word of a frame for each register, and the ones the handlers use.
LEMMA WordsAre ==
  /\ \A r \in Regs : WordOf[r] \in 0 .. 30 /\ InOrder[WordOf[r] + 1] = r
  /\ WordOf["ra"] = 0 /\ WordOf["sp"] = 1 /\ WordOf["a0"] = 9 /\ WordOf["a7"] = 16
<1>1. ASSUME NEW r \in Regs PROVE WordOf[r] \in 0 .. 30 /\ InOrder[WordOf[r] + 1] = r
  <2>1. PICK k \in 1 .. Len(InOrder) : InOrder[k] = r
    BY RegsAre
  <2> DEFINE j == CHOOSE i \in 1 .. Len(InOrder) : InOrder[i] = r
  <2>2. j \in 1 .. Len(InOrder) /\ InOrder[j] = r
    BY <2>1
  <2>3. WordOf[r] = j - 1
    BY DEF WordOf
  <2> HIDE DEF j
  <2> QED BY <2>2, <2>3, RegsAre
<1>2. \A k \in 1 .. 31 : /\ InOrder[k] = "ra" => k = 1
                         /\ InOrder[k] = "sp" => k = 2
                         /\ InOrder[k] = "a0" => k = 10
                         /\ InOrder[k] = "a7" => k = 17
  BY DEF InOrder
<1>3. {"ra", "sp", "a0", "a7"} \subseteq Regs
  BY RegsAre
<1> QED
  <2>1. ASSUME NEW r \in Regs PROVE WordOf[r] + 1 \in 1 .. 31 /\ InOrder[WordOf[r] + 1] = r /\ WordOf[r] \in Int
    BY <1>1
  <2> QED BY <1>1, <1>2, <1>3, <2>1

\* reg_save and reg_load are those of day 2-2, but for day 6.
LEMMA SavesAre ==
  ASSUME NEW d \in AllDays, d # "2-1"
  PROVE  /\ OfDay(d).save = IF d = "6" THEN reg_save6 ELSE reg_save22
         /\ OfDay(d).load = IF d = "6" THEN reg_load6 ELSE reg_load22
  BY DEF AllDays, OfDay, Snapshot, reg_save23, reg_save31, reg_save32, reg_save33, reg_save4, reg_save51,
         reg_save52, reg_save53, reg_save54, reg_load23, reg_load31, reg_load32, reg_load33, reg_load4,
         reg_load51, reg_load52, reg_load53, reg_load54

\* The elements of a concatenation.
LEMMA Joined ==
  ASSUME NEW A, NEW s \in Seq(A), NEW t \in Seq(A), NEW c, c = s \o t
  PROVE  /\ c \in Seq(A) /\ Len(c) = Len(s) + Len(t)
         /\ \A k \in 1 .. Len(s) : c[k] = s[k]
         /\ \A k \in 1 .. Len(t) : c[Len(s) + k] = t[k]
  OBVIOUS

\* The words reg_save fills, and with what.
LEMMA SaveWords ==
  /\ DOMAIN reg_save22 = 0 .. 30 /\ DOMAIN reg_save6 = 0 .. 32
  /\ \A w \in 0 .. 30 : reg_save22[w] = InOrder[w + 1] /\ reg_save6[w] = InOrder[w + 1]
  /\ reg_save6[31] = "satp" /\ reg_save6[32] = "mepc"
<1>1. DOMAIN reg_save22 = 0 .. 30 /\ \A w \in 0 .. 30 : reg_save22[w] = InOrder[w + 1]
  BY DEF reg_save22
<1> DEFINE s == InOrder \o <<"satp", "mepc">>
           A == Regs \cup CSRs
<1>2. InOrder \in Seq(A) /\ Len(InOrder) = 31
  <2>1. Len(InOrder) = 31 /\ \A k \in 1 .. 31 : InOrder[k] \in A
    BY RegsAre DEF Regs, ToSet
  <2>2. InOrder = [k \in 1 .. 31 |-> InOrder[k]]
    BY DEF InOrder
  <2> QED BY <2>1, <2>2
<1> DEFINE t == <<"satp", "mepc">>
<1>3. t \in Seq(A) /\ Len(t) = 2 /\ t[1] = "satp" /\ t[2] = "mepc"
  BY DEF CSRs
<1>8. InOrder \in Seq(A) /\ t \in Seq(A) /\ s = InOrder \o t
  BY <1>2, <1>3
<1> HIDE DEF s, t, A
<1>9. /\ \A k \in 1 .. Len(InOrder) : s[k] = InOrder[k]
      /\ \A k \in 1 .. Len(t) : s[Len(InOrder) + k] = t[k]
  BY <1>8, Joined
<1>4. (\A i \in 1 .. 31 : s[i] = InOrder[i]) /\ s[32] = "satp" /\ s[33] = "mepc"
  BY <1>2, <1>3, <1>9
<1>5. DOMAIN reg_save6 = 0 .. 32 /\ \A w \in 0 .. 32 : reg_save6[w] = s[w + 1]
  BY DEF reg_save6, s, t
<1>6. \A w \in 0 .. 30 : reg_save6[w] = InOrder[w + 1]
  BY <1>4, <1>5
<1>7. reg_save6[31] = "satp" /\ reg_save6[32] = "mepc"
  BY <1>4, <1>5
<1> QED BY <1>1, <1>5, <1>6, <1>7

\* The stores of a trap, and the loads that undo them.
Stored(d, r, f, g) ==
  /\ DOMAIN g = 0 .. 32
  /\ \A x \in Regs : g[WordOf[x]] = r[x]
  /\ IF d = "6" THEN g[31] = r["satp"] /\ g[32] = r["mepc"] ELSE g[31] = f[31] /\ g[32] = f[32]
  /\ \A w \in 0 .. 32 : g[w] = f[w] \/ \E x \in Regs \cup CSRs : g[w] = r[x]

\* reg_save, in either version, stores every register in its word.
LEMMA Stores ==
  ASSUME NEW d \in AllDays, d # "2-1", NEW r, NEW f, DOMAIN f = 0 .. 32,
         NEW g, g = Store(OfDay(d).save, r, f)
  PROVE  Stored(d, r, f, g)
<1> DEFINE s == OfDay(d).save
<1>1. /\ DOMAIN s = IF d = "6" THEN 0 .. 32 ELSE 0 .. 30
      /\ \A w \in 0 .. 30 : s[w] = InOrder[w + 1]
      /\ d = "6" => s[31] = "satp" /\ s[32] = "mepc"
  BY SavesAre, SaveWords
<1>2. DOMAIN g = 0 .. 32 /\ \A w \in 0 .. 32 : g[w] = IF w \in DOMAIN s THEN r[s[w]] ELSE f[w]
  BY DEF Store
<1> HIDE DEF s
<1>3. \A w \in 0 .. 30 : g[w] = r[InOrder[w + 1]] /\ InOrder[w + 1] \in Regs
  BY <1>1, <1>2, RegsAre DEF Regs, ToSet
<1>4. \A x \in Regs : g[WordOf[x]] = r[x]
  BY <1>3, WordsAre
<1>5. IF d = "6" THEN g[31] = r["satp"] /\ g[32] = r["mepc"] ELSE g[31] = f[31] /\ g[32] = f[32]
  BY <1>1, <1>2
<1>6. \A w \in 0 .. 32 : w \in 0 .. 30 \/ w = 31 \/ w = 32
  OBVIOUS
<1>7. \A w \in 0 .. 32 : g[w] = f[w] \/ \E x \in Regs \cup CSRs : g[w] = r[x]
  BY <1>3, <1>5, <1>6 DEF CSRs
<1> QED BY <1>2, <1>4, <1>5, <1>7 DEF Stored

Loaded(d, f, r, g) ==
  /\ DOMAIN g = Regs \cup CSRs
  /\ \A x \in Regs \ {"tp"} : g[x] = f[WordOf[x]]
  /\ g["tp"] = r["tp"]
  /\ g["satp"] = IF d = "6" THEN f[31] ELSE r["satp"]
  /\ g["mepc"] = IF d = "6" THEN f[32] ELSE r["mepc"]

\* reg_load, in either version, loads every register from its word.
LEMMA Loads ==
  ASSUME NEW d \in AllDays, d # "2-1", NEW r, DOMAIN r = Regs \cup CSRs, NEW f,
         NEW g, g = Load(OfDay(d).load, f, r)
  PROVE  Loaded(d, f, r, g)
<1> DEFINE s == OfDay(d).load
<1>1. DOMAIN g = Regs \cup CSRs /\ \A x \in Regs \cup CSRs : g[x] = IF x \in DOMAIN s THEN f[s[x]] ELSE r[x]
  BY DEF Load
<1>2. "satp" \notin Regs /\ "mepc" \notin Regs /\ "tp" \in Regs
  BY RegsAre
<1>3. /\ DOMAIN s = (Regs \ {"tp"}) \cup (IF d = "6" THEN CSRs ELSE {})
      /\ \A x \in Regs \ {"tp"} : s[x] = WordOf[x]
      /\ d = "6" => s["satp"] = 31 /\ s["mepc"] = 32
  <2>1. CASE d = "6"
    BY <2>1, <1>2, SavesAre DEF reg_load6, CSRs
  <2>2. CASE d # "6"
    BY <2>2, <1>2, SavesAre DEF reg_load22, CSRs
  <2> QED BY <2>1, <2>2
<1> HIDE DEF s
<1>4. \A x \in Regs \ {"tp"} : g[x] = f[WordOf[x]]
  BY <1>1, <1>3
<1>5. g["tp"] = r["tp"]
  BY <1>1, <1>2, <1>3 DEF CSRs
<1>6. "satp" \in CSRs /\ "mepc" \in CSRs
  BY DEF CSRs
<1>7. g["satp"] = IF d = "6" THEN f[31] ELSE r["satp"]
  BY <1>1, <1>2, <1>3, <1>6
<1>8. g["mepc"] = IF d = "6" THEN f[32] ELSE r["mepc"]
  BY <1>1, <1>2, <1>3, <1>6
<1> QED BY <1>1, <1>4, <1>5, <1>7, <1>8 DEF Loaded

----------------------------------------------------------------------------
(***************************************************************************)
(* The program of each day: its boot, and what follows it                  *)
(***************************************************************************)

TaskDays  == {"2-1", "2-2", "6"}
HeapLoops == {"3-2", "3-3"}
SModeDays == {"4", "5-1", "5-2", "5-3", "5-4", "6"}

DiskOps  == {"disk_request", "disk_wait"}
QuietOps == {"page_init", "vm_init", "virtio_disk_init", "proc_init", "print", "scratch", "mtimecmp",
             "MEIE", "MTIE", "MEIE_MTIE", "IER", "priority", "enable", "set_cpu_proc"} \cup DiskOps
BootOps  == QuietOps \cup {"mtvec", "MIE"}
Ops      == BootOps \cup {"w_mepc", "r_mstatus", "w_mstatus", "mret", "sys_switch", "malloc", "free"}

\* The v-th operation of s sets the vector, in front of all that turn interrupts on.
Boots(A, s, v) ==
  /\ s \in Seq(A) /\ v \in 1 .. Len(s) /\ s[v] = "mtvec"
  /\ \A k \in 1 .. Len(s) : s[k] = "MIE" => k > v

EarlyOps == BootOps \ ({"IER"} \cup DiskOps)
Early(d) == IF d \in {"2-1", "2-2", "2-3"} THEN EarlyOps ELSE BootOps

\* A boot of n operations, and what follows it.
TextShape(d, T, n, v) ==
  /\ n \in Nat \ {0} /\ v \in Nat
  /\ T \in Seq(Ops)
  /\ \A k \in 1 .. n : T[k] \in Early(d)
  /\ d = "2-1" => \A k \in 1 .. n : T[k] \in QuietOps
  /\ d # "2-1" => v \in 1 .. n /\ T[v] = "mtvec" /\ \A k \in 1 .. n : T[k] = "MIE" => k > v
  /\ d \in {"2-1", "2-2"} => Len(T) = n + 2 /\ T[n + 1] = "sys_switch" /\ T[n + 2] = "print"
  /\ d \in {"2-3", "3-1"} => Len(T) = n + 1 /\ T[n + 1] = "print"
  /\ d \in HeapLoops => Len(T) = n + 2 /\ T[n + 1] = "malloc" /\ T[n + 2] = "free"
  /\ d \in SModeDays =>
       /\ T[n + 1] = "w_mepc" /\ T[n + 2] = "r_mstatus" /\ T[n + 3] = "w_mstatus" /\ T[n + 4] = "mret"
       /\ d # "6" => Len(T) > n + 4 /\ \A k \in n + 5 .. Len(T) : T[k] \in QuietOps
       /\ d = "6" => /\ Len(T) = n + 8 /\ T[n] = "set_cpu_proc"
                     /\ T[n + 5] = "sys_switch" /\ T[n + 6] = "mtvec"
                     /\ T[n + 7] = "MEIE_MTIE" /\ T[n + 8] = "MIE"

LoopShape(d, p, n) ==
  /\ d # "6" => p.endless
  /\ d = "6" => ~p.endless
  /\ d \in {"2-1", "2-2"} => p.loop = n + 2
  /\ d \in {"2-3", "3-1"} \cup HeapLoops => p.loop = n + 1
  /\ d \in SModeDays \ {"6"} => p.loop \in n + 5 .. Len(p.text)

Shape(d, n, v) == TextShape(d, OfDay(d).os.text, n, v) /\ LoopShape(d, OfDay(d).os, n)

\* A boot may go on.
LEMMA BootsOn ==
  ASSUME NEW A, NEW s, NEW v, Boots(A, s, v), NEW t \in Seq(A)
  PROVE  Boots(A, s \o t, v)
<1>1. s \in Seq(A) /\ v \in 1 .. Len(s) /\ s[v] = "mtvec" /\ \A k \in 1 .. Len(s) : s[k] = "MIE" => k > v
  BY DEF Boots
<1> DEFINE c == s \o t
<1>2. c \in Seq(A) /\ Len(c) = Len(s) + Len(t) /\ \A k \in 1 .. Len(s) : c[k] = s[k]
  BY <1>1
<1>3. Len(s) \in Nat /\ Len(t) \in Nat
  BY <1>1
<1> HIDE DEF c
<1>4. \A k \in 1 .. Len(c) : c[k] = "MIE" => k > v
  <2> TAKE k \in 1 .. Len(c)
  <2>1. CASE k <= Len(s)
    BY <1>1, <1>2, <1>3, <2>1
  <2>2. CASE k > Len(s)
    BY <1>1, <1>2, <1>3, <2>2
  <2> QED BY <1>3, <2>1, <2>2
<1>5. v \in 1 .. Len(c) /\ c[v] = "mtvec"
  BY <1>1, <1>2, <1>3
<1>6. Boots(A, c, v)
  BY <1>2, <1>4, <1>5 DEF Boots
<1> QED BY <1>6 DEF c

\* A boot may follow operations that turn no interrupt on.
LEMMA BootsBehind ==
  ASSUME NEW A, NEW s \in Seq(A), NEW t, NEW v, Boots(A, t, v), \A k \in 1 .. Len(s) : s[k] # "MIE"
  PROVE  Boots(A, s \o t, Len(s) + v)
<1>1. t \in Seq(A) /\ v \in 1 .. Len(t) /\ t[v] = "mtvec" /\ \A k \in 1 .. Len(t) : t[k] = "MIE" => k > v
  BY DEF Boots
<1> DEFINE c == s \o t
<1>2. /\ c \in Seq(A) /\ Len(c) = Len(s) + Len(t) /\ \A k \in 1 .. Len(s) : c[k] = s[k]
      /\ \A k \in 1 .. Len(t) : c[Len(s) + k] = t[k]
  BY <1>1
<1>3. Len(s) \in Nat /\ Len(t) \in Nat
  BY <1>1
<1> HIDE DEF c
<1>4. \A k \in 1 .. Len(c) : c[k] = "MIE" => k > Len(s) + v
  <2> TAKE k \in 1 .. Len(c)
  <2>1. CASE k <= Len(s)
    BY <1>1, <1>2, <1>3, <2>1
  <2>2. CASE k > Len(s)
    <3>1. k - Len(s) \in 1 .. Len(t) /\ Len(s) + (k - Len(s)) = k
      BY <1>2, <1>3, <2>2
    <3>2. PICK j \in 1 .. Len(t) : k = Len(s) + j
      BY <3>1
    <3>3. c[k] = t[j]
      BY <1>2, <3>2
    <3>4. t[j] = "MIE" => j > v
      BY <1>1
    <3>5. v \in Int /\ j \in Int /\ Len(s) \in Int
      BY <1>1, <1>3
    <3>6. j > v => k > Len(s) + v
      BY <3>2, <3>5
    <3> QED BY <3>3, <3>4, <3>6
  <2> QED BY <1>3, <2>1, <2>2
<1>5. Len(s) + v \in 1 .. Len(c) /\ c[Len(s) + v] = "mtvec"
  BY <1>1, <1>2, <1>3
<1>6. Boots(A, c, Len(s) + v)
  BY <1>2, <1>4, <1>5 DEF Boots
<1> QED BY <1>6 DEF c

\* The parts that the boots are made of.
LEMMA Parts ==
  /\ <<"page_init">> \in Seq(BootOps) /\ timer_init23 \in Seq(BootOps) /\ timer_init31 \in Seq(BootOps)
  /\ plic_init31 \in Seq(BootOps) /\ plic_init51 \in Seq(BootOps)
  /\ Boots(BootOps, timer_init22, 2) /\ Boots(BootOps, trap_init23, 1) /\ Boots(BootOps, trap_init31, 1)
  /\ Boots(BootOps, trap_init4, 1) /\ Boots(BootOps, trap_init6, 1)
<1>1. /\ <<"page_init">> \in Seq(BootOps) /\ timer_init23 \in Seq(BootOps) /\ timer_init31 \in Seq(BootOps)
      /\ plic_init31 \in Seq(BootOps) /\ plic_init51 \in Seq(BootOps)
  BY DEF BootOps, QuietOps, timer_init23, timer_init31, plic_init31, plic_init51
<1>2. Boots(BootOps, timer_init22, 2)
  BY DEF BootOps, QuietOps, timer_init22, Boots
<1>3. Boots(BootOps, trap_init23, 1)
  BY DEF BootOps, QuietOps, trap_init23, Boots
<1>4. Boots(BootOps, trap_init31, 1)
  BY DEF BootOps, QuietOps, trap_init31, Boots
<1>5. Boots(BootOps, trap_init4, 1)
  <2>1. trap_init4 \in Seq(BootOps) /\ Len(trap_init4) = 3 /\ trap_init4[1] = "mtvec"
    BY DEF BootOps, QuietOps, trap_init4
  <2>2. \A k \in 1 .. 3 : trap_init4[k] = "MIE" => k > 2
    BY DEF trap_init4
  <2> QED BY <2>1, <2>2 DEF Boots
<1>6. trap_init6 = trap_init4
  BY DEF trap_init6
<1> QED BY <1>1, <1>2, <1>3, <1>4, <1>5, <1>6

\* The same parts on the days that have no uart.
LEMMA EarlyParts ==
  /\ <<"page_init">> \in Seq(EarlyOps) /\ timer_init23 \in Seq(EarlyOps) /\ timer_init31 \in Seq(EarlyOps)
  /\ plic_init31 \in Seq(EarlyOps) /\ plic_init51 \in Seq(EarlyOps)
  /\ Boots(EarlyOps, timer_init22, 2) /\ Boots(EarlyOps, trap_init23, 1) /\ Boots(EarlyOps, trap_init31, 1)
  /\ Boots(EarlyOps, trap_init4, 1) /\ Boots(EarlyOps, trap_init6, 1)
<1>1. /\ <<"page_init">> \in Seq(EarlyOps) /\ timer_init23 \in Seq(EarlyOps) /\ timer_init31 \in Seq(EarlyOps)
      /\ plic_init31 \in Seq(EarlyOps) /\ plic_init51 \in Seq(EarlyOps)
  BY DEF BootOps, QuietOps, EarlyOps, DiskOps, timer_init23, timer_init31, plic_init31, plic_init51
<1>2. Boots(EarlyOps, timer_init22, 2)
  BY DEF BootOps, QuietOps, EarlyOps, DiskOps, timer_init22, Boots
<1>3. Boots(EarlyOps, trap_init23, 1)
  BY DEF BootOps, QuietOps, EarlyOps, DiskOps, trap_init23, Boots
<1>4. Boots(EarlyOps, trap_init31, 1)
  BY DEF BootOps, QuietOps, EarlyOps, DiskOps, trap_init31, Boots
<1>5. Boots(EarlyOps, trap_init4, 1)
  <2>1. trap_init4 \in Seq(EarlyOps) /\ Len(trap_init4) = 3 /\ trap_init4[1] = "mtvec"
    BY DEF BootOps, QuietOps, EarlyOps, DiskOps, trap_init4
  <2>2. \A k \in 1 .. 3 : trap_init4[k] = "MIE" => k > 2
    BY DEF trap_init4
  <2> QED BY <2>1, <2>2 DEF Boots
<1>6. trap_init6 = trap_init4
  BY DEF trap_init6
<1> QED BY <1>1, <1>2, <1>3, <1>4, <1>5, <1>6

\* What is known of a boot of any day.
LEMMA BootFacts ==
  ASSUME NEW d \in AllDays, NEW b, NEW v, Boots(Early(d), b, v)
  PROVE  /\ b \in Seq(Ops) /\ Len(b) \in Nat \ {0} /\ v \in 1 .. Len(b) /\ b[v] = "mtvec"
         /\ \A k \in 1 .. Len(b) : b[k] \in Early(d) /\ (b[k] = "MIE" => k > v)
<1>1. /\ b \in Seq(Early(d)) /\ v \in 1 .. Len(b) /\ b[v] = "mtvec"
      /\ \A k \in 1 .. Len(b) : b[k] = "MIE" => k > v
  BY DEF Boots
<1>2. Early(d) \subseteq Ops
  BY DEF Early, Ops, EarlyOps
<1>3. \A k \in 1 .. Len(b) : b[k] \in Early(d)
  BY <1>1
<1>4. b \in Seq(Ops)
  BY <1>1, <1>2
<1> QED BY <1>1, <1>3, <1>4

\* A program is its boot and its loop.
LEMMA Programs ==
  ASSUME NEW b, NEW t, NEW p, p = Program(b, t)
  PROVE  p.text = b \o t /\ p.loop = Len(b) + 1 /\ (p.endless <=> t # <<>>)
  BY DEF Program

\* A boot followed by a loop that prints has the shape.
LEMMA PrintShape ==
  ASSUME NEW d \in {"2-3", "3-1"}, NEW b, NEW v, Boots(Early(d), b, v), NEW T, T = b \o <<"print">>
  PROVE  TextShape(d, T, Len(b), v)
<1> DEFINE t == <<"print">>
<1>1. t \in Seq(Ops) /\ Len(t) = 1 /\ t[1] = "print"
  BY DEF Ops, BootOps, QuietOps
<1>3. d \in AllDays /\ d \notin TaskDays /\ d \notin HeapLoops /\ d \notin SModeDays
  BY DEF AllDays, TaskDays, HeapLoops, SModeDays
<1> HIDE DEF t
<1>4. /\ b \in Seq(Ops) /\ Len(b) \in Nat \ {0} /\ v \in 1 .. Len(b) /\ b[v] = "mtvec"
      /\ \A k \in 1 .. Len(b) : b[k] \in Early(d) /\ (b[k] = "MIE" => k > v)
  BY <1>3, BootFacts
<1>5. /\ T \in Seq(Ops) /\ Len(T) = Len(b) + Len(t)
      /\ \A k \in 1 .. Len(b) : T[k] = b[k]
      /\ \A k \in 1 .. Len(t) : T[Len(b) + k] = t[k]
  <2>1. b \in Seq(Ops) /\ t \in Seq(Ops)
    BY <1>1, <1>4
  <2>2. T = b \o t
    BY DEF t
  <2> QED BY <2>1, <2>2, Joined
<1>6. T[Len(b) + 1] = "print" /\ Len(T) = Len(b) + 1
  BY <1>1, <1>5
<1> QED BY <1>3, <1>4, <1>5, <1>6 DEF TextShape

\* A boot followed by a loop of system calls has the shape.
LEMMA HeapShape ==
  ASSUME NEW d \in HeapLoops, NEW b, NEW v, Boots(Early(d), b, v), NEW T, T = b \o <<"malloc", "free">>
  PROVE  TextShape(d, T, Len(b), v)
<1> DEFINE t == <<"malloc", "free">>
<1>1. t \in Seq(Ops) /\ Len(t) = 2 /\ t[1] = "malloc" /\ t[2] = "free"
  BY DEF Ops, BootOps, QuietOps
<1>2. d \in AllDays /\ d \notin SModeDays /\ d # "2-3" /\ d # "3-1"
  BY DEF AllDays, SModeDays, HeapLoops
<1> HIDE DEF t
<1>3. /\ b \in Seq(Ops) /\ Len(b) \in Nat \ {0} /\ v \in 1 .. Len(b) /\ b[v] = "mtvec"
      /\ \A k \in 1 .. Len(b) : b[k] \in Early(d) /\ (b[k] = "MIE" => k > v)
  BY <1>2, BootFacts
<1>4. /\ T \in Seq(Ops) /\ Len(T) = Len(b) + Len(t)
      /\ \A k \in 1 .. Len(b) : T[k] = b[k]
      /\ \A k \in 1 .. Len(t) : T[Len(b) + k] = t[k]
  <2>1. b \in Seq(Ops) /\ t \in Seq(Ops)
    BY <1>1, <1>3
  <2>2. T = b \o t
    BY DEF t
  <2> QED BY <2>1, <2>2, Joined
<1>5. T[Len(b) + 1] = "malloc" /\ T[Len(b) + 2] = "free" /\ Len(T) = Len(b) + 2
  BY <1>1, <1>4
<1> QED BY <1>2, <1>3, <1>4, <1>5 DEF TextShape, HeapLoops

\* A boot followed by one switch to the task has the shape.
LEMMA SwitchShape ==
  ASSUME NEW d \in {"2-2"}, NEW b, NEW v, Boots(Early(d), b, v)
  PROVE  TextShape(d, (b \o <<"sys_switch">>) \o <<"print">>, Len(b), v)
<1> DEFINE s == <<"sys_switch">>
           t == <<"print">>
           c == b \o s
           T == c \o t
<1>1. /\ s \in Seq(Ops) /\ Len(s) = 1 /\ s[1] = "sys_switch"
      /\ t \in Seq(Ops) /\ Len(t) = 1 /\ t[1] = "print"
  BY DEF Ops, BootOps, QuietOps
<1>2. d = "2-2" /\ d \in AllDays /\ d \notin SModeDays /\ d \notin HeapLoops
  BY DEF AllDays, SModeDays, HeapLoops
<1> HIDE DEF s, t, c, T
<1>3. /\ b \in Seq(Ops) /\ Len(b) \in Nat \ {0} /\ v \in 1 .. Len(b) /\ b[v] = "mtvec"
      /\ \A k \in 1 .. Len(b) : b[k] \in Early(d) /\ (b[k] = "MIE" => k > v)
  BY <1>2, BootFacts
<1>4. /\ c \in Seq(Ops) /\ Len(c) = Len(b) + Len(s)
      /\ \A k \in 1 .. Len(b) : c[k] = b[k]
      /\ \A k \in 1 .. Len(s) : c[Len(b) + k] = s[k]
  <2>1. b \in Seq(Ops) /\ s \in Seq(Ops)
    BY <1>1, <1>3
  <2>2. c = b \o s
    BY DEF c
  <2> QED BY <2>1, <2>2, Joined
<1>5. /\ T \in Seq(Ops) /\ Len(T) = Len(c) + Len(t)
      /\ \A k \in 1 .. Len(c) : T[k] = c[k]
      /\ \A k \in 1 .. Len(t) : T[Len(c) + k] = t[k]
  <2>1. c \in Seq(Ops) /\ t \in Seq(Ops)
    BY <1>1, <1>4
  <2>2. T = c \o t
    BY DEF T
  <2> QED BY <2>1, <2>2, Joined
<1>6. T[Len(b) + 1] = "sys_switch" /\ T[Len(b) + 2] = "print" /\ Len(T) = Len(b) + 2
  BY <1>1, <1>3, <1>4, <1>5
<1>7. T \in Seq(Ops) /\ \A k \in 1 .. Len(b) : T[k] = b[k]
  BY <1>1, <1>3, <1>4, <1>5
<1>8. TextShape(d, T, Len(b), v)
  BY <1>2, <1>3, <1>6, <1>7 DEF TextShape
<1> QED BY <1>8 DEF T, c, s, t

\* A boot followed by the switch to S-mode has the shape.
LEMMA ModeShape ==
  ASSUME NEW d \in SModeDays \ {"6"}, NEW b, NEW v, Boots(Early(d), b, v), NEW m \in Seq(QuietOps)
  PROVE  /\ TextShape(d, ((b \o switch_to_s_mode4) \o m) \o <<"print">>, Len(b), v)
         /\ Len(((b \o switch_to_s_mode4) \o m) \o <<"print">>) = Len((b \o switch_to_s_mode4) \o m) + 1
         /\ Len((b \o switch_to_s_mode4) \o m) >= Len(b) + 4
         /\ Len((b \o switch_to_s_mode4) \o m) \in Nat /\ Len(b) \in Nat
<1> DEFINE s == switch_to_s_mode4
           t == <<"print">>
           a == b \o s
           c == a \o m
           T == c \o t
<1>1. /\ t \in Seq(Ops) /\ Len(t) = 1 /\ t[1] = "print"
      /\ s \in Seq(Ops) /\ Len(s) = 4 /\ s[1] = "w_mepc" /\ s[2] = "r_mstatus"
      /\ s[3] = "w_mstatus" /\ s[4] = "mret"
  BY DEF Ops, BootOps, QuietOps, switch_to_s_mode4
<1>2. d # "6" /\ d \in AllDays /\ d \notin TaskDays /\ d \notin HeapLoops /\ d # "2-3" /\ d # "3-1"
  BY DEF AllDays, SModeDays, HeapLoops, TaskDays
<1>10. m \in Seq(Ops) /\ Len(m) \in Nat /\ \A k \in 1 .. Len(m) : m[k] \in QuietOps
  <2>1. QuietOps \subseteq Ops
    BY DEF Ops, BootOps
  <2> QED BY <2>1
<1> HIDE DEF s, t, a, c, T
<1>3. /\ b \in Seq(Ops) /\ Len(b) \in Nat \ {0} /\ v \in 1 .. Len(b) /\ b[v] = "mtvec"
      /\ \A k \in 1 .. Len(b) : b[k] \in Early(d) /\ (b[k] = "MIE" => k > v)
  BY <1>2, BootFacts
<1>4. /\ a \in Seq(Ops) /\ Len(a) = Len(b) + Len(s)
      /\ \A k \in 1 .. Len(b) : a[k] = b[k]
      /\ \A k \in 1 .. Len(s) : a[Len(b) + k] = s[k]
  <2>1. b \in Seq(Ops) /\ s \in Seq(Ops)
    BY <1>1, <1>3
  <2>2. a = b \o s
    BY DEF a
  <2> QED BY <2>1, <2>2, Joined
<1>11. /\ c \in Seq(Ops) /\ Len(c) = Len(a) + Len(m)
       /\ \A k \in 1 .. Len(a) : c[k] = a[k]
       /\ \A k \in 1 .. Len(m) : c[Len(a) + k] = m[k]
  <2>1. a \in Seq(Ops) /\ m \in Seq(Ops)
    BY <1>4, <1>10
  <2>2. c = a \o m
    BY DEF c
  <2> QED BY <2>1, <2>2, Joined
<1>5. /\ T \in Seq(Ops) /\ Len(T) = Len(c) + Len(t)
      /\ \A k \in 1 .. Len(c) : T[k] = c[k]
      /\ \A k \in 1 .. Len(t) : T[Len(c) + k] = t[k]
  <2>1. c \in Seq(Ops) /\ t \in Seq(Ops)
    BY <1>1, <1>11
  <2>2. T = c \o t
    BY DEF T
  <2> QED BY <2>1, <2>2, Joined
<1>9. /\ a[Len(b) + 1] = "w_mepc" /\ a[Len(b) + 2] = "r_mstatus" /\ a[Len(b) + 3] = "w_mstatus"
      /\ a[Len(b) + 4] = "mret" /\ Len(a) = Len(b) + 4
  BY <1>1, <1>3, <1>4
<1>12. /\ Len(c) = Len(b) + 4 + Len(m) /\ Len(T) = Len(c) + 1
       /\ \A k \in 1 .. Len(b) + 4 : T[k] = a[k]
  BY <1>1, <1>3, <1>5, <1>9, <1>10, <1>11
<1>6. /\ T[Len(b) + 1] = "w_mepc" /\ T[Len(b) + 2] = "r_mstatus" /\ T[Len(b) + 3] = "w_mstatus"
      /\ T[Len(b) + 4] = "mret" /\ Len(T) > Len(b) + 4
  BY <1>3, <1>9, <1>10, <1>12
<1>13. \A k \in Len(b) + 5 .. Len(T) : T[k] \in QuietOps
  <2> TAKE k \in Len(b) + 5 .. Len(T)
  <2>1. CASE k = Len(T)
    <3>1. T[k] = "print"
      BY <1>1, <1>3, <1>5, <1>10, <1>12, <2>1
    <3> QED BY <3>1 DEF QuietOps
  <2>2. CASE k < Len(T)
    <3>1. k - Len(a) \in 1 .. Len(m) /\ Len(a) + (k - Len(a)) = k /\ k \in 1 .. Len(c)
      BY <1>3, <1>9, <1>10, <1>12, <2>2
    <3>2. PICK j \in 1 .. Len(m) : k = Len(a) + j
      BY <3>1
    <3>3. T[k] = m[j]
      BY <1>5, <1>11, <3>1, <3>2
    <3> QED BY <1>10, <3>3
  <2>3. k \in Int /\ Len(T) \in Int /\ k <= Len(T)
    BY <1>3, <1>10, <1>12
  <2> QED BY <2>1, <2>2, <2>3
<1>7. T \in Seq(Ops) /\ \A k \in 1 .. Len(b) : T[k] = b[k]
  BY <1>1, <1>3, <1>4, <1>5, <1>11, <1>12
<1>8. TextShape(d, T, Len(b), v)
  <2> DEFINE n == Len(b)
             S == /\ T[n + 1] = "w_mepc" /\ T[n + 2] = "r_mstatus" /\ T[n + 3] = "w_mstatus"
                  /\ T[n + 4] = "mret" /\ Len(T) > n + 4 /\ \A k \in n + 5 .. Len(T) : T[k] \in QuietOps
             B == /\ n \in Nat \ {0} /\ v \in Nat /\ v \in 1 .. n /\ T[v] = "mtvec"
                  /\ \A k \in 1 .. n : T[k] \in Early(d) /\ (T[k] = "MIE" => k > v)
  <2>1. S
    BY <1>6, <1>13
  <2>2. B
    BY <1>3, <1>7
  <2>3. d \notin {"2-1", "2-2", "2-3", "3-1", "6"} /\ d \notin HeapLoops
    BY <1>2 DEF TaskDays
  <2>4. TextShape(d, T, n, v)
    <3> HIDE DEF n
    <3> QED BY <1>7, <2>1, <2>2, <2>3 DEF TextShape
  <2> QED BY <2>4
<1>14. Len(c) >= Len(b) + 4 /\ Len(c) \in Nat /\ Len(b) \in Nat
  BY <1>3, <1>10, <1>12
<1> QED BY <1>8, <1>12, <1>14 DEF T, c, a, s, t

\* The boot of day 6, with the switch to S-mode and to the first process, has the shape.
LEMMA ProcessShape ==
  ASSUME NEW d \in {"6"}, NEW b, NEW v, Boots(Early(d), b, v), b[Len(b)] = "set_cpu_proc"
  PROVE  TextShape(d, ((b \o switch_to_s_mode4) \o <<"sys_switch">>) \o trap_init4, Len(b), v)
<1> DEFINE s == switch_to_s_mode4
           t == <<"sys_switch">>
           u == trap_init4
           c == b \o s
           e == c \o t
           T == e \o u
<1>1. /\ t \in Seq(Ops) /\ Len(t) = 1 /\ t[1] = "sys_switch"
      /\ s \in Seq(Ops) /\ Len(s) = 4 /\ s[1] = "w_mepc" /\ s[2] = "r_mstatus"
      /\ s[3] = "w_mstatus" /\ s[4] = "mret"
      /\ u \in Seq(Ops) /\ Len(u) = 3 /\ u[1] = "mtvec" /\ u[2] = "MEIE_MTIE" /\ u[3] = "MIE"
  BY DEF Ops, BootOps, QuietOps, switch_to_s_mode4, trap_init4
<1>2. d = "6" /\ d \in AllDays /\ d \notin HeapLoops
  BY DEF AllDays, HeapLoops
<1> HIDE DEF s, t, u, c, e, T
<1>3. /\ b \in Seq(Ops) /\ Len(b) \in Nat \ {0} /\ v \in 1 .. Len(b) /\ b[v] = "mtvec"
      /\ \A k \in 1 .. Len(b) : b[k] \in Early(d) /\ (b[k] = "MIE" => k > v)
  BY <1>2, BootFacts
<1>4. /\ c \in Seq(Ops) /\ Len(c) = Len(b) + Len(s)
      /\ \A k \in 1 .. Len(b) : c[k] = b[k]
      /\ \A k \in 1 .. Len(s) : c[Len(b) + k] = s[k]
  <2>1. b \in Seq(Ops) /\ s \in Seq(Ops)
    BY <1>1, <1>3
  <2>2. c = b \o s
    BY DEF c
  <2> QED BY <2>1, <2>2, Joined
<1>5. /\ e \in Seq(Ops) /\ Len(e) = Len(c) + Len(t)
      /\ \A k \in 1 .. Len(c) : e[k] = c[k]
      /\ \A k \in 1 .. Len(t) : e[Len(c) + k] = t[k]
  <2>1. c \in Seq(Ops) /\ t \in Seq(Ops)
    BY <1>1, <1>4
  <2>2. e = c \o t
    BY DEF e
  <2> QED BY <2>1, <2>2, Joined
<1>6. /\ T \in Seq(Ops) /\ Len(T) = Len(e) + Len(u)
      /\ \A k \in 1 .. Len(e) : T[k] = e[k]
      /\ \A k \in 1 .. Len(u) : T[Len(e) + k] = u[k]
  <2>1. e \in Seq(Ops) /\ u \in Seq(Ops)
    BY <1>1, <1>5
  <2>2. T = e \o u
    BY DEF T
  <2> QED BY <2>1, <2>2, Joined
<1>7. /\ c[Len(b) + 1] = "w_mepc" /\ c[Len(b) + 2] = "r_mstatus" /\ c[Len(b) + 3] = "w_mstatus"
      /\ c[Len(b) + 4] = "mret" /\ Len(c) = Len(b) + 4 /\ \A k \in 1 .. Len(b) : c[k] = b[k]
  BY <1>1, <1>3, <1>4
<1>8. /\ e[Len(b) + 5] = "sys_switch" /\ Len(e) = Len(b) + 5 /\ \A k \in 1 .. Len(b) + 4 : e[k] = c[k]
  BY <1>1, <1>3, <1>5, <1>7
<1>9. /\ T[Len(b) + 6] = "mtvec" /\ T[Len(b) + 7] = "MEIE_MTIE" /\ T[Len(b) + 8] = "MIE"
      /\ Len(T) = Len(b) + 8 /\ \A k \in 1 .. Len(b) + 5 : T[k] = e[k]
  BY <1>1, <1>3, <1>6, <1>8
<1>10. /\ T[Len(b) + 1] = "w_mepc" /\ T[Len(b) + 2] = "r_mstatus" /\ T[Len(b) + 3] = "w_mstatus"
       /\ T[Len(b) + 4] = "mret" /\ T[Len(b) + 5] = "sys_switch" /\ \A k \in 1 .. Len(b) : T[k] = b[k]
  BY <1>3, <1>7, <1>8, <1>9
<1>11. T[Len(b)] = "set_cpu_proc"
  BY <1>3, <1>10
<1>14. /\ T[Len(b) + 6] = "mtvec" /\ T[Len(b) + 7] = "MEIE_MTIE" /\ T[Len(b) + 8] = "MIE"
       /\ Len(T) = Len(b) + 8
  BY <1>9
<1>13. T \in Seq(Ops)
  BY <1>6
<1>15. \A k \in 1 .. Len(b) : T[k] \in Early(d)
  BY <1>3, <1>10
<1>16. T[v] = "mtvec" /\ \A k \in 1 .. Len(b) : T[k] = "MIE" => k > v
  BY <1>3, <1>10
<1>17. Len(b) \in Nat \ {0} /\ v \in Nat /\ v \in 1 .. Len(b)
  BY <1>3
<1>12. TextShape(d, T, Len(b), v)
  BY <1>2, <1>10, <1>11, <1>13, <1>14, <1>15, <1>16, <1>17 DEF TextShape
<1> QED BY <1>12 DEF T, c, e, s, t, u

\* The boot of day 3-1 and of those after it begins with the UART and the pages.
LEMMA UartFirst ==
  ASSUME NEW x, Boots(BootOps, x, 1)
  PROVE  \E v : Boots(BootOps, (uart_init31 \o <<"page_init">>) \o x, v)
<1> DEFINE s == uart_init31
           t == <<"page_init">>
           c == s \o t
<1>1. /\ s \in Seq(BootOps) /\ Len(s) = 1 /\ s[1] = "IER"
      /\ t \in Seq(BootOps) /\ Len(t) = 1 /\ t[1] = "page_init"
  BY DEF uart_init31, BootOps, QuietOps
<1> HIDE DEF s, t, c
<1>2. /\ c \in Seq(BootOps) /\ Len(c) = Len(s) + Len(t)
      /\ \A k \in 1 .. Len(s) : c[k] = s[k]
      /\ \A k \in 1 .. Len(t) : c[Len(s) + k] = t[k]
  <2>1. c = s \o t
    BY DEF c
  <2>2. s \in Seq(BootOps) /\ t \in Seq(BootOps)
    BY <1>1
  <2> QED BY <2>1, <2>2, Joined
<1>3. \A k \in 1 .. Len(c) : c[k] # "MIE"
  <2>1. c[1] = "IER" /\ c[2] = "page_init" /\ Len(c) = 2
    BY <1>1, <1>2
  <2> QED BY <2>1
<1>4. Boots(BootOps, c \o x, Len(c) + 1)
  BY <1>2, <1>3, BootsBehind
<1> QED BY <1>4 DEF c, s, t

\* The boots that start with the page allocator.
LEMMA PageFirst ==
  ASSUME NEW x, Boots(EarlyOps, x, 1) \/ Boots(EarlyOps, x, 2)
  PROVE  \E v : Boots(EarlyOps, <<"page_init">> \o x, v)
<1> DEFINE t == <<"page_init">>
<1>1. t \in Seq(EarlyOps) /\ Len(t) = 1 /\ t[1] = "page_init"
  BY DEF EarlyOps, BootOps, QuietOps, DiskOps
<1> HIDE DEF t
<1>2. \A k \in 1 .. Len(t) : t[k] # "MIE"
  BY <1>1
<1>3. Boots(EarlyOps, t \o x, Len(t) + 1) \/ Boots(EarlyOps, t \o x, Len(t) + 2)
  BY <1>1, <1>2, BootsBehind
<1> QED BY <1>3 DEF t

\* The parts that come behind the vector.
LEMMA MoreBoot ==
  /\ timer_init23 \in Seq(EarlyOps)
  /\ {timer_init31, plic_init31, plic_init51, <<"vm_init">>, <<"vm_init", "virtio_disk_init">>,
      virtio_disk_rw51, <<"vm_init", "virtio_disk_init", "proc_init", "set_cpu_proc">>} \subseteq Seq(BootOps)
  /\ \A x \in {trap_init31, trap_init4} : Boots(BootOps, x, 1)
<1>1. /\ <<"vm_init">> \in Seq(BootOps) /\ <<"vm_init", "virtio_disk_init">> \in Seq(BootOps)
      /\ virtio_disk_rw51 \in Seq(BootOps)
      /\ <<"vm_init", "virtio_disk_init", "proc_init", "set_cpu_proc">> \in Seq(BootOps)
  BY DEF BootOps, QuietOps, DiskOps, virtio_disk_rw51
<1> QED BY <1>1, Parts, EarlyParts

\* The loop behind a boot.
LEMMA LoopBehind ==
  ASSUME NEW d \in AllDays, NEW b, NEW t, OfDay(d).os = Program(b, t), NEW n, NEW v,
         TextShape(d, b \o t, n, v),
         d # "6" <=> t # <<>>,
         d \in {"2-1", "2-2"} => Len(b) + 1 = n + 2,
         d \in {"2-3", "3-1"} \cup HeapLoops => Len(b) + 1 = n + 1,
         d \in SModeDays \ {"6"} => Len(b) + 1 \in n + 5 .. Len(b \o t)
  PROVE  Shape(d, n, v)
<1>1. /\ OfDay(d).os.text = b \o t /\ OfDay(d).os.loop = Len(b) + 1
      /\ OfDay(d).os.endless <=> t # <<>>
  BY Programs
<1> QED BY <1>1 DEF Shape, LoopShape

\* Where the loops start.
LEMMA LoopLengths ==
  ASSUME NEW b \in Seq(Ops)
  PROVE  /\ Len(b \o <<"sys_switch">>) = Len(b) + 1
         /\ Len(b \o switch_to_s_mode4) = Len(b) + 4
<1>1. /\ <<"sys_switch">> \in Seq(Ops) /\ Len(<<"sys_switch">>) = 1
      /\ switch_to_s_mode4 \in Seq(Ops) /\ Len(switch_to_s_mode4) = 4
  BY DEF Ops, BootOps, QuietOps, switch_to_s_mode4
<1>2. ASSUME NEW t \in Seq(Ops) PROVE Len(b \o t) = Len(b) + Len(t)
  OBVIOUS
<1>3. /\ Len(b \o <<"sys_switch">>) = Len(b) + Len(<<"sys_switch">>)
      /\ Len(b \o switch_to_s_mode4) = Len(b) + Len(switch_to_s_mode4)
  BY <1>1, <1>2
<1> QED BY <1>1, <1>3

\* Day 2-1, which never sets the vector.
LEMMA DayOne ==
  ASSUME NEW d, d = "2-1"
  PROVE  Shape(d, 1, 1)
<1> DEFINE b == <<"page_init", "sys_switch">>
           t == <<"print">>
           T == b \o t
<1>1. /\ b \in Seq(Ops) /\ Len(b) = 2 /\ b[1] = "page_init" /\ b[2] = "sys_switch"
      /\ t \in Seq(Ops) /\ Len(t) = 1 /\ t[1] = "print" /\ t # <<>>
  BY DEF Ops, BootOps, QuietOps
<1>2. OfDay(d).os = Program(b, t)
  BY DEF OfDay, Snapshot, os21
<1> HIDE DEF b, t, T
<1>3. /\ T \in Seq(Ops) /\ Len(T) = Len(b) + Len(t)
      /\ \A k \in 1 .. Len(b) : T[k] = b[k]
      /\ \A k \in 1 .. Len(t) : T[Len(b) + k] = t[k]
  <2>1. T = b \o t
    BY DEF T
  <2>2. b \in Seq(Ops) /\ t \in Seq(Ops)
    BY <1>1
  <2> QED BY <2>1, <2>2, Joined
<1>4. Len(T) = 3 /\ T[1] = "page_init" /\ T[2] = "sys_switch" /\ T[3] = "print"
  BY <1>1, <1>3
<1>7. d \in AllDays /\ d \notin HeapLoops /\ d \notin SModeDays
  BY DEF AllDays, HeapLoops, SModeDays
<1>8. "page_init" \in Early(d) /\ "page_init" \in QuietOps
  BY DEF Early, EarlyOps, BootOps, QuietOps, DiskOps
<1>5. TextShape(d, T, 1, 1)
  <2>1. \A k \in 1 .. 1 : T[k] = "page_init"
    BY <1>4
  <2>2. T \in Seq(Ops)
    BY <1>3
  <2> QED BY <1>4, <1>7, <1>8, <2>1, <2>2 DEF TextShape
<1>6. TextShape(d, b \o t, 1, 1)
  BY <1>5 DEF T
<1>9. /\ d # "6" <=> t # <<>>
      /\ d \in {"2-1", "2-2"} => Len(b) + 1 = 1 + 2
      /\ d \in {"2-3", "3-1"} \cup HeapLoops => Len(b) + 1 = 1 + 1
      /\ d \in SModeDays \ {"6"} => Len(b) + 1 \in 1 + 5 .. Len(b \o t)
  BY <1>1, <1>7
<1> QED BY <1>2, <1>6, <1>7, <1>9, LoopBehind

\* The boots that start with the uart.
LEMMA DeviceBoot ==
  ASSUME NEW x \in {trap_init31, trap_init4}, NEW y \in {plic_init31, plic_init51}
  PROVE  \E v : Boots(BootOps, uart_init31 \o <<"page_init">> \o x \o timer_init31 \o y, v)
<1>1. PICK v : Boots(BootOps, (uart_init31 \o <<"page_init">>) \o x, v)
  BY UartFirst, MoreBoot
<1> DEFINE b == (uart_init31 \o <<"page_init">>) \o x
           c == b \o timer_init31
<1>2. Boots(BootOps, b, v)
  BY <1>1
<1> HIDE DEF b
<1>3. Boots(BootOps, c, v)
  BY <1>2, BootsOn, MoreBoot
<1> HIDE DEF c
<1>4. Boots(BootOps, c \o y, v)
  BY <1>3, BootsOn, MoreBoot
<1> QED BY <1>4 DEF b, c

\* A boot consists of operations.
LEMMA BootsIn ==
  ASSUME NEW A, A = BootOps \/ A = EarlyOps, NEW b, NEW v, Boots(A, b, v)
  PROVE  b \in Seq(Ops)
<1>1. b \in Seq(A)
  BY DEF Boots
<1>2. A \subseteq Ops
  BY DEF Ops, EarlyOps
<1> QED BY <1>1, <1>2

\* The days that end with print() or with a loop of system calls.
LEMMA PrintDays ==
  ASSUME NEW d \in {"2-3", "3-1"}, NEW b, NEW v, Boots(Early(d), b, v), OfDay(d).os = Program(b, <<"print">>)
  PROVE  Shape(d, Len(b), v)
<1>1. TextShape(d, b \o <<"print">>, Len(b), v)
  BY PrintShape
<1>2. d \in AllDays /\ d # "6" /\ d \notin {"2-1", "2-2"} /\ d \notin SModeDays /\ <<"print">> # <<>>
  BY DEF AllDays, SModeDays
<1> QED BY <1>1, <1>2, LoopBehind

\* The days whose loop makes system calls.
LEMMA HeapLoopDays ==
  ASSUME NEW d \in HeapLoops, NEW b, NEW v, Boots(Early(d), b, v), OfDay(d).os = Program(b, <<"malloc", "free">>)
  PROVE  Shape(d, Len(b), v)
<1>1. TextShape(d, b \o <<"malloc", "free">>, Len(b), v)
  BY HeapShape
<1>2. d \in AllDays /\ d # "6" /\ d \notin {"2-1", "2-2"} /\ d \notin SModeDays /\ <<"malloc", "free">> # <<>>
  BY DEF AllDays, SModeDays, HeapLoops
<1> QED BY <1>1, <1>2, LoopBehind

\* The days that switch to S-mode, try the disk and print.
LEMMA ModeDays ==
  ASSUME NEW d \in SModeDays \ {"6"}, NEW b, NEW v, Boots(Early(d), b, v), NEW m \in Seq(QuietOps),
         OfDay(d).os = Program((b \o switch_to_s_mode4) \o m, <<"print">>)
  PROVE  Shape(d, Len(b), v)
<1> DEFINE c == (b \o switch_to_s_mode4) \o m
           t == <<"print">>
<1>1. /\ TextShape(d, c \o t, Len(b), v) /\ Len(c \o t) = Len(c) + 1 /\ Len(c) >= Len(b) + 4
      /\ Len(c) \in Nat /\ Len(b) \in Nat
  BY ModeShape
<1>2. /\ d \in AllDays /\ d # "6" /\ d \notin {"2-1", "2-2"} /\ d \notin {"2-3", "3-1"} \cup HeapLoops
      /\ t # <<>>
  BY DEF AllDays, SModeDays, HeapLoops
<1>3. OfDay(d).os = Program(c, t)
  OBVIOUS
<1> HIDE DEF c, t
<1>4. Len(c) + 1 \in Len(b) + 5 .. Len(c \o t)
  BY <1>1
<1> QED BY <1>1, <1>2, <1>3, <1>4, LoopBehind

\* Day 2-2.
LEMMA DaysTwoTwo ==
  ASSUME NEW d, d = "2-2"
  PROVE  \E n, v : Shape(d, n, v)
<1> DEFINE b == <<"page_init">> \o timer_init22
           c == b \o <<"sys_switch">>
           t == <<"print">>
<1>1. OfDay(d).os = Program(c, t) /\ t # <<>> /\ Early(d) = EarlyOps
  BY DEF OfDay, Snapshot, os22, Early
<1>2. PICK v : Boots(Early(d), b, v)
  BY <1>1, PageFirst, EarlyParts
<1>3. TextShape(d, c \o t, Len(b), v)
  BY <1>2, SwitchShape
<1>4. Len(c) + 1 = Len(b) + 2
  <2> HIDE DEF b
  <2>1. b \in Seq(Ops) /\ Len(b) \in Nat
    BY <1>1, <1>2, BootsIn
  <2>2. Len(c) = Len(b) + 1
    BY <2>1, LoopLengths
  <2> QED BY <2>1, <2>2
<1> HIDE DEF b, c, t
<1>5. d \in AllDays /\ d # "6" /\ d \notin {"2-3", "3-1"} \cup HeapLoops /\ d \notin SModeDays
  BY DEF AllDays, SModeDays, HeapLoops
<1> QED BY <1>1, <1>3, <1>4, <1>5, LoopBehind

\* Day 6.
LEMMA DaysSix ==
  ASSUME NEW d, d = "6"
  PROVE  \E n, v : Shape(d, n, v)
<1> DEFINE z == <<"vm_init", "virtio_disk_init", "proc_init", "set_cpu_proc">>
           a == <<"page_init">> \o uart_init31 \o timer_init31
           e == a \o trap_init4 \o plic_init51
           b == e \o z
           c == b \o switch_to_s_mode4 \o <<"sys_switch">> \o trap_init4
           t == <<>>
<1>1. OfDay(d).os = Program(c, t) /\ Early(d) = BootOps
  BY DEF OfDay, Snapshot, os6, Early, uart_init6, timer_init6, trap_init6, plic_init6, switch_to_s_mode6
<1>2. \E v : Boots(BootOps, a \o trap_init4, v)
  <2> DEFINE x == <<"page_init">>
             y == x \o uart_init31
  <2>1. /\ x \in Seq(BootOps) /\ Len(x) = 1 /\ x[1] = "page_init"
        /\ uart_init31 \in Seq(BootOps) /\ Len(uart_init31) = 1 /\ uart_init31[1] = "IER"
        /\ timer_init31 \in Seq(BootOps) /\ Len(timer_init31) = 2 /\ timer_init31[1] = "mtimecmp"
        /\ timer_init31[2] = "scratch"
    BY DEF BootOps, QuietOps, uart_init31, timer_init31
  <2> HIDE DEF x, y, a
  <2>2. x \in Seq(BootOps) /\ uart_init31 \in Seq(BootOps) /\ timer_init31 \in Seq(BootOps)
    BY <2>1
  <2>3. /\ y \in Seq(BootOps) /\ Len(y) = Len(x) + Len(uart_init31)
        /\ \A k \in 1 .. Len(x) : y[k] = x[k]
        /\ \A k \in 1 .. Len(uart_init31) : y[Len(x) + k] = uart_init31[k]
    <3>1. y = x \o uart_init31
      BY DEF y
    <3> QED BY <2>2, <3>1, Joined
  <2>4. Len(y) = 2 /\ y[1] = "page_init" /\ y[2] = "IER"
    BY <2>1, <2>3
  <2>5. /\ a \in Seq(BootOps) /\ Len(a) = Len(y) + Len(timer_init31)
        /\ \A k \in 1 .. Len(y) : a[k] = y[k]
        /\ \A k \in 1 .. Len(timer_init31) : a[Len(y) + k] = timer_init31[k]
    <3>1. a = y \o timer_init31
      BY DEF a, x, y
    <3>2. y \in Seq(BootOps)
      BY <2>3
    <3> QED BY <2>2, <3>1, <3>2, Joined
  <2>6. Len(a) = 4 /\ a[1] = "page_init" /\ a[2] = "IER" /\ a[3] = "mtimecmp" /\ a[4] = "scratch"
    BY <2>1, <2>4, <2>5
  <2>7. \A k \in 1 .. Len(a) : a[k] # "MIE"
    BY <2>6
  <2>8. Boots(BootOps, trap_init4, 1)
    BY Parts
  <2>9. a \in Seq(BootOps)
    BY <2>5
  <2> QED BY <2>7, <2>8, <2>9, BootsBehind
<1>3. PICK v : Boots(BootOps, a \o trap_init4, v)
  BY <1>2
<1>4. Boots(BootOps, e, v)
  <2> DEFINE f == a \o trap_init4
  <2>1. Boots(BootOps, f, v)
    BY <1>3
  <2> HIDE DEF a, f
  <2>2. Boots(BootOps, f \o plic_init51, v)
    BY <2>1, BootsOn, Parts
  <2> QED BY <2>2 DEF f
<1>5. Boots(BootOps, b, v) /\ b[Len(b)] = "set_cpu_proc" /\ b \in Seq(Ops)
  <2> HIDE DEF e, z
  <2>1. z \in Seq(BootOps) /\ e \in Seq(BootOps)
    BY <1>4, MoreBoot DEF Boots, z
  <2>2. Boots(BootOps, b, v)
    BY <1>4, <2>1, BootsOn
  <2>3. /\ Len(b) = Len(e) + Len(z)
        /\ \A k \in 1 .. Len(z) : b[Len(e) + k] = z[k]
    <3>1. b = e \o z
      OBVIOUS
    <3> HIDE DEF b
    <3> QED BY <2>1, <3>1, Joined
  <2>4. Len(z) = 4 /\ z[4] = "set_cpu_proc"
    BY DEF z
  <2> HIDE DEF b
  <2>5. b[Len(b)] = "set_cpu_proc"
    BY <2>3, <2>4
  <2>6. b \in Seq(Ops)
    BY <2>2, BootsIn
  <2> QED BY <2>2, <2>5, <2>6
<1>6. TextShape(d, c, Len(b), v)
  <2> HIDE DEF b
  <2> QED BY <1>1, <1>5, ProcessShape
<1>7. TextShape(d, c \o t, Len(b), v)
  <2>1. c \in Seq(Ops)
    BY <1>6 DEF TextShape
  <2> HIDE DEF c
  <2>2. c \o t = c
    BY <2>1, ConcatEmptySeq
  <2> QED BY <1>6, <2>2
<1>8. d \in AllDays /\ d \notin {"2-3", "3-1"} \cup HeapLoops /\ d \notin {"2-1", "2-2"}
  BY DEF AllDays, HeapLoops
<1> HIDE DEF b, c
<1>9. d # "6" <=> t # <<>>
  OBVIOUS
<1>10. /\ d \in {"2-1", "2-2"} => Len(c) + 1 = Len(b) + 2
       /\ d \in {"2-3", "3-1"} \cup HeapLoops => Len(c) + 1 = Len(b) + 1
       /\ d \in SModeDays \ {"6"} => Len(c) + 1 \in Len(b) + 5 .. Len(c \o t)
  BY <1>8
<1> HIDE DEF t
<1> QED BY <1>1, <1>7, <1>8, <1>9, <1>10, LoopBehind

\* The program of every day has its shape,
LEMMA Shapes ==
  ASSUME NEW d \in AllDays
  PROVE  \E n, v : Shape(d, n, v)
<1>1. CASE d = "2-1"
  BY <1>1, DayOne
<1>2. CASE d = "2-2"
  BY <1>2, DaysTwoTwo
<1>3. CASE d = "2-3"
  <2> DEFINE a == <<"page_init">> \o trap_init23
             b == a \o timer_init23
  <2>1. OfDay(d).os = Program(b, <<"print">>) /\ Early(d) = EarlyOps
    BY <1>3 DEF OfDay, Snapshot, os23, Early
  <2>2. PICK v : Boots(EarlyOps, a, v)
    BY PageFirst, EarlyParts
  <2>3. Boots(EarlyOps, b, v)
    <3> HIDE DEF a
    <3> QED BY <2>2, BootsOn, MoreBoot
  <2> HIDE DEF b
  <2> QED BY <1>3, <2>1, <2>3, PrintDays
<1>4. CASE d = "3-1"
  <2> DEFINE b == uart_init31 \o <<"page_init">> \o trap_init31 \o timer_init31 \o plic_init31
  <2>1. OfDay(d).os = Program(b, <<"print">>) /\ Early(d) = BootOps
    BY <1>4 DEF OfDay, Snapshot, os31, Early
  <2>2. PICK v : Boots(BootOps, b, v)
    BY DeviceBoot
  <2> HIDE DEF b
  <2> QED BY <1>4, <2>1, <2>2, PrintDays
<1>5. CASE d \in HeapLoops
  <2> DEFINE b == uart_init31 \o <<"page_init">> \o trap_init31 \o timer_init31 \o plic_init31
  <2>1. OfDay(d).os = Program(b, <<"malloc", "free">>) /\ Early(d) = BootOps
    BY <1>5 DEF OfDay, Snapshot, os32, os33, Early, HeapLoops, uart_init32, uart_init33, timer_init32,
                timer_init33, trap_init32, trap_init33, plic_init32, plic_init33
  <2>2. PICK v : Boots(BootOps, b, v)
    BY DeviceBoot
  <2> HIDE DEF b
  <2> QED BY <1>5, <2>1, <2>2, HeapLoopDays
<1>6. CASE d \in SModeDays \ {"6"}
  <2> DEFINE rw == virtio_disk_rw51
             s == switch_to_s_mode4
             boot(x, y) == uart_init31 \o <<"page_init">> \o x \o timer_init31 \o y
             vm == <<"vm_init">>
             disk == <<"vm_init", "virtio_disk_init">>
             Is(b, m) == OfDay(d).os = Program((b \o s) \o m, <<"print">>)
             Early2(b) == \E v : Boots(BootOps, b, v)
  <2>1. \A x \in {trap_init31, trap_init4}, y \in {plic_init31, plic_init51} :
          /\ Early2(boot(x, y) \o vm) /\ Early2(boot(x, y) \o disk)
          /\ Early2((boot(x, y) \o disk) \o rw)
    <3> TAKE x \in {trap_init31, trap_init4}, y \in {plic_init31, plic_init51}
    <3>1. PICK v : Boots(BootOps, boot(x, y), v)
      BY DeviceBoot
    <3>2. vm \in Seq(BootOps) /\ disk \in Seq(BootOps) /\ rw \in Seq(BootOps)
      BY MoreBoot
    <3> HIDE DEF boot, vm, disk, rw
    <3>3. Boots(BootOps, boot(x, y) \o vm, v) /\ Boots(BootOps, boot(x, y) \o disk, v)
      BY <3>1, <3>2, BootsOn
    <3>4. Boots(BootOps, (boot(x, y) \o disk) \o rw, v)
      BY <3>2, <3>3, BootsOn
    <3> QED BY <3>3, <3>4
  <2>2. rw \o rw \in Seq(QuietOps) /\ <<>> \in Seq(QuietOps)
    <3>1. rw \in Seq(QuietOps)
      BY DEF QuietOps, DiskOps, virtio_disk_rw51
    <3> HIDE DEF rw
    <3> QED BY <3>1
  <2>3. ASSUME NEW b, NEW m, m \in Seq(QuietOps), Early2(b), Is(b, m)
        PROVE  \E n, v : Shape(d, n, v)
    <3>1. PICK v : Boots(BootOps, b, v)
      BY <2>3
    <3>2. Early(d) = BootOps
      BY <1>6 DEF Early, SModeDays
    <3>3. Shape(d, Len(b), v)
      BY <1>6, <2>3, <3>1, <3>2, ModeDays
    <3> QED BY <3>3
  <2>4. CASE d = "4"
    <3> DEFINE b == boot(trap_init4, plic_init31) \o vm
    <3>1. OfDay(d).os = Program(b \o s, <<"print">>)
      BY <2>4 DEF OfDay, Snapshot, os4, uart_init4, timer_init4, plic_init4
    <3>2. Early2(b)
      BY <2>1
    <3>3. (b \o s) \o <<>> = b \o s
      <4>3. PICK v : Boots(BootOps, b, v)
        BY <3>2
      <4>4. s \in Seq(Ops)
        BY DEF switch_to_s_mode4, Ops
      <4> HIDE DEF b, s
      <4>1. b \in Seq(Ops) /\ s \in Seq(Ops)
        BY <4>3, <4>4, BootsIn
      <4>2. b \o s \in Seq(Ops)
        BY <4>1
      <4> QED BY <4>2, ConcatEmptySeq
    <3>4. Is(b, <<>>)
      BY <3>1, <3>3
    <3> HIDE DEF b, Is, Early2
    <3> QED BY <2>2, <2>3, <3>2, <3>4
  <2>5. CASE d \in {"5-1", "5-2"}
    <3> DEFINE b == boot(trap_init31, plic_init51) \o disk
    <3>1. Is(b, rw \o rw)
      <4>1. CASE d = "5-1"
        BY <4>1 DEF OfDay, Snapshot, os51, uart_init51, timer_init51, trap_init51, switch_to_s_mode51,
                    test_virtio_disk51
      <4>2. CASE d = "5-2"
        BY <4>2 DEF OfDay, Snapshot, os52, uart_init52, timer_init52, trap_init52, plic_init52,
                    switch_to_s_mode52, test_bio52, virtio_disk_rw52
      <4> QED BY <2>5, <4>1, <4>2
    <3>2. Early2(b)
      BY <2>1
    <3> HIDE DEF b, Is, Early2
    <3> QED BY <2>2, <2>3, <3>1, <3>2
  <2>6. CASE d \in {"5-3", "5-4"}
    <3> DEFINE b == (boot(trap_init31, plic_init51) \o disk) \o rw
    <3>1. Is(b, rw \o rw)
      <4>1. CASE d = "5-3"
        BY <4>1 DEF OfDay, Snapshot, os53, uart_init53, timer_init53, trap_init53, plic_init53,
                    switch_to_s_mode53, fs_init53, test_fs53, virtio_disk_rw53
      <4>2. CASE d = "5-4"
        BY <4>2 DEF OfDay, Snapshot, os54, uart_init54, timer_init54, trap_init54, plic_init54,
                    switch_to_s_mode54, fs_init54, dump_fs54, virtio_disk_rw54
      <4> QED BY <2>6, <4>1, <4>2
    <3>2. Early2(b)
      BY <2>1
    <3> HIDE DEF b, Is, Early2
    <3> QED BY <2>2, <2>3, <3>1, <3>2
  <2> QED BY <1>6, <2>4, <2>5, <2>6 DEF SModeDays
<1>7. CASE d = "6"
  BY <1>7, DaysSix
<1> QED BY <1>1, <1>2, <1>3, <1>4, <1>5, <1>6, <1>7 DEF AllDays, HeapLoops, SModeDays

BootLen(d)  == CHOOSE n : \E v : Shape(d, n, v)
VectorAt(d) == CHOOSE v : Shape(d, BootLen(d), v)

\* with the length of its boot and the place of its vector.
LEMMA ShapeIs ==
  ASSUME NEW d \in AllDays
  PROVE  Shape(d, BootLen(d), VectorAt(d))
<1>1. \E v : Shape(d, BootLen(d), v)
  BY Shapes DEF BootLen
<1> QED BY <1>1 DEF VectorAt

----------------------------------------------------------------------------
(***************************************************************************)
(* sys_switch, instruction by instruction                                  *)
(***************************************************************************)

SwitchRegs == Saved \cup {"ra", "sp"}

\* The word of a context for a register that a called function keeps.
KeptWord(d, r) == IF d = "6" THEN WordOf[r] ELSE (CHOOSE k \in 1 .. 14 : SaveRegs[k] = r) - 1

\* The registers that sys_switch keeps, each once.
LEMMA SaveRegsAre ==
  /\ Len(SaveRegs) = 14 /\ SaveRegs[1] = "ra" /\ SaveRegs[2] = "sp"
  /\ \A k \in 1 .. 14 : SaveRegs[k] \in SwitchRegs /\ (k >= 3 => SaveRegs[k] \in Saved)
  /\ \A r \in SwitchRegs : \E k \in 1 .. 14 : SaveRegs[k] = r
  /\ \A j, k \in 1 .. 14 : SaveRegs[j] = SaveRegs[k] => j = k
  /\ SwitchRegs \subseteq Regs
<1>1. Len(SaveRegs) = 14 /\ SaveRegs[1] = "ra" /\ SaveRegs[2] = "sp"
  BY DEF SaveRegs
<1>2. \A k \in 1 .. 14 : SaveRegs[k] \in SwitchRegs /\ (k >= 3 => SaveRegs[k] \in Saved)
  BY DEF SaveRegs, SwitchRegs, Saved
<1>3. \A r \in SwitchRegs : \E k \in 1 .. 14 : SaveRegs[k] = r
  BY DEF SaveRegs, SwitchRegs, Saved
<1>4. \A j, k \in 1 .. 14 : SaveRegs[j] = SaveRegs[k] => j = k
  BY DEF SaveRegs
<1>5. SwitchRegs \subseteq Regs
  BY RegsAre DEF SwitchRegs, Saved
<1> QED BY <1>1, <1>2, <1>3, <1>4, <1>5

\* Each has a word of the context of its own.
LEMMA KeptWords ==
  ASSUME NEW d \in TaskDays
  PROVE  /\ \A r \in SwitchRegs : KeptWord(d, r) \in 0 .. 30
         /\ KeptWord(d, "ra") = 0 /\ KeptWord(d, "sp") = 1
         /\ \A q, r \in SwitchRegs : KeptWord(d, q) = KeptWord(d, r) => q = r
         /\ d # "6" => \A k \in 1 .. 14 : KeptWord(d, SaveRegs[k]) = k - 1
<1>1. CASE d = "6"
  <2>1. \A r \in SwitchRegs : KeptWord(d, r) = WordOf[r]
    BY <1>1 DEF KeptWord
  <2>2. \A r \in SwitchRegs : WordOf[r] \in 0 .. 30 /\ InOrder[WordOf[r] + 1] = r
    BY WordsAre, SaveRegsAre
  <2>3. "ra" \in SwitchRegs /\ "sp" \in SwitchRegs
    BY DEF SwitchRegs
  <2>4. \A q, r \in SwitchRegs : KeptWord(d, q) = KeptWord(d, r) => q = r
    BY <2>1, <2>2
  <2> QED BY <1>1, <2>1, <2>2, <2>3, <2>4, WordsAre
<1>2. CASE d # "6"
  <2>1. ASSUME NEW r \in SwitchRegs
        PROVE  KeptWord(d, r) \in 0 .. 13 /\ SaveRegs[KeptWord(d, r) + 1] = r
    <3> DEFINE k == CHOOSE i \in 1 .. 14 : SaveRegs[i] = r
    <3>1. k \in 1 .. 14 /\ SaveRegs[k] = r
      BY SaveRegsAre
    <3>2. KeptWord(d, r) = k - 1
      BY <1>2 DEF KeptWord
    <3> HIDE DEF k
    <3> QED BY <3>1, <3>2
  <2>2. \A k \in 1 .. 14 : KeptWord(d, SaveRegs[k]) = k - 1
    <3> TAKE k \in 1 .. 14
    <3>1. SaveRegs[k] \in SwitchRegs
      BY SaveRegsAre
    <3>2. KeptWord(d, SaveRegs[k]) \in 0 .. 13 /\ SaveRegs[KeptWord(d, SaveRegs[k]) + 1] = SaveRegs[k]
      BY <2>1, <3>1
    <3>3. KeptWord(d, SaveRegs[k]) + 1 = k
      BY <3>2, SaveRegsAre
    <3> QED BY <3>2, <3>3
  <2>3. KeptWord(d, "ra") = 0 /\ KeptWord(d, "sp") = 1
    BY <2>2, SaveRegsAre
  <2>4. \A q, r \in SwitchRegs : KeptWord(d, q) = KeptWord(d, r) => q = r
    BY <2>1
  <2> QED BY <2>1, <2>2, <2>3, <2>4
<1> QED BY <1>1, <1>2

\* What sys_switch does, one instruction after the other.
SwitchCodeIs(d, s, l) ==
  /\ Len(s) = 14 /\ Len(l) \in 14 .. 15
  /\ \A k \in 1 .. 14 : s[k][1] = SaveRegs[k] /\ s[k][2] = KeptWord(d, SaveRegs[k])
  /\ l[1][1] = "ra" /\ l[1][2] = 0 /\ l[2][1] = "sp" /\ l[2][2] = 1
  /\ \A k \in 3 .. Len(l) : /\ l[k][1] \in Saved \cup {"a0"} /\ l[k][2] \in 0 .. 30
                            /\ l[k][1] \in Saved => l[k][2] = KeptWord(d, l[k][1])
  /\ \A r \in Saved : \E k \in 3 .. Len(l) : l[k][1] = r
  /\ \A j, k \in 1 .. Len(l) : l[j][1] = l[k][1] => j = k

SwitchCodeOK(d) == SwitchCodeIs(d, sys_switch(d).save, sys_switch(d).load)

\* The sys_switch of days 2-1 and 2-2 stores and loads the same words.
LEMMA PackedSwitch ==
  ASSUME NEW d \in {"2-1", "2-2"}
  PROVE  SwitchCodeOK(d)
<1> DEFINE s == Packed(SaveRegs)
<1>1. sys_switch(d).save = s /\ sys_switch(d).load = s
  BY DEF sys_switch, ctx_save21, ctx_save22, ctx_load21, ctx_load22
<1>2. d \in TaskDays /\ d # "6"
  BY DEF TaskDays
<1>3. Len(s) = 14 /\ \A k \in 1 .. 14 : s[k][1] = SaveRegs[k] /\ s[k][2] = k - 1
  BY SaveRegsAre DEF Packed
<1> HIDE DEF s
<1>4. \A k \in 1 .. 14 : s[k][2] = KeptWord(d, SaveRegs[k])
  BY <1>2, <1>3, KeptWords
<1>5. \A r \in Saved : \E k \in 3 .. 14 : SaveRegs[k] = r
  <2> TAKE r \in Saved
  <2>1. r \in SwitchRegs /\ r # "ra" /\ r # "sp"
    BY DEF SwitchRegs, Saved
  <2>2. PICK k \in 1 .. 14 : SaveRegs[k] = r
    BY <2>1, SaveRegsAre
  <2>3. k # 1 /\ k # 2
    BY <2>1, <2>2, SaveRegsAre
  <2> QED BY <2>2, <2>3
<1>6. \A k \in 3 .. 14 : s[k][2] \in 0 .. 30
  BY <1>3
<1> QED BY <1>1, <1>3, <1>4, <1>5, <1>6, SaveRegsAre DEF SwitchCodeOK, SwitchCodeIs

\* So does that of day 6, which also loads a0.
LEMMA FramedSwitch == SwitchCodeOK("6")
<1> DEFINE a == <<"ra", "sp", "s0", "s1", "a0">>
           z == SubSeq(SaveRegs, 5, 14)
           y == a \o z
           s == InFrame(SaveRegs)
           l == InFrame(y)
<1>1. sys_switch("6").save = s /\ sys_switch("6").load = l
  BY DEF sys_switch, ctx_save6, ctx_load6
<1>2. /\ a \in Seq(Regs) /\ Len(a) = 5 /\ a[1] = "ra" /\ a[2] = "sp" /\ a[3] = "s0" /\ a[4] = "s1" /\ a[5] = "a0"
  BY RegsAre
<1>3. z \in Seq(Regs) /\ Len(z) = 10 /\ \A k \in 1 .. 10 : z[k] = SaveRegs[4 + k]
  <2>1. SaveRegs \in Seq(Regs)
    <3>1. SaveRegs = [k \in 1 .. 14 |-> SaveRegs[k]]
      BY DEF SaveRegs
    <3> QED BY <3>1, SaveRegsAre
  <2> QED BY <2>1, SaveRegsAre, SubSeqProperties
<1> HIDE DEF a, z, y
<1>4. /\ y \in Seq(Regs) /\ Len(y) = Len(a) + Len(z)
      /\ \A k \in 1 .. Len(a) : y[k] = a[k]
      /\ \A k \in 1 .. Len(z) : y[Len(a) + k] = z[k]
  <2>1. y = a \o z
    BY DEF y
  <2>2. a \in Seq(Regs) /\ z \in Seq(Regs)
    BY <1>2, <1>3
  <2> QED BY <2>1, <2>2, Joined
<1>5. /\ Len(y) = 15 /\ y[1] = "ra" /\ y[2] = "sp" /\ y[3] = "s0" /\ y[4] = "s1" /\ y[5] = "a0"
      /\ \A k \in 1 .. 10 : y[5 + k] = SaveRegs[4 + k]
  BY <1>2, <1>3, <1>4
<1>6. y[6] = "s2" /\ y[7] = "s3" /\ y[8] = "s4" /\ y[9] = "s5" /\ y[10] = "s6" /\ y[11] = "s7" /\ y[12] = "s8"
      /\ y[13] = "s9" /\ y[14] = "s10" /\ y[15] = "s11"
  <2>1. SaveRegs[5] = "s2" /\ SaveRegs[6] = "s3" /\ SaveRegs[7] = "s4" /\ SaveRegs[8] = "s5" /\ SaveRegs[9] = "s6"
        /\ SaveRegs[10] = "s7" /\ SaveRegs[11] = "s8" /\ SaveRegs[12] = "s9" /\ SaveRegs[13] = "s10"
        /\ SaveRegs[14] = "s11"
    BY DEF SaveRegs
  <2>2. /\ y[5 + 1] = SaveRegs[4 + 1] /\ y[5 + 2] = SaveRegs[4 + 2] /\ y[5 + 3] = SaveRegs[4 + 3]
        /\ y[5 + 4] = SaveRegs[4 + 4] /\ y[5 + 5] = SaveRegs[4 + 5] /\ y[5 + 6] = SaveRegs[4 + 6]
        /\ y[5 + 7] = SaveRegs[4 + 7] /\ y[5 + 8] = SaveRegs[4 + 8] /\ y[5 + 9] = SaveRegs[4 + 9]
        /\ y[5 + 10] = SaveRegs[4 + 10]
    BY <1>5
  <2> QED BY <2>1, <2>2
<1>7. \A k \in 3 .. 15 : y[k] \in Saved \cup {"a0"}
  BY <1>5, <1>6 DEF Saved
<1>8. \A r \in Saved : \E k \in 3 .. 15 : y[k] = r
  BY <1>5, <1>6 DEF Saved
<1>9. \A j, k \in 1 .. 15 : y[j] = y[k] => j = k
  BY <1>5, <1>6
<1>10. Len(s) = 14 /\ \A k \in 1 .. 14 : s[k][1] = SaveRegs[k] /\ s[k][2] = WordOf[SaveRegs[k]]
  BY SaveRegsAre DEF InFrame
<1>11. Len(l) = 15 /\ \A k \in 1 .. 15 : l[k][1] = y[k] /\ l[k][2] = WordOf[y[k]]
  BY <1>5 DEF InFrame
<1> HIDE DEF s, l
<1>12. \A r : KeptWord("6", r) = WordOf[r]
  BY DEF KeptWord
<1>13. \A k \in 3 .. 15 : WordOf[y[k]] \in 0 .. 30
  BY <1>7, WordsAre, RegsAre DEF Saved
<1>14. WordOf["ra"] = 0 /\ WordOf["sp"] = 1
  BY WordsAre
<1>15. /\ l[1][1] = "ra" /\ l[1][2] = 0 /\ l[2][1] = "sp" /\ l[2][2] = 1
       /\ \A k \in 3 .. 15 : /\ l[k][1] \in Saved \cup {"a0"} /\ l[k][2] \in 0 .. 30
                             /\ l[k][2] = KeptWord("6", l[k][1])
  BY <1>5, <1>7, <1>11, <1>12, <1>13, <1>14
<1>16. /\ \A r \in Saved : \E k \in 3 .. 15 : l[k][1] = r
       /\ \A j, k \in 1 .. 15 : l[j][1] = l[k][1] => j = k
  BY <1>8, <1>9, <1>11
<1>17. \A k \in 1 .. 14 : s[k][1] = SaveRegs[k] /\ s[k][2] = KeptWord("6", SaveRegs[k])
  BY <1>10, <1>12
<1>18. Len(s) = 14 /\ Len(l) = 15
  BY <1>10, <1>11
<1> HIDE <1>10, <1>11
<1>19. Len(l) \in 14 .. 15
  BY <1>18
<1>20. SwitchCodeIs("6", s, l)
  BY <1>15, <1>16, <1>17, <1>18, <1>19 DEF SwitchCodeIs
<1> QED BY <1>1, <1>20 DEF SwitchCodeOK

\* sys_switch of every day that has one stores and loads the same words.
LEMMA Switches ==
  ASSUME NEW d \in TaskDays
  PROVE  SwitchCodeOK(d)
  BY PackedSwitch, FramedSwitch DEF TaskDays

----------------------------------------------------------------------------
(***************************************************************************)
(* The operations of the programs, and the places they go on to            *)
(***************************************************************************)

\* Where the first sys_switch of a program is, and the place behind another.
SwitchAt(d) == IF d = "6" THEN BootLen(d) + 5 ELSE BootLen(d) + 1

OsText(d)   == OfDay(d).os.text
TextOf(d, o) == IF o = "os" THEN OfDay(d).os ELSE OfDay(d).task
After(d, p) ==
  LET q == TextOf(d, p[2])
  IN  IF p[3] < Len(q.text) THEN Place(p[2], p[3] + 1)
      ELSE IF q.endless THEN Place(p[2], q.loop)
      ELSE Place("end", 0)

\* Where boot, vector and switch are in the text of a day.
LEMMA TextIs ==
  ASSUME NEW d \in AllDays
  PROVE  /\ BootLen(d) \in Nat \ {0} /\ VectorAt(d) \in Nat /\ Len(OsText(d)) \in Nat
         /\ BootLen(d) < Len(OsText(d))
         /\ d \in TaskDays => SwitchAt(d) + 1 <= Len(OsText(d))
         /\ d # "2-1" => VectorAt(d) \in 1 .. BootLen(d)
<1>1. TextShape(d, OsText(d), BootLen(d), VectorAt(d))
  BY ShapeIs DEF Shape, OsText
<1> DEFINE T == OsText(d)
<1> SUFFICES /\ BootLen(d) \in Nat \ {0} /\ VectorAt(d) \in Nat /\ Len(T) \in Nat
             /\ BootLen(d) < Len(T)
             /\ d \in TaskDays => SwitchAt(d) + 1 <= Len(T)
             /\ d # "2-1" => VectorAt(d) \in 1 .. BootLen(d)
  OBVIOUS
<1>2. TextShape(d, T, BootLen(d), VectorAt(d))
  BY <1>1
<1> HIDE DEF T
<1>3. BootLen(d) \in Nat \ {0} /\ VectorAt(d) \in Nat /\ Len(T) \in Nat
  BY <1>2 DEF TextShape
<1>4. BootLen(d) < Len(T) /\ (d \in TaskDays => SwitchAt(d) + 1 <= Len(T))
  <2>1. CASE d \in {"2-1", "2-2"}
    <3>1. Len(T) = BootLen(d) + 2 /\ SwitchAt(d) = BootLen(d) + 1
      BY <1>2, <2>1 DEF TextShape, SwitchAt
    <3> QED BY <1>3, <3>1
  <2>2. CASE d = "6"
    <3>1. Len(T) = BootLen(d) + 8 /\ SwitchAt(d) = BootLen(d) + 5
      BY <1>2, <2>2 DEF TextShape, SwitchAt, SModeDays
    <3> QED BY <1>3, <3>1
  <2>3. CASE d \notin {"2-1", "2-2", "6"}
    <3>1. Len(T) \in {BootLen(d) + 1, BootLen(d) + 2} \/ Len(T) > BootLen(d) + 4
      BY <1>2, <2>3 DEF TextShape, SModeDays, HeapLoops, AllDays
    <3> QED BY <1>3, <2>3, <3>1 DEF TaskDays
  <2> QED BY <2>1, <2>2, <2>3
<1>5. d # "2-1" => VectorAt(d) \in 1 .. BootLen(d)
  BY <1>2, <1>3 DEF TextShape
<1> QED BY <1>3, <1>4, <1>5

\* Which operations are where.
OpsOf(d, n, v, T, k) ==
  /\ T[k] \in Ops
  /\ T[k] = "malloc" => d \in HeapLoops /\ k = n + 1
  /\ T[k] = "free" => d \in HeapLoops /\ k = n + 2
  /\ d \in HeapLoops /\ T[k] \notin {"malloc", "free"} => k <= n
  /\ T[k] = "sys_switch" <=> d \in TaskDays /\ k = IF d = "6" THEN n + 5 ELSE n + 1
  /\ T[k] = "w_mepc" <=> d \in SModeDays /\ k = n + 1
  /\ T[k] = "r_mstatus" <=> d \in SModeDays /\ k = n + 2
  /\ T[k] = "w_mstatus" <=> d \in SModeDays /\ k = n + 3
  /\ T[k] = "mret" <=> d \in SModeDays /\ k = n + 4
  /\ T[k] = "mtvec" => d # "2-1"
  /\ T[k] = "MIE" => d # "2-1" /\ k > v
  /\ d # "2-1" => T[v] = "mtvec"
  /\ T[k] = "IER" \/ T[k] \in DiskOps => d \notin {"2-1", "2-2", "2-3"}
  /\ d = "6" => T[n] = "set_cpu_proc"

\* Which operation is where in the text of a day.
LEMMA OsOps ==
  ASSUME NEW d \in AllDays, NEW k \in 1 .. Len(OsText(d))
  PROVE  OpsOf(d, BootLen(d), VectorAt(d), OsText(d), k)
<1> DEFINE T == OsText(d)
           n == BootLen(d)
           v == VectorAt(d)
<1>1. TextShape(d, T, n, v)
  BY ShapeIs DEF Shape, OsText
<1>2. k \in 1 .. Len(T) /\ d \in AllDays
  OBVIOUS
<1> SUFFICES OpsOf(d, n, v, T, k)
  OBVIOUS
<1> HIDE DEF T, n, v
<1>3. n \in Nat \ {0} /\ v \in Nat /\ k \in Int
  BY <1>1, <1>2 DEF TextShape
<1>4. T[k] \in Ops
  BY <1>1, <1>2 DEF TextShape
<1>5. CASE k <= n
  <2>1. T[k] \in Early(d) /\ (d = "2-1" => T[k] \in QuietOps) /\ (d # "2-1" => v \in 1 .. n /\ T[v] = "mtvec" /\ (T[k] = "MIE" => k > v))
    BY <1>1, <1>2, <1>3, <1>5 DEF TextShape
  <2>2. T[k] \in BootOps /\ (d \in {"2-1", "2-2", "2-3"} => T[k] # "IER" /\ T[k] \notin DiskOps)
    BY <2>1 DEF Early, EarlyOps, BootOps, QuietOps
  <2>3. T[k] \notin {"malloc", "free", "sys_switch", "w_mepc", "r_mstatus", "w_mstatus", "mret"}
    BY <2>2 DEF BootOps, QuietOps, DiskOps
  <2>4. d = "2-1" => T[k] # "mtvec" /\ T[k] # "MIE"
    BY <2>1 DEF QuietOps, DiskOps
  <2>5. d = "6" => T[n] = "set_cpu_proc"
    BY <1>1 DEF TextShape, SModeDays
  <2> QED BY <1>3, <1>4, <1>5, <2>1, <2>2, <2>3, <2>4, <2>5 DEF OpsOf
<1>6. CASE k > n
  <2>1. d # "2-1" => v \in 1 .. n /\ T[v] = "mtvec"
    BY <1>1 DEF TextShape
  <2>2. CASE d \in {"2-1", "2-2"}
    <3>1. Len(T) = n + 2 /\ T[n + 1] = "sys_switch" /\ T[n + 2] = "print"
      BY <1>1, <2>2 DEF TextShape
    <3>2. (k = n + 1 /\ T[k] = "sys_switch") \/ (k = n + 2 /\ T[k] = "print")
      BY <1>2, <1>3, <1>6, <3>1
    <3>3. d \in TaskDays /\ d # "6" /\ d \notin HeapLoops /\ d \notin SModeDays
      BY <2>2 DEF TaskDays, HeapLoops, SModeDays
    <3> QED BY <1>3, <1>4, <2>1, <3>2, <3>3 DEF OpsOf, DiskOps
  <2>3. CASE d \in {"2-3", "3-1"}
    <3>1. Len(T) = n + 1 /\ T[n + 1] = "print"
      BY <1>1, <2>3 DEF TextShape
    <3>2. T[k] = "print"
      BY <1>2, <1>3, <1>6, <3>1
    <3>3. d \notin TaskDays /\ d \notin {"6", "2-1"} /\ d \notin HeapLoops /\ d \notin SModeDays
      BY <2>3 DEF TaskDays, HeapLoops, SModeDays
    <3> QED BY <1>3, <1>4, <2>1, <3>2, <3>3 DEF OpsOf, DiskOps
  <2>4. CASE d \in HeapLoops
    <3>1. Len(T) = n + 2 /\ T[n + 1] = "malloc" /\ T[n + 2] = "free"
      BY <1>1, <2>4 DEF TextShape
    <3>2. (k = n + 1 /\ T[k] = "malloc") \/ (k = n + 2 /\ T[k] = "free")
      BY <1>2, <1>3, <1>6, <3>1
    <3>3. d \notin TaskDays /\ d \notin {"6", "2-1"} /\ d \notin SModeDays
      BY <2>4 DEF TaskDays, HeapLoops, SModeDays
    <3> QED BY <1>3, <1>4, <2>1, <2>4, <3>2, <3>3 DEF OpsOf, DiskOps
  <2>5. CASE d \in SModeDays \ {"6"}
    <3>1. T[n + 1] = "w_mepc" /\ T[n + 2] = "r_mstatus" /\ T[n + 3] = "w_mstatus" /\ T[n + 4] = "mret"
      BY <1>1, <2>5 DEF TextShape
    <3>2. k \in {n + 1, n + 2, n + 3, n + 4} \/ (k >= n + 5 /\ T[k] \in QuietOps)
      BY <1>1, <1>2, <1>3, <1>6, <2>5 DEF TextShape
    <3>4. k >= n + 5 => T[k] \notin {"malloc", "free", "sys_switch", "w_mepc", "r_mstatus", "w_mstatus",
                                    "mret", "mtvec", "MIE"}
      BY <1>3, <3>2 DEF QuietOps, DiskOps
    <3>3. d \notin TaskDays /\ d \notin {"6", "2-1", "2-2", "2-3"} /\ d \notin HeapLoops
      BY <2>5 DEF TaskDays, HeapLoops, SModeDays
    <3>5. CASE k \in {n + 1, n + 2, n + 3, n + 4}
      BY <1>3, <1>4, <2>1, <2>5, <3>1, <3>3, <3>5 DEF OpsOf
    <3>6. CASE k >= n + 5
      BY <1>3, <1>4, <2>1, <2>5, <3>3, <3>4, <3>6 DEF OpsOf
    <3> QED BY <3>2, <3>5, <3>6
  <2>6. CASE d = "6"
    <3>1. d \in SModeDays
      BY <2>6 DEF SModeDays
    <3>2. /\ Len(T) = n + 8 /\ T[n + 1] = "w_mepc" /\ T[n + 2] = "r_mstatus" /\ T[n + 3] = "w_mstatus"
          /\ T[n + 4] = "mret" /\ T[n] = "set_cpu_proc" /\ T[n + 5] = "sys_switch" /\ T[n + 6] = "mtvec"
          /\ T[n + 7] = "MEIE_MTIE" /\ T[n + 8] = "MIE"
      BY <1>1, <2>6, <3>1 DEF TextShape
    <3>3. k \in {n + 1, n + 2, n + 3, n + 4, n + 5, n + 6, n + 7, n + 8}
      BY <1>2, <1>3, <1>6, <3>2
    <3>4. d \in TaskDays /\ d \notin {"2-1", "2-2", "2-3"} /\ d \notin HeapLoops
      BY <2>6 DEF TaskDays, HeapLoops
    <3> QED BY <1>3, <1>4, <1>6, <2>1, <2>6, <3>1, <3>2, <3>3, <3>4 DEF OpsOf
  <2> QED BY <2>2, <2>3, <2>4, <2>5, <2>6 DEF AllDays, SModeDays, HeapLoops
<1> QED BY <1>3, <1>5, <1>6

\* The place behind each place of kernel_main().
LEMMA OsOnward ==
  ASSUME NEW d \in AllDays, NEW k \in 1 .. Len(OsText(d)), NEW p, p = After(d, Place("os", k))
  PROVE  \/ p = Place("os", k + 1) /\ k + 1 \in 1 .. Len(OsText(d))
         \/ /\ d # "6" /\ k = Len(OsText(d))
            /\ p = Place("os", p[3]) /\ p[3] \in BootLen(d) + 1 .. Len(OsText(d))
            /\ d \in TaskDays => p[3] > SwitchAt(d)
            /\ d \in SModeDays => p[3] >= BootLen(d) + 5
            /\ d \in HeapLoops => p[3] = BootLen(d) + 1
         \/ d = "6" /\ k = Len(OsText(d)) /\ p = Place("end", 0)
<1> DEFINE q == OfDay(d).os
           n == BootLen(d)
<1>1. TextShape(d, q.text, n, VectorAt(d)) /\ LoopShape(d, q, n)
  BY ShapeIs DEF Shape
<1>2. p = IF k < Len(q.text) THEN Place("os", k + 1)
          ELSE IF q.endless THEN Place("os", q.loop) ELSE Place("end", 0)
  BY DEF After, Place, TextOf
<1>3. k \in 1 .. Len(q.text)
  BY DEF OsText
<1> HIDE DEF q, n
<1>4. Len(q.text) \in Nat /\ n \in Nat
  BY <1>1 DEF TextShape
<1>5. CASE k < Len(q.text)
  <2>1. p = Place("os", k + 1) /\ k + 1 \in 1 .. Len(q.text)
    BY <1>2, <1>3, <1>4, <1>5
  <2> QED BY <2>1 DEF q, OsText
<1>6. CASE k = Len(q.text) /\ d # "6"
  <2>1. p = Place("os", q.loop)
    BY <1>1, <1>2, <1>4, <1>6 DEF LoopShape
  <2>2. p[3] = q.loop
    BY <2>1 DEF Place
  <2>3. CASE d \in {"2-1", "2-2"}
    <3>1. Len(q.text) = n + 2 /\ q.loop = n + 2
      BY <1>1, <2>3 DEF TextShape, LoopShape
    <3>2. d \notin SModeDays /\ d \notin HeapLoops
      BY <2>3 DEF SModeDays, HeapLoops
    <3> QED BY <1>4, <1>6, <2>1, <2>2, <3>1, <3>2 DEF q, n, OsText, SwitchAt
  <2>4. CASE d \in {"2-3", "3-1"} \cup HeapLoops
    <3>1. Len(q.text) \in {n + 1, n + 2} /\ q.loop = n + 1
      BY <1>1, <2>4 DEF TextShape, LoopShape
    <3>2. d \notin SModeDays /\ d \notin TaskDays
      BY <2>4 DEF SModeDays, HeapLoops, TaskDays
    <3> QED BY <1>4, <1>6, <2>1, <2>2, <3>1, <3>2 DEF q, n, OsText
  <2>5. CASE d \in SModeDays
    <3>1. q.loop \in n + 5 .. Len(q.text)
      BY <1>1, <1>6, <2>5 DEF LoopShape
    <3>2. d \notin HeapLoops /\ d \notin TaskDays
      BY <1>6, <2>5 DEF SModeDays, HeapLoops, TaskDays
    <3> QED BY <1>4, <1>6, <2>1, <2>2, <3>1, <3>2 DEF q, n, OsText
  <2> QED BY <2>3, <2>4, <2>5 DEF AllDays, SModeDays, HeapLoops
<1>7. CASE k = Len(q.text) /\ d = "6"
  BY <1>1, <1>2, <1>4, <1>7 DEF LoopShape, q, OsText
<1> QED BY <1>3, <1>4, <1>5, <1>6, <1>7

\* The programs of the other stack.
LEMMA Tasks ==
  ASSUME NEW d \in TaskDays
  PROVE  LET q == OfDay(d).task
         IN  IF d = "6" THEN /\ q.text \in Seq(Ops) /\ Len(q.text) = 1 /\ q.text[1] = "print"
                             /\ q.endless /\ q.loop = 1
             ELSE Len(q.text) = 2 /\ q.text[1] = "print" /\ q.text[2] = "sys_switch"
<1> DEFINE a == <<"print", "sys_switch">>
           b == <<"print">>
           e == <<>>
<1>1. d # "6" => OfDay(d).task = Program(a, e)
  BY DEF TaskDays, OfDay, Snapshot, user_task0_21, user_task0_22
<1>2. d = "6" => OfDay(d).task = Program(e, b)
  BY DEF OfDay, Snapshot, user_main6
<1>3. a \in Seq(Ops) /\ Len(a) = 2 /\ a[1] = "print" /\ a[2] = "sys_switch"
  BY DEF Ops, BootOps, QuietOps
<1>4. b \in Seq(Ops) /\ Len(b) = 1 /\ b[1] = "print" /\ b # e
  BY DEF Ops, BootOps, QuietOps
<1>5. e \in Seq(Ops) /\ Len(e) = 0
  OBVIOUS
<1> HIDE DEF a, b, e
<1>14. a \in Seq(Ops) /\ b \in Seq(Ops)
  BY <1>3, <1>4
<1>6. a \o e \in Seq(Ops) /\ Len(a \o e) = Len(a) + Len(e) /\ \A k \in 1 .. Len(a) : (a \o e)[k] = a[k]
  BY <1>14, <1>5, Joined
<1>7. e \o b \in Seq(Ops) /\ Len(e \o b) = Len(e) + Len(b) /\ \A k \in 1 .. Len(b) : (e \o b)[Len(e) + k] = b[k]
  BY <1>14, <1>5, Joined
<1>8. /\ Program(a, e).text = a \o e
      /\ Program(e, b).text = e \o b /\ Program(e, b).loop = Len(e) + 1 /\ Program(e, b).endless
  BY <1>4 DEF Program, e
<1>9. Len(a \o e) = 2 /\ (a \o e)[1] = "print" /\ (a \o e)[2] = "sys_switch"
  BY <1>3, <1>5, <1>6
<1>10. Len(e \o b) = 1 /\ (e \o b)[1] = "print"
  BY <1>4, <1>5, <1>7
<1>11. Program(e, b).loop = 1
  BY <1>5, <1>8
<1> QED BY <1>1, <1>2, <1>7, <1>8, <1>9, <1>10, <1>11

----------------------------------------------------------------------------
(***************************************************************************)
(* What the code relies on at each place                                   *)
(***************************************************************************)

\* What holds where the code d is at place p with registers e, contexts c and u
\* for set_cpu_proc().
Own(e) == \A r \in Saved : e[r] = Reg("os", r)

TaskFresh(c) == c["task"][0] = Place("task", 1) /\ c["task"][1] = Sp("task", 0)

OsKept(d, c) == /\ c["os"][0] = Place("os", SwitchAt(d) + 1) /\ c["os"][1] = Sp("os", 0)
                /\ \A r \in Saved : c["os"][KeptWord(d, r)] = Reg("os", r)

OsAt(d, k, e, c, u) ==
  /\ k \in 1 .. Len(OsText(d))
  /\ e["sp"] = Sp("os", 0) /\ Own(e)
  /\ d \in TaskDays /\ k <= SwitchAt(d) => TaskFresh(c)
  /\ d = "6" /\ k > BootLen(d) => u
  /\ d \in SModeDays /\ k \in BootLen(d) + 2 .. BootLen(d) + 4 =>
       \E q \in BootLen(d) + 2 .. BootLen(d) + 5 : e["mepc"] = Place("os", q)

TaskAt(d, k, e, c, u) ==
  /\ d \in TaskDays /\ (d = "6" => u)
  /\ k \in 1 .. Len(OfDay(d).task.text)
  /\ e["sp"] = Sp("task", 0) /\ OsKept(d, c)

Leaving(d, k, e, c) ==
  /\ e["a1"] = Context("task") /\ TaskFresh(c)
  /\ k <= 15 => /\ e["sp"] = Sp("os", 0) /\ Own(e) /\ e["ra"] = Place("os", SwitchAt(d) + 1)
                /\ \A j \in 1 .. k - 1 : c["os"][KeptWord(d, SaveRegs[j])] = e[SaveRegs[j]]
  /\ k <= 14 => e["a0"] = Context("os")
  /\ k > 14 => OsKept(d, c)
  /\ k = 16 => e["sp"] = Sp("os", 0)
  /\ k >= 16 => e["ra"] = Place("task", 1)
  /\ k >= 17 => e["sp"] = Sp("task", 0)

Returning(d, k, e, c) ==
  /\ e["a1"] = Context("os") /\ OsKept(d, c)
  /\ k <= 16 => e["sp"] = IF d = "6" THEN Sp("task", 1) ELSE Sp("task", 0)
  /\ k <= 14 => e["a0"] = Context("task")
  /\ k >= 16 => e["ra"] = Place("os", SwitchAt(d) + 1)
  /\ k >= 17 => e["sp"] = Sp("os", 0)
  /\ \A j \in 1 .. k - 15 : sys_switch(d).load[j][1] \in Saved =>
       e[sys_switch(d).load[j][1]] = Reg("os", sys_switch(d).load[j][1])

SwitchLast(d) == 14 + Len(sys_switch(d).load) + 1

SwitchingAt(d, k, e, c, u) ==
  /\ d \in TaskDays /\ (d = "6" => u)
  /\ k \in 1 .. SwitchLast(d)
  /\ Leaving(d, k, e, c) \/ Returning(d, k, e, c)

CodeAt(d, p, e, c, u) ==
  \/ p = Place("os", p[3]) /\ OsAt(d, p[3], e, c, u)
  \/ p = Place("task", p[3]) /\ TaskAt(d, p[3], e, c, u)
  \/ p = Place("sys_switch", p[3]) /\ SwitchingAt(d, p[3], e, c, u)

\* What the operation t at place k does to the registers e and to u.
Leaves(t, k, e, e2, u, u2) ==
  /\ t # "sys_switch" /\ (t = "set_cpu_proc" => u2) /\ (u => u2)
  /\ e2["sp"] = e["sp"] /\ \A r \in Saved : e2[r] = e[r]
  /\ IF t = "w_mepc" THEN e2["mepc"] = Place("os", k + 4) ELSE e2["mepc"] = e["mepc"]

OsTo(d, p, e, c, u) == p = Place("end", 0) \/ (p = Place("os", p[3]) /\ OsAt(d, p[3], e, c, u))

\* An operation that is neither a switch nor an mret.
LEMMA OsMoves ==
  ASSUME NEW d \in AllDays, NEW k, NEW e, NEW e2, NEW c, NEW u, NEW u2, NEW p,
         OsAt(d, k, e, c, u), p = After(d, Place("os", k)),
         Leaves(OsText(d)[k], k, e, e2, u, u2)
  PROVE  OsTo(d, p, e2, c, u2)
<1>0. /\ OsText(d)[k] # "sys_switch" /\ (OsText(d)[k] = "set_cpu_proc" => u2) /\ (u => u2)
      /\ e2["sp"] = e["sp"] /\ \A r \in Saved : e2[r] = e[r]
      /\ IF OsText(d)[k] = "w_mepc" THEN e2["mepc"] = Place("os", k + 4) ELSE e2["mepc"] = e["mepc"]
  BY DEF Leaves
<1> SUFFICES p = Place("end", 0) \/ (p = Place("os", p[3]) /\ OsAt(d, p[3], e2, c, u2))
  BY DEF OsTo
<1> USE <1>0
<1> DEFINE n == BootLen(d)
           T == OsText(d)
<1>1. k \in 1 .. Len(T) /\ n \in Nat \ {0} /\ Len(T) \in Nat /\ n < Len(T) /\ k \in Int
  BY TextIs DEF OsAt
<1>2. OpsOf(d, n, VectorAt(d), T, k)
  BY <1>1, OsOps
<1>3. e2["sp"] = Sp("os", 0) /\ Own(e2)
  BY DEF OsAt, Own
<1>4. SwitchAt(d) = IF d = "6" THEN n + 5 ELSE n + 1
  BY DEF SwitchAt
<1>5. k # SwitchAt(d) \/ d \notin TaskDays
  BY <1>2, <1>4 DEF OpsOf
<1>6. d \in TaskDays /\ k <= SwitchAt(d) => TaskFresh(c)
  BY DEF OsAt
<1>7. d = "6" /\ k >= n => u2
  <2>1. d = "6" /\ k > n => u
    BY DEF OsAt
  <2>2. d = "6" /\ k = n => u2
    BY <1>2 DEF OpsOf
  <2> QED BY <1>1, <2>1, <2>2
<1>8. d \in SModeDays /\ k \in n + 1 .. n + 3 => \E q \in n + 2 .. n + 5 : e2["mepc"] = Place("os", q)
  <2> SUFFICES ASSUME d \in SModeDays, k \in n + 1 .. n + 3
               PROVE  \E q \in n + 2 .. n + 5 : e2["mepc"] = Place("os", q)
    OBVIOUS
  <2>1. CASE k = n + 1
    <3>1. e2["mepc"] = Place("os", n + 5)
      <4>1. T[k] = "w_mepc" /\ k + 4 = n + 5
        BY <1>1, <1>2, <2>1 DEF OpsOf
      <4> QED BY <4>1
    <3> QED BY <1>1, <3>1
  <2>2. CASE k # n + 1
    <3>1. T[k] # "w_mepc" /\ k \in n + 2 .. n + 4
      BY <1>1, <1>2, <2>2 DEF OpsOf
    <3>2. \E q \in n + 2 .. n + 5 : e["mepc"] = Place("os", q)
      BY <3>1 DEF OsAt
    <3> QED BY <3>1, <3>2
  <2> QED BY <2>1, <2>2
<1>9. CASE p = Place("os", k + 1) /\ k + 1 \in 1 .. Len(T)
  <2>1. p[3] = k + 1
    BY <1>9 DEF Place
  <2>2. d \in TaskDays /\ k + 1 <= SwitchAt(d) => TaskFresh(c)
    BY <1>1, <1>4, <1>6
  <2>3. d = "6" /\ k + 1 > n => u2
    BY <1>1, <1>7
  <2>4. d \in SModeDays /\ k + 1 \in n + 2 .. n + 4 => \E q \in n + 2 .. n + 5 : e2["mepc"] = Place("os", q)
    <3>1. k + 1 \in n + 2 .. n + 4 => k \in n + 1 .. n + 3
      BY <1>1
    <3> QED BY <1>8, <3>1
  <2>5. OsAt(d, k + 1, e2, c, u2)
    BY <1>3, <1>9, <2>2, <2>3, <2>4 DEF OsAt
  <2> QED BY <1>9, <2>1, <2>5
<1>10. CASE /\ d # "6" /\ k = Len(T) /\ p = Place("os", p[3]) /\ p[3] \in n + 1 .. Len(T)
            /\ d \in TaskDays => p[3] > SwitchAt(d)
            /\ d \in SModeDays => p[3] >= n + 5
  <2> DEFINE i == p[3]
  <2>1. i \in 1 .. Len(T)
    BY <1>1, <1>10
  <2>2. ~(d \in TaskDays /\ i <= SwitchAt(d)) /\ ~(d \in SModeDays /\ i \in n + 2 .. n + 4)
    BY <1>1, <1>4, <1>10, <2>1
  <2>3. OsAt(d, i, e2, c, u2)
    BY <1>3, <1>10, <2>1, <2>2 DEF OsAt
  <2> QED BY <1>10, <2>3
<1>11. CASE p = Place("end", 0)
  BY <1>11
<1> QED BY <1>1, <1>9, <1>10, <1>11, OsOnward

\* A step of the task leads to a place of the task that may rely on the same.
LEMMA TaskMoves ==
  ASSUME NEW d \in AllDays, NEW k, NEW e, NEW e2, NEW c, NEW u, NEW p,
         TaskAt(d, k, e, c, u), p = After(d, Place("task", k)),
         e2["sp"] = e["sp"], OfDay(d).task.text[k] # "sys_switch"
  PROVE  p = Place("task", p[3]) /\ TaskAt(d, p[3], e2, c, u)
<1> DEFINE q == OfDay(d).task
<1>1. d \in TaskDays /\ k \in 1 .. Len(q.text)
  BY DEF TaskAt
<1>2. p = IF k < Len(q.text) THEN Place("task", k + 1)
          ELSE IF q.endless THEN Place("task", q.loop) ELSE Place("end", 0)
  BY DEF After, Place, TextOf
<1>3. p = Place("task", p[3]) /\ p[3] \in 1 .. Len(q.text)
  <2>1. CASE d = "6"
    <3>1. Len(q.text) = 1 /\ q.endless /\ q.loop = 1
      BY <1>1, <2>1, Tasks
    <3>2. p = Place("task", 1)
      BY <1>1, <1>2, <3>1
    <3> QED BY <3>1, <3>2 DEF Place
  <2>2. CASE d # "6"
    <3>1. Len(q.text) = 2 /\ q.text[1] = "print" /\ q.text[2] = "sys_switch"
      BY <1>1, <2>2, Tasks
    <3>2. k = 1
      BY <1>1, <3>1
    <3>3. p = Place("task", 2)
      BY <1>2, <3>1, <3>2
    <3> QED BY <3>1, <3>3 DEF Place
  <2> QED BY <2>1, <2>2
<1> QED BY <1>3 DEF TaskAt

\* The registers of two moments agree as far as the code depends on them.
LEMMA CodeKept ==
  ASSUME NEW d \in AllDays, NEW p, NEW e, NEW e2, NEW c, NEW u, CodeAt(d, p, e, c, u),
         \A r \in Regs : e2[r] = e[r], e2["mepc"] = p
  PROVE  CodeAt(d, p, e2, c, u)
<1>0. Saved \subseteq Regs /\ "ra" \in Regs /\ "sp" \in Regs /\ "a0" \in Regs /\ "a1" \in Regs
  BY RegsAre DEF Saved
<1>1. CASE p = Place("os", p[3]) /\ OsAt(d, p[3], e, c, u)
  <2>1. OsAt(d, p[3], e2, c, u)
    <3>1. e2["sp"] = Sp("os", 0) /\ Own(e2)
      BY <1>0, <1>1 DEF OsAt, Own
    <3>2. p[3] \in BootLen(d) + 2 .. BootLen(d) + 4 =>
            \E q \in BootLen(d) + 2 .. BootLen(d) + 5 : e2["mepc"] = Place("os", q)
      <4>1. BootLen(d) \in Int
        BY TextIs
      <4>2. p[3] \in BootLen(d) + 2 .. BootLen(d) + 4 => p[3] \in BootLen(d) + 2 .. BootLen(d) + 5
        BY <4>1
      <4>3. e2["mepc"] = Place("os", p[3])
        BY <1>1
      <4> QED BY <4>2, <4>3
    <3> QED BY <1>1, <3>1, <3>2 DEF OsAt
  <2> QED BY <1>1, <2>1 DEF CodeAt
<1>2. CASE p = Place("task", p[3]) /\ TaskAt(d, p[3], e, c, u)
  BY <1>0, <1>2 DEF TaskAt, CodeAt
<1>3. CASE p = Place("sys_switch", p[3]) /\ SwitchingAt(d, p[3], e, c, u)
  <2> DEFINE k == p[3]
  <2>1. CASE Leaving(d, k, e, c)
    <3>1. Own(e) => Own(e2)
      BY <1>0 DEF Own
    <3>2. ASSUME NEW j \in 1 .. k - 1, k <= 15
          PROVE  e2[SaveRegs[j]] = e[SaveRegs[j]]
      <4>1. k \in Int
        BY <1>3 DEF SwitchingAt
      <4>2. j \in 1 .. 14
        BY <3>2, <4>1
      <4>3. SaveRegs[j] \in Regs
        BY <4>2, SaveRegsAre
      <4> QED BY <4>3
    <3>3. Leaving(d, k, e2, c)
      BY <1>0, <2>1, <3>1, <3>2 DEF Leaving
    <3> QED BY <1>3, <3>3 DEF SwitchingAt, CodeAt
  <2>2. CASE Returning(d, k, e, c)
    <3>1. Returning(d, k, e2, c)
      BY <1>0, <2>2 DEF Returning
    <3> QED BY <1>3, <3>1 DEF SwitchingAt, CodeAt
  <2> QED BY <1>3, <2>1, <2>2 DEF SwitchingAt
<1> QED BY <1>1, <1>2, <1>3 DEF CodeAt

\* How many instructions sys_switch has.
LEMMA SwitchLength ==
  ASSUME NEW d \in TaskDays
  PROVE  \E n \in 14 .. 15 : Len(sys_switch(d).load) = n /\ SwitchLast(d) = n + 15
<1>1. SwitchCodeIs(d, sys_switch(d).save, sys_switch(d).load)
  BY Switches DEF SwitchCodeOK
<1>2. PICK n \in 14 .. 15 : Len(sys_switch(d).load) = n
  BY <1>1 DEF SwitchCodeIs
<1>3. SwitchLast(d) = 14 + n + 1
  BY <1>2 DEF SwitchLast
<1> QED BY <1>2, <1>3

\* The instructions of sys_switch.
LEMMA SwitchSave ==
  ASSUME NEW d \in AllDays, NEW k \in 1 .. 14, NEW e, NEW c, NEW u, SwitchingAt(d, k, e, c, u),
         DOMAIN c = Stacks, \A o \in Stacks : DOMAIN c[o] = 0 .. 30,
         NEW x, x = sys_switch(d).save[k], NEW c2, c2 = [c EXCEPT ![e["a0"][2]][x[2]] = e[x[1]]]
  PROVE  SwitchingAt(d, k + 1, e, c2, u)
<1>1. d \in TaskDays /\ (d = "6" => u) /\ (Leaving(d, k, e, c) \/ Returning(d, k, e, c))
  BY DEF SwitchingAt
<1> DEFINE s == sys_switch(d).save
           l == sys_switch(d).load
           r == SaveRegs[k]
           w == KeptWord(d, r)
<1>2. SwitchCodeIs(d, s, l)
  BY <1>1, Switches DEF SwitchCodeOK
<1>3. x[1] = r /\ x[2] = w
  BY <1>2 DEF SwitchCodeIs
<1>4. r \in SwitchRegs /\ w \in 0 .. 30
  BY <1>1, SaveRegsAre, KeptWords
<1>5. k + 1 \in 1 .. SwitchLast(d) /\ k + 1 \in 2 .. 15
  <2>1. PICK n \in 14 .. 15 : SwitchLast(d) = n + 15
    BY <1>1, SwitchLength
  <2>2. k + 1 \in 1 .. n + 15
    OBVIOUS
  <2> QED BY <2>1, <2>2
<1>6. c2 = [c EXCEPT ![e["a0"][2]][w] = e[r]]
  BY <1>3
<1> HIDE DEF s, l, r, w
<1>7. CASE Leaving(d, k, e, c)
  <2>1. e["a0"] = Context("os") /\ e["a0"][2] = "os"
    BY <1>7 DEF Leaving, Context
  <2>2. /\ c2["task"] = c["task"]
        /\ \A y \in 0 .. 30 : c2["os"][y] = IF y = w THEN e[r] ELSE c["os"][y]
    BY <1>4, <1>6, <2>1 DEF Stacks
  <2>3. TaskFresh(c2)
    BY <1>7, <2>2 DEF Leaving, TaskFresh
  <2>4. \A j \in 1 .. k : c2["os"][KeptWord(d, SaveRegs[j])] = e[SaveRegs[j]]
    <3> TAKE j \in 1 .. k
    <3>1. j \in 1 .. 14 /\ SaveRegs[j] \in SwitchRegs
      BY SaveRegsAre
    <3>2. KeptWord(d, SaveRegs[j]) \in 0 .. 30
      BY <1>1, <3>1, KeptWords
    <3>3. CASE j = k
      BY <2>2, <3>2, <3>3 DEF r, w
    <3>4. CASE j # k
      <4>1. j \in 1 .. k - 1
        BY <3>4
      <4>2. c["os"][KeptWord(d, SaveRegs[j])] = e[SaveRegs[j]]
        BY <1>7, <4>1 DEF Leaving
      <4>3. SaveRegs[j] # r
        BY <3>1, <3>4, SaveRegsAre DEF r
      <4>4. KeptWord(d, SaveRegs[j]) # w
        BY <1>1, <1>4, <3>1, <4>3, KeptWords DEF w
      <4> QED BY <2>2, <3>2, <4>2, <4>4
    <3> QED BY <3>3, <3>4
  <2>5. e["sp"] = Sp("os", 0) /\ Own(e) /\ e["ra"] = Place("os", SwitchAt(d) + 1) /\ e["a1"] = Context("task")
    BY <1>7 DEF Leaving
  <2>6. k = 14 => OsKept(d, c2)
    <3> SUFFICES ASSUME k = 14 PROVE OsKept(d, c2)
      OBVIOUS
    <3>1. \A q \in SwitchRegs : c2["os"][KeptWord(d, q)] = e[q]
      <4> TAKE q \in SwitchRegs
      <4>1. PICK j \in 1 .. 14 : SaveRegs[j] = q
        BY SaveRegsAre
      <4> QED BY <2>4, <4>1
    <3>2. Saved \subseteq SwitchRegs /\ "ra" \in SwitchRegs /\ "sp" \in SwitchRegs
      BY DEF SwitchRegs
    <3>3. KeptWord(d, "ra") = 0 /\ KeptWord(d, "sp") = 1
      BY <1>1, KeptWords
    <3>4. c2["os"][0] = Place("os", SwitchAt(d) + 1) /\ c2["os"][1] = Sp("os", 0)
      BY <2>5, <3>1, <3>2, <3>3
    <3>5. \A q \in Saved : c2["os"][KeptWord(d, q)] = Reg("os", q)
      BY <2>5, <3>1, <3>2 DEF Own
    <3> QED BY <3>4, <3>5 DEF OsKept
  <2>7. Leaving(d, k + 1, e, c2)
    <3>1. (k + 1) - 1 = k /\ (k + 1 > 14 => k = 14) /\ ~(k + 1 >= 16) /\ ~(k + 1 >= 17) /\ k + 1 # 16
      OBVIOUS
    <3>2. k + 1 <= 14 => e["a0"] = Context("os")
      BY <2>1
    <3> QED BY <2>3, <2>4, <2>5, <2>6, <3>1, <3>2 DEF Leaving
  <2> QED BY <1>1, <1>5, <2>7 DEF SwitchingAt
<1>8. CASE Returning(d, k, e, c)
  <2>1. e["a0"] = Context("task") /\ e["a0"][2] = "task"
    BY <1>8 DEF Returning, Context
  <2>2. c2["os"] = c["os"]
    BY <1>4, <1>6, <2>1 DEF Stacks
  <2>3. OsKept(d, c2)
    BY <1>8, <2>2 DEF Returning, OsKept
  <2>4. e["a1"] = Context("os") /\ e["sp"] = IF d = "6" THEN Sp("task", 1) ELSE Sp("task", 0)
    BY <1>8 DEF Returning
  <2>5. ~(k + 1 >= 16) /\ ~(k + 1 >= 17) /\ \A j : j \notin 1 .. (k + 1) - 15
    OBVIOUS
  <2>6. Returning(d, k + 1, e, c2)
    BY <2>1, <2>3, <2>4, <2>5 DEF Returning
  <2> QED BY <1>1, <1>5, <2>6 DEF SwitchingAt
<1> QED BY <1>1, <1>7, <1>8

\* An instruction of sys_switch that loads a register keeps what the next relies on.
LEMMA SwitchLoad ==
  ASSUME NEW d \in AllDays, NEW k \in Nat, NEW e, NEW c, NEW u, SwitchingAt(d, k, e, c, u),
         k > 14, k < SwitchLast(d), DOMAIN e = Regs \cup CSRs,
         NEW x, x = sys_switch(d).load[k - 14],
         NEW e2, e2 = [e EXCEPT ![x[1]] = c[e["a1"][2]][x[2]]]
  PROVE  SwitchingAt(d, k + 1, e2, c, u)
<1>1. d \in TaskDays /\ (d = "6" => u) /\ (Leaving(d, k, e, c) \/ Returning(d, k, e, c))
  BY DEF SwitchingAt
<1> DEFINE s == sys_switch(d).save
           l == sys_switch(d).load
           i == k - 14
<1>2. SwitchCodeIs(d, s, l)
  BY <1>1, Switches DEF SwitchCodeOK
<1>15. PICK n \in 14 .. 15 : Len(l) = n /\ SwitchLast(d) = n + 15
  BY <1>1, SwitchLength
<1>3. x = l[i] /\ Len(l) \in 14 .. 15
  BY <1>15
<1> HIDE DEF s, l
<1>16. k > 14 /\ k < n + 15
  BY <1>15
<1>4. k + 1 \in 1 .. SwitchLast(d) /\ i \in 1 .. Len(l) /\ k = 14 + i /\ i \in Int
  <2>1. k + 1 \in 1 .. n + 15 /\ k - 14 \in 1 .. n /\ k = 14 + (k - 14)
    BY <1>16
  <2> QED BY <1>15, <2>1
<1> HIDE DEF i
<1>5. i = 1 => x[1] = "ra" /\ x[2] = 0
  BY <1>2, <1>3 DEF SwitchCodeIs
<1>6. i = 2 => x[1] = "sp" /\ x[2] = 1
  BY <1>2, <1>3 DEF SwitchCodeIs
<1>7. i > 2 => x[1] \in Saved \cup {"a0"} /\ (x[1] \in Saved => x[2] = KeptWord(d, x[1]))
  <2>1. i > 2 => i \in 3 .. Len(l)
    BY <1>3, <1>4
  <2> QED BY <1>2, <1>3, <2>1 DEF SwitchCodeIs
<1>8. x[1] \in Regs
  <2>1. Saved \cup {"a0", "ra", "sp"} \subseteq Regs
    BY RegsAre DEF Saved
  <2>2. i = 1 \/ i = 2 \/ i > 2
    BY <1>3, <1>4
  <2> QED BY <1>5, <1>6, <1>7, <2>1, <2>2
<1>9. \A r \in Regs \cup CSRs : e2[r] = IF r = x[1] THEN c[e["a1"][2]][x[2]] ELSE e[r]
  BY <1>8
<1>10. {"ra", "sp", "a0", "a1"} \subseteq Regs /\ Saved \subseteq Regs
       /\ "ra" \notin Saved /\ "sp" \notin Saved /\ "a1" \notin Saved /\ "a0" \notin Saved
  BY RegsAre DEF Saved
<1>11. x[1] # "a1" /\ (i # 1 => x[1] # "ra") /\ (i # 2 => x[1] # "sp")
  <2>1. i = 1 \/ i = 2 \/ i > 2
    BY <1>3, <1>4
  <2> QED BY <1>5, <1>6, <1>7, <1>10, <2>1
<1>12. e2["a1"] = e["a1"] /\ (i # 1 => e2["ra"] = e["ra"]) /\ (i # 2 => e2["sp"] = e["sp"])
  BY <1>9, <1>10, <1>11
<1>13. CASE Leaving(d, k, e, c)
  <2>1. e["a1"] = Context("task") /\ e["a1"][2] = "task" /\ TaskFresh(c) /\ OsKept(d, c)
    BY <1>4, <1>13 DEF Leaving, Context
  <2>2. i = 1 => e2["ra"] = Place("task", 1)
    BY <1>5, <1>9, <1>10, <2>1 DEF TaskFresh
  <2>3. i = 2 => e2["sp"] = Sp("task", 0)
    BY <1>6, <1>9, <1>10, <2>1 DEF TaskFresh
  <2>4. i # 1 => e["ra"] = Place("task", 1)
    <3>1. i # 1 => k >= 16
      BY <1>3, <1>4
    <3> QED BY <1>13, <3>1 DEF Leaving
  <2>5. i = 1 => e["sp"] = Sp("os", 0)
    <3>1. i = 1 => k <= 15
      BY <1>3, <1>4
    <3> QED BY <1>13, <3>1 DEF Leaving
  <2>6. i > 2 => e["sp"] = Sp("task", 0)
    <3>1. i > 2 => k >= 17
      BY <1>3, <1>4
    <3> QED BY <1>13, <3>1 DEF Leaving
  <2>7. /\ ~(k + 1 <= 15) /\ ~(k + 1 <= 14) /\ k + 1 > 14 /\ (k + 1 = 16 => i = 1)
        /\ (k + 1 >= 17 => i = 2 \/ i > 2) /\ (i > 2 => i # 1 /\ i # 2)
    BY <1>3, <1>4
  <2>8. e2["ra"] = Place("task", 1)
    BY <1>12, <2>2, <2>4
  <2>9. k + 1 = 16 => e2["sp"] = Sp("os", 0)
    BY <1>12, <2>5, <2>7
  <2>10. k + 1 >= 17 => e2["sp"] = Sp("task", 0)
    BY <1>12, <2>3, <2>6, <2>7
  <2>11. e2["a1"] = Context("task")
    BY <1>12, <2>1
  <2>12. Leaving(d, k + 1, e2, c)
    BY <2>1, <2>7, <2>8, <2>9, <2>10, <2>11 DEF Leaving
  <2> QED BY <1>1, <1>4, <2>12 DEF SwitchingAt
<1>14. CASE Returning(d, k, e, c)
  <2>1. e["a1"] = Context("os") /\ e["a1"][2] = "os" /\ OsKept(d, c)
    BY <1>14 DEF Returning, Context
  <2>2. i = 1 => e2["ra"] = Place("os", SwitchAt(d) + 1)
    BY <1>5, <1>9, <1>10, <2>1 DEF OsKept
  <2>3. i = 2 => e2["sp"] = Sp("os", 0)
    BY <1>6, <1>9, <1>10, <2>1 DEF OsKept
  <2>4. i # 1 => e["ra"] = Place("os", SwitchAt(d) + 1)
    <3>1. i # 1 => k >= 16
      BY <1>3, <1>4
    <3> QED BY <1>14, <3>1 DEF Returning
  <2>5. i = 1 => e["sp"] = IF d = "6" THEN Sp("task", 1) ELSE Sp("task", 0)
    <3>1. i = 1 => k <= 16
      BY <1>3, <1>4
    <3> QED BY <1>14, <3>1 DEF Returning
  <2>6. i > 2 => e["sp"] = Sp("os", 0)
    <3>1. i > 2 => k >= 17
      BY <1>3, <1>4
    <3> QED BY <1>14, <3>1 DEF Returning
  <2>7. /\ ~(k + 1 <= 14) /\ (k + 1 <= 16 => i = 1) /\ (k + 1) - 15 = i /\ k - 15 = i - 1
        /\ (k + 1 >= 17 => i = 2 \/ i > 2) /\ (i > 2 => i # 1 /\ i # 2)
    BY <1>3, <1>4
  <2>8. e2["ra"] = Place("os", SwitchAt(d) + 1)
    BY <1>12, <2>2, <2>4
  <2>9. k + 1 <= 16 => e2["sp"] = IF d = "6" THEN Sp("task", 1) ELSE Sp("task", 0)
    BY <1>12, <2>5, <2>7
  <2>10. k + 1 >= 17 => e2["sp"] = Sp("os", 0)
    BY <1>12, <2>3, <2>6, <2>7
  <2>11. e2["a1"] = Context("os")
    BY <1>12, <2>1
  <2>12. \A j \in 1 .. i - 1 : l[j][1] \in Saved => e[l[j][1]] = Reg("os", l[j][1])
    BY <1>14, <2>7 DEF Returning, l
  <2>13. ASSUME NEW j \in 1 .. i, l[j][1] \in Saved
         PROVE  e2[l[j][1]] = Reg("os", l[j][1])
    <3>1. CASE j = i
      <4>1. i # 1 /\ i # 2 /\ i > 2
        BY <1>3, <1>4, <1>5, <1>6, <1>10, <2>13, <3>1
      <4>2. x[1] \in Saved /\ x[2] = KeptWord(d, x[1])
        BY <1>3, <1>7, <2>13, <3>1, <4>1
      <4>3. c["os"][x[2]] = Reg("os", x[1])
        BY <2>1, <4>2 DEF OsKept
      <4> QED BY <1>3, <1>8, <1>9, <2>1, <3>1, <4>3
    <3>2. CASE j # i
      <4>1. j \in 1 .. i - 1 /\ j \in 1 .. Len(l) /\ i \in 1 .. Len(l)
        BY <1>3, <1>4, <3>2
      <4>2. l[j][1] # x[1]
        BY <1>2, <1>3, <3>2, <4>1 DEF SwitchCodeIs
      <4>3. l[j][1] \in Regs
        BY <1>10, <2>13
      <4> QED BY <1>9, <2>12, <2>13, <4>1, <4>2, <4>3
    <3> QED BY <3>1, <3>2
  <2>14. \A j \in 1 .. (k + 1) - 15 : sys_switch(d).load[j][1] \in Saved =>
           e2[sys_switch(d).load[j][1]] = Reg("os", sys_switch(d).load[j][1])
    BY <2>7, <2>13 DEF l
  <2>15. Returning(d, k + 1, e2, c)
    BY <2>1, <2>7, <2>8, <2>9, <2>10, <2>11, <2>14 DEF Returning
  <2> QED BY <1>1, <1>4, <2>15 DEF SwitchingAt
<1> QED BY <1>1, <1>13, <1>14

\* Its ret goes where the loaded context was stored, or to the start of the task.
LEMMA SwitchReturn ==
  ASSUME NEW d \in AllDays, NEW k, NEW e, NEW c, NEW u, SwitchingAt(d, k, e, c, u), k = SwitchLast(d),
         NEW p, p = e["ra"]
  PROVE  \/ p = Place("task", 1) /\ TaskAt(d, 1, e, c, u)
         \/ p = Place("os", SwitchAt(d) + 1) /\ OsAt(d, SwitchAt(d) + 1, e, c, u)
<1>1. d \in TaskDays /\ (d = "6" => u) /\ (Leaving(d, k, e, c) \/ Returning(d, k, e, c))
  BY DEF SwitchingAt
<1> DEFINE s == sys_switch(d).save
           l == sys_switch(d).load
<1>2. SwitchCodeIs(d, s, l)
  BY <1>1, Switches DEF SwitchCodeOK
<1>3. k = 14 + Len(l) + 1 /\ Len(l) \in 14 .. 15
  BY <1>2 DEF SwitchCodeIs, SwitchLast
<1> HIDE DEF s, l
<1>4. k \in 29 .. 30 /\ k - 15 = Len(l) /\ k >= 16 /\ k >= 17 /\ k > 14
  <2>1. PICK n \in 14 .. 15 : Len(l) = n
    BY <1>3
  <2>2. k = 15 + n
    BY <1>3, <2>1
  <2> QED BY <2>1, <2>2
<1>5. CASE Leaving(d, k, e, c)
  <2>1. e["ra"] = Place("task", 1) /\ e["sp"] = Sp("task", 0) /\ OsKept(d, c)
    BY <1>4, <1>5 DEF Leaving
  <2>2. 1 \in 1 .. Len(OfDay(d).task.text)
    <3>1. Len(OfDay(d).task.text) = 1 \/ Len(OfDay(d).task.text) = 2
      BY <1>1, Tasks
    <3>2. 1 \in 1 .. 1 /\ 1 \in 1 .. 2
      OBVIOUS
    <3> QED BY <3>1, <3>2
  <2> QED BY <1>1, <2>1, <2>2 DEF TaskAt
<1>6. CASE Returning(d, k, e, c)
  <2>1. e["ra"] = Place("os", SwitchAt(d) + 1) /\ e["sp"] = Sp("os", 0)
    BY <1>4, <1>6 DEF Returning
  <2>2. \A j \in 1 .. Len(l) : l[j][1] \in Saved => e[l[j][1]] = Reg("os", l[j][1])
    BY <1>4, <1>6 DEF Returning, l
  <2>3. Own(e)
    <3> SUFFICES ASSUME NEW r \in Saved PROVE e[r] = Reg("os", r)
      BY DEF Own
    <3>1. PICK j \in 3 .. Len(l) : l[j][1] = r
      BY <1>2 DEF SwitchCodeIs
    <3>2. j \in 1 .. Len(l)
      BY <1>3, <3>1
    <3> QED BY <2>2, <3>1, <3>2
  <2>4. SwitchAt(d) + 1 \in 1 .. Len(OsText(d)) /\ SwitchAt(d) \in Nat
    BY <1>1, TextIs DEF SwitchAt
  <2>5. ~(SwitchAt(d) + 1 <= SwitchAt(d))
    BY <2>4
  <2>6. d \in SModeDays => SwitchAt(d) + 1 \notin BootLen(d) + 2 .. BootLen(d) + 4
    <3>1. d \in SModeDays => d = "6"
      BY <1>1 DEF SModeDays, TaskDays
    <3>2. d = "6" => SwitchAt(d) + 1 = BootLen(d) + 6
      BY TextIs DEF SwitchAt
    <3>3. BootLen(d) \in Int
      BY TextIs
    <3> QED BY <3>1, <3>2, <3>3
  <2> QED BY <1>1, <2>1, <2>3, <2>4, <2>5, <2>6 DEF OsAt
<1> QED BY <1>1, <1>5, <1>6

\* The stack pointer in sys_switch.
LEMMA SwitchStack ==
  ASSUME NEW d \in AllDays, NEW k, NEW e, NEW c, NEW u, SwitchingAt(d, k, e, c, u)
  PROVE  /\ e["sp"] \in {Sp("os", 0), Sp("task", 0), Sp("task", 1)}
         /\ d # "6" => e["sp"] \in {Sp("os", 0), Sp("task", 0)}
<1>1. Leaving(d, k, e, c) \/ Returning(d, k, e, c)
  BY DEF SwitchingAt
<1>2. k \in Int
  BY DEF SwitchingAt
<1>3. k <= 15 \/ k = 16 \/ k >= 17
  BY <1>2
<1>4. k <= 15 => k <= 16
  BY <1>2
<1>5. k = 16 => k <= 16
  OBVIOUS
<1>6. CASE Leaving(d, k, e, c)
  BY <1>3, <1>6 DEF Leaving
<1>7. CASE Returning(d, k, e, c)
  <2>1. k <= 16 => e["sp"] = IF d = "6" THEN Sp("task", 1) ELSE Sp("task", 0)
    BY <1>7 DEF Returning
  <2>2. k >= 17 => e["sp"] = Sp("os", 0)
    BY <1>7 DEF Returning
  <2> QED BY <1>3, <1>4, <1>5, <2>1, <2>2
<1> QED BY <1>1, <1>6, <1>7

----------------------------------------------------------------------------
(***************************************************************************)
(* The inductive invariant                                                 *)
(***************************************************************************)

Modes      == {"M", "S", "U"}
Codes      == Stacks \cup HandlerCode \cup {"sys_switch", "end"}
RegNames   == Regs \cup CSRs
CsrFields  == {"mode", "MIE", "mie", "mpie", "mpp", "mtvec", "tmp"}
DevFields  == {"timer", "ier", "dr", "rbr", "plic", "claimed", "disk"}
HistFields == {"pc", "regs", "mode", "word", "ran", "disturbed", "typed", "echoed", "raced"}

RegsType  == /\ DOMAIN regs = RegNames /\ \A r \in RegNames : regs[r][1] \in Values
             /\ regs["sp"] \in {Sp(o, n) : o \in Stacks, n \in 0 .. 1}
CsrType   == /\ DOMAIN csr = CsrFields /\ csr.mode \in Modes /\ csr.mpp \in Modes
             /\ csr.mie \subseteq {"MEIE", "MTIE"}
FrameType == /\ DOMAIN frame = Stacks
             /\ \A o \in Stacks : DOMAIN frame[o] = 0 .. 32 /\ \A w \in 0 .. 32 : frame[o][w][1] \in Values
CtxType   == /\ DOMAIN ctx = Stacks
             /\ \A o \in Stacks : DOMAIN ctx[o] = 0 .. 30 /\ \A w \in 0 .. 30 : ctx[o][w][1] \in Values
HndType   == DOMAIN hnd = {"epc", "cause"}
DevType   == /\ DOMAIN dev = DevFields /\ dev.timer \in {"off", "armed", "due"} /\ dev.rbr \in 0 .. MaxTyped
             /\ dev.dr \in BOOLEAN /\ dev.disk \in {"idle", "busy", "pending", "claimed"}
HistType  == /\ DOMAIN hist = HistFields /\ hist.mode \in Modes /\ hist.typed \in 0 .. MaxTyped
             /\ hist.echoed \in Seq(Nat) /\ hist.raced \in BOOLEAN

Types == RegsType /\ CsrType /\ FrameType /\ CtxType /\ HndType /\ DevType /\ HistType

TrapCode == {"timer_handler", "external_handler", "do_syscall", "exception", "leave"}
InTrap   == pc[2] \in TrapCode
Returned == pc[2] = "leave" /\ hnd.cause = 11

\* The code that runs, or that a trap has interrupted: its place, registers and mode.
ThePlace == IF InTrap THEN hist.pc ELSE pc
TheRegs  == IF InTrap THEN hist.regs ELSE regs
TheMode  == IF InTrap THEN hist.mode ELSE csr.mode

CodeInv == pc[2] \notin {"hang", "end"} => CodeAt(day, ThePlace, TheRegs, ctx, cpu)

PlaceInv ==
  /\ day \in Days /\ pc[1] = "pc" /\ pc[2] \in Codes
  /\ pc[2] = "timer_handler" =>
       pc = Place("timer_handler", pc[3]) /\ pc[3] \in 1 .. Len(OfDay(day).handler.timer)
  /\ pc[2] = "external_handler" =>
       pc = Place("external_handler", pc[3]) /\ pc[3] \in 1 .. Len(OfDay(day).handler.external)

\* What a trap has stored: f is the frame, g the registers of the handler, e those
\* of the code at p, w the word above the frame; in a system call a0 is the result.
FrameHolds(d, f, g, e, p, w, back) ==
  /\ f[1] = Sp(e["sp"][2], 1)
  /\ \A r \in Regs \ {"sp", "tp"} : (back /\ r = "a0") \/ f[WordOf[r]] = e[r]
  /\ g["tp"] = e["tp"]
  /\ d = "6" => f[31] = e["satp"] /\ f[32] = p
  /\ d # "6" => g["satp"] = e["satp"] /\ f[32] = w

SavedInv ==
  InTrap => /\ DOMAIN hist.regs = RegNames
            /\ \E o \in Stacks : /\ hist.regs["sp"] = Sp(o, 0) /\ regs["sp"] = Sp(o, 1)
                                 /\ FrameHolds(day, frame[o], regs, hist.regs, hist.pc, hist.word, Returned)
            /\ hnd.epc = IF Returned THEN After(day, hist.pc) ELSE hist.pc
            /\ csr.mode = "M" /\ ~csr.MIE /\ csr.mpp = hist.mode

CauseInv ==
  /\ pc[2] = "do_syscall" => hnd.cause = 11
  /\ pc[2] \in {"timer_handler", "external_handler", "exception"} => hnd.cause \notin {8, 9, 11}
  /\ InTrap => hnd.cause \notin {8, 9}
  /\ InTrap /\ hnd.cause = 11 =>
       /\ day \in HeapLoops
       /\ \E i \in 1 .. 2 : hist.pc = Place("os", BootLen(day) + i) /\ hist.regs["a7"] = Number(i)
  /\ day = "6" /\ cpu /\ pc[2] \in {"timer_handler", "external_handler"} => hist.pc[2] = "task"

\* A device that may interrupt through the PLIC is in use.
InUse == dev.ier \/ dev.disk # "idle"

VectorInv ==
  /\ day = "2-1" => ~csr.mtvec
  /\ csr.mtvec \/ /\ csr.mode = "M" /\ ~csr.MIE /\ pc[2] \notin HandlerCode
                  /\ day = "2-1" \/ (pc[2] = "os" /\ pc[3] <= VectorAt(day))
  /\ dev.ier \/ dev.disk # "idle" => day \notin {"2-1", "2-2", "2-3"}

\* Between the write of mepc and the mret.
Switching(d, p) == d \in SModeDays /\ \E i \in 2 .. 4 : p = Place("os", BootLen(d) + i)

ModeAt(d, p, m) ==
  /\ m \in {"M", "S"}
  /\ m = "S" => d \in SModeDays /\ (p[2] = "os" => p[3] >= BootLen(d) + 5)

ModeInv ==
  /\ ~hist.disturbed =>
       /\ ModeAt(day, ThePlace, TheMode)
       /\ pc[2] # "exception"
       /\ InTrap => ~Switching(day, hist.pc)
       /\ Switching(day, pc) => /\ regs["mepc"] = Place("os", BootLen(day) + 5)
                                /\ pc = Place("os", BootLen(day) + 4) => csr.mpp = "S"
  /\ pc[2] = "hang" => hist.disturbed \/ (day = "6" /\ ~cpu /\ pc[3] = 7)

HeapAt(d, p, a0, h) ==
  IF d \in HeapLoops /\ p = Place("os", BootLen(d) + 2) THEN h = {1} /\ a0 = <<"block", "", 1>>
  ELSE h = {}

\* What a system call returns: nothing, or a block that is allocated.
Answer(x, h) == x \in {Number(0)} \cup {<<"block", "", n>> : n \in h}

HeapInv ==
  /\ heap \subseteq {1}
  /\ pc[2] \notin {"hang", "end"} =>
       IF InTrap /\ Returned THEN \E o \in Stacks : hist.regs["sp"] = Sp(o, 0)
                                    /\ HeapAt(day, After(day, hist.pc), frame[o][9], heap)
                                    /\ Answer(frame[o][9], heap)
       ELSE HeapAt(day, ThePlace, TheRegs["a0"], heap)

\* The handler that fetches the characters.
Draining(t) == /\ Len(t) = 5 /\ t[1] = "claim" /\ t[2] = "status" /\ t[3] = "data" /\ t[4] = "data_again"
               /\ t[5] = "complete"

\* The characters, when the handler is between the two reads of getchar() or not.
Again == pc[2] = "external_handler" /\ pc[3] = 4

Echoed(typed, seq, rbr, dr, again, raced) ==
  /\ rbr = typed
  /\ \A j, k \in 1 .. Len(seq) : j < k => seq[j] < seq[k]
  /\ \A j \in 1 .. Len(seq) : seq[j] <= rbr
  /\ dr \/ again => \A j \in 1 .. Len(seq) : seq[j] < rbr
  /\ ~raced => Len(seq) + (IF dr THEN 1 ELSE 0) + (IF again THEN 1 ELSE 0) = typed

EchoInv ==
  /\ Echoed(hist.typed, hist.echoed, dev.rbr, dev.dr, Again, hist.raced)
  /\ pc[2] = "external_handler" /\ pc[3] = 3 /\ Draining(OfDay(day).handler.external) => dev.dr

Inv == Types /\ CodeInv /\ PlaceInv /\ SavedInv /\ CauseInv /\ VectorInv /\ ModeInv /\ HeapInv /\ EchoInv

\* The handlers of every day.
LEMMA Handlers ==
  ASSUME NEW d \in AllDays
  PROVE  LET h == OfDay(d).handler
         IN  /\ h.timer = IF d = "2-1" THEN <<>> ELSE IF d = "6" THEN <<"mtimecmp", "proc_exec">>
                          ELSE <<"mtimecmp">>
             /\ d \in {"2-1", "2-2", "2-3"} => h.external = <<>>
             /\ d \notin {"2-1", "2-2", "2-3"} => 
                  \/ h.external = <<"claim", "complete">> \/ h.external = <<"claim", "virtio_disk_intr", "complete">>
                  \/ Draining(h.external)
<1>1. Draining(external_handler31)
  <2> DEFINE A == {"claim", "status", "data", "data_again", "complete"}
             a == <<"claim">>
             g == getchar31
             b == <<"complete">>
             e == a \o g
             c == e \o b
  <2>1. a \in Seq(A) /\ g \in Seq(A) /\ b \in Seq(A)
    BY DEF getchar31
  <2>2. Len(a) = 1 /\ a[1] = "claim" /\ Len(b) = 1 /\ b[1] = "complete"
    OBVIOUS
  <2>3. Len(g) = 3 /\ g[1] = "status" /\ g[2] = "data" /\ g[3] = "data_again"
    BY DEF getchar31
  <2>4. external_handler31 = a \o g \o b
    BY DEF external_handler31
  <2> HIDE DEF A, a, g, b
  <2>5. /\ e \in Seq(A) /\ Len(e) = Len(a) + Len(g) /\ \A k \in 1 .. Len(a) : e[k] = a[k]
        /\ \A k \in 1 .. Len(g) : e[Len(a) + k] = g[k]
    BY <2>1, Joined
  <2> HIDE DEF e
  <2>6. /\ Len(c) = Len(e) + Len(b) /\ \A k \in 1 .. Len(e) : c[k] = e[k]
        /\ \A k \in 1 .. Len(b) : c[Len(e) + k] = b[k]
    <3>1. e \in Seq(A) /\ b \in Seq(A)
      BY <2>1, <2>5
    <3> QED BY <3>1, Joined
  <2> HIDE DEF c
  <2>7. Len(e) = 4 /\ e[1] = "claim" /\ e[2] = "status" /\ e[3] = "data" /\ e[4] = "data_again"
    BY <2>2, <2>3, <2>5
  <2>8. Len(c) = 5 /\ c[1] = "claim" /\ c[2] = "status" /\ c[3] = "data" /\ c[4] = "data_again" /\ c[5] = "complete"
    BY <2>2, <2>6, <2>7
  <2>9. external_handler31 = c
    BY <2>4 DEF c, e
  <2> QED BY <2>8, <2>9 DEF Draining
<1>2. Draining(external_handler4) /\ Draining(external_handler6)
  BY <1>1 DEF external_handler31, external_handler4, external_handler6, getchar4, getchar6
<1>3. CASE d \in {"2-1", "2-2", "2-3", "3-1"}
  BY <1>1, <1>3 DEF OfDay, Snapshot, NoHandler, sys_timer22, trap_handler23, trap_handler31, Handler, timer_handler22,
                    timer_handler23, timer_handler31
<1>4. CASE d \in {"3-2", "3-3"}
  BY <1>4 DEF OfDay, Snapshot, trap_handler32, trap_handler33, Handler, timer_handler22, timer_handler32,
              timer_handler33, external_handler32, external_handler33
<1>6. CASE d \in {"5-1", "5-2", "5-3", "5-4"}
  BY <1>6 DEF OfDay, Snapshot, trap_handler51, trap_handler52, trap_handler53, trap_handler54, Handler,
              timer_handler22, timer_handler51, timer_handler52, timer_handler53, timer_handler54, external_handler51, external_handler52, external_handler53, external_handler54
<1>5. CASE d \in {"4", "6"}
  BY <1>2, <1>5 DEF OfDay, Snapshot, trap_handler4, trap_handler6, Handler, timer_handler22, timer_handler4, timer_handler6
<1> QED BY <1>3, <1>4, <1>5, <1>6 DEF AllDays

\* The system calls of every day.
LEMMA SystemCalls ==
  ASSUME NEW d \in AllDays
  PROVE  /\ OfDay(d).handler.syscalls \subseteq {8, 9, 11}
         /\ d \in HeapLoops => 11 \in OfDay(d).handler.syscalls
<1>1. CASE d \in {"2-1", "2-2", "2-3", "3-1"}
  BY <1>1 DEF OfDay, Snapshot, NoHandler, sys_timer22, trap_handler23, trap_handler31, Handler, HeapLoops
<1>2. CASE d \in {"3-2", "3-3", "5-1", "5-2", "5-3", "5-4", "4", "6"}
  BY <1>2 DEF OfDay, Snapshot, trap_handler32, trap_handler33, trap_handler51, trap_handler52, trap_handler53,
              trap_handler54, trap_handler4, trap_handler6, Handler
<1> QED BY <1>1, <1>2 DEF AllDays

\* The invariant holds at reset.
LEMMA InitInv ==
  ASSUME Init
  PROVE  Inv
<1>1. day \in Days /\ day \in AllDays
  BY DaysAssumption DEF Init
<1>2. pc = Place("os", 1) /\ pc[1] = "pc" /\ pc[2] = "os" /\ pc[3] = 1
  BY DEF Init, Place
<1>3. "os" \notin TrapCode \cup HandlerCode \cup {"sys_switch", "end", "hang"} /\ "os" \in Stacks /\ "task" \in Stacks
  BY DEF TrapCode, HandlerCode, Stacks
<1>4. ~InTrap /\ ThePlace = pc /\ TheRegs = regs /\ TheMode = csr.mode
  BY <1>2, <1>3 DEF InTrap, ThePlace, TheRegs, TheMode
<1>5. "sp" \in Regs /\ "sp" \notin Saved /\ Saved \subseteq Regs
  BY RegsAre DEF Saved
<1>6. DOMAIN regs = RegNames /\ \A r \in RegNames : regs[r] = IF r = "sp" THEN Sp("os", 0) ELSE Reg("os", r)
  BY DEF Init, RegNames
<1>7. RegsType
  <2>1. \A r \in RegNames : regs[r][1] \in Values
    BY <1>6 DEF Sp, Reg, Values
  <2>2. regs["sp"] = Sp("os", 0)
    BY <1>5, <1>6 DEF RegNames
  <2>3. regs["sp"] \in {Sp(o, n) : o \in Stacks, n \in 0 .. 1}
    BY <1>3, <2>2
  <2> QED BY <1>6, <2>1, <2>3 DEF RegsType
<1>8. CsrType
  BY DEF Init, CsrType, CsrFields, Modes
<1>9. FrameType
  <2>1. frame = [o \in Stacks |-> [w \in 0 .. FrameWords |-> IF w < FrameWords THEN Junk ELSE <<"own", o, 0>>]]
    BY DEF Init
  <2>2. FrameWords = 32
    BY DEF FrameWords
  <2>3. \A o \in Stacks : DOMAIN frame[o] = 0 .. 32
    BY <2>1, <2>2
  <2>4. \A o \in Stacks : \A w \in 0 .. 32 : frame[o][w][1] \in Values
    BY <2>1, <2>2 DEF Junk, Values
  <2> QED BY <2>1, <2>3, <2>4 DEF FrameType
<1>10. DOMAIN ctx = Stacks /\ \A o \in Stacks : DOMAIN ctx[o] = 0 .. 30
  BY DEF Init
<1>11. /\ \A o \in Stacks : \A w \in 0 .. 30 : ctx[o][w][1] \in Values
       /\ ctx["task"][0] = Place("task", 1) /\ ctx["task"][1] = Sp("task", 0)
  <2> DEFINE word(o, w) == CASE o = "task" /\ w = 0 -> Place("task", 1)
                             [] o = "task" /\ w = 1 -> Sp("task", 0)
                             [] OTHER               -> <<"word", o, w>>
  <2>1. ctx = [o \in Stacks |-> [w \in 0 .. 30 |-> word(o, w)]]
    BY DEF Init
  <2>2. \A o, w : word(o, w) = Place("task", 1) \/ word(o, w) = Sp("task", 0) \/ word(o, w) = <<"word", o, w>>
    OBVIOUS
  <2>3. word("task", 0) = Place("task", 1)
    OBVIOUS
  <2>4. word("task", 1) = Sp("task", 0)
    OBVIOUS
  <2> HIDE DEF word
  <2>5. \A o \in Stacks : \A w \in 0 .. 30 : ctx[o][w] = word(o, w)
    BY <2>1
  <2>6. Place("task", 1)[1] = "pc" /\ Sp("task", 0)[1] = "sp" /\ \A o, w : <<"word", o, w>>[1] = "word"
    BY DEF Place, Sp
  <2>7. \A o \in Stacks : \A w \in 0 .. 30 : ctx[o][w][1] \in {"pc", "sp", "word"}
    BY <2>2, <2>5, <2>6
  <2> QED BY <1>3, <2>3, <2>4, <2>5, <2>7 DEF Values
<1>12. CtxType
  BY <1>10, <1>11 DEF CtxType
<1>13. HndType /\ DevType
  BY MaxTypedAssumption DEF Init, HndType, DevType, DevFields
<1>14. HistType
  BY MaxTypedAssumption DEF Init, HistType, HistFields, Modes
<1>15. PlaceInv
  BY <1>1, <1>2, <1>3 DEF PlaceInv, Codes
<1>16. CodeInv
  <2>1. Own(regs) /\ regs["sp"] = Sp("os", 0)
    BY <1>5, <1>6 DEF Own, RegNames
  <2>2. TaskFresh(ctx)
    BY <1>11 DEF TaskFresh
  <2>3. BootLen(day) \in Nat \ {0} /\ Len(OsText(day)) \in Nat /\ BootLen(day) < Len(OsText(day))
    BY <1>1, TextIs
  <2>4. 1 \in 1 .. Len(OsText(day)) /\ ~(1 > BootLen(day)) /\ 1 \notin BootLen(day) + 2 .. BootLen(day) + 4
    BY <2>3
  <2>5. OsAt(day, 1, regs, ctx, cpu)
    BY <2>1, <2>2, <2>4 DEF OsAt
  <2> QED BY <1>2, <1>4, <2>5 DEF CodeInv, CodeAt
<1>17. SavedInv /\ CauseInv
  BY <1>2, <1>3, <1>4 DEF SavedInv, CauseInv, TrapCode
<1>18. VectorInv
  <2>1. csr.mode = "M" /\ csr.MIE = FALSE /\ csr.mtvec = FALSE /\ dev.ier = FALSE
        /\ dev.disk = "idle"
    BY DEF Init
  <2>2. day = "2-1" \/ 1 <= VectorAt(day)
    BY <1>1, TextIs
  <2> QED BY <1>2, <1>3, <2>1, <2>2 DEF VectorInv
<1>19. ModeInv
  <2>1. csr.mode = "M"
    BY DEF Init
  <2>2. BootLen(day) \in Nat
    BY <1>1, TextIs
  <2>3. ~Switching(day, pc)
    BY <1>2, <2>2 DEF Switching, Place
  <2>4. pc[2] # "exception" /\ pc[2] # "hang"
    BY <1>2
  <2> QED BY <1>4, <2>1, <2>3, <2>4 DEF ModeInv, ModeAt
<1>20. HeapInv
  <2>1. heap = {}
    BY DEF Init
  <2>2. BootLen(day) \in Nat \ {0}
    BY <1>1, TextIs
  <2>3. pc # Place("os", BootLen(day) + 2)
    BY <1>2, <2>2 DEF Place
  <2> QED BY <1>4, <2>1, <2>3 DEF HeapInv, HeapAt
<1>21. EchoInv
  <2>1. hist.echoed = <<>> /\ hist.typed = 0 /\ hist.raced = FALSE /\ dev.rbr = 0 /\ dev.dr = FALSE
    BY DEF Init
  <2>2. ~Again /\ pc[2] # "external_handler"
    BY <1>2 DEF Again
  <2> QED BY <2>1, <2>2 DEF EchoInv, Echoed
<1> QED BY <1>7, <1>8, <1>9, <1>12, <1>13, <1>14, <1>15, <1>16, <1>17, <1>18, <1>19, <1>20, <1>21 DEF Inv, Types

----------------------------------------------------------------------------
(***************************************************************************)
(* Time, and the characters that are typed                                 *)
(***************************************************************************)

\* A step of a device touches neither the code nor what a trap has stored.
LEMMA Untouched ==
  ASSUME Inv, UNCHANGED <<day, pc, regs, csr, frame, ctx, hnd, heap, cpu>>,
         InUse' => InUse,
         hist'.pc = hist.pc, hist'.regs = hist.regs, hist'.mode = hist.mode, hist'.word = hist.word,
         hist'.disturbed = hist.disturbed
  PROVE  /\ CodeInv' /\ PlaceInv' /\ SavedInv' /\ CauseInv' /\ VectorInv' /\ ModeInv' /\ HeapInv'
         /\ RegsType' /\ CsrType' /\ FrameType' /\ CtxType' /\ HndType'
<1>1. InTrap' = InTrap /\ Returned' = Returned
  BY DEF InTrap, Returned
<1>2. ThePlace' = ThePlace /\ TheRegs' = TheRegs /\ TheMode' = TheMode
  BY <1>1 DEF ThePlace, TheRegs, TheMode
<1>3. CodeInv' /\ PlaceInv'
  BY <1>2 DEF Inv, CodeInv, PlaceInv
<1>4. SavedInv'
  BY <1>1 DEF Inv, SavedInv
<1>5. CauseInv' /\ VectorInv'
  BY <1>1 DEF Inv, CauseInv, VectorInv, InUse
<1>6. ModeInv'
  BY <1>1, <1>2 DEF Inv, ModeInv
<1>7. HeapInv'
  BY <1>1, <1>2 DEF Inv, HeapInv
<1> QED BY <1>3, <1>4, <1>5, <1>6, <1>7 DEF Inv, Types, RegsType, CsrType, FrameType, CtxType, HndType

\* The timer running out keeps the invariant.
LEMMA TimeInv ==
  ASSUME Inv, TimePasses
  PROVE  Inv'
<1>1. /\ UNCHANGED <<day, pc, regs, csr, frame, ctx, hnd, heap, cpu>>
      /\ dev' = [dev EXCEPT !.timer = "due"] /\ hist' = [hist EXCEPT !.ran = FALSE]
  BY DEF TimePasses
<1>2. DevType /\ HistType /\ EchoInv
  BY DEF Inv, Types
<1>3. dev'.ier = dev.ier /\ dev'.rbr = dev.rbr /\ dev'.dr = dev.dr /\ dev'.timer = "due" /\ DOMAIN dev' = DevFields
      /\ dev'.disk = dev.disk /\ InUse' = InUse
  BY <1>1, <1>2 DEF DevType, DevFields, InUse
<1>4. /\ hist'.pc = hist.pc /\ hist'.regs = hist.regs /\ hist'.mode = hist.mode /\ hist'.word = hist.word
      /\ hist'.disturbed = hist.disturbed /\ hist'.typed = hist.typed /\ hist'.echoed = hist.echoed
      /\ hist'.raced = hist.raced /\ DOMAIN hist' = HistFields
  BY <1>1, <1>2 DEF HistType, HistFields
<1>5. DevType' /\ HistType'
  BY <1>2, <1>3, <1>4 DEF DevType, HistType
<1>6. EchoInv'
  BY <1>1, <1>2, <1>3, <1>4 DEF EchoInv, Again
<1> QED BY <1>1, <1>3, <1>4, <1>5, <1>6, Untouched DEF Inv, Types

\* The answer of the disk keeps it.
LEMMA DiskAnswersInv ==
  ASSUME Inv, DiskAnswers
  PROVE  Inv'
<1>1. /\ UNCHANGED <<day, pc, regs, csr, frame, ctx, hnd, heap, cpu, hist>>
      /\ dev' = [dev EXCEPT !.disk = "pending"] /\ dev.disk = "busy"
  BY DEF DiskAnswers
<1>2. DevType /\ HistType /\ EchoInv
  BY DEF Inv, Types
<1>3. /\ dev'.rbr = dev.rbr /\ dev'.dr = dev.dr /\ dev'.timer = dev.timer /\ DOMAIN dev' = DevFields
      /\ dev'.disk = "pending" /\ InUse' => InUse
  BY <1>1, <1>2 DEF DevType, DevFields, InUse
<1>4. DevType' /\ HistType'
  BY <1>1, <1>2, <1>3 DEF DevType, HistType
<1>5. EchoInv'
  BY <1>1, <1>2, <1>3 DEF EchoInv, Again
<1> QED BY <1>1, <1>3, <1>4, <1>5, Untouched DEF Inv, Types

\* A character arrives.
LEMMA EchoedType ==
  ASSUME NEW t \in Nat, NEW s \in Seq(Nat), NEW r \in Nat, NEW again \in BOOLEAN, NEW raced,
         Echoed(t, s, r, FALSE, again, raced)
  PROVE  Echoed(t + 1, s, t + 1, TRUE, again, raced)
<1>1. r = t
  BY DEF Echoed
<1>2. \A j \in 1 .. Len(s) : s[j] \in Nat /\ s[j] <= t
  BY <1>1 DEF Echoed
<1>3. \A j \in 1 .. Len(s) : s[j] < t + 1 /\ s[j] <= t + 1
  BY <1>2
<1>4. ~raced => Len(s) + (IF TRUE THEN 1 ELSE 0) + (IF again THEN 1 ELSE 0) = t + 1
  <2>1. ~raced => Len(s) + 0 + (IF again THEN 1 ELSE 0) = t
    BY DEF Echoed
  <2>2. (IF again THEN 1 ELSE 0) \in Nat /\ Len(s) \in Nat
    OBVIOUS
  <2> QED BY <2>1, <2>2
<1> QED BY <1>3, <1>4 DEF Echoed

\* A typed character keeps it.
LEMMA TypeInv ==
  ASSUME Inv, Type
  PROVE  Inv'
<1>1. /\ UNCHANGED <<day, pc, regs, csr, frame, ctx, hnd, heap, cpu>>
      /\ dev' = [dev EXCEPT !.dr = TRUE, !.rbr = hist.typed + 1] /\ hist' = [hist EXCEPT !.typed = @ + 1]
      /\ hist.typed < MaxTyped /\ ~dev.dr
  BY DEF Type
<1>2. DevType /\ HistType /\ EchoInv
  BY DEF Inv, Types
<1>3. dev'.ier = dev.ier /\ dev'.rbr = hist.typed + 1 /\ dev'.dr = TRUE /\ dev'.timer = dev.timer /\ DOMAIN dev' = DevFields
      /\ dev'.disk = dev.disk /\ InUse' = InUse
  BY <1>1, <1>2 DEF DevType, DevFields, InUse
<1>4. /\ hist'.pc = hist.pc /\ hist'.regs = hist.regs /\ hist'.mode = hist.mode /\ hist'.word = hist.word
      /\ hist'.disturbed = hist.disturbed /\ hist'.typed = hist.typed + 1 /\ hist'.echoed = hist.echoed
      /\ hist'.raced = hist.raced /\ DOMAIN hist' = HistFields
  BY <1>1, <1>2 DEF HistType, HistFields
<1>5. hist.typed + 1 \in 0 .. MaxTyped /\ hist.typed \in Nat
  BY <1>1, <1>2, MaxTypedAssumption DEF HistType
<1>6. DevType' /\ HistType'
  BY <1>2, <1>3, <1>4, <1>5 DEF DevType, HistType
<1>7. EchoInv'
  <2>1. Again' = Again /\ Again \in BOOLEAN
    BY <1>1 DEF Again
  <2>2. dev.dr = FALSE /\ dev.rbr \in Nat /\ hist.echoed \in Seq(Nat)
    BY <1>1, <1>2, MaxTypedAssumption DEF DevType, HistType
  <2>3. Echoed(hist.typed, hist.echoed, dev.rbr, FALSE, Again, hist.raced)
    BY <1>2, <2>2 DEF EchoInv
  <2>4. Echoed(hist.typed + 1, hist.echoed, hist.typed + 1, TRUE, Again, hist.raced)
    BY <1>5, <2>1, <2>2, <2>3, EchoedType
  <2> QED BY <1>1, <1>3, <1>4, <2>1, <2>4 DEF EchoInv
<1> QED BY <1>1, <1>3, <1>4, <1>6, <1>7, Untouched DEF Inv, Types

----------------------------------------------------------------------------
(***************************************************************************)
(* The handlers of interrupts, exceptions and system calls                 *)
(***************************************************************************)

\* The fields of a place.
LEMMA PlaceIs ==
  ASSUME NEW a, NEW k, NEW p, p = Place(a, k)
  PROVE  p[1] = "pc" /\ p[2] = a /\ p[3] = k
  BY DEF Place

\* A step of a handler leaves alone what the trap has stored.
LEMMA Handled ==
  ASSUME Inv, UNCHANGED <<day, regs, csr, frame, ctx, hnd, heap, cpu>>, InUse' => InUse,
         hist'.pc = hist.pc, hist'.regs = hist.regs, hist'.mode = hist.mode, hist'.word = hist.word,
         hist'.disturbed = hist.disturbed, pc[2] \in {"timer_handler", "external_handler", "exception"},
         NEW h, NEW k, pc' = Place(h, k), h = "leave" \/ (h = pc[2] /\ h # "exception")
  PROVE  /\ CodeInv' /\ SavedInv' /\ CauseInv' /\ VectorInv' /\ ModeInv' /\ HeapInv'
         /\ RegsType' /\ CsrType' /\ FrameType' /\ CtxType' /\ HndType'
         /\ day' \in Days /\ pc'[1] = "pc" /\ pc'[2] \in Codes
<1>1. pc'[1] = "pc" /\ pc'[2] = h /\ pc'[3] = k
  BY PlaceIs
<1>2. h \in {"timer_handler", "external_handler", "leave"}
  OBVIOUS
<1>3. InTrap /\ InTrap' /\ h \in HandlerCode /\ pc[2] \in HandlerCode
  BY <1>1, <1>2 DEF InTrap, TrapCode, HandlerCode
<1>4. hnd.cause \notin {8, 9, 11} /\ ~Returned /\ ~Returned'
  BY DEF Inv, CauseInv, Returned
<1>5. ThePlace' = ThePlace /\ TheRegs' = TheRegs /\ TheMode' = TheMode
  BY <1>3 DEF ThePlace, TheRegs, TheMode
<1>6. CodeInv'
  BY <1>5 DEF Inv, CodeInv
<1>7. SavedInv'
  <2>1. Returned' = Returned
    BY <1>4 DEF Returned
  <2> QED BY <1>3, <1>4, <2>1 DEF Inv, SavedInv
<1>8. CauseInv'
  BY <1>1, <1>2, <1>3, <1>4 DEF Inv, CauseInv
<1>9. VectorInv'
  BY <1>3 DEF Inv, VectorInv, InUse
<1>10. ModeInv'
  <2>1. ~Switching(day, pc')
    BY <1>1, <1>2 DEF Switching, Place
  <2>2. pc'[2] # "exception" /\ pc'[2] # "hang"
    BY <1>1, <1>2
  <2> QED BY <1>3, <1>5, <2>1, <2>2 DEF Inv, ModeInv
<1>11. HeapInv'
  <2>1. pc[2] \notin {"hang", "end"}
    BY <1>2
  <2> QED BY <1>4, <1>5, <2>1 DEF Inv, HeapInv
<1>12. RegsType' /\ CsrType' /\ FrameType' /\ CtxType' /\ HndType'
  BY DEF Inv, Types, RegsType, CsrType, FrameType, CtxType, HndType
<1>13. day' \in Days /\ pc'[2] \in Codes
  BY <1>1, <1>3 DEF Inv, PlaceInv, Codes
<1> QED BY <1>1, <1>6, <1>7, <1>8, <1>9, <1>10, <1>11, <1>12, <1>13

\* The places of the two handlers.
LEMMA TimerPlaces ==
  ASSUME Inv, NEW op, InHandler("timer_handler", op)
  PROVE  /\ pc[2] = "timer_handler" /\ pc = Place("timer_handler", pc[3]) /\ day \in AllDays \ {"2-1"}
         /\ op = "mtimecmp" => IF day = "6" THEN NextIn("timer_handler") = Place("timer_handler", 2)
                               ELSE NextIn("timer_handler") = Place("leave", 0)
         /\ op = "proc_exec" => day = "6"
<1>1. pc[2] = "timer_handler" /\ pc = Place("timer_handler", pc[3]) /\ day \in AllDays
      /\ pc[3] \in 1 .. Len(OfDay(day).handler.timer)
  BY DaysAssumption DEF Inv, PlaceInv, InHandler
<1> DEFINE t == OfDay(day).handler.timer
<1>2. StepsOf("timer_handler") = t /\ t[pc[3]] = op
  BY DEF StepsOf, InHandler
<1>3. t = IF day = "2-1" THEN <<>> ELSE IF day = "6" THEN <<"mtimecmp", "proc_exec">> ELSE <<"mtimecmp">>
  BY <1>1, Handlers
<1>4. NextIn("timer_handler") = IF pc[3] < Len(t) THEN Place("timer_handler", pc[3] + 1) ELSE Place("leave", 0)
  BY <1>2 DEF NextIn
<1> HIDE DEF t
<1>5. pc[3] \in 1 .. Len(t)
  BY <1>1 DEF t
<1>6. day # "2-1"
  BY <1>3, <1>5
<1>7. CASE day = "6"
  <2>1. Len(t) = 2 /\ t[1] = "mtimecmp" /\ t[2] = "proc_exec"
    BY <1>3, <1>7
  <2>2. op = "mtimecmp" => pc[3] = 1
    BY <1>2, <1>5, <2>1
  <2>3. op = "mtimecmp" => NextIn("timer_handler") = Place("timer_handler", 2)
    BY <1>4, <2>1, <2>2
  <2> QED BY <1>1, <1>6, <1>7, <2>3
<1>8. CASE day # "6"
  <2>1. Len(t) = 1 /\ t[1] = "mtimecmp"
    BY <1>3, <1>6, <1>8
  <2>2. pc[3] = 1 /\ ~(pc[3] < Len(t)) /\ op = "mtimecmp"
    BY <1>2, <1>5, <2>1
  <2> QED BY <1>1, <1>4, <1>6, <1>8, <2>2
<1> QED BY <1>7, <1>8

\* Where each step of external_handler() is.
LEMMA ExternalPlaces ==
  ASSUME Inv, NEW op, InHandler("external_handler", op)
  PROVE  /\ pc[2] = "external_handler" /\ pc = Place("external_handler", pc[3]) /\ day \in AllDays
         /\ op \in {"status", "data", "data_again"} => Draining(OfDay(day).handler.external)
         /\ op = "claim" => NextIn("external_handler") = Place("external_handler", 2)
         /\ op = "claim" => pc[3] = 1 /\ Len(OfDay(day).handler.external) \in {2, 3, 5}
         /\ op = "virtio_disk_intr" => /\ pc[3] = 2 /\ NextIn("external_handler") = Place("external_handler", 3)
                                       /\ Len(OfDay(day).handler.external) = 3
         /\ op = "status" => pc[3] = 2 /\ NextIn("external_handler") = Place("external_handler", 3)
         /\ op = "data" => pc[3] = 3 /\ NextIn("external_handler") = Place("external_handler", 4)
         /\ op = "data_again" => pc[3] = 4
         /\ op = "complete" => pc[3] \in {2, 3, 5} /\ NextIn("external_handler") = Place("leave", 0)
<1>1. pc[2] = "external_handler" /\ pc = Place("external_handler", pc[3]) /\ day \in AllDays
      /\ pc[3] \in 1 .. Len(OfDay(day).handler.external)
  BY DaysAssumption DEF Inv, PlaceInv, InHandler
<1> DEFINE t == OfDay(day).handler.external
<1>2. StepsOf("external_handler") = t /\ t[pc[3]] = op
  BY DEF StepsOf, InHandler
<1>3. \/ t = <<>> \/ t = <<"claim", "complete">> \/ t = <<"claim", "virtio_disk_intr", "complete">>
      \/ Draining(t)
  BY <1>1, Handlers
<1>4. NextIn("external_handler") = IF pc[3] < Len(t) THEN Place("external_handler", pc[3] + 1) ELSE Place("leave", 0)
  BY <1>2 DEF NextIn
<1>5. pc[3] \in 1 .. Len(t)
  BY <1>1
<1> SUFFICES /\ op \in {"status", "data", "data_again"} => Draining(t)
             /\ op = "claim" => NextIn("external_handler") = Place("external_handler", 2)
             /\ op = "claim" => pc[3] = 1 /\ Len(t) \in {2, 3, 5}
             /\ op = "virtio_disk_intr" => /\ pc[3] = 2 /\ NextIn("external_handler") = Place("external_handler", 3)
                                           /\ Len(t) = 3
             /\ op = "status" => pc[3] = 2 /\ NextIn("external_handler") = Place("external_handler", 3)
             /\ op = "data" => pc[3] = 3 /\ NextIn("external_handler") = Place("external_handler", 4)
             /\ op = "data_again" => pc[3] = 4
             /\ op = "complete" => pc[3] \in {2, 3, 5} /\ NextIn("external_handler") = Place("leave", 0)
  BY <1>1
<1> HIDE DEF t
<1>6. t # <<>>
  BY <1>5
<1>7. CASE t = <<"claim", "complete">>
  <2>1. Len(t) = 2 /\ t[1] = "claim" /\ t[2] = "complete"
    BY <1>7
  <2>2. pc[3] = 1 \/ pc[3] = 2
    BY <1>5, <2>1
  <2> QED BY <1>2, <1>4, <2>1, <2>2
<1>9. CASE t = <<"claim", "virtio_disk_intr", "complete">>
  <2>1. Len(t) = 3 /\ t[1] = "claim" /\ t[2] = "virtio_disk_intr" /\ t[3] = "complete"
    BY <1>9
  <2>2. pc[3] = 1 \/ pc[3] = 2 \/ pc[3] = 3
    BY <1>5, <2>1
  <2> QED BY <1>2, <1>4, <2>1, <2>2
<1>8. CASE Draining(t)
  <2>1. Len(t) = 5 /\ t[1] = "claim" /\ t[2] = "status" /\ t[3] = "data" /\ t[4] = "data_again" /\ t[5] = "complete"
    BY <1>8 DEF Draining
  <2>2. pc[3] = 1 \/ pc[3] = 2 \/ pc[3] = 3 \/ pc[3] = 4 \/ pc[3] = 5
    BY <1>5, <2>1
  <2> QED BY <1>2, <1>4, <1>8, <2>1, <2>2
<1> QED BY <1>3, <1>6, <1>7, <1>8, <1>9

Quiet == {"timer_handler", "external_handler", "exception"}

\* A step of a handler that does not concern the characters.
LEMMA HandledQuietly ==
  ASSUME Inv, UNCHANGED <<day, regs, csr, frame, ctx, hnd, heap, cpu, hist>>, InUse' => InUse,
         dev'.dr = dev.dr, dev'.rbr = dev.rbr, DevType',
         pc[2] \in Quiet, NEW h, NEW k, pc' = Place(h, k), h = "leave" \/ (h = pc[2] /\ h # "exception"),
         h = "timer_handler" => k \in 1 .. Len(OfDay(day).handler.timer),
         h = "external_handler" => k \in 1 .. Len(OfDay(day).handler.external),
         pc[2] = "external_handler" => pc[3] # 4,
         h = "external_handler" => k # 4 /\ (k = 3 /\ Draining(OfDay(day).handler.external) => dev.dr)
  PROVE  Inv'
<1>1. pc'[1] = "pc" /\ pc'[2] = h /\ pc'[3] = k
  BY PlaceIs
<1>2. pc[2] \in {"timer_handler", "external_handler", "exception"}
  BY DEF Quiet
<1>3. PlaceInv'
  <2>1. /\ CodeInv' /\ SavedInv' /\ CauseInv' /\ VectorInv' /\ ModeInv' /\ HeapInv'
        /\ RegsType' /\ CsrType' /\ FrameType' /\ CtxType' /\ HndType'
        /\ day' \in Days /\ pc'[1] = "pc" /\ pc'[2] \in Codes
    BY <1>2, Handled
  <2>2. pc' = Place(h, k) /\ day' = day
    OBVIOUS
  <2> QED BY <1>1, <2>1, <2>2 DEF PlaceInv
<1>4. EchoInv'
  <2>1. Again = FALSE /\ Again' = FALSE
    BY <1>1 DEF Again
  <2>2. Echoed(hist.typed, hist.echoed, dev.rbr, dev.dr, FALSE, hist.raced)
    BY <2>1 DEF Inv, EchoInv
  <2>3. Echoed(hist.typed, hist.echoed, dev.rbr, dev.dr, FALSE, hist.raced)'
    BY <2>2
  <2>4. (pc[2] = "external_handler" /\ pc[3] = 3 /\ Draining(OfDay(day).handler.external) => dev.dr)'
    BY <1>1
  <2> QED BY <2>1, <2>3, <2>4 DEF EchoInv
<1>5. HistType'
  BY DEF Inv, Types, HistType
<1>6. /\ CodeInv' /\ SavedInv' /\ CauseInv' /\ VectorInv' /\ ModeInv' /\ HeapInv'
      /\ RegsType' /\ CsrType' /\ FrameType' /\ CtxType' /\ HndType'
  BY <1>2, Handled
<1> QED BY <1>3, <1>4, <1>5, <1>6 DEF Inv, Types

\* timer_handler(): the next tick keeps the invariant.
LEMMA SetTickInv ==
  ASSUME Inv, SetTick
  PROVE  Inv'
<1>1. /\ InHandler("timer_handler", "mtimecmp") /\ dev' = [dev EXCEPT !.timer = "armed"]
      /\ pc' = NextIn("timer_handler") /\ UNCHANGED <<day, regs, csr, frame, ctx, hnd, heap, cpu, hist>>
  BY DEF SetTick
<1>2. DevType
  BY DEF Inv, Types
<1>3. dev'.ier = dev.ier /\ dev'.dr = dev.dr /\ dev'.rbr = dev.rbr /\ dev'.timer = "armed" /\ DOMAIN dev' = DevFields
      /\ dev'.disk = dev.disk /\ InUse' = InUse
  BY <1>1, <1>2 DEF DevType, DevFields, InUse
<1>4. DevType'
  BY <1>2, <1>3 DEF DevType
<1>5. /\ pc[2] = "timer_handler" /\ day \in AllDays
      /\ IF day = "6" THEN pc' = Place("timer_handler", 2) ELSE pc' = Place("leave", 0)
  BY <1>1, TimerPlaces
<1>6. day = "6" => 2 \in 1 .. Len(OfDay(day).handler.timer)
  <2>1. day = "6" => OfDay(day).handler.timer = <<"mtimecmp", "proc_exec">>
    BY <1>5, Handlers
  <2>2. Len(<<"mtimecmp", "proc_exec">>) = 2
    OBVIOUS
  <2>3. 2 \in 1 .. 2
    OBVIOUS
  <2> QED BY <2>1, <2>2, <2>3
<1>7. pc[2] \in Quiet
  BY <1>5 DEF Quiet
<1>8. CASE day = "6"
  BY <1>1, <1>3, <1>4, <1>5, <1>6, <1>7, <1>8, HandledQuietly
<1>9. CASE day # "6"
  BY <1>1, <1>3, <1>4, <1>5, <1>7, <1>9, HandledQuietly
<1> QED BY <1>8, <1>9

\* What the claim, the disk's part and the completion do to the devices.
PlicStep(op, c, d) ==
  /\ InHandler("external_handler", op) /\ pc' = NextIn("external_handler")
  /\ UNCHANGED <<day, regs, csr, frame, ctx, hnd, heap, cpu, hist>>
  /\ dev' = [dev EXCEPT !.claimed = c, !.disk = d] /\ (d = dev.disk \/ d = "idle" \/ (d = "claimed" /\ dev.disk = "pending"))

LEMMA PlicSteps ==
  ASSUME Inv, Claim \/ VirtioDiskIntr \/ Complete
  PROVE  \E op \in {"claim", "virtio_disk_intr", "complete"} : \E c : \E d : PlicStep(op, c, d)
<1>1. DOMAIN dev = DevFields
  BY DEF Inv, Types, DevType
<1>2. CASE Claim
  <2> DEFINE d == IF dev.disk = "pending" THEN "claimed" ELSE dev.disk
  <2>1. dev' = [dev EXCEPT !.claimed = TRUE, !.disk = d]
    BY <1>1, <1>2, Zenon DEF Claim
  <2>2. d = dev.disk \/ d = "idle" \/ (d = "claimed" /\ dev.disk = "pending")
    OBVIOUS
  <2> HIDE DEF d
  <2>3. PlicStep("claim", TRUE, d)
    BY <1>2, <2>1, <2>2 DEF Claim, PlicStep
  <2> QED BY <2>3
<1>3. CASE VirtioDiskIntr
  <2> DEFINE d == IF dev.disk = "claimed" THEN "idle" ELSE dev.disk
  <2>1. dev' = [dev EXCEPT !.disk = d]
    BY <1>3 DEF VirtioDiskIntr
  <2>2. d = dev.disk \/ d = "idle" \/ (d = "claimed" /\ dev.disk = "pending")
    OBVIOUS
  <2> HIDE DEF d
  <2>3. dev' = [dev EXCEPT !.claimed = dev.claimed, !.disk = d]
    BY <1>1, <2>1 DEF DevFields
  <2>4. PlicStep("virtio_disk_intr", dev.claimed, d)
    BY <1>3, <2>2, <2>3 DEF VirtioDiskIntr, PlicStep
  <2> QED BY <2>4
<1>4. CASE Complete
  <2>1. dev' = [dev EXCEPT !.claimed = FALSE]
    BY <1>4 DEF Complete
  <2>2. dev' = [dev EXCEPT !.claimed = FALSE, !.disk = dev.disk]
    BY <1>1, <2>1 DEF DevFields
  <2>3. PlicStep("complete", FALSE, dev.disk)
    BY <1>4, <2>2 DEF Complete, PlicStep
  <2> QED BY <2>3
<1> QED BY <1>2, <1>3, <1>4

\* external_handler(): the claim, the disk's part and the completion keep it.
LEMMA ClaimInv ==
  ASSUME Inv, Claim \/ VirtioDiskIntr \/ Complete
  PROVE  Inv'
<1>1. PICK op \in {"claim", "virtio_disk_intr", "complete"} : \E c : \E d : PlicStep(op, c, d)
  BY PlicSteps
<1>11. PICK c : \E d : PlicStep(op, c, d)
  BY <1>1
<1>12. PICK d : PlicStep(op, c, d)
  BY <1>11
<1>2. /\ InHandler("external_handler", op) /\ pc' = NextIn("external_handler")
      /\ UNCHANGED <<day, regs, csr, frame, ctx, hnd, heap, cpu, hist>>
      /\ dev' = [dev EXCEPT !.claimed = c, !.disk = d]
      /\ d = dev.disk \/ d = "idle" \/ (d = "claimed" /\ dev.disk = "pending")
  BY <1>12 DEF PlicStep
<1>3. DevType
  BY DEF Inv, Types
<1>4. /\ dev'.ier = dev.ier /\ dev'.dr = dev.dr /\ dev'.rbr = dev.rbr /\ dev'.timer = dev.timer
      /\ DOMAIN dev' = DevFields /\ dev'.disk = d
  BY <1>2, <1>3 DEF DevType, DevFields
<1>5. DevType' /\ (InUse' => InUse)
  BY <1>2, <1>3, <1>4 DEF DevType, InUse
<1>6. /\ pc[2] = "external_handler" /\ pc[3] # 4
      /\ op = "claim" => pc' = Place("external_handler", 2) /\ Len(OfDay(day).handler.external) \in {2, 3, 5}
      /\ op = "virtio_disk_intr" => pc' = Place("external_handler", 3) /\ Len(OfDay(day).handler.external) = 3
      /\ op = "complete" => pc' = Place("leave", 0)
  BY <1>2, ExternalPlaces
<1>7. pc[2] \in Quiet
  BY <1>6 DEF Quiet
<1>8. CASE op = "claim"
  <2>1. \A n \in {2, 3, 5} : 2 \in 1 .. n
    OBVIOUS
  <2>2. 2 \in 1 .. Len(OfDay(day).handler.external)
    BY <1>6, <1>8, <2>1
  <2>3. pc' = Place("external_handler", 2)
    BY <1>6, <1>8
  <2> QED BY <1>2, <1>4, <1>5, <1>6, <1>7, <2>2, <2>3, HandledQuietly
<1>9. CASE op = "virtio_disk_intr"
  <2>1. Len(OfDay(day).handler.external) = 3 /\ pc' = Place("external_handler", 3)
    BY <1>6, <1>9
  <2>2. 3 \in 1 .. 3 /\ 3 # 4 /\ 3 # 5
    OBVIOUS
  <2>3. 3 \in 1 .. Len(OfDay(day).handler.external) /\ ~Draining(OfDay(day).handler.external)
    BY <2>1, <2>2 DEF Draining
  <2> QED BY <1>2, <1>4, <1>5, <1>6, <1>7, <2>1, <2>3, HandledQuietly
<1>10. CASE op = "complete"
  <2>1. pc' = Place("leave", 0)
    BY <1>6, <1>10
  <2> QED BY <1>2, <1>4, <1>5, <1>6, <1>7, <2>1, HandledQuietly
<1> QED BY <1>8, <1>9, <1>10

\* getchar(): the read of the status keeps it.
LEMMA StatusInv ==
  ASSUME Inv, NoCharacter \/ HasCharacter
  PROVE  Inv'
<1>1. PICK k \in {3, 5} :
         /\ InHandler("external_handler", "status") /\ pc' = Place("external_handler", k) /\ (k = 3 => dev.dr)
         /\ UNCHANGED <<day, regs, csr, frame, ctx, hnd, dev, heap, cpu, hist>>
  <2>1. CASE NoCharacter
    <3>1. pc[3] = 2 /\ Len(getchar31) = 3
      BY <2>1, ExternalPlaces DEF NoCharacter, getchar31
    <3>2. pc[3] + Len(getchar31) = 5
      BY <3>1
    <3> QED BY <2>1, <3>2 DEF NoCharacter
  <2>2. CASE HasCharacter
    BY <2>2, ExternalPlaces DEF HasCharacter
  <2> QED BY <2>1, <2>2
<1>2. /\ pc[2] = "external_handler" /\ pc[3] # 4 /\ Draining(OfDay(day).handler.external)
  BY <1>1, ExternalPlaces
<1>3. k \in 1 .. Len(OfDay(day).handler.external) /\ k # 4
  BY <1>2 DEF Draining
<1>4. pc[2] \in Quiet /\ DevType'
  BY <1>1, <1>2 DEF Quiet, Inv, Types, DevType
<1>5. InUse' = InUse
  BY <1>1 DEF InUse
<1> QED BY <1>1, <1>2, <1>3, <1>4, <1>5, HandledQuietly

\* A character that is read: it is echoed, or read once more.
LEMMA EchoedAppend ==
  ASSUME NEW t \in Nat, NEW s \in Seq(Nat), NEW r \in Nat, NEW dr \in BOOLEAN, NEW again \in BOOLEAN, NEW raced,
         Echoed(t, s, r, dr, again, raced), dr = TRUE \/ again = TRUE, NEW lost,
         (dr = TRUE /\ again = TRUE /\ lost = TRUE) \/ ((dr = FALSE \/ again = FALSE) /\ lost = raced)
  PROVE  Echoed(t, Append(s, r), r, FALSE, FALSE, lost) /\ Append(s, r) \in Seq(Nat)
<1>1. r = t /\ \A j \in 1 .. Len(s) : s[j] < r
  BY DEF Echoed
<1> DEFINE a == Append(s, r)
<1>2. Len(a) = Len(s) + 1 /\ a[Len(s) + 1] = r /\ (\A j \in 1 .. Len(s) : a[j] = s[j]) /\ a \in Seq(Nat)
  OBVIOUS
<1>3. Len(s) \in Nat /\ \A j \in 1 .. Len(s) : s[j] \in Nat
  OBVIOUS
<1> HIDE DEF a
<1>4. \A j \in 1 .. Len(a) : j \in 1 .. Len(s) \/ j = Len(s) + 1
  BY <1>2, <1>3
<1>5. \A j \in 1 .. Len(a) : a[j] <= r
  <2> TAKE j \in 1 .. Len(a)
  <2>1. CASE j \in 1 .. Len(s)
    <3>1. a[j] = s[j] /\ s[j] < r /\ s[j] \in Nat
      BY <1>1, <1>2, <1>3, <2>1
    <3> QED BY <3>1
  <2>2. CASE j = Len(s) + 1
    BY <1>2, <2>2
  <2> QED BY <1>4, <2>1, <2>2
<1>6. \A j, k \in 1 .. Len(a) : j < k => a[j] < a[k]
  <2> SUFFICES ASSUME NEW j \in 1 .. Len(a), NEW k \in 1 .. Len(a), j < k PROVE a[j] < a[k]
    OBVIOUS
  <2>1. j \in 1 .. Len(s)
    BY <1>2, <1>3
  <2>2. CASE k \in 1 .. Len(s)
    <3>1. s[j] < s[k]
      BY <2>1, <2>2 DEF Echoed
    <3> QED BY <1>2, <2>1, <2>2, <3>1
  <2>3. CASE k = Len(s) + 1
    BY <1>1, <1>2, <2>1, <2>3
  <2> QED BY <1>4, <2>2, <2>3
<1>7. ~lost => Len(a) + (IF FALSE THEN 1 ELSE 0) + (IF FALSE THEN 1 ELSE 0) = t
  <2> SUFFICES ASSUME ~lost PROVE Len(a) = t
    BY <1>2, <1>3
  <2>1. ~raced /\ ~(dr /\ again)
    OBVIOUS
  <2>2. Len(s) + (IF dr THEN 1 ELSE 0) + (IF again THEN 1 ELSE 0) = t
    BY <2>1 DEF Echoed
  <2>3. CASE dr
    BY <1>2, <1>3, <2>1, <2>2, <2>3
  <2>4. CASE again
    BY <1>2, <1>3, <2>1, <2>2, <2>4
  <2> QED BY <2>3, <2>4
<1>8. Echoed(t, a, r, FALSE, FALSE, lost)
  BY <1>1, <1>5, <1>6, <1>7 DEF Echoed
<1> QED BY <1>2, <1>8 DEF a

\* A step of the reading loop.
LEMMA ReadInv ==
  ASSUME Inv, ReadData \/ ReadAgain
  PROVE  Inv'
<1>1. PICK op \in {"data", "data_again"}, k \in {2, 4} :
         /\ InHandler("external_handler", op) /\ dev' = [dev EXCEPT !.dr = FALSE]
         /\ pc' = Place("external_handler", k) /\ UNCHANGED <<day, regs, csr, frame, ctx, hnd, heap, cpu>>
         /\ k = 4 => op = "data" /\ hist' = hist
         /\ k = 2 /\ op = "data" => hist' = [hist EXCEPT !.echoed = Append(@, dev.rbr)]
         /\ op = "data_again" => /\ k = 2
              /\ hist' = [hist EXCEPT !.echoed = Append(@, dev.rbr), !.raced = @ \/ dev.dr]
  <2>1. CASE ReadData
    <3>1. pc[3] = 3 /\ NextIn("external_handler") = Place("external_handler", 4) /\ pc[3] - 1 = 2
      BY <2>1, ExternalPlaces DEF ReadData
    <3> QED BY <2>1, <3>1 DEF ReadData
  <2>2. CASE ReadAgain
    <3>1. pc[3] = 4 /\ pc[3] - 2 = 2
      BY <2>2, ExternalPlaces DEF ReadAgain
    <3> QED BY <2>2, <3>1 DEF ReadAgain
  <2> QED BY <2>1, <2>2
<1>2. /\ pc[2] = "external_handler" /\ pc[3] = (IF op = "data" THEN 3 ELSE 4)
      /\ Draining(OfDay(day).handler.external)
  BY <1>1, ExternalPlaces
<1>3. k \in 1 .. Len(OfDay(day).handler.external)
  BY <1>2 DEF Draining
<1>4. DevType /\ HistType /\ EchoInv
  BY DEF Inv, Types
<1>5. dev'.ier = dev.ier /\ dev'.dr = FALSE /\ dev'.rbr = dev.rbr /\ dev'.timer = dev.timer /\ DOMAIN dev' = DevFields
      /\ dev'.disk = dev.disk /\ InUse' = InUse
  BY <1>1, <1>4 DEF DevType, DevFields, InUse
<1>6. DevType'
  BY <1>4, <1>5 DEF DevType
<1>7. /\ hist'.pc = hist.pc /\ hist'.regs = hist.regs /\ hist'.mode = hist.mode /\ hist'.word = hist.word
      /\ hist'.disturbed = hist.disturbed /\ hist'.typed = hist.typed /\ DOMAIN hist' = HistFields
      /\ k = 4 => hist'.echoed = hist.echoed /\ hist'.raced = hist.raced
      /\ k = 2 => /\ hist'.echoed = Append(hist.echoed, dev.rbr)
                  /\ hist'.raced = (hist.raced \/ (op = "data_again" /\ dev.dr))
  <2>1. CASE k = 4
    BY <1>1, <1>4, <2>1 DEF HistType
  <2>2. CASE k = 2 /\ op = "data"
    BY <1>1, <1>4, <2>2 DEF HistType, HistFields
  <2>3. CASE op = "data_again"
    BY <1>1, <1>4, <2>3 DEF HistType, HistFields
  <2> QED BY <1>1, <2>1, <2>2, <2>3
<1>8. pc'[1] = "pc" /\ pc'[2] = "external_handler" /\ pc'[3] = k
  BY <1>1, PlaceIs
<1>9. /\ Again = (op = "data_again") /\ Again' = (k = 4) /\ (op = "data" => dev.dr)
  BY <1>1, <1>2, <1>4, <1>8 DEF Again, EchoInv
<1>10. /\ hist.typed \in Nat /\ hist.echoed \in Seq(Nat) /\ dev.rbr \in Nat /\ dev.dr \in BOOLEAN
       /\ Echoed(hist.typed, hist.echoed, dev.rbr, dev.dr, Again, hist.raced)
  BY <1>4, MaxTypedAssumption DEF DevType, HistType, EchoInv
<1>11. /\ Echoed(hist'.typed, hist'.echoed, dev'.rbr, dev'.dr, Again', hist'.raced)
       /\ hist'.echoed \in Seq(Nat)
  <2>1. CASE k = 4
    <3>1. dev.dr = TRUE /\ Again = FALSE /\ Again' = TRUE
      BY <1>1, <1>9, <1>10, <2>1
    <3>2. Echoed(hist.typed, hist.echoed, dev.rbr, TRUE, FALSE, hist.raced)
      BY <1>10, <3>1
    <3>3. Echoed(hist.typed, hist.echoed, dev.rbr, FALSE, TRUE, hist.raced)
      BY <1>10, <3>2 DEF Echoed
    <3> QED BY <1>5, <1>7, <1>10, <2>1, <3>1, <3>3
  <2>2. CASE k = 2
    <3> DEFINE t == hist.typed
               s == hist.echoed
               r == dev.rbr
               dr == dev.dr
               a == Again
               g == hist.raced
               lost == hist'.raced
    <3>1. lost = (g \/ (op = "data_again" /\ dr))
      BY <1>7, <2>2
    <3>2. a = (op = "data_again") /\ (op = "data" => dr = TRUE) /\ op \in {"data", "data_again"}
      BY <1>1, <1>9, <1>10
    <3>3. t \in Nat /\ s \in Seq(Nat) /\ r \in Nat /\ dr \in BOOLEAN /\ Echoed(t, s, r, dr, a, g) /\ g \in BOOLEAN
      BY <1>4, <1>10 DEF HistType
    <3> HIDE DEF t, s, r, dr, a, g, lost
    <3>4. a \in BOOLEAN /\ (dr = TRUE \/ a = TRUE)
          /\ ((dr = TRUE /\ a = TRUE /\ lost = TRUE) \/ ((dr = FALSE \/ a = FALSE) /\ lost = g))
      BY <3>1, <3>2, <3>3
    <3>7. Echoed(t, Append(s, r), r, FALSE, FALSE, lost) /\ Append(s, r) \in Seq(Nat)
      BY <3>3, <3>4, EchoedAppend
    <3>5. /\ Echoed(hist.typed, Append(hist.echoed, dev.rbr), dev.rbr, FALSE, FALSE, hist'.raced)
          /\ Append(hist.echoed, dev.rbr) \in Seq(Nat)
      BY <3>7 DEF t, s, r, lost
    <3>6. Again' = FALSE
      BY <1>8, <2>2 DEF Again
    <3> QED BY <1>5, <1>7, <2>2, <3>5, <3>6
  <2> QED BY <1>1, <2>1, <2>2
<1>12. EchoInv'
  <2>1. ~(pc'[2] = "external_handler" /\ pc'[3] = 3)
    BY <1>1, <1>8
  <2> QED BY <1>11, <2>1 DEF EchoInv
<1>13. HistType'
  BY <1>4, <1>7, <1>11 DEF HistType
<1>14. /\ CodeInv' /\ SavedInv' /\ CauseInv' /\ VectorInv' /\ ModeInv' /\ HeapInv'
       /\ RegsType' /\ CsrType' /\ FrameType' /\ CtxType' /\ HndType'
       /\ day' \in Days /\ pc'[1] = "pc" /\ pc'[2] \in Codes
  BY <1>1, <1>2, <1>5, <1>7, Handled
<1>15. PlaceInv'
  BY <1>1, <1>3, <1>8, <1>14 DEF PlaceInv
<1> QED BY <1>6, <1>12, <1>13, <1>14, <1>15 DEF Inv, Types

\* What stays as it was keeps its type.
LEMMA TypesKept ==
  /\ RegsType /\ UNCHANGED regs => RegsType'
  /\ CsrType /\ UNCHANGED csr => CsrType'
  /\ FrameType /\ UNCHANGED frame => FrameType'
  /\ CtxType /\ UNCHANGED ctx => CtxType'
  /\ HndType /\ UNCHANGED hnd => HndType'
  /\ DevType /\ UNCHANGED dev => DevType'
  /\ HistType /\ UNCHANGED hist => HistType'
<1>1. RegsType /\ UNCHANGED regs => RegsType'
  BY DEF RegsType
<1>2. CsrType /\ UNCHANGED csr => CsrType'
  BY DEF CsrType
<1>3. FrameType /\ UNCHANGED frame => FrameType'
  BY DEF FrameType
<1>4. CtxType /\ UNCHANGED ctx => CtxType'
  BY DEF CtxType
<1>5. HndType /\ UNCHANGED hnd => HndType'
  BY DEF HndType
<1>6. DevType /\ UNCHANGED dev => DevType'
  BY DEF DevType
<1>7. HistType /\ UNCHANGED hist => HistType'
  BY DEF HistType
<1> QED BY <1>1, <1>2, <1>3, <1>4, <1>5, <1>6, <1>7

\* Outside a trap the code is the one that runs.
LEMMA NoTrap ==
  ASSUME pc'[2] \notin TrapCode
  PROVE  /\ ~InTrap' /\ SavedInv' /\ CauseInv'
         /\ ThePlace' = pc' /\ TheRegs' = regs' /\ TheMode' = csr'.mode
<1>1. ~InTrap'
  BY DEF InTrap
<1> QED BY <1>1 DEF SavedInv, CauseInv, ThePlace, TheRegs, TheMode, TrapCode

\* Where the loops of system calls go on.
LEMMA HeapLoop ==
  ASSUME NEW d \in HeapLoops
  PROVE  /\ After(d, Place("os", BootLen(d) + 1)) = Place("os", BootLen(d) + 2)
         /\ After(d, Place("os", BootLen(d) + 2)) = Place("os", BootLen(d) + 1)
         /\ Len(OsText(d)) = BootLen(d) + 2 /\ BootLen(d) \in Nat
<1>1. d \in AllDays /\ d # "6" /\ d \notin {"2-1", "2-2"}
  BY DEF HeapLoops, AllDays
<1> DEFINE n == BootLen(d)
           q == OfDay(d).os
<1>2. TextShape(d, q.text, n, VectorAt(d)) /\ LoopShape(d, q, n)
  BY <1>1, ShapeIs DEF Shape
<1>3. \A k : After(d, Place("os", k)) = IF k < Len(q.text) THEN Place("os", k + 1)
                                        ELSE IF q.endless THEN Place("os", q.loop) ELSE Place("end", 0)
  BY DEF After, Place, TextOf
<1>4. Len(OsText(d)) = Len(q.text)
  BY DEF OsText
<1> HIDE DEF n, q
<1>5. n \in Nat /\ Len(q.text) = n + 2 /\ q.endless /\ q.loop = n + 1
  BY <1>1, <1>2 DEF TextShape, LoopShape
<1>6. /\ After(d, Place("os", n + 1)) = Place("os", n + 2) /\ After(d, Place("os", n + 2)) = Place("os", n + 1)
  <2>1. n + 1 < n + 2 /\ ~(n + 2 < n + 2) /\ (n + 1) + 1 = n + 2
    BY <1>5
  <2> QED BY <1>3, <1>5, <2>1
<1> QED BY <1>4, <1>5, <1>6 DEF n

\* On the days without system calls nothing is allocated.
LEMMA HeapOutside ==
  ASSUME Inv, day \notin HeapLoops, pc[2] \notin {"hang", "end"}
  PROVE  heap = {}
  BY DEF Inv, HeapInv, HeapAt

\* A tick of day 6 that finds no process keeps the invariant.
LEMMA TickFaultsInv ==
  ASSUME Inv, TickFaults
  PROVE  Inv'
<1>1. /\ InHandler("timer_handler", "proc_exec") /\ ~cpu /\ pc' = Place("hang", 7)
      /\ UNCHANGED <<day, regs, csr, frame, ctx, hnd, dev, heap, cpu, hist>>
  BY DEF TickFaults
<1>2. pc[2] = "timer_handler" /\ day = "6" /\ InTrap
  BY <1>1, TimerPlaces DEF InTrap, TrapCode
<1>3. pc'[1] = "pc" /\ pc'[2] = "hang" /\ pc'[3] = 7
  BY <1>1, PlaceIs
<1>4. ~InTrap' /\ SavedInv' /\ CauseInv' /\ ThePlace' = pc' /\ TheRegs' = regs' /\ TheMode' = csr'.mode
  BY <1>3, NoTrap DEF TrapCode
<1>5. Types'
  BY <1>1, TypesKept DEF Inv, Types
<1>6. CodeInv' /\ PlaceInv'
  BY <1>1, <1>3 DEF Inv, CodeInv, PlaceInv, Codes, HandlerCode
<1>7. VectorInv'
  BY <1>1, <1>2, <1>3 DEF Inv, VectorInv, HandlerCode
<1>8. ModeInv'
  <2>1. csr.mode = "M"
    BY <1>2 DEF Inv, SavedInv
  <2>2. ~Switching(day, pc')
    BY <1>1 DEF Switching, Place
  <2> QED BY <1>1, <1>2, <1>3, <1>4, <2>1, <2>2 DEF ModeInv, ModeAt
<1>9. HeapInv'
  BY <1>1, <1>3 DEF Inv, HeapInv
<1>10. EchoInv'
  <2>1. ~Again /\ ~Again'
    BY <1>2, <1>3 DEF Again
  <2>2. Again' = Again
    BY <2>1 DEF Again
  <2> QED BY <1>1, <1>3, <2>2 DEF Inv, EchoInv
<1> QED BY <1>4, <1>5, <1>6, <1>7, <1>8, <1>9, <1>10 DEF Inv

\* A tick of day 6 that changes the process keeps it.
LEMMA TickSwitchInv ==
  ASSUME Inv, TickSwitch
  PROVE  Inv'
<1>1. /\ InHandler("timer_handler", "proc_exec") /\ cpu /\ pc' = Place("sys_switch", 1)
      /\ regs' = [regs EXCEPT !.ra = Place("leave", 0), !.a0 = Context("task"), !.a1 = Context("os")]
      /\ UNCHANGED <<day, csr, frame, ctx, hnd, dev, heap, cpu, hist>>
  BY DEF TickSwitch
<1>2. pc[2] = "timer_handler" /\ day = "6" /\ day \in AllDays /\ InTrap
  BY <1>1, TimerPlaces DEF InTrap, TrapCode
<1>3. pc'[1] = "pc" /\ pc'[2] = "sys_switch" /\ pc'[3] = 1
  BY <1>1, PlaceIs
<1>4. ~InTrap' /\ SavedInv' /\ CauseInv' /\ ThePlace' = pc' /\ TheRegs' = regs' /\ TheMode' = csr'.mode
  BY <1>3, NoTrap DEF TrapCode
<1>5. RegsType /\ {"ra", "a0", "a1", "sp"} \subseteq RegNames
  BY RegsAre DEF Inv, Types, RegNames
<1>6. /\ DOMAIN regs' = RegNames /\ regs'["a0"] = Context("task") /\ regs'["a1"] = Context("os")
      /\ regs'["sp"] = regs["sp"] /\ regs'["ra"] = Place("leave", 0)
      /\ \A r \in RegNames \ {"ra", "a0", "a1"} : regs'[r] = regs[r]
  <2>1. DOMAIN regs = RegNames /\ {"ra", "a0", "a1", "sp"} \subseteq RegNames
    BY <1>5 DEF RegsType
  <2>2. \A r \in RegNames : regs'[r] = IF r = "a1" THEN Context("os") ELSE IF r = "a0" THEN Context("task")
                                        ELSE IF r = "ra" THEN Place("leave", 0) ELSE regs[r]
    BY <1>1, <2>1
  <2>3. DOMAIN regs' = RegNames
    BY <1>1, <2>1
  <2> QED BY <2>1, <2>2, <2>3
<1>7. RegsType'
  <2>1. Place("leave", 0)[1] \in Values /\ Context("task")[1] \in Values /\ Context("os")[1] \in Values
    BY DEF Place, Context, Values
  <2> QED BY <1>5, <1>6, <2>1 DEF RegsType
<1>8. Types'
  BY <1>1, <1>7, TypesKept DEF Inv, Types
<1>9. PlaceInv'
  BY <1>1, <1>3 DEF Inv, PlaceInv, Codes, HandlerCode
<1>10. CodeInv'
  <2>1. CodeAt(day, hist.pc, hist.regs, ctx, cpu) /\ hist.pc[2] = "task"
    BY <1>1, <1>2 DEF Inv, CodeInv, CauseInv, ThePlace, TheRegs
  <2>2. TaskAt(day, hist.pc[3], hist.regs, ctx, cpu)
    BY <2>1 DEF CodeAt, Place
  <2>3. OsKept(day, ctx) /\ hist.regs["sp"] = Sp("task", 0) /\ day \in TaskDays
    BY <2>2 DEF TaskAt
  <2>4. regs["sp"] = Sp("task", 1)
    <3>1. PICK o \in Stacks : hist.regs["sp"] = Sp(o, 0) /\ regs["sp"] = Sp(o, 1)
      BY <1>2 DEF Inv, SavedInv
    <3>2. o = "task"
      BY <2>3, <3>1 DEF Sp
    <3> QED BY <3>1, <3>2
  <2>5. 1 <= 16 /\ 1 <= 14 /\ ~(1 >= 16) /\ ~(1 >= 17) /\ \A j : j \notin 1 .. 1 - 15
    OBVIOUS
  <2>6. Returning(day, 1, regs', ctx)
    BY <1>2, <1>6, <2>3, <2>4, <2>5 DEF Returning
  <2>7. 1 \in 1 .. SwitchLast(day)
    BY <2>3, SwitchLength
  <2>8. SwitchingAt(day, 1, regs', ctx, cpu)
    BY <1>1, <2>3, <2>6, <2>7 DEF SwitchingAt
  <2> QED BY <1>1, <1>3, <1>4, <2>8 DEF CodeInv, CodeAt
<1>11. VectorInv'
  BY <1>1, <1>2 DEF Inv, VectorInv, HandlerCode
<1>12. ModeInv'
  <2>1. csr.mode = "M"
    BY <1>2 DEF Inv, SavedInv
  <2>2. ~Switching(day, pc')
    BY <1>1 DEF Switching, Place
  <2>3. pc'[2] # "exception" /\ pc'[2] # "hang"
    BY <1>3
  <2> QED BY <1>1, <1>4, <2>1, <2>2, <2>3 DEF ModeInv, ModeAt
<1>13. HeapInv'
  <2>1. day \notin HeapLoops
    BY <1>2 DEF HeapLoops
  <2>2. heap = {}
    BY <1>2, <2>1, HeapOutside
  <2> QED BY <1>1, <1>3, <1>4, <2>1, <2>2 DEF HeapInv, HeapAt
<1>14. EchoInv'
  <2>1. ~Again /\ ~Again'
    BY <1>2, <1>3 DEF Again
  <2>2. Again' = Again
    BY <2>1 DEF Again
  <2> QED BY <1>1, <1>3, <2>2 DEF Inv, EchoInv
<1> QED BY <1>4, <1>8, <1>9, <1>10, <1>11, <1>12, <1>13, <1>14 DEF Inv

\* The handler of exceptions keeps it.
LEMMA ExceptionInv ==
  ASSUME Inv, Exception
  PROVE  Inv'
<1>1. /\ pc = Place("exception", 0) /\ (pc' = Place("hang", hnd.cause) \/ pc' = Place("leave", 0))
      /\ UNCHANGED <<day, regs, csr, frame, ctx, hnd, dev, heap, cpu, hist>>
  BY DEF Exception
<1>2. pc[2] = "exception" /\ InTrap
  BY <1>1, PlaceIs DEF InTrap, TrapCode
<1>3. CASE pc' = Place("leave", 0)
  <2>1. pc[2] \in Quiet /\ DevType' /\ InUse' = InUse
    BY <1>1, <1>2 DEF Quiet, Inv, Types, DevType, InUse
  <2> QED BY <1>1, <1>2, <1>3, <2>1, HandledQuietly
<1>4. CASE pc' = Place("hang", hnd.cause)
  <2>3. pc'[1] = "pc" /\ pc'[2] = "hang"
    BY <1>4, PlaceIs
  <2>4. ~InTrap' /\ SavedInv' /\ CauseInv'
    BY <2>3, NoTrap DEF TrapCode
  <2>5. Types'
    BY <1>1, TypesKept DEF Inv, Types
  <2>6. CodeInv' /\ PlaceInv'
    BY <1>1, <2>3 DEF Inv, CodeInv, PlaceInv, Codes, HandlerCode
  <2>7. VectorInv'
    BY <1>1, <1>2, <2>3 DEF Inv, VectorInv, HandlerCode
  <2>8. ModeInv'
    BY <1>1, <1>2 DEF Inv, ModeInv
  <2>9. HeapInv'
    BY <1>1, <2>3 DEF Inv, HeapInv
  <2>10. EchoInv'
    <3>1. ~Again /\ ~Again'
      BY <1>2, <2>3 DEF Again
    <3>2. Again' = Again
      BY <3>1 DEF Again
    <3> QED BY <1>1, <2>3, <3>2 DEF Inv, EchoInv
  <2> QED BY <2>4, <2>5, <2>6, <2>7, <2>8, <2>9, <2>10 DEF Inv
<1> QED BY <1>1, <1>3, <1>4

\* The place behind another, as the model says it and as the proofs do.
LEMMA AfterIs ==
  \A p : Following(p) = After(day, p)
  BY DEF Following, After, ProgramOf, TextOf

\* The words of a0, of a7 and of sp belong to no other register.
LEMMA OtherWords ==
  /\ \A r \in Regs : r # "a0" => WordOf[r] # 9
  /\ \A r \in Regs : r # "sp" => WordOf[r] # 1
  /\ WordOf["a0"] = 9 /\ WordOf["a7"] = 16 /\ "a7" \in Regs /\ "a0" \in Regs
<1>1. \A r \in Regs : InOrder[WordOf[r] + 1] = r
  BY WordsAre
<1>2. InOrder[10] = "a0" /\ InOrder[2] = "sp"
  BY DEF InOrder
<1> QED BY <1>1, <1>2, WordsAre, RegsAre

\* The service i of the stack o leaves x in a0.
ServedAs(o, i, x) ==
  /\ hist.regs["sp"] = Sp(o, 0) /\ regs["sp"] = Sp(o, 1)
  /\ FrameHolds(day, frame[o], regs, hist.regs, hist.pc, hist.word, FALSE)
  /\ hist.pc = Place("os", BootLen(day) + i)
  /\ frame' = [frame EXCEPT ![o][9] = x] /\ x[1] \in Values
  /\ i = 1 => heap' = {1} /\ x = <<"block", "", 1>>
  /\ i = 2 => heap' = {} /\ x = Number(0)

\* What do_syscall() does to the heap and to the word of a0.
LEMMA Served ==
  ASSUME Inv, DoSyscall
  PROVE  /\ pc[2] = "do_syscall" /\ InTrap /\ ~Returned /\ hnd.cause = 11 /\ day \in HeapLoops
         /\ \E o \in Stacks, i \in 1 .. 2 : \E x : ServedAs(o, i, x)
<1>1. pc = Place("do_syscall", 0) /\ pc[2] = "do_syscall"
  BY PlaceIs DEF DoSyscall
<1>2. InTrap /\ Returned = FALSE /\ hnd.cause = 11
  BY <1>1 DEF InTrap, TrapCode, Returned, Inv, CauseInv
<1>3. PICK o \in Stacks : /\ hist.regs["sp"] = Sp(o, 0) /\ regs["sp"] = Sp(o, 1)
                          /\ FrameHolds(day, frame[o], regs, hist.regs, hist.pc, hist.word, FALSE)
  BY <1>2 DEF Inv, SavedInv
<1>4. day \in HeapLoops
  BY <1>2 DEF Inv, CauseInv
<1>5. PICK i \in 1 .. 2 : hist.pc = Place("os", BootLen(day) + i) /\ hist.regs["a7"] = Number(i)
  BY <1>2 DEF Inv, CauseInv
<1>6. regs["sp"][2] = o
  BY <1>3 DEF Sp
<1>7. frame[o][16] = Number(i) /\ frame[o][9] = hist.regs["a0"]
  <2>1. \A r \in Regs \ {"sp", "tp"} : frame[o][WordOf[r]] = hist.regs[r]
    BY <1>3 DEF FrameHolds
  <2> QED BY <1>5, <2>1, OtherWords
<1>8. ServiceOf(day)[frame[o][A7Word][3]] = IF i = 1 THEN "malloc" ELSE "free"
  <2>1. ServiceOf(day) = <<"malloc", "free">>
    BY DEF ServiceOf, do_syscall32, do_syscall33
  <2>2. frame[o][A7Word][3] = i
    <3>1. Number(i)[3] = i
      BY DEF Number
    <3>2. A7Word = 16
      BY DEF A7Word
    <3> QED BY <1>7, <3>1, <3>2
  <2>3. i = 1 \/ i = 2
    OBVIOUS
  <2> QED BY <2>1, <2>2, <2>3
<1>9. HeapAt(day, hist.pc, hist.regs["a0"], heap)
  BY <1>1, <1>2 DEF Inv, HeapInv, ThePlace, TheRegs
<1>10. BootLen(day) \in Nat
  BY <1>4, HeapLoop
<1>11. CASE i = 1
  <2>1. hist.pc # Place("os", BootLen(day) + 2)
    BY <1>5, <1>10, <1>11 DEF Place
  <2>2. heap = {}
    BY <1>9, <2>1 DEF HeapAt
  <2>3. Min((1 .. 3) \ heap) = 1
    <3>1. (1 .. 3) \ heap = 1 .. 3
      BY <2>2
    <3>2. 1 \in 1 .. 3 /\ \A y \in 1 .. 3 : 1 <= y
      OBVIOUS
    <3>3. \A x \in 1 .. 3 : x <= 1 => x = 1
      OBVIOUS
    <3> QED BY <3>1, <3>2, <3>3 DEF Min
  <2>4. heap' = {1} /\ frame' = [frame EXCEPT ![o][A0Word] = <<"block", "", 1>>]
    <3>1. "malloc" # "free"
      OBVIOUS
    <3> QED BY <1>6, <1>8, <1>11, <2>2, <2>3, <3>1 DEF DoSyscall
  <2>5. <<"block", "", 1>>[1] \in Values
    BY DEF Values
  <2>6. A0Word = 9 /\ 1 # 2
    BY DEF A0Word
  <2>7. ServedAs(o, i, <<"block", "", 1>>)
    BY <1>3, <1>5, <1>11, <2>4, <2>5, <2>6 DEF ServedAs
  <2> QED BY <1>1, <1>2, <1>4, <2>7
<1>12. CASE i = 2
  <2>1. hist.pc = Place("os", BootLen(day) + 2)
    BY <1>5, <1>12
  <2>2. heap = {1} /\ frame[o][9] = <<"block", "", 1>>
    BY <1>4, <1>7, <1>9, <2>1 DEF HeapAt
  <2>3. /\ heap' = {n \in heap : frame[o][A0Word] # <<"block", "", n>>}
        /\ frame' = [frame EXCEPT ![o][A0Word] = Number(0)]
    <3>1. ServiceOf(day)[frame[o][A7Word][3]] # "malloc"
      BY <1>8, <1>12
    <3> QED BY <1>6, <3>1 DEF DoSyscall
  <2>4. heap' = {}
    BY <2>2, <2>3 DEF A0Word
  <2>5. Number(0)[1] \in Values
    BY DEF Number, Values
  <2>6. A0Word = 9 /\ 1 # 2
    BY DEF A0Word
  <2>7. ServedAs(o, i, Number(0))
    BY <1>3, <1>5, <1>12, <2>3, <2>4, <2>5, <2>6 DEF ServedAs
  <2> QED BY <1>1, <1>2, <1>4, <2>7
<1>13. i = 1 \/ i = 2
  OBVIOUS
<1>14. \E s \in Stacks, j \in 1 .. 2 : \E x : ServedAs(s, j, x)
  BY <1>11, <1>12, <1>13
<1> QED BY <1>1, <1>2, <1>4, <1>14

\* do_syscall() keeps the invariant: only a0 and the place of the caller change.
LEMMA DoSyscallInv ==
  ASSUME Inv, DoSyscall
  PROVE  Inv'
<1>1. /\ hnd' = [hnd EXCEPT !.epc = Following(@)] /\ pc' = Place("leave", 0)
      /\ UNCHANGED <<day, regs, csr, ctx, dev, cpu, hist>>
  BY DEF DoSyscall
<1>2. pc[2] = "do_syscall" /\ InTrap /\ ~Returned /\ hnd.cause = 11 /\ day \in HeapLoops
  BY Served
<1>00. PICK o \in Stacks, i \in 1 .. 2 : \E x : ServedAs(o, i, x)
  BY Served
<1>0. PICK x : ServedAs(o, i, x)
  BY <1>00
<1>3. /\ hist.regs["sp"] = Sp(o, 0) /\ regs["sp"] = Sp(o, 1)
      /\ FrameHolds(day, frame[o], regs, hist.regs, hist.pc, hist.word, FALSE)
      /\ hist.pc = Place("os", BootLen(day) + i)
      /\ frame' = [frame EXCEPT ![o][9] = x] /\ x[1] \in Values
      /\ i = 1 => heap' = {1} /\ x = <<"block", "", 1>>
      /\ i = 2 => heap' = {} /\ x = Number(0)
  BY <1>0 DEF ServedAs
<1>4. pc'[1] = "pc" /\ pc'[2] = "leave" /\ pc'[3] = 0
  BY <1>1, PlaceIs
<1>5. HndType /\ hnd.epc = hist.pc
  BY <1>2 DEF Inv, Types, SavedInv
<1>6. hnd'.epc = After(day, hist.pc) /\ hnd'.cause = 11 /\ HndType'
  <2>1. hnd'.epc = Following(hist.pc) /\ hnd'.cause = 11 /\ HndType'
    BY <1>1, <1>2, <1>5 DEF HndType
  <2> QED BY <2>1, AfterIs
<1>7. InTrap' /\ Returned' /\ Returned' = TRUE
  BY <1>4, <1>6 DEF InTrap, TrapCode, Returned
<1>8. ThePlace' = ThePlace /\ TheRegs' = TheRegs /\ TheMode' = TheMode
  BY <1>1, <1>2, <1>7 DEF ThePlace, TheRegs, TheMode
<1>9. FrameType
  BY DEF Inv, Types
<1>10. /\ DOMAIN frame' = Stacks /\ \A s \in Stacks : DOMAIN frame'[s] = 0 .. 32
       /\ \A s \in Stacks : \A w \in 0 .. 32 : frame'[s][w] = IF s = o /\ w = 9 THEN x ELSE frame[s][w]
  <2>1. DOMAIN frame = Stacks /\ \A s \in Stacks : DOMAIN frame[s] = 0 .. 32
    BY <1>9 DEF FrameType
  <2>2. DOMAIN frame' = Stacks
    BY <1>3, <2>1
  <2>3. \A s \in Stacks : frame'[s] = IF s = o THEN [frame[s] EXCEPT ![9] = x] ELSE frame[s]
    BY <1>3, <2>1
  <2> QED BY <2>1, <2>2, <2>3
<1>11. FrameType'
  BY <1>3, <1>9, <1>10 DEF FrameType
<1>12. Types'
  BY <1>1, <1>6, <1>11, TypesKept DEF Inv, Types
<1>13. CodeInv'
  BY <1>1, <1>2, <1>8 DEF Inv, CodeInv
<1>14. PlaceInv'
  BY <1>1, <1>4 DEF Inv, PlaceInv, Codes, HandlerCode
<1>15. SavedInv'
  <2>1. FrameHolds(day, frame'[o], regs, hist.regs, hist.pc, hist.word, TRUE)
    <3>1. \A r \in Regs \ {"sp", "tp"} : r = "a0" \/ frame'[o][WordOf[r]] = hist.regs[r]
      <4>1. \A r \in Regs \ {"sp", "tp"} : frame[o][WordOf[r]] = hist.regs[r]
        BY <1>3 DEF FrameHolds
      <4>2. \A r \in Regs : WordOf[r] \in 0 .. 32 /\ (r # "a0" => WordOf[r] # 9)
        BY OtherWords, WordsAre
      <4> QED BY <1>10, <4>1, <4>2
    <3>2. frame'[o][1] = frame[o][1] /\ frame'[o][31] = frame[o][31] /\ frame'[o][32] = frame[o][32]
      BY <1>10
    <3> QED BY <1>3, <3>1, <3>2 DEF FrameHolds
  <2>3. DOMAIN hist.regs = RegNames /\ csr.mode = "M" /\ ~csr.MIE /\ csr.mpp = hist.mode
    BY <1>2 DEF Inv, SavedInv
  <2>4. /\ hist'.regs["sp"] = Sp(o, 0) /\ regs'["sp"] = Sp(o, 1)
        /\ FrameHolds(day', frame'[o], regs', hist'.regs, hist'.pc, hist'.word, Returned')
    BY <1>1, <1>3, <1>7, <2>1
  <2> QED BY <1>1, <1>6, <1>7, <2>3, <2>4 DEF SavedInv
<1>16. CauseInv'
  BY <1>1, <1>2, <1>4, <1>6 DEF Inv, CauseInv
<1>17. VectorInv'
  BY <1>1, <1>2 DEF Inv, VectorInv, HandlerCode
<1>18. ModeInv'
  <2>1. ~Switching(day, pc')
    BY <1>1 DEF Switching, Place
  <2>2. pc'[2] # "exception" /\ pc'[2] # "hang"
    BY <1>4
  <2> QED BY <1>1, <1>2, <1>8, <2>1, <2>2 DEF Inv, ModeInv
<1>19. HeapInv'
  <2>1. HeapAt(day, After(day, hist.pc), frame'[o][9], heap') /\ heap' \subseteq {1}
    <3>1. CASE i = 1
      <4>1. After(day, hist.pc) = Place("os", BootLen(day) + 2)
        BY <1>2, <1>3, <3>1, HeapLoop
      <4>2. frame'[o][9] = <<"block", "", 1>> /\ heap' = {1}
        <5>1. o \in Stacks /\ 9 \in 0 .. 32
          OBVIOUS
        <5>2. frame'[o][9] = x
          BY <1>10, <5>1
        <5> QED BY <1>3, <3>1, <5>2
      <4>3. {1} \subseteq {1}
        OBVIOUS
      <4> QED BY <1>2, <4>1, <4>2, <4>3 DEF HeapAt
    <3>2. CASE i = 2
      <4>1. After(day, hist.pc) = Place("os", BootLen(day) + 1) /\ BootLen(day) \in Nat
        BY <1>2, <1>3, <3>2, HeapLoop
      <4>2. After(day, hist.pc) # Place("os", BootLen(day) + 2)
        BY <4>1 DEF Place
      <4>3. heap' = {}
        BY <1>3, <3>2
      <4> QED BY <4>2, <4>3 DEF HeapAt
    <3>3. i = 1 \/ i = 2
      OBVIOUS
    <3> QED BY <3>1, <3>2, <3>3
  <2>3. Answer(frame'[o][9], heap')
    <3>1. o \in Stacks /\ 9 \in 0 .. 32 /\ (i = 1 \/ i = 2)
      OBVIOUS
    <3>2. frame'[o][9] = x
      BY <1>10, <3>1
    <3> QED BY <1>3, <3>1, <3>2 DEF Answer
  <2>2. /\ hist'.regs["sp"] = Sp(o, 0) /\ HeapAt(day', After(day', hist'.pc), frame'[o][9], heap')
        /\ Answer(frame'[o][9], heap')
    BY <1>1, <1>3, <2>1, <2>3
  <2> QED BY <1>7, <2>1, <2>2 DEF HeapInv
<1>20. EchoInv'
  <2>1. ~Again /\ ~Again'
    BY <1>2, <1>4 DEF Again
  <2>2. Again' = Again
    BY <2>1 DEF Again
  <2> QED BY <1>1, <1>4, <2>2 DEF Inv, EchoInv
<1> QED BY <1>12, <1>13, <1>14, <1>15, <1>16, <1>17, <1>18, <1>19, <1>20 DEF Inv

----------------------------------------------------------------------------
(***************************************************************************)
(* The return from a trap                                                  *)
(***************************************************************************)

\* Values of registers.
LEMMA ValuesAre ==
  /\ \A a, k : Place(a, k)[1] \in Values /\ Sp(a, k)[1] \in Values /\ Place(a, k)[2] = a /\ Place(a, k)[3] = k
  /\ \A a : Context(a)[1] \in Values /\ Number(a)[1] \in Values
  /\ Junk[1] \in Values
<1>1. {"pc", "sp", "ctx", "number", "junk"} \subseteq Values
  BY DEF Values
<1>2. \A a, k : Place(a, k)[1] \in Values /\ Place(a, k)[2] = a /\ Place(a, k)[3] = k
  BY <1>1 DEF Place
<1>3. \A a, k : Sp(a, k)[1] \in Values
  BY <1>1 DEF Sp
<1>4. \A a : Context(a)[1] \in Values /\ Number(a)[1] \in Values
  BY <1>1 DEF Context, Number
<1>5. Junk[1] \in Values
  BY <1>1 DEF Junk
<1> QED BY <1>2, <1>3, <1>4, <1>5

\* On which days there are traps and system calls.
LEMMA TrapDays ==
  ASSUME Inv, InTrap
  PROVE  /\ csr.mtvec /\ day \in AllDays /\ day # "2-1"
         /\ Returned => day \in HeapLoops /\ day # "6" /\ day \notin SModeDays /\ hnd.cause = 11
         /\ ~Returned /\ pc[2] = "leave" => hnd.cause \notin {8, 9, 11}
<1>1. pc[2] \in HandlerCode
  BY DEF InTrap, TrapCode, HandlerCode
<1>2. csr.mtvec /\ day # "2-1"
  BY <1>1 DEF Inv, VectorInv
<1>3. Returned => day \in HeapLoops /\ hnd.cause = 11
  BY DEF Inv, CauseInv, Returned
<1>4. day \in HeapLoops => day # "6" /\ day \notin SModeDays
  BY DEF HeapLoops, SModeDays
<1>5. ~Returned /\ pc[2] = "leave" => hnd.cause \notin {8, 9, 11}
  BY DEF Inv, CauseInv, Returned
<1>6. day \in AllDays
  BY DaysAssumption DEF Inv, PlaceInv
<1> QED BY <1>2, <1>3, <1>4, <1>5, <1>6

\* What reg_load and mret leave, for the frame of the stack o.
Restored(o) ==
  /\ hist.regs["sp"] = Sp(o, 0) /\ DOMAIN hist.regs = RegNames
  /\ DOMAIN regs' = RegNames /\ regs'["sp"] = Sp(o, 0)
  /\ \A r \in Regs \ {"sp"} : IF Returned /\ r = "a0" THEN regs'[r] = frame[o][9] ELSE regs'[r] = hist.regs[r]
  /\ regs'["satp"] = hist.regs["satp"] /\ regs'["mepc"] = pc'
  /\ pc' = IF Returned THEN After(day, hist.pc) ELSE hist.pc
  /\ DOMAIN frame' = Stacks /\ \A s \in Stacks \ {o} : frame'[s] = frame[s]
  /\ DOMAIN frame'[o] = 0 .. 32
  /\ \A w \in 0 .. 31 : frame'[o][w] = Junk
  /\ frame'[o][32] = IF day = "6" THEN hist.pc ELSE hist.word
  /\ \A r \in RegNames \ {"mepc"} : regs'[r][1] \in Values

\* The return from a trap brings back the registers it stored.
LEMMA Restores ==
  ASSUME Inv, TrapReturn
  PROVE  InTrap /\ pc[2] = "leave" /\ \E o \in Stacks : Restored(o)
<1>1. pc = Place("leave", 0) /\ pc[2] = "leave" /\ pc[3] = 0
  BY PlaceIs DEF TrapReturn
<1>2. InTrap
  BY <1>1 DEF InTrap, TrapCode
<1>3. day \in AllDays /\ day # "2-1" /\ (Returned => day # "6")
  BY <1>2, TrapDays
<1>4. PICK o \in Stacks : /\ hist.regs["sp"] = Sp(o, 0) /\ regs["sp"] = Sp(o, 1)
                          /\ FrameHolds(day, frame[o], regs, hist.regs, hist.pc, hist.word, Returned)
  BY <1>2 DEF Inv, SavedInv
<1>5. DOMAIN hist.regs = RegNames /\ hnd.epc = IF Returned THEN After(day, hist.pc) ELSE hist.pc
  BY <1>2 DEF Inv, SavedInv
<1>6. regs["sp"][2] = o
  BY <1>4 DEF Sp
<1>7. RegsType /\ FrameType
  BY DEF Inv, Types
<1> DEFINE b == [regs EXCEPT !.mepc = hnd.epc]
           f == frame[o]
           g == Load(OfDay(day).load, f, b)
           z == [w \in DOMAIN f |-> IF w < FrameWords THEN Junk ELSE f[w]]
<1>8. /\ regs' = [g EXCEPT !.sp = Sp(g.sp[2], g.sp[3] - 1)] /\ pc' = g.mepc
      /\ frame' = [frame EXCEPT ![o] = z]
  <2>1. DOMAIN frame = Stacks
    BY <1>7 DEF FrameType
  <2> QED BY <1>6, <2>1 DEF TrapReturn
<1>9. DOMAIN b = Regs \cup CSRs /\ b["mepc"] = hnd.epc /\ b["tp"] = regs["tp"] /\ b["satp"] = regs["satp"]
  <2>1. DOMAIN regs = Regs \cup CSRs
    BY <1>7 DEF RegsType, RegNames
  <2>2. "tp" \in Regs
    BY RegsAre
  <2> QED BY <2>1, <2>2 DEF CSRs
<1>10. /\ f[1] = Sp(hist.regs["sp"][2], 1)
       /\ \A r \in Regs \ {"sp", "tp"} : (Returned /\ r = "a0") \/ f[WordOf[r]] = hist.regs[r]
       /\ regs["tp"] = hist.regs["tp"]
       /\ day = "6" => f[31] = hist.regs["satp"] /\ f[32] = hist.pc
       /\ day # "6" => regs["satp"] = hist.regs["satp"] /\ f[32] = hist.word
  BY <1>4 DEF FrameHolds
<1>11. DOMAIN f = 0 .. 32 /\ \A w \in 0 .. 32 : f[w][1] \in Values
  BY <1>7 DEF FrameType
<1>12. DOMAIN frame = Stacks
  BY <1>7 DEF FrameType
<1>13. DOMAIN z = 0 .. 32 /\ (\A w \in 0 .. 31 : z[w] = Junk) /\ z[32] = f[32]
  BY <1>11 DEF FrameWords
<1>14. regs["tp"][1] \in Values /\ regs["satp"][1] \in Values
  BY <1>7, RegsAre DEF RegsType, RegNames, CSRs
<1>29. g = Load(OfDay(day).load, f, b)
  OBVIOUS
<1> HIDE DEF b, z, f, g
<1>15. /\ DOMAIN g = Regs \cup CSRs
       /\ \A x \in Regs \ {"tp"} : g[x] = f[WordOf[x]]
       /\ g["tp"] = b["tp"]
       /\ g["satp"] = IF day = "6" THEN f[31] ELSE b["satp"]
       /\ g["mepc"] = IF day = "6" THEN f[32] ELSE b["mepc"]
  <2>1. DOMAIN b = Regs \cup CSRs /\ day \in AllDays /\ day # "2-1"
    BY <1>3, <1>9
  <2>2. Loaded(day, f, b, g)
    BY <1>29, <2>1, Loads
  <2> QED BY <2>2 DEF Loaded
<1>16. g["sp"] = Sp(o, 1) /\ g["sp"][2] = o /\ g["sp"][3] = 1
  <2>1. g["sp"] = f[1]
    BY <1>15, WordsAre, RegsAre
  <2>2. hist.regs["sp"][2] = o
    BY <1>4 DEF Sp
  <2> QED BY <1>10, <2>1, <2>2 DEF Sp
<1>17. DOMAIN regs' = RegNames /\ regs'["sp"] = Sp(o, 0) /\ \A r \in RegNames \ {"sp"} : regs'[r] = g[r]
  <2>1. "sp" \in RegNames /\ 1 - 1 = 0
    BY RegsAre DEF RegNames
  <2> QED BY <1>8, <1>15, <1>16, <2>1 DEF RegNames
<1>18. g["a0"] = f[9] /\ "a0" \in Regs
  BY <1>15, WordsAre, RegsAre
<1>19. \A r \in Regs \ {"sp"} : IF Returned /\ r = "a0" THEN regs'[r] = f[9] ELSE regs'[r] = hist.regs[r]
  <2> SUFFICES ASSUME NEW r \in Regs, r # "sp"
               PROVE  IF Returned /\ r = "a0" THEN regs'[r] = f[9] ELSE regs'[r] = hist.regs[r]
    OBVIOUS
  <2>1. regs'[r] = g[r]
    BY <1>17 DEF RegNames
  <2>2. CASE r = "tp"
    BY <1>9, <1>10, <1>15, <2>1, <2>2
  <2>3. CASE r # "tp"
    <3>1. (Returned /\ r = "a0") \/ f[WordOf[r]] = hist.regs[r]
      BY <1>10, <2>3
    <3>2. g[r] = f[WordOf[r]]
      BY <1>15, <2>3
    <3> QED BY <1>18, <2>1, <3>1, <3>2
  <2> QED BY <2>2, <2>3
<1>20. "satp" \in RegNames \ {"sp"} /\ "mepc" \in RegNames \ {"sp"}
  BY DEF RegNames, CSRs
<1>21. regs'["satp"] = hist.regs["satp"]
  BY <1>9, <1>10, <1>15, <1>17, <1>20
<1>22. pc' = IF Returned THEN After(day, hist.pc) ELSE hist.pc
  <2>1. CASE day = "6"
    BY <1>3, <1>8, <1>10, <1>15, <2>1
  <2>2. CASE day # "6"
    BY <1>5, <1>8, <1>9, <1>15, <2>2
  <2> QED BY <2>1, <2>2
<1>23. regs'["mepc"] = pc'
  BY <1>8, <1>17, <1>20
<1>24. /\ DOMAIN frame' = Stacks /\ \A s \in Stacks \ {o} : frame'[s] = frame[s]
       /\ frame'[o] = z
  BY <1>8, <1>12
<1>25. frame'[o][32] = IF day = "6" THEN hist.pc ELSE hist.word
  BY <1>10, <1>13, <1>24
<1>26. \A r \in RegNames \ {"mepc"} : regs'[r][1] \in Values
  <2> SUFFICES ASSUME NEW r \in RegNames, r # "mepc"
               PROVE  regs'[r][1] \in Values
    OBVIOUS
  <2>1. CASE r = "sp"
    BY <1>17, <2>1, ValuesAre
  <2>2. CASE r = "tp"
    <3>1. regs'[r] = regs["tp"]
      BY <1>9, <1>15, <1>17, <2>2
    <3> QED BY <1>14, <3>1
  <2>3. CASE r = "satp"
    <3>1. regs'[r] = regs["satp"] \/ regs'[r] = f[31]
      BY <1>9, <1>15, <1>17, <1>20, <2>3
    <3> QED BY <1>11, <1>14, <3>1
  <2>4. CASE r \notin {"sp", "tp", "satp"}
    <3>1. r \in Regs
      BY <2>4 DEF RegNames, CSRs
    <3>2. regs'[r] = f[WordOf[r]] /\ WordOf[r] \in 0 .. 30
      BY <1>15, <1>17, <2>4, <3>1, WordsAre
    <3> QED BY <1>11, <3>2
  <2> QED BY <2>1, <2>2, <2>3, <2>4
<1>27. frame[o] = f
  BY DEF f
<1>28. Restored(o)
  BY <1>4, <1>5, <1>13, <1>17, <1>19, <1>21, <1>22, <1>23, <1>24, <1>25, <1>26, <1>27 DEF Restored
<1> QED BY <1>1, <1>2, <1>28

\* Where the code goes on after the system call of a loop.
LEMMA ReturnedAt ==
  ASSUME Inv, InTrap, Returned, NEW e, e["sp"] = hist.regs["sp"], \A r \in Saved : e[r] = hist.regs[r],
         NEW p, p = After(day, hist.pc)
  PROVE  p = Place("os", p[3]) /\ OsAt(day, p[3], e, ctx, cpu) /\ day \notin SModeDays
<1>1. day \in HeapLoops /\ day \in AllDays /\ day # "6" /\ day \notin SModeDays /\ hnd.cause = 11
  BY TrapDays
<1>2. PICK i \in 1 .. 2 : hist.pc = Place("os", BootLen(day) + i)
  BY <1>1 DEF Inv, CauseInv
<1>3. pc[2] \notin {"hang", "end"}
  BY DEF InTrap, TrapCode
<1>4. CodeAt(day, hist.pc, hist.regs, ctx, cpu)
  BY <1>3 DEF Inv, CodeInv, ThePlace, TheRegs
<1>5. OsAt(day, BootLen(day) + i, hist.regs, ctx, cpu)
  BY <1>2, <1>4 DEF CodeAt, Place
<1>6. day \notin TaskDays
  BY <1>1 DEF HeapLoops, TaskDays
<1>7. PICK j \in 1 .. 2 : p = Place("os", BootLen(day) + j)
  <2>1. i = 1 \/ i = 2
    OBVIOUS
  <2> QED BY <1>1, <1>2, <2>1, HeapLoop
<1>8. p[3] = BootLen(day) + j
  BY <1>7 DEF Place
<1>9. BootLen(day) + j \in 1 .. Len(OsText(day))
  <2>1. Len(OsText(day)) = BootLen(day) + 2 /\ BootLen(day) \in Nat
    BY <1>1, HeapLoop
  <2> QED BY <2>1
<1>10. e["sp"] = Sp("os", 0) /\ Own(e)
  BY <1>5 DEF OsAt, Own
<1>11. OsAt(day, BootLen(day) + j, e, ctx, cpu)
  BY <1>1, <1>6, <1>9, <1>10 DEF OsAt
<1> QED BY <1>1, <1>7, <1>8, <1>11

\* The return from a trap keeps the invariant.
LEMMA TrapReturnInv ==
  ASSUME Inv, TrapReturn
  PROVE  Inv'
<1>1. /\ csr' = [csr EXCEPT !.mode = csr.mpp, !.mpp = "U", !.MIE = csr.mpie, !.mpie = TRUE]
      /\ hnd' = [epc |-> Place("os", 1), cause |-> 0]
      /\ hist' = [hist EXCEPT !.pc = Place("os", 1), !.regs = <<>>, !.word = Junk]
      /\ UNCHANGED <<day, ctx, dev, heap, cpu>>
  BY DEF TrapReturn
<1>2. InTrap /\ pc[2] = "leave"
  BY Restores
<1>0. PICK o \in Stacks : Restored(o)
  BY Restores
<1>3. /\ hist.regs["sp"] = Sp(o, 0) /\ DOMAIN hist.regs = RegNames
      /\ DOMAIN regs' = RegNames /\ regs'["sp"] = Sp(o, 0)
      /\ \A r \in Regs \ {"sp"} : IF Returned /\ r = "a0" THEN regs'[r] = frame[o][9] ELSE regs'[r] = hist.regs[r]
      /\ regs'["satp"] = hist.regs["satp"] /\ regs'["mepc"] = pc'
      /\ pc' = IF Returned THEN After(day, hist.pc) ELSE hist.pc
      /\ DOMAIN frame' = Stacks /\ \A s \in Stacks \ {o} : frame'[s] = frame[s]
      /\ DOMAIN frame'[o] = 0 .. 32
      /\ \A w \in 0 .. 31 : frame'[o][w] = Junk
      /\ frame'[o][32] = IF day = "6" THEN hist.pc ELSE hist.word
      /\ \A r \in RegNames \ {"mepc"} : regs'[r][1] \in Values
  BY <1>0 DEF Restored
<1>4. /\ csr.mtvec /\ day \in AllDays /\ day # "2-1"
      /\ Returned => day \in HeapLoops /\ day # "6" /\ day \notin SModeDays
  BY <1>2, TrapDays
<1>5. CodeAt(day, hist.pc, hist.regs, ctx, cpu)
  BY <1>2 DEF Inv, CodeInv, ThePlace, TheRegs
<1>6. {"sp", "a0", "a7", "tp"} \subseteq Regs /\ Saved \subseteq Regs \ {"sp", "a0"}
  BY RegsAre DEF Saved
<1>7. CodeAt(day, pc', regs', ctx, cpu)
  <2>1. CASE Returned
    <3>1. regs'["sp"] = hist.regs["sp"] /\ \A r \in Saved : regs'[r] = hist.regs[r]
      BY <1>3, <1>6
    <3>2. pc' = After(day, hist.pc)
      BY <1>3, <2>1
    <3>3. pc' = Place("os", pc'[3]) /\ OsAt(day, pc'[3], regs', ctx, cpu)
      BY <1>2, <2>1, <3>1, <3>2, ReturnedAt
    <3> QED BY <3>3 DEF CodeAt
  <2>2. CASE ~Returned
    <3>1. \A r \in Regs : regs'[r] = hist.regs[r]
      BY <1>3, <2>2
    <3>2. pc' = hist.pc /\ regs'["mepc"] = hist.pc
      BY <1>3, <2>2
    <3> QED BY <1>4, <1>5, <3>1, <3>2, CodeKept
  <2> QED BY <2>1, <2>2
<1>8. /\ pc'[1] = "pc" /\ pc'[2] \in Stacks \cup {"sys_switch"}
      /\ pc' = Place(pc'[2], pc'[3])
  <2>1. PICK a \in Stacks \cup {"sys_switch"} : pc' = Place(a, pc'[3])
    BY <1>7 DEF CodeAt, Stacks
  <2> QED BY <2>1 DEF Place
<1>9. pc'[2] \notin HandlerCode \cup {"end"} /\ pc'[2] \notin TrapCode /\ pc'[2] \in Codes
  BY <1>8 DEF HandlerCode, TrapCode, Codes, Stacks
<1>10. ~InTrap' /\ SavedInv' /\ CauseInv' /\ ThePlace' = pc' /\ TheRegs' = regs' /\ TheMode' = csr'.mode
  BY <1>9, NoTrap
<1>11. CsrType /\ HistType /\ FrameType
  BY DEF Inv, Types
<1>12. /\ DOMAIN csr' = CsrFields /\ csr'.mode = csr.mpp /\ csr'.mpp = "U" /\ csr'.mie = csr.mie
       /\ csr'.mtvec = csr.mtvec
  BY <1>1, <1>11 DEF CsrType, CsrFields
<1>13. /\ DOMAIN hist' = HistFields /\ hist'.mode = hist.mode /\ hist'.typed = hist.typed
       /\ hist'.echoed = hist.echoed /\ hist'.raced = hist.raced /\ hist'.disturbed = hist.disturbed
  BY <1>1, <1>11 DEF HistType, HistFields
<1>14. RegsType'
  <2>1. regs'["sp"] \in {Sp(s, n) : s \in Stacks, n \in 0 .. 1}
    BY <1>3
  <2>2. \A r \in RegNames : regs'[r][1] \in Values
    <3>1. pc'[1] \in Values
      BY <1>8, ValuesAre
    <3> QED BY <1>3, <3>1
  <2> QED BY <1>3, <2>1, <2>2 DEF RegsType
<1>15. FrameType'
  <2>1. \A s \in Stacks : DOMAIN frame[s] = 0 .. 32 /\ \A w \in 0 .. 32 : frame[s][w][1] \in Values
    BY <1>11 DEF FrameType
  <2>2. frame'[o][32][1] \in Values
    <3>1. CASE day = "6"
      <4>1. ~Returned
        BY <1>4, <3>1
      <4>2. pc'[1] \in Values /\ pc' = hist.pc
        BY <1>3, <1>8, <4>1, ValuesAre
      <4> QED BY <1>3, <3>1, <4>2
    <3>2. CASE day # "6"
      <4>1. hist.word = frame[o][32]
        <5>1. PICK s \in Stacks : /\ hist.regs["sp"] = Sp(s, 0)
                                  /\ FrameHolds(day, frame[s], regs, hist.regs, hist.pc, hist.word, Returned)
          BY <1>2 DEF Inv, SavedInv
        <5>2. s = o
          BY <1>3, <5>1 DEF Sp
        <5> QED BY <3>2, <5>1, <5>2 DEF FrameHolds
      <4> QED BY <1>3, <2>1, <3>2, <4>1
    <3> QED BY <3>1, <3>2
  <2>3. \A w \in 0 .. 32 : frame'[o][w][1] \in Values
    <3>1. \A w \in 0 .. 32 : w \in 0 .. 31 \/ w = 32
      OBVIOUS
    <3> QED BY <1>3, <2>2, <3>1, ValuesAre
  <2>4. ASSUME NEW s \in Stacks
        PROVE  DOMAIN frame'[s] = 0 .. 32 /\ \A w \in 0 .. 32 : frame'[s][w][1] \in Values
    <3>1. CASE s = o
      BY <1>3, <2>3, <3>1
    <3>2. CASE s # o
      BY <1>3, <2>1, <3>2
    <3> QED BY <3>1, <3>2
  <2> QED BY <1>3, <2>4 DEF FrameType
<1>16. CsrType'
  BY <1>11, <1>12 DEF CsrType, Modes
<1>17. HistType'
  BY <1>11, <1>13 DEF HistType
<1>18. HndType'
  BY <1>1 DEF HndType
<1>19. Types'
  BY <1>1, <1>14, <1>15, <1>16, <1>17, <1>18, TypesKept DEF Inv, Types
<1>20. CodeInv'
  BY <1>1, <1>7, <1>10 DEF CodeInv
<1>21. PlaceInv'
  <2>1. pc'[2] # "timer_handler" /\ pc'[2] # "external_handler"
    BY <1>9 DEF TrapCode
  <2> QED BY <1>1, <1>8, <1>9, <2>1 DEF Inv, PlaceInv
<1>22. VectorInv'
  BY <1>1, <1>4, <1>12 DEF Inv, VectorInv
<1>23. ModeInv'
  <2>1. csr'.mode = hist.mode
    BY <1>2, <1>12 DEF Inv, SavedInv
  <2>2. ~hist.disturbed => ModeAt(day, hist.pc, hist.mode) /\ ~Switching(day, hist.pc)
    BY <1>2 DEF Inv, ModeInv, ThePlace, TheMode
  <2>3. ~hist.disturbed => ModeAt(day, pc', hist.mode) /\ ~Switching(day, pc')
    <3>1. CASE Returned
      BY <1>4, <2>2, <3>1 DEF ModeAt, Switching
    <3>2. CASE ~Returned
      BY <1>3, <2>2, <3>2
    <3> QED BY <3>1, <3>2
  <2>4. pc'[2] # "exception" /\ pc'[2] # "hang"
    BY <1>9 DEF HandlerCode
  <2> QED BY <1>1, <1>10, <1>13, <2>1, <2>3, <2>4 DEF ModeInv
<1>24. HeapInv'
  <2>1. heap \subseteq {1} /\ pc[2] \notin {"hang", "end"}
    BY <1>2 DEF Inv, HeapInv
  <2>2. HeapAt(day, pc', regs'["a0"], heap)
    <3>1. "a0" \in Regs \ {"sp"}
      BY <1>6
    <3>2. CASE Returned
      <4>1. PICK s \in Stacks : hist.regs["sp"] = Sp(s, 0) /\ HeapAt(day, After(day, hist.pc), frame[s][9], heap)
        BY <1>2, <2>1, <3>2 DEF Inv, HeapInv
      <4>2. s = o
        BY <1>3, <4>1 DEF Sp
      <4>3. regs'["a0"] = frame[o][9] /\ pc' = After(day, hist.pc)
        BY <1>3, <3>1, <3>2
      <4> QED BY <4>1, <4>2, <4>3
    <3>3. CASE ~Returned
      <4>1. HeapAt(day, hist.pc, hist.regs["a0"], heap)
        BY <1>2, <2>1, <3>3 DEF Inv, HeapInv, ThePlace, TheRegs
      <4>2. regs'["a0"] = hist.regs["a0"] /\ pc' = hist.pc
        BY <1>3, <3>1, <3>3
      <4> QED BY <4>1, <4>2
    <3> QED BY <3>2, <3>3
  <2> QED BY <1>1, <1>10, <2>1, <2>2 DEF HeapInv
<1>25. EchoInv'
  <2>1. ~Again /\ ~Again' /\ pc'[2] # "external_handler"
    BY <1>2, <1>9 DEF Again, TrapCode
  <2>2. Again' = Again
    BY <2>1 DEF Again
  <2> QED BY <1>1, <1>13, <2>1, <2>2 DEF Inv, EchoInv
<1> QED BY <1>10, <1>19, <1>20, <1>21, <1>22, <1>23, <1>24, <1>25 DEF Inv

\* What the code that was interrupted finds.
LEMMA TrapReturnInvisible ==
  ASSUME Inv, TrapReturn
  PROVE  /\ hnd.cause \notin {8, 9, 11} => pc' = hist.pc
         /\ hnd.cause \in {8, 9, 11} => pc' = Following(hist.pc)
         /\ csr'.mode = hist.mode
         /\ \A r \in Regs \cup {"satp"} : regs'[r] = hist.regs[r] \/ (r = "a0" /\ hnd.cause = 11)
         /\ hnd.cause = 11 => regs'["a0"] \in {Number(0)} \cup {<<"block", "", n>> : n \in heap}
         /\ frame'[regs'["sp"][2]][FrameWords] = IF day = "6" THEN hist.pc ELSE hist.word
<1>1. InTrap /\ pc[2] = "leave"
  BY Restores
<1>0. PICK o \in Stacks : Restored(o)
  BY Restores
<1>2. /\ hist.regs["sp"] = Sp(o, 0) /\ regs'["sp"] = Sp(o, 0)
      /\ \A r \in Regs \ {"sp"} : IF Returned /\ r = "a0" THEN regs'[r] = frame[o][9] ELSE regs'[r] = hist.regs[r]
      /\ regs'["satp"] = hist.regs["satp"]
      /\ pc' = IF Returned THEN After(day, hist.pc) ELSE hist.pc
      /\ frame'[o][32] = IF day = "6" THEN hist.pc ELSE hist.word
  BY <1>0 DEF Restored
<1>3. hnd.cause \notin {8, 9} /\ (Returned <=> hnd.cause = 11)
  BY <1>1 DEF Inv, CauseInv, Returned
<1>4. csr'.mode = hist.mode
  <2>1. csr'.mode = csr.mpp /\ csr.mpp = hist.mode
    BY <1>1 DEF TrapReturn, Inv, SavedInv, Types, CsrType, CsrFields
  <2> QED BY <2>1
<1>5. regs'["sp"][2] = o /\ FrameWords = 32
  BY <1>2 DEF Sp, FrameWords
<1>6. Returned => regs'["a0"] \in {Number(0)} \cup {<<"block", "", n>> : n \in heap}
  <2> SUFFICES ASSUME Returned
               PROVE  regs'["a0"] \in {Number(0)} \cup {<<"block", "", n>> : n \in heap}
    OBVIOUS
  <2>1. pc[2] \notin {"hang", "end"}
    BY <1>1
  <2>2. PICK s \in Stacks : hist.regs["sp"] = Sp(s, 0) /\ Answer(frame[s][9], heap)
    BY <1>1, <2>1 DEF Inv, HeapInv
  <2>3. s = o
    BY <1>2, <2>2 DEF Sp
  <2>4. "a0" \in Regs \ {"sp"}
    BY RegsAre
  <2> QED BY <1>2, <2>2, <2>3, <2>4 DEF Answer
<1> QED BY <1>2, <1>3, <1>4, <1>5, <1>6, AfterIs

----------------------------------------------------------------------------
(***************************************************************************)
(* The entry to a trap                                                     *)
(***************************************************************************)

\* What a trap of the code with registers b on the stack o leaves, on the way to
\* place k of h.
Trapped(b, cause, o, h, k) ==
  /\ DOMAIN regs' = RegNames /\ regs'["sp"] = Sp(o, 1)
  /\ \A r \in RegNames : regs'[r][1] \in Values
  /\ FrameType' /\ FrameHolds(day, frame'[o], regs', b, pc, frame[o][32], FALSE)
  /\ DOMAIN csr' = CsrFields /\ csr'.mode = "M" /\ csr'.mpp = csr.mode /\ ~csr'.MIE
  /\ csr'.mie = csr.mie /\ csr'.mtvec = csr.mtvec
  /\ hnd' = [epc |-> pc, cause |-> cause] /\ pc' = Place(h, k)
  /\ DOMAIN hist' = HistFields /\ hist'.pc = pc /\ hist'.regs = b /\ hist'.mode = csr.mode
  /\ hist'.word = frame[o][32] /\ hist'.typed = hist.typed /\ hist'.echoed = hist.echoed
  /\ hist'.raced = hist.raced /\ hist'.disturbed = (hist.disturbed \/ (cause < 0 /\ InModeSwitch))

\* Trap entry stores the registers in the frame of the interrupted stack.
LEMMA Traps ==
  ASSUME Inv, NEW b, NEW cause, Trap(b, cause), NEW o \in Stacks, b["sp"] = Sp(o, 0), DOMAIN b = RegNames,
         \A r \in RegNames : b[r][1] \in Values, day # "2-1", pc[1] = "pc",
         NEW h, NEW k, h = Branch(cause), k = IF cause < 0 THEN 1 ELSE 0
  PROVE  Trapped(b, cause, o, h, k)
<1>1. FrameType /\ CsrType /\ HistType /\ day \in AllDays
  BY DaysAssumption DEF Inv, Types, PlaceInv
<1>2. b["sp"][2] = o /\ b["sp"][3] + 1 = 1
  BY DEF Sp
<1> DEFINE r == [b EXCEPT !.sp = Sp(o, 1), !.mepc = pc]
           f == frame[o]
           g == Store(OfDay(day).save, r, f)
<1>3. /\ regs' = [x \in DOMAIN r |-> IF x \in Kept THEN r[x] ELSE Junk]
      /\ frame' = [frame EXCEPT ![o] = g]
      /\ csr' = [csr EXCEPT !.mode = "M", !.mpp = csr.mode, !.mpie = csr.MIE, !.MIE = FALSE]
      /\ hnd' = [epc |-> pc, cause |-> cause]
      /\ pc' = Place(h, k)
      /\ hist' = [hist EXCEPT !.pc = pc, !.regs = b, !.mode = csr.mode, !.word = frame[o][FrameWords],
                              !.disturbed = @ \/ (cause < 0 /\ InModeSwitch)]
  BY <1>2 DEF Trap
<1>4. {"sp", "tp", "a0"} \subseteq RegNames /\ "mepc" \in RegNames /\ "satp" \in RegNames
      /\ "sp" \in Regs /\ "mepc" \notin Regs /\ "satp" \notin Regs /\ "tp" \in Regs
      /\ "sp" # "mepc" /\ "satp" # "sp" /\ "satp" # "mepc"
  BY RegsAre DEF RegNames, CSRs
<1>5. DOMAIN r = RegNames /\ \A x \in RegNames : r[x] = IF x = "mepc" THEN pc ELSE IF x = "sp" THEN Sp(o, 1) ELSE b[x]
  BY <1>4
<1>6. DOMAIN f = 0 .. 32 /\ \A w \in 0 .. 32 : f[w][1] \in Values
  BY <1>1 DEF FrameType
<1>7. g = Store(OfDay(day).save, r, f)
  OBVIOUS
<1>8. frame[o] = f
  OBVIOUS
<1> HIDE DEF r, f, g
<1>9. Stored(day, r, f, g)
  BY <1>1, <1>6, <1>7, Stores
<1>10. \A x \in RegNames : r[x][1] \in Values
  <2> SUFFICES ASSUME NEW x \in RegNames
               PROVE  r[x][1] \in Values
    OBVIOUS
  <2>1. Sp(o, 1)[1] \in Values /\ pc[1] \in Values
    BY ValuesAre DEF Values
  <2> QED BY <1>5, <2>1
<1>11. /\ DOMAIN regs' = RegNames
       /\ \A x \in RegNames : regs'[x] = IF x \in Kept THEN r[x] ELSE Junk
  BY <1>3, <1>5
<1>12. \A x \in RegNames : regs'[x][1] \in Values
  BY <1>10, <1>11, ValuesAre
<1>13. {"sp", "tp", "satp", "mepc"} \subseteq Kept
  BY DEF Kept, CSRs
<1>14. regs'["sp"] = Sp(o, 1) /\ regs'["tp"] = b["tp"] /\ regs'["satp"] = b["satp"]
  <2>1. "tp" # "sp" /\ "tp" # "mepc"
    OBVIOUS
  <2>2. r["sp"] = Sp(o, 1) /\ r["tp"] = b["tp"] /\ r["satp"] = b["satp"]
    BY <1>4, <1>5, <2>1
  <2> QED BY <1>4, <1>11, <1>13, <2>2
<1>15. DOMAIN frame = Stacks
  BY <1>1 DEF FrameType
<1>16. DOMAIN frame' = Stacks /\ frame'[o] = g /\ \A s \in Stacks \ {o} : frame'[s] = frame[s]
  BY <1>3, <1>15
<1>17. DOMAIN g = 0 .. 32 /\ \A w \in 0 .. 32 : g[w][1] \in Values
  BY <1>6, <1>9, <1>10 DEF Stored, RegNames
<1>18. FrameType'
  <2>1. \A s \in Stacks : DOMAIN frame'[s] = 0 .. 32 /\ \A w \in 0 .. 32 : frame'[s][w][1] \in Values
    <3> SUFFICES ASSUME NEW s \in Stacks
                 PROVE  DOMAIN frame'[s] = 0 .. 32 /\ \A w \in 0 .. 32 : frame'[s][w][1] \in Values
      OBVIOUS
    <3>1. CASE s = o
      BY <1>16, <1>17, <3>1
    <3>2. CASE s # o
      BY <1>1, <1>16, <3>2 DEF FrameType
    <3> QED BY <3>1, <3>2
  <2> QED BY <1>16, <2>1 DEF FrameType
<1>19. FrameHolds(day, g, regs', b, pc, f[32], FALSE)
  <2>1. g[1] = Sp(o, 1)
    BY <1>4, <1>5, <1>9, WordsAre DEF Stored
  <2>2. \A x \in Regs \ {"sp", "tp"} : g[WordOf[x]] = b[x]
    <3> SUFFICES ASSUME NEW x \in Regs, x # "sp"
                 PROVE  g[WordOf[x]] = b[x]
      OBVIOUS
    <3>1. x \in RegNames /\ x # "mepc"
      BY <1>4 DEF RegNames
    <3>2. r[x] = b[x]
      BY <1>5, <3>1
    <3> QED BY <1>9, <3>2 DEF Stored
  <2>3. day = "6" => g[31] = b["satp"] /\ g[32] = pc
    BY <1>4, <1>5, <1>9 DEF Stored
  <2>4. day # "6" => g[32] = f[32]
    BY <1>9 DEF Stored
  <2> QED BY <1>2, <1>14, <2>1, <2>2, <2>3, <2>4 DEF FrameHolds
<1>20. FrameHolds(day, frame'[o], regs', b, pc, frame[o][32], FALSE)
  BY <1>8, <1>16, <1>19
<1>21. /\ DOMAIN csr' = CsrFields /\ csr'.mode = "M" /\ csr'.mpp = csr.mode /\ ~csr'.MIE
       /\ csr'.mie = csr.mie /\ csr'.mtvec = csr.mtvec
  BY <1>1, <1>3 DEF CsrType, CsrFields
<1>22. /\ DOMAIN hist' = HistFields /\ hist'.pc = pc /\ hist'.regs = b /\ hist'.mode = csr.mode
       /\ hist'.word = frame[o][32] /\ hist'.typed = hist.typed /\ hist'.echoed = hist.echoed
       /\ hist'.raced = hist.raced /\ hist'.disturbed = (hist.disturbed \/ (cause < 0 /\ InModeSwitch))
  BY <1>1, <1>3 DEF HistType, HistFields, FrameWords
<1> QED BY <1>3, <1>11, <1>12, <1>14, <1>18, <1>20, <1>21, <1>22 DEF Trapped

\* Trap entry keeps the invariant, whatever the cause.
LEMMA TrapInv ==
  ASSUME Inv, NEW b, NEW cause, Trap(b, cause), UNCHANGED <<day, ctx, dev, heap, cpu>>,
         NEW o \in Stacks, b["sp"] = Sp(o, 0), DOMAIN b = RegNames, \A r \in RegNames : b[r][1] \in Values,
         CodeAt(day, pc, b, ctx, cpu), HeapAt(day, pc, b["a0"], heap),
         pc[2] \in Stacks \cup {"sys_switch"}, csr.mtvec = TRUE,
         NEW h, NEW k, h = Branch(cause), k = IF cause < 0 THEN 1 ELSE 0,
         (h \in {"timer_handler", "external_handler"} /\ k = 1) \/ (h \in {"do_syscall", "exception"} /\ k = 0),
         h = "external_handler" => dev.ier \/ dev.disk # "idle",
         h = "do_syscall" => /\ cause = 11 /\ day \in HeapLoops
                             /\ \E i \in 1 .. 2 : pc = Place("os", BootLen(day) + i) /\ b["a7"] = Number(i),
         h # "do_syscall" => cause \notin {8, 9, 11},
         day = "6" /\ cpu /\ k = 1 => pc[2] = "task",
         hist.disturbed \/ (cause < 0 /\ InModeSwitch) \/ (h # "exception" /\ ~Switching(day, pc))
  PROVE  Inv'
<1>1. day # "2-1" /\ day \in AllDays /\ pc[1] = "pc"
  BY DaysAssumption DEF Inv, VectorInv, PlaceInv
<1>0. Trapped(b, cause, o, h, k)
  BY <1>1, Traps
<1>2. /\ DOMAIN regs' = RegNames /\ regs'["sp"] = Sp(o, 1)
      /\ \A r \in RegNames : regs'[r][1] \in Values
      /\ FrameType' /\ FrameHolds(day, frame'[o], regs', b, pc, frame[o][32], FALSE)
      /\ DOMAIN csr' = CsrFields /\ csr'.mode = "M" /\ csr'.mpp = csr.mode /\ ~csr'.MIE
      /\ csr'.mie = csr.mie /\ csr'.mtvec = csr.mtvec
      /\ hnd' = [epc |-> pc, cause |-> cause] /\ pc' = Place(h, k)
      /\ DOMAIN hist' = HistFields /\ hist'.pc = pc /\ hist'.regs = b /\ hist'.mode = csr.mode
      /\ hist'.word = frame[o][32] /\ hist'.typed = hist.typed /\ hist'.echoed = hist.echoed
      /\ hist'.raced = hist.raced /\ hist'.disturbed = (hist.disturbed \/ (cause < 0 /\ InModeSwitch))
  BY <1>0 DEF Trapped
<1>3. pc'[1] = "pc" /\ pc'[2] = h /\ pc'[3] = k
  BY <1>2, PlaceIs
<1>4. h \in {"timer_handler", "external_handler", "do_syscall", "exception"} /\ k \in {0, 1}
  OBVIOUS
<1>5. InTrap' /\ ~InTrap /\ Returned' = FALSE
  BY <1>3, <1>4 DEF InTrap, TrapCode, Returned, Stacks
<1>6. ThePlace' = pc /\ TheRegs' = b /\ TheMode' = csr.mode /\ ThePlace = pc /\ TheMode = csr.mode
  BY <1>2, <1>5 DEF ThePlace, TheRegs, TheMode
<1>7. CsrType /\ HistType
  BY DEF Inv, Types
<1>8. RegsType'
  <2>1. regs'["sp"] \in {Sp(s, n) : s \in Stacks, n \in 0 .. 1}
    BY <1>2
  <2> QED BY <1>2, <2>1 DEF RegsType
<1>9. CsrType' /\ HistType' /\ HndType'
  BY <1>2, <1>7 DEF CsrType, HistType, HndType, Modes
<1>10. Types'
  BY <1>2, <1>8, <1>9, TypesKept DEF Inv, Types
<1>11. CodeInv'
  BY <1>6 DEF CodeInv
<1>12. PlaceInv'
  <2>1. h \in Codes
    BY <1>4 DEF Codes, HandlerCode
  <2>2. h = "timer_handler" => k \in 1 .. Len(OfDay(day).handler.timer)
    <3> SUFFICES ASSUME h = "timer_handler" PROVE k \in 1 .. Len(OfDay(day).handler.timer)
      OBVIOUS
    <3>1. Len(OfDay(day).handler.timer) \in {1, 2}
      BY <1>1, Handlers
    <3>2. k = 1
      OBVIOUS
    <3>3. \A n \in {1, 2} : 1 \in 1 .. n
      OBVIOUS
    <3> QED BY <3>1, <3>2, <3>3
  <2>3. h = "external_handler" => k \in 1 .. Len(OfDay(day).handler.external)
    <3> SUFFICES ASSUME h = "external_handler" PROVE k \in 1 .. Len(OfDay(day).handler.external)
      OBVIOUS
    <3>1. day \notin {"2-1", "2-2", "2-3"}
      BY DEF Inv, VectorInv
    <3>2. Len(OfDay(day).handler.external) \in {2, 3, 5}
      <4> DEFINE t == OfDay(day).handler.external
      <4>1. \/ t = <<"claim", "complete">> \/ t = <<"claim", "virtio_disk_intr", "complete">>
            \/ Draining(t)
        BY <1>1, <3>1, Handlers
      <4>2. Len(<<"claim", "complete">>) = 2 /\ Len(<<"claim", "virtio_disk_intr", "complete">>) = 3
        OBVIOUS
      <4> HIDE DEF t
      <4>3. Len(t) \in {2, 3, 5}
        BY <4>1, <4>2 DEF Draining
      <4> QED BY <4>3 DEF t
    <3>3. k = 1
      OBVIOUS
    <3>4. \A n \in {2, 3, 5} : 1 \in 1 .. n
      OBVIOUS
    <3> QED BY <3>2, <3>3, <3>4
  <2> QED BY <1>2, <1>3, <2>1, <2>2, <2>3 DEF Inv, PlaceInv
<1>13. SavedInv'
  <2>1. /\ hist'.regs["sp"] = Sp(o, 0) /\ regs'["sp"] = Sp(o, 1)
        /\ FrameHolds(day', frame'[o], regs', hist'.regs, hist'.pc, hist'.word, Returned')
    BY <1>2, <1>5
  <2>2. hnd'.epc = hist'.pc /\ DOMAIN hist'.regs = RegNames /\ csr'.mpp = hist'.mode
    BY <1>2
  <2> QED BY <1>2, <1>5, <2>1, <2>2 DEF SavedInv
<1>14. CauseInv'
  <2>1. hnd'.cause = cause
    BY <1>2
  <2> QED BY <1>2, <1>3, <1>4, <2>1 DEF CauseInv
<1>15. VectorInv'
  BY <1>1, <1>2 DEF Inv, VectorInv
<1>16. ModeInv'
  <2>1. ~Switching(day, pc')
    BY <1>2, <1>4 DEF Switching, Place
  <2>2. pc'[2] # "hang"
    BY <1>3, <1>4
  <2>3. ~hist'.disturbed => ~hist.disturbed /\ h # "exception" /\ ~Switching(day, pc)
    BY <1>2
  <2>4. ~hist.disturbed => ModeAt(day, pc, csr.mode)
    BY <1>6 DEF Inv, ModeInv
  <2> QED BY <1>2, <1>3, <1>6, <2>1, <2>2, <2>3, <2>4 DEF ModeInv
<1>17. HeapInv'
  BY <1>3, <1>4, <1>5, <1>6 DEF Inv, HeapInv
<1>18. EchoInv'
  <2>1. ~Again /\ ~Again'
    BY <1>3, <1>4 DEF Again, Stacks
  <2>2. Again' = Again
    BY <2>1 DEF Again
  <2> QED BY <1>2, <1>3, <1>4, <2>2 DEF Inv, EchoInv
<1> QED BY <1>10, <1>11, <1>12, <1>13, <1>14, <1>15, <1>16, <1>17, <1>18 DEF Inv

\* The code that runs.
LEMMA Running ==
  ASSUME Inv, pc[2] \in Stacks \cup {"sys_switch"}
  PROVE  /\ ~InTrap /\ day \in AllDays /\ pc[1] = "pc" /\ pc = Place(pc[2], pc[3])
         /\ CodeAt(day, pc, regs, ctx, cpu) /\ HeapAt(day, pc, regs["a0"], heap)
         /\ ~hist.disturbed => ModeAt(day, pc, csr.mode)
         /\ DOMAIN regs = RegNames /\ \A r \in RegNames : regs[r][1] \in Values
<1>1. ~InTrap /\ pc[2] \notin {"hang", "end"}
  BY DEF InTrap, TrapCode, Stacks
<1>2. ThePlace = pc /\ TheRegs = regs /\ TheMode = csr.mode
  BY <1>1 DEF ThePlace, TheRegs, TheMode
<1>3. day \in AllDays /\ pc[1] = "pc"
  BY DaysAssumption DEF Inv, PlaceInv
<1>4. CodeAt(day, pc, regs, ctx, cpu)
  BY <1>1, <1>2 DEF Inv, CodeInv
<1>5. HeapAt(day, pc, regs["a0"], heap)
  BY <1>1, <1>2 DEF Inv, HeapInv
<1>6. ~hist.disturbed => ModeAt(day, pc, csr.mode)
  BY <1>2 DEF Inv, ModeInv
<1>7. DOMAIN regs = RegNames /\ \A r \in RegNames : regs[r][1] \in Values
  BY DEF Inv, Types, RegsType
<1>8. pc = Place(pc[2], pc[3])
  <2>1. PICK a \in {"os", "task", "sys_switch"} : pc = Place(a, pc[3])
    BY <1>4 DEF CodeAt
  <2> QED BY <2>1 DEF Place
<1> QED BY <1>1, <1>3, <1>4, <1>5, <1>6, <1>7, <1>8

\* The operation that is executed.
LEMMA OpIs ==
  ASSUME Inv, Ordinary
  PROVE  /\ pc[2] = "os" => /\ OsAt(day, pc[3], regs, ctx, cpu) /\ pc[3] \in 1 .. Len(OsText(day))
                            /\ Op = OsText(day)[pc[3]]
                            /\ OpsOf(day, BootLen(day), VectorAt(day), OsText(day), pc[3])
         /\ pc[2] = "task" => /\ TaskAt(day, pc[3], regs, ctx, cpu) /\ Op = OfDay(day).task.text[pc[3]]
                              /\ Op \in {"print", "sys_switch"} /\ (day = "6" => Op = "print")
<1>1. day \in AllDays /\ CodeAt(day, pc, regs, ctx, cpu)
  BY Running DEF Ordinary
<1>2. CASE pc[2] = "os"
  <2>1. OsAt(day, pc[3], regs, ctx, cpu)
    BY <1>1, <1>2 DEF CodeAt, Place
  <2>2. pc[3] \in 1 .. Len(OsText(day))
    BY <2>1 DEF OsAt
  <2>3. Op = OsText(day)[pc[3]]
    BY <1>2 DEF Op, ProgramOf, OsText
  <2>4. OpsOf(day, BootLen(day), VectorAt(day), OsText(day), pc[3])
    BY <1>1, <2>2, OsOps
  <2> QED BY <1>2, <2>1, <2>2, <2>3, <2>4
<1>3. CASE pc[2] = "task"
  <2>1. TaskAt(day, pc[3], regs, ctx, cpu)
    BY <1>1, <1>3 DEF CodeAt, Place
  <2>2. day \in TaskDays /\ pc[3] \in 1 .. Len(OfDay(day).task.text)
    BY <2>1 DEF TaskAt
  <2>3. Op = OfDay(day).task.text[pc[3]]
    BY <1>3 DEF Op, ProgramOf
  <2>4. Op \in {"print", "sys_switch"} /\ (day = "6" => Op = "print")
    <3>1. CASE day = "6"
      <4>1. Len(OfDay(day).task.text) = 1 /\ OfDay(day).task.text[1] = "print"
        BY <2>2, <3>1, Tasks
      <4>2. pc[3] = 1
        BY <2>2, <4>1
      <4> QED BY <2>3, <4>1, <4>2
    <3>2. CASE day # "6"
      <4>1. /\ Len(OfDay(day).task.text) = 2 /\ OfDay(day).task.text[1] = "print"
            /\ OfDay(day).task.text[2] = "sys_switch"
        BY <2>2, <3>2, Tasks
      <4>2. pc[3] = 1 \/ pc[3] = 2
        BY <2>2, <4>1
      <4> QED BY <2>3, <3>2, <4>1, <4>2
    <3> QED BY <3>1, <3>2
  <2> QED BY <1>3, <2>1, <2>3, <2>4
<1> QED BY <1>2, <1>3

\* Where a trap is taken, the stack pointer is not below a frame.
LEMMA StackIs ==
  ASSUME Inv, Ordinary \/ (pc[2] = "sys_switch" /\ Followed)
  PROVE  \E o \in Stacks : regs["sp"] = Sp(o, 0)
<1>1. CASE Ordinary
  <2>1. pc[2] = "os" \/ pc[2] = "task"
    BY <1>1 DEF Ordinary, Stacks
  <2>2. regs["sp"] = Sp("os", 0) \/ regs["sp"] = Sp("task", 0)
    BY <1>1, <2>1, OpIs DEF OsAt, TaskAt
  <2> QED BY <2>2 DEF Stacks
<1>2. CASE pc[2] = "sys_switch" /\ Followed
  <2>1. day \in AllDays /\ CodeAt(day, pc, regs, ctx, cpu)
    BY <1>2, Running
  <2>2. SwitchingAt(day, pc[3], regs, ctx, cpu)
    BY <1>2, <2>1 DEF CodeAt, Place
  <2>3. day # "6"
    BY <1>2, <2>2 DEF SwitchingAt, Followed
  <2>4. regs["sp"] \in {Sp("os", 0), Sp("task", 0)}
    BY <2>1, <2>2, <2>3, SwitchStack
  <2> QED BY <2>4 DEF Stacks
<1> QED BY <1>1, <1>2

\* The handler that each cause leads to.
LEMMA Branches ==
  ASSUME NEW d \in AllDays, d = day
  PROVE  /\ Branch(-7) = "timer_handler" /\ Branch(-11) = "external_handler"
         /\ Branch(2) = "exception" /\ Branch(12) = "exception"
         /\ d \in HeapLoops => Branch(11) = "do_syscall"
<1>1. Branch(-7) = "timer_handler" /\ Branch(-11) = "external_handler"
  BY DEF Branch, TimerCause, ExternalCause
<1>2. OfDay(d).handler.syscalls \subseteq {8, 9, 11} /\ (d \in HeapLoops => 11 \in OfDay(d).handler.syscalls)
  BY SystemCalls
<1>3. \A c \in {2, 11, 12} : c # -7 /\ c # -11
  OBVIOUS
<1>4. \A c \in {2, 11, 12} : Branch(c) = IF c \in OfDay(day).handler.syscalls THEN "do_syscall" ELSE "exception"
  BY <1>3 DEF Branch, TimerCause, ExternalCause
<1> QED BY <1>1, <1>2, <1>4

\* Where the mode is being switched, the next mret or the writes to mstatus are to come.
LEMMA SwitchingOps ==
  ASSUME Inv, pc[2] \in Stacks \cup {"sys_switch"}, Switching(day, pc)
  PROVE  InModeSwitch
<1>1. PICK i \in 2 .. 4 : pc = Place("os", BootLen(day) + i)
  BY DEF Switching
<1>2. pc[2] = "os" /\ pc[3] = BootLen(day) + i
  BY <1>1, PlaceIs
<1>3. Ordinary
  BY <1>2 DEF Ordinary, Stacks
<1>4. Op = OsText(day)[pc[3]] /\ OpsOf(day, BootLen(day), VectorAt(day), OsText(day), pc[3])
  BY <1>2, <1>3, OpIs
<1>5. day \in SModeDays
  BY DEF Switching
<1>6. i = 2 \/ i = 3 \/ i = 4
  OBVIOUS
<1>7. Op \in {"r_mstatus", "w_mstatus", "mret"}
  BY <1>2, <1>4, <1>5, <1>6 DEF OpsOf
<1> QED BY <1>3, <1>7 DEF InModeSwitch

\* An interrupt keeps the invariant.
LEMMA TakeInterruptInv ==
  ASSUME Inv, TakeInterrupt
  PROVE  Inv'
<1>1. /\ pc[2] \in Stacks \cup {"sys_switch"} /\ (csr.mode # "M" \/ csr.MIE) /\ Followed
      /\ UNCHANGED <<day, ctx, dev, heap, cpu>>
  BY DEF TakeInterrupt, Interruptible
<1>2. /\ ~InTrap /\ day \in AllDays
      /\ CodeAt(day, pc, regs, ctx, cpu) /\ HeapAt(day, pc, regs["a0"], heap)
      /\ DOMAIN regs = RegNames /\ \A r \in RegNames : regs[r][1] \in Values
  BY <1>1, Running
<1>3. PICK o \in Stacks : regs["sp"] = Sp(o, 0)
  BY <1>1, StackIs DEF Ordinary
<1>4. csr.mtvec
  BY <1>1 DEF Inv, VectorInv
<1>5. PICK cause \in {-7, -11} : Trap(regs, cause) /\ (cause = -11 => dev.ier \/ dev.disk # "idle")
  BY DEF TakeInterrupt, TimerCause, ExternalCause, ExternalPending, UartInterrupt, DiskInterrupt
<1>6. cause < 0
  BY <1>5
<1>7. day = "6" /\ cpu => pc[2] = "task"
  BY <1>1 DEF Followed
<1>8. InModeSwitch \/ ~Switching(day, pc)
  BY <1>1, SwitchingOps
<1> DEFINE h == Branch(cause)
<1>9. (cause = -7 /\ h = "timer_handler") \/ (cause = -11 /\ h = "external_handler")
  BY <1>2, <1>5, Branches
<1>10. cause \notin {8, 9, 11}
  BY <1>5
<1>11. csr.mtvec = TRUE
  BY <1>4 DEF Inv, VectorInv
<1>12. h = Branch(cause) /\ 1 = IF cause < 0 THEN 1 ELSE 0
  BY <1>6
<1> HIDE DEF h
<1> QED BY <1>1, <1>2, <1>3, <1>5, <1>6, <1>7, <1>8, <1>9, <1>10, <1>11, <1>12, TrapInv

\* The operations that only M-mode may do.
LEMMA PrivilegedAre == Privileged = {"w_mepc", "r_mstatus", "w_mstatus", "mret"}
<1>1. switch_to_s_mode4 = <<"w_mepc", "r_mstatus", "w_mstatus", "mret">>
  BY DEF switch_to_s_mode4
<1>2. DOMAIN switch_to_s_mode4 = 1 .. 4
  BY <1>1
<1>3. Privileged = {switch_to_s_mode4[k] : k \in 1 .. 4}
  BY <1>2 DEF Privileged, ToSet
<1>4. 1 .. 4 = {1, 2, 3, 4}
  OBVIOUS
<1> QED BY <1>1, <1>3, <1>4

\* A trap of an operation that the mode forbids comes of an interrupt at the wrong place.
LEMMA Forbidden ==
  ASSUME Inv, Ordinary, csr.mode = "U" \/ (csr.mode = "S" /\ Op \in Privileged)
  PROVE  hist.disturbed
<1> SUFFICES ASSUME ~hist.disturbed PROVE FALSE
  OBVIOUS
<1>1. ModeAt(day, pc, csr.mode) /\ day \in AllDays
  BY Running DEF Ordinary
<1>2. csr.mode = "S" /\ Op \in {"w_mepc", "r_mstatus", "w_mstatus", "mret"}
  BY <1>1, PrivilegedAre DEF ModeAt
<1>3. day \in SModeDays /\ (pc[2] = "os" => pc[3] >= BootLen(day) + 5)
  BY <1>1, <1>2 DEF ModeAt
<1>4. pc[2] = "os" \/ pc[2] = "task"
  BY DEF Ordinary, Stacks
<1>5. CASE pc[2] = "task"
  <2>1. Op \in {"print", "sys_switch"}
    BY <1>5, OpIs
  <2> QED BY <1>2, <2>1
<1>6. CASE pc[2] = "os"
  <2>1. Op = OsText(day)[pc[3]] /\ OpsOf(day, BootLen(day), VectorAt(day), OsText(day), pc[3])
    BY <1>6, OpIs
  <2>2. pc[3] \in {BootLen(day) + 1, BootLen(day) + 2, BootLen(day) + 3, BootLen(day) + 4}
    BY <1>2, <2>1 DEF OpsOf
  <2>3. BootLen(day) \in Nat
    BY <1>1, TextIs
  <2> QED BY <1>3, <1>6, <2>2, <2>3
<1> QED BY <1>4, <1>5, <1>6

\* An illegal instruction keeps the invariant: only an interrupt can have led to it.
LEMMA IllegalInv ==
  ASSUME Inv, Illegal
  PROVE  Inv'
<1>1. Ordinary /\ UNCHANGED <<day, ctx, dev, heap, cpu>> /\ csr.mode # "M"
  BY DEF Illegal
<1>2. PICK cause \in {2, 12} : Trap(regs, cause)
  BY DEF Illegal
<1>3. hist.disturbed
  BY <1>1, Forbidden DEF Illegal
<1>4. pc[2] \in Stacks \cup {"sys_switch"}
  BY <1>1 DEF Ordinary
<1>5. /\ day \in AllDays
      /\ CodeAt(day, pc, regs, ctx, cpu) /\ HeapAt(day, pc, regs["a0"], heap)
      /\ DOMAIN regs = RegNames /\ \A r \in RegNames : regs[r][1] \in Values
  BY <1>4, Running
<1>6. PICK o \in Stacks : regs["sp"] = Sp(o, 0)
  BY <1>1, StackIs
<1>7. csr.mtvec = TRUE
  BY <1>1 DEF Inv, VectorInv
<1> DEFINE h == Branch(cause)
<1>8. h = "exception"
  BY <1>5, Branches
<1>9. cause \notin {8, 9, 11} /\ ~(cause < 0)
  BY <1>2
<1>10. h = Branch(cause) /\ 0 = IF cause < 0 THEN 1 ELSE 0
  BY <1>9
<1> HIDE DEF h
<1> QED BY <1>1, <1>2, <1>3, <1>4, <1>5, <1>6, <1>7, <1>8, <1>9, <1>10, TrapInv

\* The registers with which the program makes system call i.
CallWith(b, i) ==
  /\ Trap(b, 11) /\ DOMAIN b = RegNames /\ b["a7"] = Number(i)
  /\ \A r \in RegNames \ {"a0", "a7"} : b[r] = regs[r]
  /\ b["a0"][1] \in Values /\ (i = 2 => b["a0"] = regs["a0"] /\ Op = "free")
  /\ i = 1 => Op = "malloc"

\* A system call keeps the invariant.
LEMMA SystemCallInv ==
  ASSUME Inv, SystemCall
  PROVE  Inv'
<1>1. Ordinary /\ UNCHANGED <<day, ctx, dev, heap, cpu>>
  BY DEF SystemCall, Doing
<1>2. pc[2] \in Stacks \cup {"sys_switch"}
  BY <1>1 DEF Ordinary
<1>3. /\ day \in AllDays /\ pc = Place(pc[2], pc[3])
      /\ CodeAt(day, pc, regs, ctx, cpu) /\ HeapAt(day, pc, regs["a0"], heap)
      /\ DOMAIN regs = RegNames /\ \A r \in RegNames : regs[r][1] \in Values
  BY <1>2, Running
<1>4. NumberOf(day).malloc = 1 /\ NumberOf(day).free = 2
  BY DEF NumberOf, usys32, usys33
<1> DEFINE m == [regs EXCEPT !.a7 = Number(1), !.a0 = <<"size", "", 3>>]
           f == [regs EXCEPT !.a7 = Number(2)]
<1>5. \/ Op = "malloc" /\ Trap(m, 11)
      \/ Op = "free" /\ Trap(f, 11)
  BY <1>4 DEF SystemCall, Doing
<1>6. {"a0", "a7", "sp"} \subseteq RegNames /\ "mepc" \notin Regs /\ "a7" \notin Saved /\ "a0" \notin Saved
      /\ Saved \subseteq RegNames /\ "sp" \notin Saved
  BY RegsAre DEF RegNames, CSRs, Saved
<1>7. /\ DOMAIN m = RegNames /\ m["a7"] = Number(1)
      /\ \A r \in RegNames \ {"a0", "a7"} : m[r] = regs[r]
      /\ m["a0"] = <<"size", "", 3>>
  BY <1>3, <1>6
<1>8. /\ DOMAIN f = RegNames /\ f["a7"] = Number(2)
      /\ \A r \in RegNames \ {"a7"} : f[r] = regs[r]
  BY <1>3, <1>6
<1>9. \E i \in 1 .. 2 : \E b : CallWith(b, i)
  <2> HIDE DEF m, f
  <2>1. CASE Op = "malloc" /\ Trap(m, 11)
    <3>0. ASSUME NEW t, t = <<"size", "", 3>>
          PROVE  t[1] \in Values
      <4>1. t[1] = "size"
        BY <3>0
      <4> QED BY <4>1 DEF Values
    <3>2. m["a0"][1] \in Values
      BY <1>7, <3>0
    <3>1. m["a0"][1] \in Values /\ 1 # 2 /\ 1 \in 1 .. 2
      BY <3>2
    <3>3. CallWith(m, 1)
      BY <1>7, <2>1, <3>1 DEF CallWith
    <3> QED BY <3>1, <3>3
  <2>2. CASE Op = "free" /\ Trap(f, 11)
    <3>1. f["a0"] = regs["a0"] /\ f["a0"][1] \in Values /\ "a0" # "a7" /\ 2 \in 1 .. 2 /\ 1 # 2
      BY <1>3, <1>6, <1>8
    <3>2. CallWith(f, 2)
      BY <1>8, <2>2, <3>1 DEF CallWith
    <3> QED BY <3>1, <3>2
  <2> QED BY <1>5, <2>1, <2>2
<1>28. PICK i \in 1 .. 2 : \E b : CallWith(b, i)
  BY <1>9
<1>29. PICK b : CallWith(b, i)
  BY <1>28
<1>10. /\ Trap(b, 11) /\ DOMAIN b = RegNames /\ b["a7"] = Number(i)
       /\ \A r \in RegNames \ {"a0", "a7"} : b[r] = regs[r]
       /\ b["a0"][1] \in Values /\ (i = 2 => b["a0"] = regs["a0"] /\ Op = "free")
       /\ i = 1 => Op = "malloc"
  BY <1>29 DEF CallWith
<1> HIDE DEF m, f
<1>11. i = 1 \/ i = 2
  OBVIOUS
<1>12. pc[2] = "os"
  <2>1. Op \in {"malloc", "free"}
    BY <1>10, <1>11
  <2>2. pc[2] = "task" => Op \in {"print", "sys_switch"}
    BY <1>1, OpIs
  <2> QED BY <1>1, <2>1, <2>2 DEF Ordinary, Stacks
<1>13. /\ OsAt(day, pc[3], regs, ctx, cpu) /\ Op = OsText(day)[pc[3]]
       /\ OpsOf(day, BootLen(day), VectorAt(day), OsText(day), pc[3])
  BY <1>1, <1>12, OpIs
<1>14. day \in HeapLoops /\ pc[3] = BootLen(day) + i
  BY <1>10, <1>11, <1>13 DEF OpsOf
<1>15. pc = Place("os", BootLen(day) + i)
  BY <1>3, <1>12, <1>14
<1>16. day # "6" /\ day \notin SModeDays /\ day \notin TaskDays /\ day # "2-1"
  BY <1>14 DEF HeapLoops, SModeDays, TaskDays
<1>17. OsAt(day, pc[3], b, ctx, cpu)
  <2>1. b["sp"] = Sp("os", 0) /\ Own(b)
    BY <1>6, <1>10, <1>13 DEF OsAt, Own
  <2>2. pc[3] \in 1 .. Len(OsText(day))
    BY <1>13 DEF OsAt
  <2> QED BY <1>16, <2>1, <2>2 DEF OsAt
<1>18. CodeAt(day, pc, b, ctx, cpu)
  BY <1>3, <1>12, <1>17 DEF CodeAt
<1>19. b["sp"] = Sp("os", 0) /\ "os" \in Stacks
  BY <1>17 DEF OsAt, Stacks
<1>20. \A r \in RegNames : b[r][1] \in Values
  <2>1. Number(i)[1] \in Values
    BY ValuesAre
  <2> QED BY <1>3, <1>10, <2>1
<1>21. BootLen(day) \in Nat /\ VectorAt(day) \in 1 .. BootLen(day)
  BY <1>3, <1>16, TextIs
<1>22. HeapAt(day, pc, b["a0"], heap)
  <2>1. CASE i = 1
    <3>1. pc # Place("os", BootLen(day) + 2)
      BY <1>15, <1>21, <2>1 DEF Place
    <3> QED BY <1>3, <3>1 DEF HeapAt
  <2>2. CASE i = 2
    BY <1>3, <1>10, <2>2
  <2> QED BY <1>11, <2>1, <2>2
<1>23. csr.mtvec = TRUE
  <2>1. ~(pc[3] <= VectorAt(day))
    BY <1>11, <1>14, <1>21
  <2> QED BY <1>16, <2>1 DEF Inv, VectorInv
<1>24. Branch(11) = "do_syscall" /\ 0 = IF 11 < 0 THEN 1 ELSE 0
  BY <1>3, <1>14, Branches
<1>25. ~Switching(day, pc)
  BY <1>16 DEF Switching
<1> DEFINE h == Branch(11)
<1>26. h = Branch(11) /\ h = "do_syscall"
  BY <1>24
<1> HIDE DEF h
<1>27. Trap(b, 11) /\ \E j \in 1 .. 2 : pc = Place("os", BootLen(day) + j) /\ b["a7"] = Number(j)
  BY <1>10, <1>15
<1> QED BY <1>1, <1>2, <1>10, <1>14, <1>16, <1>18, <1>19, <1>20, <1>22, <1>23, <1>24, <1>25, <1>26, <1>27, TrapInv

----------------------------------------------------------------------------
(***************************************************************************)
(* The steps of the programs                                               *)
(***************************************************************************)

\* Where an operation of a program leads.
LEMMA Moves ==
  ASSUME Inv, Ordinary, Op \notin {"sys_switch", "mret", "malloc", "free"}, NEW p, p = Following(pc),
         NEW e, e["sp"] = regs["sp"], \A r \in Saved : e[r] = regs[r], NEW u, cpu => u, Op = "set_cpu_proc" => u,
         IF Op = "w_mepc" THEN e["mepc"] = Place("os", pc[3] + 4) ELSE e["mepc"] = regs["mepc"]
  PROVE  /\ p[1] = "pc" /\ p[2] \in {"os", "task", "end"}
         /\ p[2] # "end" => CodeAt(day, p, e, ctx, u)
         /\ p[2] = "os" => pc[2] = "os" /\ p = Place("os", p[3])
         /\ p[2] # "os" => ~Switching(day, p) /\ p # Place("os", BootLen(day) + 2)
<1>1. day \in AllDays /\ pc = Place(pc[2], pc[3])
  BY Running DEF Ordinary
<1>2. p = After(day, pc)
  BY AfterIs
<1>3. pc[2] = "os" \/ pc[2] = "task"
  BY DEF Ordinary, Stacks
<1>4. p[2] # "os" => ~Switching(day, p) /\ p # Place("os", BootLen(day) + 2)
  BY DEF Switching, Place
<1>5. CASE pc[2] = "os"
  <2>1. OsAt(day, pc[3], regs, ctx, cpu) /\ Op = OsText(day)[pc[3]]
    BY <1>5, OpIs
  <2>2. p = After(day, Place("os", pc[3]))
    BY <1>1, <1>2, <1>5
  <2>3. p = Place("end", 0) \/ (p = Place("os", p[3]) /\ OsAt(day, p[3], e, ctx, u))
    <3>1. Leaves(OsText(day)[pc[3]], pc[3], regs, e, cpu, u)
      BY <2>1 DEF Leaves
    <3>2. OsTo(day, p, e, ctx, u)
      BY <1>1, <2>1, <2>2, <3>1, OsMoves
    <3> QED BY <3>2 DEF OsTo
  <2>4. CASE p = Place("end", 0)
    <3>1. p[1] = "pc" /\ p[2] = "end"
      BY <2>4, PlaceIs
    <3> QED BY <1>4, <3>1
  <2>5. CASE p = Place("os", p[3]) /\ OsAt(day, p[3], e, ctx, u)
    <3>1. p[1] = "pc" /\ p[2] = "os"
      BY <2>5, PlaceIs
    <3> QED BY <1>5, <2>5, <3>1 DEF CodeAt
  <2> QED BY <2>3, <2>4, <2>5
<1>6. CASE pc[2] = "task"
  <2>1. TaskAt(day, pc[3], regs, ctx, cpu) /\ Op = OfDay(day).task.text[pc[3]] /\ Op = "print"
    BY <1>6, OpIs
  <2>2. p = After(day, Place("task", pc[3]))
    BY <1>1, <1>2, <1>6
  <2>3. p = Place("task", p[3]) /\ TaskAt(day, p[3], e, ctx, cpu)
    <3>1. OfDay(day).task.text[pc[3]] # "sys_switch"
      BY <2>1
    <3> QED BY <1>1, <2>1, <2>2, <3>1, TaskMoves
  <2>4. p[1] = "pc" /\ p[2] = "task"
    BY <2>3, PlaceIs
  <2>5. TaskAt(day, p[3], e, ctx, u)
    BY <2>3 DEF TaskAt
  <2> QED BY <1>4, <2>3, <2>4, <2>5 DEF CodeAt
<1> QED BY <1>3, <1>5, <1>6

\* How far the program goes in one step.
LEMMA NextPlace ==
  ASSUME Inv, Ordinary, pc[2] = "os", NEW p, p = Following(pc), p[2] = "os"
  PROVE  /\ pc[3] \in Nat /\ p[3] \in Nat /\ BootLen(day) \in Nat
         /\ \/ p[3] = pc[3] + 1
            \/ /\ day \in SModeDays => p[3] >= BootLen(day) + 5
               /\ day \in HeapLoops => p[3] = BootLen(day) + 1
         /\ pc[3] <= BootLen(day) => p[3] = pc[3] + 1
<1>1. day \in AllDays /\ pc = Place(pc[2], pc[3])
  BY Running DEF Ordinary
<1>2. p = After(day, Place("os", pc[3]))
  BY <1>1, AfterIs
<1>3. pc[3] \in 1 .. Len(OsText(day))
  BY OpIs
<1>4. BootLen(day) \in Nat /\ Len(OsText(day)) \in Nat /\ BootLen(day) < Len(OsText(day))
  BY <1>1, TextIs
<1>5. p # Place("end", 0)
  BY DEF Place
<1>6. \/ p = Place("os", pc[3] + 1)
      \/ /\ pc[3] = Len(OsText(day)) /\ p[3] \in BootLen(day) + 1 .. Len(OsText(day))
         /\ day \in SModeDays => p[3] >= BootLen(day) + 5
         /\ day \in HeapLoops => p[3] = BootLen(day) + 1
  BY <1>1, <1>2, <1>3, <1>5, OsOnward
<1>7. CASE p = Place("os", pc[3] + 1)
  <2>1. p[3] = pc[3] + 1
    BY <1>7, PlaceIs
  <2> QED BY <1>3, <1>4, <2>1
<1>8. CASE /\ pc[3] = Len(OsText(day)) /\ p[3] \in BootLen(day) + 1 .. Len(OsText(day))
           /\ day \in SModeDays => p[3] >= BootLen(day) + 5
           /\ day \in HeapLoops => p[3] = BootLen(day) + 1
  BY <1>3, <1>4, <1>8
<1> QED BY <1>6, <1>7, <1>8

\* No step of the program lets interrupts in before the vector is set.
LEMMA StepVector ==
  ASSUME Inv, Ordinary, Op \notin {"sys_switch", "mret", "malloc", "free"}, pc' = Following(pc),
         pc'[2] \in {"os", "task", "end"}, pc'[2] = "os" => pc[2] = "os", day' = day,
         csr'.mode = csr.mode, csr.mtvec \/ Op = "mtvec" => csr'.mtvec, csr'.mtvec => csr.mtvec \/ Op = "mtvec",
         csr'.MIE => csr.MIE \/ Op = "MIE" \/ Op = "w_mstatus", InUse' => InUse \/ Op = "IER" \/ Op \in DiskOps
  PROVE  VectorInv'
<1>1. day \in AllDays
  BY Running DEF Ordinary
<1>2. pc'[2] \notin HandlerCode
  BY DEF HandlerCode
<1>3. Op \in {"mtvec", "MIE", "w_mstatus", "IER"} \/ Op \in DiskOps => pc[2] = "os"
  <2>1. pc[2] = "os" \/ pc[2] = "task"
    BY DEF Ordinary, Stacks
  <2>2. pc[2] = "task" => Op \in {"print", "sys_switch"}
    BY OpIs
  <2> QED BY <2>1, <2>2 DEF DiskOps
<1>4. pc[2] = "os" => OpsOf(day, BootLen(day), VectorAt(day), OsText(day), pc[3]) /\ Op = OsText(day)[pc[3]]
                      /\ pc[3] \in 1 .. Len(OsText(day))
  BY OpIs
<1>5. Op = "mtvec" \/ Op = "MIE" \/ Op = "w_mstatus" => day # "2-1"
  BY <1>3, <1>4 DEF OpsOf, SModeDays
<1>6. Op = "IER" \/ Op \in DiskOps => day \notin {"2-1", "2-2", "2-3"}
  BY <1>3, <1>4 DEF OpsOf
<1>7. CASE csr'.mtvec
  BY <1>5, <1>6, <1>7 DEF Inv, VectorInv, InUse
<1>8. CASE ~csr'.mtvec
  <2>1. ~csr.mtvec /\ Op # "mtvec"
    BY <1>8
  <2>2. /\ csr.mode = "M" /\ ~csr.MIE
        /\ day = "2-1" \/ (pc[2] = "os" /\ pc[3] <= VectorAt(day))
    BY <2>1 DEF Inv, VectorInv
  <2>3. CASE day = "2-1"
    BY <1>2, <1>5, <1>6, <2>2, <2>3 DEF Inv, VectorInv, InUse
  <2>4. CASE day # "2-1" /\ pc[2] = "os" /\ pc[3] <= VectorAt(day)
    <3>1. VectorAt(day) \in 1 .. BootLen(day) /\ BootLen(day) \in Nat /\ BootLen(day) < Len(OsText(day))
          /\ Len(OsText(day)) \in Nat
      BY <1>1, <2>4, TextIs
    <3>2. OpsOf(day, BootLen(day), VectorAt(day), OsText(day), pc[3]) /\ Op = OsText(day)[pc[3]]
          /\ pc[3] \in 1 .. Len(OsText(day))
      BY <1>4, <2>4
    <3>3. Op # "MIE"
      BY <2>4, <3>1, <3>2 DEF OpsOf
    <3>4. Op # "w_mstatus"
      BY <2>4, <3>1, <3>2 DEF OpsOf
    <3>5. pc[3] # VectorAt(day)
      BY <2>1, <2>4, <3>2 DEF OpsOf
    <3>6. pc[3] < VectorAt(day) /\ pc[3] <= BootLen(day) /\ pc[3] < Len(OsText(day))
      BY <2>4, <3>1, <3>2, <3>5
    <3>7. pc' = Place("os", pc[3] + 1)
      BY <2>4, <3>6 DEF Following, ProgramOf, OsText
    <3>8. pc'[2] = "os" /\ pc'[3] = pc[3] + 1
      BY <3>7, PlaceIs
    <3>9. pc'[3] <= VectorAt(day)
      BY <3>1, <3>2, <3>6, <3>8
    <3>10. csr'.mode = "M" /\ ~csr'.MIE /\ pc'[2] = "os" /\ pc'[3] <= VectorAt(day')
      BY <2>2, <3>3, <3>4, <3>8, <3>9
    <3>11. InUse' => day' \notin {"2-1", "2-2", "2-3"}
      BY <1>6 DEF Inv, VectorInv, InUse
    <3> QED BY <1>2, <2>4, <3>10, <3>11 DEF VectorInv, InUse
  <2> QED BY <2>2, <2>3, <2>4
<1> QED BY <1>7, <1>8

\* An operation that leads to the next, or to the start of the loop.
LEMMA AdvanceInv ==
  ASSUME Inv, Ordinary, Op \notin {"sys_switch", "mret", "malloc", "free"}, Onward,
         UNCHANGED <<day, frame, ctx, hnd, heap>>, RegsType', CsrType', DevType',
         \A r \in RegNames \ {"mepc"} : regs'[r] = regs[r],
         IF Op = "w_mepc" THEN regs'["mepc"] = Place("os", pc[3] + 4) ELSE regs'["mepc"] = regs["mepc"],
         csr'.mode = csr.mode, csr.mtvec \/ Op = "mtvec" => csr'.mtvec, csr'.mtvec => csr.mtvec \/ Op = "mtvec",
         IF Op = "w_mstatus" THEN csr'.mpp = "S" ELSE csr'.mpp = csr.mpp,
         csr'.MIE => csr.MIE \/ Op = "MIE" \/ Op = "w_mstatus", InUse' => InUse \/ Op = "IER" \/ Op \in DiskOps,
         dev'.dr = dev.dr, dev'.rbr = dev.rbr, cpu => cpu', Op = "set_cpu_proc" => cpu'
  PROVE  Inv'
<1>1. pc' = Following(pc) /\ hist' = [hist EXCEPT !.ran = TRUE]
  BY DEF Onward
<1>2. /\ ~InTrap /\ day \in AllDays /\ pc = Place(pc[2], pc[3]) /\ HeapAt(day, pc, regs["a0"], heap)
      /\ ~hist.disturbed => ModeAt(day, pc, csr.mode)
  BY Running DEF Ordinary
<1>3. "sp" \in RegNames \ {"mepc"} /\ Saved \subseteq RegNames \ {"mepc"} /\ "a0" \in RegNames \ {"mepc"}
  BY RegsAre DEF RegNames, CSRs, Saved
<1>4. regs'["sp"] = regs["sp"] /\ (\A r \in Saved : regs'[r] = regs[r]) /\ regs'["a0"] = regs["a0"]
  BY <1>3
<1>5. /\ pc'[1] = "pc" /\ pc'[2] \in {"os", "task", "end"}
      /\ pc'[2] # "end" => CodeAt(day, pc', regs', ctx, cpu')
      /\ pc'[2] = "os" => pc[2] = "os" /\ pc' = Place("os", pc'[3])
      /\ pc'[2] # "os" => ~Switching(day, pc') /\ pc' # Place("os", BootLen(day) + 2)
  BY <1>1, <1>4, Moves
<1>6. /\ pc'[2] \in Codes /\ pc'[2] \notin TrapCode
      /\ pc'[2] \notin {"timer_handler", "external_handler", "exception", "hang"}
  BY <1>5 DEF Codes, Stacks, TrapCode
<1>7. ~InTrap' /\ SavedInv' /\ CauseInv' /\ ThePlace' = pc' /\ TheRegs' = regs' /\ TheMode' = csr'.mode
  BY <1>6, NoTrap
<1>8. /\ DOMAIN hist' = HistFields /\ hist'.mode = hist.mode /\ hist'.typed = hist.typed /\ hist'.disturbed = hist.disturbed
      /\ hist'.echoed = hist.echoed /\ hist'.raced = hist.raced
  BY <1>1 DEF Inv, Types, HistType, HistFields
<1>9. Types'
  <2>1. HistType'
    BY <1>8 DEF Inv, Types, HistType
  <2> QED BY <2>1, TypesKept DEF Inv, Types
<1>10. CodeInv'
  BY <1>5, <1>7 DEF CodeInv
<1>11. PlaceInv'
  BY <1>5, <1>6 DEF Inv, PlaceInv
<1>12. VectorInv'
  BY <1>1, <1>5, StepVector
<1>13. ASSUME pc'[2] = "os"
       PROVE  /\ pc[3] \in Nat /\ pc'[3] \in Nat /\ BootLen(day) \in Nat
              /\ \/ pc'[3] = pc[3] + 1
                 \/ /\ day \in SModeDays => pc'[3] >= BootLen(day) + 5
                    /\ day \in HeapLoops => pc'[3] = BootLen(day) + 1
              /\ pc[3] <= BootLen(day) => pc'[3] = pc[3] + 1
  BY <1>1, <1>5, <1>13, NextPlace
<1>14. ASSUME pc'[2] = "os"
       PROVE  OpsOf(day, BootLen(day), VectorAt(day), OsText(day), pc[3]) /\ Op = OsText(day)[pc[3]]
  BY <1>5, <1>14, OpIs
<1>15. ASSUME ~hist'.disturbed
       PROVE  ModeAt(day, pc', csr'.mode)
  <2>1. ModeAt(day, pc, csr.mode)
    BY <1>2, <1>8, <1>15
  <2>2. CASE pc'[2] = "os"
    <3>1. pc[3] >= BootLen(day) + 5 /\ day \in SModeDays => pc'[3] >= BootLen(day) + 5
      BY <1>13, <2>2
    <3> QED BY <1>5, <2>1, <2>2, <3>1 DEF ModeAt
  <2>3. CASE pc'[2] # "os"
    BY <2>1, <2>3 DEF ModeAt
  <2> QED BY <2>2, <2>3
<1>16. ASSUME ~hist'.disturbed, Switching(day, pc')
       PROVE  /\ regs'["mepc"] = Place("os", BootLen(day) + 5)
              /\ pc' = Place("os", BootLen(day) + 4) => csr'.mpp = "S"
  <2>1. PICK i \in 2 .. 4 : pc' = Place("os", BootLen(day) + i)
    BY <1>16 DEF Switching
  <2>2. pc'[2] = "os" /\ pc'[3] = BootLen(day) + i /\ day \in SModeDays
    BY <1>16, <2>1, PlaceIs DEF Switching
  <2>3. pc[3] \in Nat /\ BootLen(day) \in Nat /\ pc'[3] = pc[3] + 1
    BY <1>13, <2>2
  <2>4. pc[3] = BootLen(day) + (i - 1) /\ i - 1 \in 1 .. 3
    BY <2>2, <2>3
  <2>5. pc = Place("os", BootLen(day) + (i - 1))
    BY <1>2, <1>5, <2>2, <2>4
  <2>6. OpsOf(day, BootLen(day), VectorAt(day), OsText(day), pc[3]) /\ Op = OsText(day)[pc[3]]
    BY <1>14, <2>2
  <2>7. CASE i = 2
    <3>1. pc[3] = BootLen(day) + 1 /\ pc[3] + 4 = BootLen(day) + 5
      BY <2>3, <2>4, <2>7
    <3>2. Op = "w_mepc"
      BY <2>2, <2>6, <3>1 DEF OpsOf
    <3>3. pc' # Place("os", BootLen(day) + 4)
      BY <2>2, <2>3, <2>7 DEF Place
    <3> QED BY <3>1, <3>2, <3>3
  <2>8. CASE i \in {3, 4}
    <3>1. Switching(day, pc)
      <4>1. i - 1 \in 2 .. 4
        BY <2>8
      <4> QED BY <2>2, <2>5, <4>1 DEF Switching
    <3>2. regs["mepc"] = Place("os", BootLen(day) + 5)
      BY <1>8, <1>16, <3>1 DEF Inv, ModeInv
    <3>3. Op # "w_mepc"
      <4>1. pc[3] # BootLen(day) + 1
        BY <2>3, <2>4, <2>8
      <4> QED BY <2>2, <2>6, <4>1 DEF OpsOf
    <3>4. pc' = Place("os", BootLen(day) + 4) => csr'.mpp = "S"
      <4> SUFFICES ASSUME pc' = Place("os", BootLen(day) + 4)
                   PROVE  csr'.mpp = "S"
        OBVIOUS
      <4>1. pc'[3] = BootLen(day) + 4
        BY PlaceIs
      <4>2. pc[3] = BootLen(day) + 3
        BY <2>3, <4>1
      <4>3. Op = "w_mstatus"
        BY <2>2, <2>6, <4>2 DEF OpsOf
      <4> QED BY <4>3
    <3> QED BY <3>2, <3>3, <3>4
  <2>9. i = 2 \/ i \in {3, 4}
    OBVIOUS
  <2> QED BY <2>7, <2>8, <2>9
<1>17. ModeInv'
  BY <1>6, <1>7, <1>15, <1>16 DEF ModeInv
<1>18. HeapInv'
  <2>1. heap \subseteq {1}
    BY DEF Inv, HeapInv
  <2>2. HeapAt(day, pc', regs'["a0"], heap)
    <3>1. CASE day \notin HeapLoops
      BY <1>2, <3>1 DEF HeapAt
    <3>2. CASE day \in HeapLoops /\ pc'[2] = "os"
      <4>1. pc[3] <= BootLen(day)
        BY <1>14, <3>2 DEF OpsOf
      <4>2. pc[3] \in Nat /\ BootLen(day) \in Nat /\ pc'[3] = pc[3] + 1
        BY <1>13, <3>2, <4>1
      <4>3. pc[3] # BootLen(day) + 2 /\ pc'[3] # BootLen(day) + 2
        BY <4>1, <4>2
      <4>4. pc # Place("os", BootLen(day) + 2) /\ pc' # Place("os", BootLen(day) + 2)
        BY <4>3, PlaceIs
      <4> QED BY <1>2, <4>4 DEF HeapAt
    <3>3. CASE day \in HeapLoops /\ pc'[2] # "os"
      <4>1. pc' # Place("os", BootLen(day) + 2)
        BY <1>5, <3>3
      <4>2. pc[2] = "os"
        <5>1. pc[2] = "task" => TaskAt(day, pc[3], regs, ctx, cpu)
          BY OpIs
        <5>2. day \notin TaskDays
          BY <3>3 DEF HeapLoops, TaskDays
        <5> QED BY <5>1, <5>2 DEF TaskAt, Ordinary, Stacks
      <4>3. OpsOf(day, BootLen(day), VectorAt(day), OsText(day), pc[3]) /\ Op = OsText(day)[pc[3]]
            /\ pc[3] \in 1 .. Len(OsText(day))
        BY <4>2, OpIs
      <4>4. pc[3] <= BootLen(day) /\ BootLen(day) \in Nat
        BY <1>2, <3>3, <4>3, TextIs DEF OpsOf
      <4>5. pc[3] # BootLen(day) + 2
        BY <4>3, <4>4
      <4>6. pc # Place("os", BootLen(day) + 2)
        BY <4>5, PlaceIs
      <4> QED BY <1>2, <4>1, <4>6 DEF HeapAt
    <3> QED BY <3>1, <3>2, <3>3
  <2> QED BY <1>4, <1>7, <2>1, <2>2 DEF HeapInv
<1>19. EchoInv'
  <2>1. ~Again /\ ~Again'
    BY <1>6 DEF Again, Ordinary, Stacks
  <2>2. Again' = Again
    BY <2>1 DEF Again
  <2> QED BY <1>6, <1>8, <2>2 DEF Inv, EchoInv
<1> QED BY <1>7, <1>9, <1>10, <1>11, <1>12, <1>17, <1>18, <1>19 DEF Inv

\* The operation that is done.
LEMMA DoesIt ==
  ASSUME NEW op, Doing(op)
  PROVE  Ordinary /\ Op = op
  BY DEF Doing

\* An operation that leaves the registers alone.
LEMMA QuietInv ==
  ASSUME Inv, Ordinary, Op \notin {"sys_switch", "mret", "malloc", "free", "w_mepc"}, Onward,
         UNCHANGED <<day, regs, frame, ctx, hnd, heap>>, CsrType', DevType',
         csr'.mode = csr.mode, csr.mtvec \/ Op = "mtvec" => csr'.mtvec, csr'.mtvec => csr.mtvec \/ Op = "mtvec",
         IF Op = "w_mstatus" THEN csr'.mpp = "S" ELSE csr'.mpp = csr.mpp,
         csr'.MIE => csr.MIE \/ Op = "MIE" \/ Op = "w_mstatus", InUse' => InUse \/ Op = "IER" \/ Op \in DiskOps,
         dev'.dr = dev.dr, dev'.rbr = dev.rbr, cpu => cpu', Op = "set_cpu_proc" => cpu'
  PROVE  Inv'
<1>1. RegsType'
  BY TypesKept DEF Inv, Types
<1>2. (\A r \in RegNames \ {"mepc"} : regs'[r] = regs[r]) /\ regs'["mepc"] = regs["mepc"]
  OBVIOUS
<1> QED BY <1>1, <1>2, AdvanceInv

\* The step leaves the control registers, or the devices, alone.
LEMMA SameCsr ==
  ASSUME Inv, UNCHANGED csr, Op \notin {"mtvec", "w_mstatus"}
  PROVE  /\ CsrType' /\ csr'.mode = csr.mode
         /\ (csr.mtvec \/ Op = "mtvec" => csr'.mtvec) /\ (csr'.mtvec => csr.mtvec \/ Op = "mtvec")
         /\ IF Op = "w_mstatus" THEN csr'.mpp = "S" ELSE csr'.mpp = csr.mpp
         /\ csr'.MIE => csr.MIE \/ Op = "MIE" \/ Op = "w_mstatus"
<1>1. CsrType'
  BY TypesKept DEF Inv, Types
<1> QED BY <1>1

\* What is known of devices that no operation changes.
LEMMA SameDev ==
  ASSUME Inv, UNCHANGED dev
  PROVE  DevType' /\ (InUse' => InUse \/ Op = "IER" \/ Op \in DiskOps) /\ dev'.dr = dev.dr /\ dev'.rbr = dev.rbr
  BY TypesKept DEF Inv, Types, InUse

\* The operations without effect on the model keep the invariant.
LEMMA PlainInv ==
  ASSUME Inv, Plain
  PROVE  Inv'
<1>1. PICK op \in PlainOps : Doing(op)
  BY DEF Plain
<1>2. Onward /\ UNCHANGED <<day, regs, csr, frame, ctx, hnd, dev, heap, cpu>>
  BY DEF Plain
<1>3. Ordinary /\ Op = op
  BY <1>1, DoesIt
<1>4. Op \notin {"sys_switch", "mret", "malloc", "free", "w_mepc", "mtvec", "w_mstatus", "set_cpu_proc"}
  BY <1>3 DEF PlainOps
<1> QED BY <1>2, <1>3, <1>4, SameCsr, SameDev, QuietInv

\* The first process of day 6 keeps it.
LEMMA SetCpuProcInv ==
  ASSUME Inv, SetCpuProc
  PROVE  Inv'
<1>1. Onward /\ cpu' = TRUE /\ UNCHANGED <<day, regs, csr, frame, ctx, hnd, dev, heap>>
  BY DEF SetCpuProc
<1>2. Ordinary /\ Op = "set_cpu_proc"
  BY DoesIt DEF SetCpuProc
<1>3. Op \notin {"sys_switch", "mret", "malloc", "free", "w_mepc", "mtvec", "w_mstatus"}
  BY <1>2
<1>4. cpu => cpu'
  BY <1>1
<1>5. Op = "set_cpu_proc" => cpu'
  BY <1>1
<1> QED BY <1>1, <1>2, <1>3, <1>4, <1>5, SameCsr, SameDev, QuietInv

\* Setting up timer and uart keeps it.
LEMMA SetUpDeviceInv ==
  ASSUME Inv, SetUpDevice
  PROVE  Inv'
<1>1. Onward /\ UNCHANGED <<day, regs, csr, frame, ctx, hnd, heap, cpu>>
  BY DEF SetUpDevice
<1>2. Ordinary /\ Op \in {"mtimecmp", "IER", "priority", "enable"}
  BY DoesIt DEF SetUpDevice
<1>3. /\ Op \notin {"sys_switch", "mret", "malloc", "free", "w_mepc", "mtvec", "w_mstatus", "set_cpu_proc"}
  BY <1>2
<1>4. DevType
  BY DEF Inv, Types
<1>5. DevType' /\ dev'.dr = dev.dr /\ dev'.rbr = dev.rbr /\ (InUse' => InUse \/ Op = "IER" \/ Op \in DiskOps)
  <2>1. CASE Doing("mtimecmp") /\ dev' = [dev EXCEPT !.timer = "armed"]
    BY <1>4, <2>1 DEF DevType, DevFields, InUse
  <2>2. CASE Doing("IER") /\ dev' = [dev EXCEPT !.ier = TRUE]
    <3>1. Op = "IER"
      BY <2>2, DoesIt
    <3> QED BY <1>4, <2>2, <3>1 DEF DevType, DevFields, InUse
  <2>3. CASE Doing("priority") /\ dev' = [dev EXCEPT !.plic = @ \cup {"priority"}]
    BY <1>4, <2>3 DEF DevType, DevFields, InUse
  <2>4. CASE Doing("enable") /\ dev' = [dev EXCEPT !.plic = @ \cup {"enable"}]
    BY <1>4, <2>4 DEF DevType, DevFields, InUse
  <2> QED BY <2>1, <2>2, <2>3, <2>4 DEF SetUpDevice
<1> QED BY <1>1, <1>2, <1>3, <1>5, SameCsr, QuietInv

\* A request to the disk keeps it.
LEMMA RequestDiskInv ==
  ASSUME Inv, RequestDisk
  PROVE  Inv'
<1>1. /\ Onward /\ UNCHANGED <<day, regs, csr, frame, ctx, hnd, heap, cpu>>
      /\ dev' = [dev EXCEPT !.disk = "busy"]
  BY DEF RequestDisk
<1>2. Ordinary /\ Op = "disk_request"
  BY DoesIt DEF RequestDisk
<1>3. /\ Op \notin {"sys_switch", "mret", "malloc", "free", "w_mepc", "mtvec", "w_mstatus", "set_cpu_proc"}
      /\ Op \in DiskOps
  BY <1>2 DEF DiskOps
<1>4. DevType
  BY DEF Inv, Types
<1>5. DevType' /\ dev'.dr = dev.dr /\ dev'.rbr = dev.rbr
  BY <1>1, <1>4 DEF DevType, DevFields
<1> QED BY <1>1, <1>2, <1>3, <1>5, SameCsr, QuietInv

\* Another look at a request that is not done changes nothing.
LEMMA SpinInv ==
  ASSUME Inv, UNCHANGED <<day, pc, regs, csr, frame, ctx, hnd, dev, heap, cpu>>, hist' = [hist EXCEPT !.ran = TRUE]
  PROVE  Inv'
<1>1. DevType /\ HistType /\ EchoInv
  BY DEF Inv, Types
<1>2. /\ hist'.pc = hist.pc /\ hist'.regs = hist.regs /\ hist'.mode = hist.mode /\ hist'.word = hist.word
      /\ hist'.disturbed = hist.disturbed /\ hist'.typed = hist.typed /\ hist'.echoed = hist.echoed
      /\ hist'.raced = hist.raced /\ DOMAIN hist' = HistFields
  BY <1>1 DEF HistType, HistFields
<1>3. DevType' /\ HistType' /\ InUse' = InUse
  BY <1>1, <1>2 DEF DevType, HistType, InUse
<1>4. EchoInv'
  BY <1>1, <1>2 DEF EchoInv, Again
<1> QED BY <1>2, <1>3, <1>4, Untouched DEF Inv, Types

\* The wait for the disk keeps it.
LEMMA WaitDiskInv ==
  ASSUME Inv, WaitDisk
  PROVE  Inv'
<1>1. UNCHANGED <<day, regs, csr, frame, ctx, hnd, dev, heap, cpu>>
  BY DEF WaitDisk
<1>2. Ordinary /\ Op = "disk_wait"
  BY DoesIt DEF WaitDisk
<1>3. Op \notin {"sys_switch", "mret", "malloc", "free", "w_mepc", "mtvec", "w_mstatus", "set_cpu_proc"}
  BY <1>2
<1>4. CASE Onward
  BY <1>1, <1>2, <1>3, <1>4, SameCsr, SameDev, QuietInv
<1>5. CASE UNCHANGED pc /\ hist' = [hist EXCEPT !.ran = TRUE]
  BY <1>1, <1>5, SpinInv
<1> QED BY <1>4, <1>5 DEF WaitDisk

\* Setting mtvec, mie and mstatus keeps it.
LEMMA SetControlInv ==
  ASSUME Inv, SetVector \/ EnableInterrupts \/ EnableSources \/ ReadMstatus \/ WriteMstatus
  PROVE  Inv'
<1>1. Onward /\ UNCHANGED <<day, regs, frame, ctx, hnd, dev, heap, cpu>>
  BY DEF SetVector, EnableInterrupts, EnableSources, ReadMstatus, WriteMstatus
<1>2. Ordinary /\ Op \in {"mtvec", "MIE", "MEIE", "MTIE", "MEIE_MTIE", "r_mstatus", "w_mstatus"}
  BY DoesIt DEF SetVector, EnableInterrupts, EnableSources, ReadMstatus, WriteMstatus
<1>3. Op \notin {"sys_switch", "mret", "malloc", "free", "w_mepc", "set_cpu_proc"}
  BY <1>2
<1>4. CsrType
  BY DEF Inv, Types
<1>5. /\ CsrType' /\ csr'.mode = csr.mode 
      /\ (csr.mtvec \/ Op = "mtvec" => csr'.mtvec) /\ (csr'.mtvec => csr.mtvec \/ Op = "mtvec")
      /\ IF Op = "w_mstatus" THEN csr'.mpp = "S" ELSE csr'.mpp = csr.mpp
      /\ csr'.MIE => csr.MIE \/ Op = "MIE" \/ Op = "w_mstatus"
  <2>1. CASE SetVector
    <3>1. Op = "mtvec"
      BY <2>1, DoesIt DEF SetVector
    <3> QED BY <1>4, <2>1, <3>1 DEF SetVector, CsrType, CsrFields
  <2>2. CASE EnableInterrupts
    <3>1. Op = "MIE"
      BY <2>2, DoesIt DEF EnableInterrupts
    <3> QED BY <1>4, <2>2, <3>1 DEF EnableInterrupts, CsrType, CsrFields
  <2>3. CASE EnableSources
    <3>1. Op \in {"MEIE", "MTIE", "MEIE_MTIE"}
      BY <2>3, DoesIt DEF EnableSources
    <3>2. \/ csr' = [csr EXCEPT !.mie = csr.mie \cup {"MEIE"}] \/ csr' = [csr EXCEPT !.mie = csr.mie \cup {"MTIE"}]
          \/ csr' = [csr EXCEPT !.mie = {"MEIE", "MTIE"}]
      BY <1>4, <2>3 DEF EnableSources, CsrType, CsrFields
    <3> QED BY <1>4, <3>1, <3>2 DEF CsrType, CsrFields
  <2>4. CASE ReadMstatus
    <3>1. Op = "r_mstatus"
      BY <2>4, DoesIt DEF ReadMstatus
    <3> QED BY <1>4, <2>4, <3>1 DEF ReadMstatus, CsrType, CsrFields
  <2>5. CASE WriteMstatus
    <3>1. Op = "w_mstatus"
      BY <2>5, DoesIt DEF WriteMstatus
    <3> QED BY <1>4, <2>5, <3>1 DEF WriteMstatus, CsrType, CsrFields, Modes
  <2> QED BY <2>1, <2>2, <2>3, <2>4, <2>5
<1> QED BY <1>1, <1>2, <1>3, <1>5, SameDev, QuietInv

\* Writing mepc for the switch to S-mode keeps it.
LEMMA WriteMepcInv ==
  ASSUME Inv, WriteMepc
  PROVE  Inv'
<1>1. /\ Onward /\ UNCHANGED <<day, csr, frame, ctx, hnd, dev, heap, cpu>>
      /\ regs' = [regs EXCEPT !.mepc = Place("os", pc[3] + 4)]
  <2>1. Len(switch_to_s_mode4) = 4
    BY DEF switch_to_s_mode4
  <2> QED BY <2>1 DEF WriteMepc
<1>2. Ordinary /\ Op = "w_mepc"
  BY DoesIt DEF WriteMepc
<1>3. Op \notin {"sys_switch", "mret", "malloc", "free", "mtvec", "w_mstatus", "set_cpu_proc"}
  BY <1>2
<1>4. RegsType /\ "mepc" \in RegNames /\ "sp" \in RegNames \ {"mepc"}
  BY RegsAre DEF Inv, Types, RegNames, CSRs
<1>5. /\ DOMAIN regs' = RegNames /\ regs'["mepc"] = Place("os", pc[3] + 4)
      /\ \A r \in RegNames \ {"mepc"} : regs'[r] = regs[r]
  BY <1>1, <1>4 DEF RegsType
<1>6. RegsType'
  <2>1. Place("os", pc[3] + 4)[1] \in Values
    BY ValuesAre
  <2> QED BY <1>4, <1>5, <2>1 DEF RegsType
<1> QED BY <1>1, <1>2, <1>3, <1>5, <1>6, SameCsr, SameDev, AdvanceInv

\* A step into, in or out of sys_switch, or into supervisor mode.
LEMMA JumpInv ==
  ASSUME Inv, pc[2] \in Stacks \cup {"sys_switch"}, UNCHANGED <<day, frame, hnd, dev, heap, cpu>>,
         hist' = [hist EXCEPT !.ran = TRUE], day \notin HeapLoops, RegsType', CtxType', CsrType',
         pc'[1] = "pc", pc'[2] \in Stacks \cup {"sys_switch"}, CodeAt(day, pc', regs', ctx', cpu),
         csr'.mtvec = csr.mtvec, csr.mtvec \/ (day = "2-1" /\ csr'.mode = csr.mode /\ csr'.MIE = csr.MIE),
         hist.disturbed \/ (ModeAt(day, pc', csr'.mode) /\ ~Switching(day, pc'))
  PROVE  Inv'
<1>1. /\ pc'[2] \in Codes /\ pc'[2] \notin TrapCode /\ pc'[2] \notin HandlerCode
      /\ pc'[2] \notin {"timer_handler", "external_handler", "exception", "hang", "end"}
      /\ pc[2] # "external_handler"
  BY DEF Codes, Stacks, TrapCode, HandlerCode
<1>2. ~InTrap' /\ SavedInv' /\ CauseInv' /\ ThePlace' = pc' /\ TheRegs' = regs' /\ TheMode' = csr'.mode
  BY <1>1, NoTrap
<1>3. /\ DOMAIN hist' = HistFields /\ hist'.mode = hist.mode /\ hist'.typed = hist.typed /\ hist'.disturbed = hist.disturbed
      /\ hist'.echoed = hist.echoed /\ hist'.raced = hist.raced
  BY DEF Inv, Types, HistType, HistFields
<1>4. Types'
  <2>1. HistType'
    BY <1>3 DEF Inv, Types, HistType
  <2> QED BY <2>1, TypesKept DEF Inv, Types
<1>5. CodeInv'
  BY <1>2 DEF CodeInv
<1>6. PlaceInv'
  BY <1>1 DEF Inv, PlaceInv
<1>7. VectorInv'
  BY <1>1 DEF Inv, VectorInv
<1>8. ModeInv'
  BY <1>1, <1>2, <1>3 DEF ModeInv
<1>9. HeapInv'
  <2>1. heap = {}
    BY HeapOutside DEF Stacks
  <2> QED BY <1>2, <2>1 DEF HeapInv, HeapAt
<1>10. EchoInv'
  <2>1. ~Again /\ ~Again'
    BY <1>1 DEF Again
  <2>2. Again' = Again
    BY <2>1 DEF Again
  <2> QED BY <1>1, <1>3, <2>2 DEF Inv, EchoInv
<1> QED BY <1>2, <1>4, <1>5, <1>6, <1>7, <1>8, <1>9, <1>10 DEF Inv

\* The mret that leads to S-mode keeps it: nothing has come between.
LEMMA MretInv ==
  ASSUME Inv, Mret
  PROVE  Inv'
<1>1. /\ pc' = regs.mepc /\ hist' = [hist EXCEPT !.ran = TRUE]
      /\ csr' = [csr EXCEPT !.mode = csr.mpp, !.mpp = "U", !.MIE = csr.mpie, !.mpie = TRUE]
      /\ UNCHANGED <<day, regs, frame, ctx, hnd, dev, heap, cpu>>
  BY DEF Mret
<1>2. Ordinary /\ Op = "mret"
  BY DoesIt DEF Mret
<1>3. pc[2] = "os"
  <2>1. pc[2] = "task" => Op \in {"print", "sys_switch"}
    BY <1>2, OpIs
  <2> QED BY <1>2, <2>1 DEF Ordinary, Stacks
<1>4. /\ OsAt(day, pc[3], regs, ctx, cpu) /\ pc[3] \in 1 .. Len(OsText(day)) /\ Op = OsText(day)[pc[3]]
      /\ OpsOf(day, BootLen(day), VectorAt(day), OsText(day), pc[3])
  BY <1>2, <1>3, OpIs
<1>5. day \in AllDays /\ pc = Place("os", pc[3]) /\ (~hist.disturbed => ModeAt(day, pc, csr.mode))
  BY <1>2, <1>3, Running DEF Ordinary
<1>6. day \in SModeDays /\ pc[3] = BootLen(day) + 4
  BY <1>2, <1>4 DEF OpsOf
<1>7. day # "2-1" /\ day \notin HeapLoops
  BY <1>6 DEF SModeDays, HeapLoops
<1>8. /\ BootLen(day) \in Nat /\ VectorAt(day) \in 1 .. BootLen(day) /\ Len(OsText(day)) \in Nat
  BY <1>5, <1>7, TextIs
<1>9. csr.mtvec
  <2>1. ~(pc[3] <= VectorAt(day))
    BY <1>6, <1>8
  <2> QED BY <1>7, <2>1 DEF Inv, VectorInv
<1>10. BootLen(day) + 5 <= Len(OsText(day))
  <2> DEFINE p == After(day, Place("os", pc[3]))
  <2>1. \/ pc[3] + 1 \in 1 .. Len(OsText(day))
        \/ /\ pc[3] = Len(OsText(day)) /\ p[3] \in BootLen(day) + 1 .. Len(OsText(day))
           /\ p[3] >= BootLen(day) + 5
        \/ day = "6" /\ pc[3] = Len(OsText(day))
    BY <1>4, <1>5, <1>6, OsOnward
  <2>2. day = "6" => BootLen(day) + 6 <= Len(OsText(day))
    <3> SUFFICES ASSUME day = "6" PROVE BootLen(day) + 6 <= Len(OsText(day))
      OBVIOUS
    <3>1. day \in TaskDays
      BY DEF TaskDays
    <3>2. SwitchAt(day) + 1 <= Len(OsText(day)) /\ SwitchAt(day) = BootLen(day) + 5
      BY <1>5, <3>1, TextIs DEF SwitchAt
    <3> QED BY <1>8, <3>2
  <2> HIDE DEF p
  <2> QED BY <1>6, <1>8, <2>1, <2>2
<1>11. \E q \in BootLen(day) + 2 .. BootLen(day) + 5 : regs["mepc"] = Place("os", q)
  <2>1. pc[3] \in BootLen(day) + 2 .. BootLen(day) + 4
    BY <1>6, <1>8
  <2> QED BY <1>4, <1>6, <2>1 DEF OsAt
<1>12. PICK q \in BootLen(day) + 2 .. BootLen(day) + 5 : regs["mepc"] = Place("os", q)
  BY <1>11
<1>13. pc'[1] = "pc" /\ pc'[2] = "os" /\ pc'[3] = q /\ pc' = Place("os", q) /\ "os" \in Stacks
  BY <1>1, <1>12, PlaceIs DEF Stacks
<1>14. OsAt(day, q, regs, ctx, cpu)
  <2>1. q \in 1 .. Len(OsText(day)) /\ BootLen(day) < pc[3]
    BY <1>6, <1>8, <1>10
  <2>2. day \in TaskDays => TaskFresh(ctx)
    <3> SUFFICES ASSUME day \in TaskDays PROVE TaskFresh(ctx)
      OBVIOUS
    <3>1. day = "6"
      BY <1>6 DEF TaskDays, SModeDays
    <3>2. pc[3] <= SwitchAt(day)
      BY <1>6, <1>8, <3>1 DEF SwitchAt
    <3> QED BY <1>4, <3>2 DEF OsAt
  <2>3. day = "6" => cpu
    BY <1>4, <1>6, <1>8, <2>1 DEF OsAt
  <2>4. q \in BootLen(day) + 2 .. BootLen(day) + 4 => \E j \in BootLen(day) + 2 .. BootLen(day) + 5 : regs["mepc"] = Place("os", j)
    BY <1>11
  <2>5. regs["sp"] = Sp("os", 0) /\ Own(regs)
    BY <1>4 DEF OsAt
  <2> QED BY <2>1, <2>2, <2>3, <2>4, <2>5 DEF OsAt
<1>15. CodeAt(day, pc', regs', ctx', cpu)
  BY <1>1, <1>13, <1>14 DEF CodeAt
<1>16. CsrType /\ RegsType' /\ CtxType'
  BY <1>1, TypesKept DEF Inv, Types
<1>17. CsrType' /\ csr'.mode = csr.mpp /\ csr'.mtvec = csr.mtvec
  BY <1>1, <1>16 DEF CsrType, CsrFields, Modes
<1>18. ASSUME ~hist.disturbed
       PROVE  ModeAt(day, pc', csr'.mode) /\ ~Switching(day, pc')
  <2>1. Switching(day, pc)
    <3>1. 4 \in 2 .. 4
      OBVIOUS
    <3> QED BY <1>5, <1>6, <3>1 DEF Switching
  <2>2. regs["mepc"] = Place("os", BootLen(day) + 5) /\ csr.mpp = "S"
    BY <1>5, <1>6, <1>18, <2>1 DEF Inv, ModeInv
  <2>3. pc'[3] = BootLen(day) + 5
    BY <1>1, <2>2, PlaceIs
  <2>4. ModeAt(day, pc', csr'.mode)
    BY <1>6, <1>8, <1>17, <2>2, <2>3 DEF ModeAt
  <2>5. ~Switching(day, pc')
    <3> SUFFICES ASSUME NEW i \in 2 .. 4, pc' = Place("os", BootLen(day) + i)
                 PROVE  FALSE
      BY DEF Switching
    <3>1. pc'[3] = BootLen(day) + i
      BY PlaceIs
    <3> QED BY <1>8, <2>3, <3>1
  <2> QED BY <2>4, <2>5
<1>19. pc[2] \in Stacks \cup {"sys_switch"} /\ pc'[2] \in Stacks \cup {"sys_switch"}
  BY <1>3, <1>13
<1> QED BY <1>1, <1>7, <1>9, <1>13, <1>15, <1>16, <1>17, <1>18, <1>19, JumpInv

----------------------------------------------------------------------------
(***************************************************************************)
(* The switch from one stack to the other                                  *)
(***************************************************************************)

\* The call of sys_switch keeps the invariant.
LEMMA CallSwitchInv ==
  ASSUME Inv, CallSwitch
  PROVE  Inv'
<1> DEFINE other == IF pc[2] = "os" THEN "task" ELSE "os"
<1>1. /\ pc' = Place("sys_switch", 1) /\ hist' = [hist EXCEPT !.ran = TRUE]
      /\ regs' = [regs EXCEPT !.ra = Following(pc), !.a0 = Context(pc[2]), !.a1 = Context(other)]
      /\ UNCHANGED <<day, csr, frame, ctx, hnd, dev, heap, cpu>>
  BY DEF CallSwitch
<1>2. Ordinary /\ Op = "sys_switch"
  BY DoesIt DEF CallSwitch
<1>3. (pc[2] = "os" \/ pc[2] = "task") /\ pc[2] \in Stacks \cup {"sys_switch"}
  BY <1>2 DEF Ordinary, Stacks
<1>4. /\ day \in AllDays /\ pc = Place(pc[2], pc[3]) /\ (~hist.disturbed => ModeAt(day, pc, csr.mode))
      /\ DOMAIN regs = RegNames /\ \A r \in RegNames : regs[r][1] \in Values
  BY <1>3, Running
<1>5. pc'[1] = "pc" /\ pc'[2] = "sys_switch" /\ pc'[3] = 1 /\ pc' = Place("sys_switch", pc'[3])
  BY <1>1, PlaceIs
<1>6. Following(pc)[1] = "pc"
  <2>1. Following(pc) = Place(pc[2], pc[3] + 1) \/ Following(pc) = Place(pc[2], ProgramOf(pc[2]).loop)
        \/ Following(pc) = Place("end", 0)
    BY DEF Following
  <2> QED BY <2>1, PlaceIs
<1>7. {"ra", "a0", "a1", "sp"} \subseteq RegNames /\ Saved \subseteq RegNames
      /\ "ra" \notin Saved /\ "a0" \notin Saved /\ "a1" \notin Saved
  BY RegsAre DEF RegNames, Saved
<1> HIDE DEF other
<1>8. /\ DOMAIN regs' = RegNames /\ regs'["ra"] = Following(pc) /\ regs'["a0"] = Context(pc[2])
      /\ regs'["a1"] = Context(other) /\ \A r \in RegNames \ {"ra", "a0", "a1"} : regs'[r] = regs[r]
  <2>1. DOMAIN regs' = RegNames
    BY <1>1, <1>4
  <2>2. \A r \in RegNames : regs'[r] = IF r = "a1" THEN Context(other) ELSE IF r = "a0" THEN Context(pc[2])
                                       ELSE IF r = "ra" THEN Following(pc) ELSE regs[r]
    BY <1>1, <1>4
  <2> QED BY <1>7, <2>1, <2>2
<1>9. regs'["sp"] = regs["sp"] /\ \A r \in Saved : regs'[r] = regs[r]
  BY <1>7, <1>8
<1>10. RegsType'
  <2>1. \A o : Context(o)[1] \in Values
    BY DEF Context, Values
  <2>2. Following(pc)[1] \in Values
    BY <1>6 DEF Values
  <2>3. \A r \in RegNames : regs'[r][1] \in Values
    BY <1>4, <1>8, <2>1, <2>2
  <2>4. regs["sp"] \in {Sp(o, n) : o \in Stacks, n \in 0 .. 1}
    BY DEF Inv, Types, RegsType
  <2> QED BY <1>8, <1>9, <2>3, <2>4 DEF RegsType
<1>11. ASSUME pc[2] = "os"
       PROVE  day \in TaskDays /\ (csr.mtvec \/ day = "2-1") /\ SwitchingAt(day, 1, regs', ctx, cpu)
  <2>1. /\ OsAt(day, pc[3], regs, ctx, cpu) /\ pc[3] \in 1 .. Len(OsText(day)) /\ Op = OsText(day)[pc[3]]
        /\ OpsOf(day, BootLen(day), VectorAt(day), OsText(day), pc[3])
    BY <1>2, <1>11, OpIs
  <2>2. day \in TaskDays /\ pc[3] = SwitchAt(day)
    BY <1>2, <2>1 DEF OpsOf, SwitchAt
  <2>3. /\ BootLen(day) \in Nat \ {0} /\ Len(OsText(day)) \in Nat /\ SwitchAt(day) + 1 <= Len(OsText(day))
        /\ VectorAt(day) \in Nat /\ (day # "2-1" => VectorAt(day) \in 1 .. BootLen(day))
    BY <1>4, <2>2, TextIs
  <2>4. SwitchAt(day) \in Nat /\ SwitchAt(day) > BootLen(day)
    <3>1. SwitchAt(day) = BootLen(day) + 5 \/ SwitchAt(day) = BootLen(day) + 1
      BY DEF SwitchAt
    <3> QED BY <2>3, <3>1
  <2>5. Following(pc) = Place("os", SwitchAt(day) + 1)
    <3>1. pc[3] < Len(OsText(day))
      BY <2>2, <2>3, <2>4
    <3> QED BY <1>11, <2>2, <3>1 DEF Following, ProgramOf, OsText
  <2>6. csr.mtvec \/ day = "2-1"
    <3>1. day # "2-1" => ~(pc[3] <= VectorAt(day))
      BY <2>2, <2>3, <2>4
    <3> QED BY <3>1 DEF Inv, VectorInv
  <2>7. SwitchingAt(day, 1, regs', ctx, cpu)
    <3>1. regs'["a1"] = Context("task") /\ regs'["a0"] = Context("os") /\ regs'["ra"] = Place("os", SwitchAt(day) + 1)
      BY <1>8, <1>11, <2>5 DEF other
    <3>2. TaskFresh(ctx) /\ regs'["sp"] = Sp("os", 0) /\ Own(regs')
      <4>1. SwitchAt(day) <= SwitchAt(day)
        BY <2>4
      <4> QED BY <1>9, <2>1, <2>2, <4>1 DEF OsAt, Own
    <3>3. 1 <= 15 /\ 1 <= 14 /\ ~(1 > 14) /\ 1 # 16 /\ ~(1 >= 16) /\ ~(1 >= 17) /\ \A j : j \notin 1 .. 1 - 1
      OBVIOUS
    <3>4. Leaving(day, 1, regs', ctx)
      BY <3>1, <3>2, <3>3 DEF Leaving
    <3>5. 1 \in 1 .. SwitchLast(day)
      BY <2>2, SwitchLength
    <3>6. day = "6" => cpu
      BY <2>1, <2>2, <2>4 DEF OsAt
    <3> QED BY <2>2, <3>4, <3>5, <3>6 DEF SwitchingAt
  <2> QED BY <2>2, <2>6, <2>7
<1>12. ASSUME pc[2] = "task"
       PROVE  day \in TaskDays /\ (csr.mtvec \/ day = "2-1") /\ SwitchingAt(day, 1, regs', ctx, cpu)
  <2>1. TaskAt(day, pc[3], regs, ctx, cpu) /\ day # "6"
    BY <1>2, <1>12, OpIs
  <2>2. day \in TaskDays /\ OsKept(day, ctx) /\ regs["sp"] = Sp("task", 0)
    BY <2>1 DEF TaskAt
  <2>3. csr.mtvec \/ day = "2-1"
    BY <1>12 DEF Inv, VectorInv
  <2>4. SwitchingAt(day, 1, regs', ctx, cpu)
    <3>1. regs'["a1"] = Context("os") /\ regs'["a0"] = Context("task") /\ regs'["sp"] = Sp("task", 0)
      BY <1>8, <1>9, <1>12, <2>2 DEF other
    <3>2. 1 <= 16 /\ 1 <= 14 /\ ~(1 >= 16) /\ ~(1 >= 17) /\ \A j : j \notin 1 .. 1 - 15
      OBVIOUS
    <3>3. Returning(day, 1, regs', ctx)
      BY <2>1, <2>2, <3>1, <3>2 DEF Returning
    <3>4. 1 \in 1 .. SwitchLast(day)
      BY <2>2, SwitchLength
    <3> QED BY <2>1, <2>2, <3>3, <3>4 DEF SwitchingAt
  <2> QED BY <2>2, <2>3, <2>4
<1>13. day \in TaskDays /\ (csr.mtvec \/ day = "2-1") /\ SwitchingAt(day, 1, regs', ctx, cpu)
  BY <1>3, <1>11, <1>12
<1>14. day \notin HeapLoops
  BY <1>13 DEF TaskDays, HeapLoops
<1>15. CodeAt(day, pc', regs', ctx', cpu)
  BY <1>1, <1>5, <1>13 DEF CodeAt
<1>16. CsrType' /\ CtxType' /\ csr'.mtvec = csr.mtvec
       /\ (csr.mtvec \/ (day = "2-1" /\ csr'.mode = csr.mode /\ csr'.MIE = csr.MIE))
  BY <1>1, <1>13, TypesKept DEF Inv, Types
<1>17. hist.disturbed \/ (ModeAt(day, pc', csr'.mode) /\ ~Switching(day, pc'))
  <2>1. ~Switching(day, pc')
    BY <1>5, PlaceIs DEF Switching
  <2> QED BY <1>1, <1>4, <1>5, <2>1 DEF ModeAt
<1>18. pc'[2] \in Stacks \cup {"sys_switch"}
  BY <1>5
<1> QED BY <1>1, <1>3, <1>5, <1>10, <1>14, <1>15, <1>16, <1>17, <1>18, JumpInv

\* The words that sys_switch loads are words of a context.
LEMMA LoadedWords ==
  ASSUME NEW d, NEW s, NEW l, SwitchCodeIs(d, s, l), NEW n \in 14 .. 15, Len(l) = n, NEW i \in 1 .. n
  PROVE  l[i][2] \in 0 .. 30
<1>1. l[1][2] = 0 /\ l[2][2] = 1
  BY DEF SwitchCodeIs
<1>2. \A j \in 3 .. n : l[j][2] \in 0 .. 30
  BY DEF SwitchCodeIs
<1>3. i = 1 \/ i = 2 \/ i \in 3 .. n
  OBVIOUS
<1>4. CASE i = 1
  BY <1>1, <1>4
<1>5. CASE i = 2
  BY <1>1, <1>5
<1> QED BY <1>2, <1>3, <1>4, <1>5

\* What an instruction of sys_switch needs to have done.
LEMMA SwitchedInv ==
  ASSUME Inv, pc[2] = "sys_switch", UNCHANGED <<day, csr, frame, hnd, dev, heap, cpu>>,
         hist' = [hist EXCEPT !.ran = TRUE], RegsType', CtxType',
         CodeAt(day, pc', regs', ctx', cpu),
         \/ pc' = Place("sys_switch", pc'[3]) \/ pc' = Place("task", 1) \/ pc' = Place("os", SwitchAt(day) + 1)
  PROVE  Inv'
<1>1. /\ day \in AllDays /\ pc = Place("sys_switch", pc[3]) /\ CodeAt(day, pc, regs, ctx, cpu)
      /\ (~hist.disturbed => ModeAt(day, pc, csr.mode))
  BY Running
<1>2. day \in TaskDays
  BY <1>1, PlaceIs DEF CodeAt, SwitchingAt
<1>3. day \notin HeapLoops /\ (day \in SModeDays => day = "6")
  BY <1>2 DEF TaskDays, HeapLoops, SModeDays
<1>4. csr.mtvec \/ day = "2-1"
  BY DEF Inv, VectorInv
<1>5. CsrType'
  BY TypesKept DEF Inv, Types
<1>6. pc'[1] = "pc" /\ pc'[2] \in Stacks \cup {"sys_switch"}
  BY PlaceIs DEF Stacks
<1>7. day = "6" /\ pc'[2] = "os" => pc'[3] = BootLen(day) + 6 /\ BootLen(day) \in Nat
  <2> SUFFICES ASSUME day = "6", pc'[2] = "os" PROVE pc'[3] = BootLen(day) + 6 /\ BootLen(day) \in Nat
    OBVIOUS
  <2>1. pc' = Place("os", SwitchAt(day) + 1)
    BY PlaceIs
  <2>2. pc'[3] = SwitchAt(day) + 1 /\ SwitchAt(day) = BootLen(day) + 5
    BY <2>1, PlaceIs DEF SwitchAt
  <2>3. BootLen(day) \in Nat
    BY <1>1, TextIs
  <2> QED BY <2>2, <2>3
<1>8. ~Switching(day, pc')
  <2> SUFFICES ASSUME day \in SModeDays, NEW i \in 2 .. 4, pc' = Place("os", BootLen(day) + i)
               PROVE  FALSE
    BY DEF Switching
  <2>1. pc'[2] = "os" /\ pc'[3] = BootLen(day) + i
    BY PlaceIs
  <2> QED BY <1>3, <1>7, <2>1
<1>9. ~hist.disturbed => ModeAt(day, pc', csr.mode)
  <2> SUFFICES ASSUME ~hist.disturbed PROVE ModeAt(day, pc', csr.mode)
    OBVIOUS
  <2>1. csr.mode \in {"M", "S"} /\ (csr.mode = "S" => day \in SModeDays)
    BY <1>1 DEF ModeAt
  <2>2. csr.mode = "S" /\ pc'[2] = "os" => pc'[3] >= BootLen(day) + 5
    BY <1>3, <1>7, <2>1
  <2> QED BY <2>1, <2>2 DEF ModeAt
<1>10. hist.disturbed \/ (ModeAt(day, pc', csr'.mode) /\ ~Switching(day, pc'))
  BY <1>8, <1>9
<1>11. csr'.mtvec = csr.mtvec /\ (csr.mtvec \/ (day = "2-1" /\ csr'.mode = csr.mode /\ csr'.MIE = csr.MIE))
  BY <1>4
<1> QED BY <1>3, <1>5, <1>6, <1>10, <1>11, JumpInv

\* Each instruction of sys_switch keeps it.
LEMMA SwitchStepInv ==
  ASSUME Inv, SwitchStep
  PROVE  Inv'
<1> DEFINE s == sys_switch(day).save
           l == sys_switch(day).load
           k == pc[3]
<1>1. /\ pc[2] = "sys_switch" /\ hist' = [hist EXCEPT !.ran = TRUE]
      /\ UNCHANGED <<day, csr, frame, hnd, dev, heap, cpu>>
      /\ \/ /\ k <= Len(s) /\ pc' = Place("sys_switch", k + 1) /\ UNCHANGED regs
            /\ ctx' = [ctx EXCEPT ![regs["a0"][2]][s[k][2]] = regs[s[k][1]]]
         \/ /\ k > Len(s) /\ k <= Len(s) + Len(l) /\ pc' = Place("sys_switch", k + 1) /\ UNCHANGED ctx
            /\ regs' = [regs EXCEPT ![l[k - Len(s)][1]] = ctx[regs["a1"][2]][l[k - Len(s)][2]]]
         \/ k > Len(s) + Len(l) /\ pc' = regs["ra"] /\ UNCHANGED <<regs, ctx>>
  BY DEF SwitchStep
<1>2. /\ day \in AllDays /\ pc = Place("sys_switch", pc[3]) /\ CodeAt(day, pc, regs, ctx, cpu)
      /\ DOMAIN regs = RegNames /\ \A r \in RegNames : regs[r][1] \in Values
  BY <1>1, Running
<1>3. SwitchingAt(day, k, regs, ctx, cpu) /\ day \in TaskDays /\ k \in 1 .. SwitchLast(day)
  BY <1>2, PlaceIs DEF CodeAt, SwitchingAt
<1>4. SwitchCodeIs(day, s, l)
  BY <1>3, Switches DEF SwitchCodeOK
<1>5. PICK n \in 14 .. 15 : Len(l) = n /\ SwitchLast(day) = n + 15
  BY <1>3, SwitchLength
<1>6. Len(s) = 14 /\ k \in 1 .. n + 15
  BY <1>3, <1>4, <1>5 DEF SwitchCodeIs
<1>7. /\ RegsType /\ CtxType /\ DOMAIN ctx = Stacks
      /\ \A o \in Stacks : DOMAIN ctx[o] = 0 .. 30 /\ \A w \in 0 .. 30 : ctx[o][w][1] \in Values
  BY DEF Inv, Types, CtxType
<1>8. CASE /\ k <= Len(s) /\ pc' = Place("sys_switch", k + 1) /\ UNCHANGED regs
           /\ ctx' = [ctx EXCEPT ![regs["a0"][2]][s[k][2]] = regs[s[k][1]]]
  <2>1. k \in 1 .. 14
    BY <1>6, <1>8
  <2>2. SwitchingAt(day, k + 1, regs, ctx', cpu)
    <3>1. \A o \in Stacks : DOMAIN ctx[o] = 0 .. 30
      BY <1>7
    <3> QED BY <1>2, <1>3, <1>7, <1>8, <2>1, <3>1, SwitchSave
  <2>3. CtxType'
    <3>1. regs[s[k][1]][1] \in Values
      <4>1. s[k][1] \in Regs
        BY <1>4, <2>1, SaveRegsAre DEF SwitchCodeIs
      <4> QED BY <1>2, <4>1 DEF RegNames
    <3>2. \A o \in Stacks : ctx'[o] = IF o = regs["a0"][2] THEN [ctx[o] EXCEPT ![s[k][2]] = regs[s[k][1]]] ELSE ctx[o]
      BY <1>7, <1>8
    <3>3. \A o \in Stacks : DOMAIN ctx'[o] = 0 .. 30
      BY <1>7, <3>2
    <3>4. \A o \in Stacks : \A w \in 0 .. 30 : ctx'[o][w] = ctx[o][w] \/ ctx'[o][w] = regs[s[k][1]]
      BY <1>7, <3>2
    <3>5. \A o \in Stacks : \A w \in 0 .. 30 : ctx'[o][w][1] \in Values
      BY <1>7, <3>1, <3>4
    <3>6. DOMAIN ctx' = Stacks
      BY <1>7, <1>8
    <3> QED BY <3>3, <3>5, <3>6 DEF CtxType
  <2>4. pc' = Place("sys_switch", pc'[3]) /\ pc'[3] = k + 1
    BY <1>8, PlaceIs
  <2>5. CodeAt(day, pc', regs', ctx', cpu)
    BY <1>8, <2>2, <2>4 DEF CodeAt
  <2>6. RegsType'
    BY <1>7, <1>8, TypesKept
  <2> QED BY <1>1, <2>3, <2>4, <2>5, <2>6, SwitchedInv
<1>9. CASE /\ k > Len(s) /\ k <= Len(s) + Len(l) /\ pc' = Place("sys_switch", k + 1) /\ UNCHANGED ctx
           /\ regs' = [regs EXCEPT ![l[k - Len(s)][1]] = ctx[regs["a1"][2]][l[k - Len(s)][2]]]
  <2>1. k \in Nat /\ k > 14 /\ k < n + 15 /\ k - 14 \in 1 .. n
    BY <1>5, <1>6, <1>9
  <2>2. k < SwitchLast(day)
    BY <1>5, <2>1
  <2> DEFINE x == l[k - 14]
  <2>3. regs' = [regs EXCEPT ![x[1]] = ctx[regs["a1"][2]][x[2]]]
    BY <1>6, <1>9
  <2>4. SwitchingAt(day, k + 1, regs', ctx, cpu)
    <3>1. DOMAIN regs = Regs \cup CSRs
      BY <1>2 DEF RegNames
    <3> QED BY <1>2, <1>3, <2>1, <2>2, <2>3, <3>1, SwitchLoad
  <2>5. pc' = Place("sys_switch", pc'[3]) /\ pc'[3] = k + 1
    BY <1>9, PlaceIs
  <2>6. CodeAt(day, pc', regs', ctx', cpu)
    BY <1>9, <2>4, <2>5 DEF CodeAt
  <2>7. RegsType'
    <3>1. x[2] \in 0 .. 30
      <4>1. Len(l) = n /\ k - 14 \in 1 .. n
        BY <1>5, <2>1
      <4> HIDE DEF s, l, k
      <4> QED BY <1>4, <4>1, LoadedWords
    <3>2. regs["a1"][2] \in Stacks
      <4>1. regs["a1"] = Context("task") \/ regs["a1"] = Context("os")
        BY <1>3 DEF SwitchingAt, Leaving, Returning
      <4> QED BY <4>1 DEF Context, Stacks
    <3>3. ctx[regs["a1"][2]][x[2]][1] \in Values
      BY <1>7, <3>1, <3>2
    <3> HIDE DEF x
    <3>4. DOMAIN regs' = RegNames /\ \A r \in RegNames : regs'[r] = regs[r] \/ regs'[r] = ctx[regs["a1"][2]][x[2]]
      BY <1>2, <2>3
    <3>5. \A r \in RegNames : regs'[r][1] \in Values
      BY <1>2, <3>3, <3>4
    <3>6. regs'["sp"] \in {Sp(o, m) : o \in Stacks, m \in 0 .. 1}
      <4>1. regs'["sp"] \in {Sp("os", 0), Sp("task", 0), Sp("task", 1)}
        BY <1>2, <2>4, SwitchStack
      <4>2. "os" \in Stacks /\ "task" \in Stacks /\ 0 \in 0 .. 1 /\ 1 \in 0 .. 1
        BY DEF Stacks
      <4> QED BY <4>1, <4>2
    <3> QED BY <3>4, <3>5, <3>6 DEF RegsType
  <2>8. CtxType'
    BY <1>7, <1>9, TypesKept
  <2> QED BY <1>1, <2>5, <2>6, <2>7, <2>8, SwitchedInv
<1>10. CASE k > Len(s) + Len(l) /\ pc' = regs["ra"] /\ UNCHANGED <<regs, ctx>>
  <2>1. k = SwitchLast(day)
    <3>1. k > 14 + n /\ k \in 1 .. n + 15
      BY <1>5, <1>6, <1>10
    <3>2. k = n + 15
      BY <3>1
    <3> QED BY <1>5, <3>2
  <2>2. \/ pc' = Place("task", 1) /\ TaskAt(day, 1, regs, ctx, cpu)
        \/ pc' = Place("os", SwitchAt(day) + 1) /\ OsAt(day, SwitchAt(day) + 1, regs, ctx, cpu)
    BY <1>2, <1>3, <1>10, <2>1, SwitchReturn
  <2>3. CodeAt(day, pc', regs', ctx', cpu)
    <3>1. CASE pc' = Place("task", 1) /\ TaskAt(day, 1, regs, ctx, cpu)
      <4>1. pc'[3] = 1
        BY <3>1, PlaceIs
      <4> QED BY <1>10, <3>1, <4>1 DEF CodeAt
    <3>2. CASE pc' = Place("os", SwitchAt(day) + 1) /\ OsAt(day, SwitchAt(day) + 1, regs, ctx, cpu)
      <4>1. pc'[3] = SwitchAt(day) + 1
        BY <3>2, PlaceIs
      <4> QED BY <1>10, <3>2, <4>1 DEF CodeAt
    <3> QED BY <2>2, <3>1, <3>2
  <2>4. RegsType' /\ CtxType'
    BY <1>7, <1>10, TypesKept
  <2> QED BY <1>1, <2>2, <2>3, <2>4, SwitchedInv
<1> QED BY <1>1, <1>8, <1>9, <1>10

----------------------------------------------------------------------------
(***************************************************************************)
(* The invariant, and the properties of the runs                           *)
(***************************************************************************)

\* Every step keeps the invariant.
LEMMA NextInv ==
  ASSUME Inv, [Next]_vars
  PROVE  Inv'
<1>1. CASE UNCHANGED vars
  <2>1. UNCHANGED <<day, pc, regs, csr, frame, ctx, hnd, dev, heap, cpu, hist>>
    BY <1>1 DEF vars
  <2>2. /\ CodeInv' /\ PlaceInv' /\ SavedInv' /\ CauseInv' /\ VectorInv' /\ ModeInv' /\ HeapInv'
        /\ RegsType' /\ CsrType' /\ FrameType' /\ CtxType' /\ HndType'
    BY <2>1, Untouched DEF InUse
  <2>3. DevType' /\ HistType'
    BY <2>1, TypesKept DEF Inv, Types
  <2>4. EchoInv'
    BY <2>1 DEF Inv, EchoInv, Again
  <2> QED BY <2>2, <2>3, <2>4 DEF Inv, Types
<1>2. CASE TakeInterrupt
  BY <1>2, TakeInterruptInv
<1>3. CASE Handling
  BY <1>3, SetTickInv, TickSwitchInv, TickFaultsInv, ClaimInv, StatusInv, ReadInv, DoSyscallInv,
     ExceptionInv, TrapReturnInv DEF Handling
<1>4. CASE Step
  BY <1>4, PlainInv, SetControlInv, SetUpDeviceInv, SetCpuProcInv, WriteMepcInv, MretInv, IllegalInv,
     SystemCallInv, CallSwitchInv, SwitchStepInv, RequestDiskInv, WaitDiskInv DEF Step
<1>5. CASE TimePasses
  BY <1>5, TimeInv
<1>6. CASE Type
  BY <1>6, TypeInv
<1>7. CASE DiskAnswers
  BY <1>7, DiskAnswersInv
<1> QED BY <1>1, <1>2, <1>3, <1>4, <1>5, <1>6, <1>7 DEF Next, Hart

\* The invariant holds in every state of every day of the course.
THEOREM Invariance == Spec => []Inv
<1>1. Init => Inv
  BY InitInv
<1>2. Inv /\ [Next]_vars => Inv'
  BY NextInv
<1> QED BY <1>1, <1>2, PTL DEF Spec

\* Every variable of a day keeps its type: registers, frames, contexts and devices.
THEOREM TypeCorrect == Spec => []TypeOK
<1>1. Inv => TypeOK
  <2> SUFFICES ASSUME Inv PROVE TypeOK
    OBVIOUS
  <2>1. day \in Days /\ pc[1] = "pc" /\ pc[2] \in Stacks \cup HandlerCode \cup {"sys_switch", "end"}
    BY DEF Inv, PlaceInv, Codes
  <2>2. \A r \in DOMAIN regs : regs[r][1] \in Values
    BY DEF Inv, Types, RegsType
  <2>3. regs["sp"][1] = "sp" /\ regs["sp"][2] \in Stacks /\ regs["sp"][3] \in 0 .. 1
    BY DEF Inv, Types, RegsType, Sp
  <2>4. csr.mode \in {"M", "S", "U"} /\ csr.mpp \in {"M", "S", "U"} /\ csr.mie \subseteq {"MEIE", "MTIE"}
    BY DEF Inv, Types, CsrType, Modes
  <2>5. \A o \in Stacks : \A w \in 0 .. FrameWords : frame[o][w][1] \in Values
    BY DEF Inv, Types, FrameType, FrameWords
  <2>6. /\ dev.timer \in {"off", "armed", "due"} /\ dev.rbr \in 0 .. MaxTyped /\ heap \subseteq {1}
        /\ dev.disk \in {"idle", "busy", "pending", "claimed"}
    BY DEF Inv, Types, DevType, HeapInv
  <2> QED BY <2>1, <2>2, <2>3, <2>4, <2>5, <2>6 DEF TypeOK
<1> QED BY <1>1, Invariance, PTL

\* Whatever interrupts and system calls come, code that runs outside sys_switch and the
\* handlers is on its own stack, and kernel_main() finds the registers a callee saves as
\* they were: sys_switch, reg_save and reg_load lose nothing.
THEOREM SwitchRight == Spec => []SwitchKeepsContext
<1>1. Inv => SwitchKeepsContext
  <2> SUFFICES ASSUME Inv, Ordinary
               PROVE  regs["sp"] = Sp(pc[2], 0) /\ (pc[2] = "os" => \A r \in Saved : regs[r] = Reg("os", r))
    BY DEF SwitchKeepsContext
  <2>1. CASE pc[2] = "os"
    BY <2>1, OpIs DEF OsAt, Own
  <2>2. CASE pc[2] = "task"
    BY <2>2, OpIs DEF TaskAt
  <2> QED BY <2>1, <2>2 DEF Ordinary, Stacks
<1> QED BY <1>1, Invariance, PTL

\* A machine only hangs when an interrupt came into the switch to S-mode, or on day 6
\* when the tick found no process; and never before mtvec is set.
THEOREM HangsRight == Spec => []HangsOnlyIfDisturbed
<1>1. Inv => HangsOnlyIfDisturbed
  <2> SUFFICES ASSUME Inv PROVE HangsOnlyIfDisturbed
    OBVIOUS
  <2>1. pc[2] \in HandlerCode => csr.mtvec
    BY DEF Inv, VectorInv
  <2>2. pc[2] = "hang" => hist.disturbed \/ (day = "6" /\ ~cpu /\ pc[3] = 7)
    BY DEF Inv, ModeInv
  <2> QED BY <2>1, <2>2 DEF HangsOnlyIfDisturbed
<1> QED BY <1>1, Invariance, PTL

\* external_handler() echoes what is typed in order, each character once, and all of it
\* as long as no character came between its two reads.
THEOREM EchoRight == Spec => []EchoedInOrder
<1>1. Inv => EchoedInOrder
  <2> SUFFICES ASSUME Inv PROVE EchoedInOrder
    OBVIOUS
  <2>1. Echoed(hist.typed, hist.echoed, dev.rbr, dev.dr, Again, hist.raced) /\ hist.echoed \in Seq(Nat)
    BY DEF Inv, EchoInv, Types, HistType
  <2>2. \A j, k \in DOMAIN hist.echoed : j < k => hist.echoed[j] < hist.echoed[k]
    BY <2>1 DEF Echoed
  <2>3. ASSUME ~hist.raced, Drains, ~InHandler("external_handler", "data_again")
        PROVE  Len(hist.echoed) + (IF dev.dr THEN 1 ELSE 0) = hist.typed
    <3>1. day \in AllDays
      BY DaysAssumption DEF Inv, PlaceInv
    <3> DEFINE t == OfDay(day).handler.external
    <3>2. \/ t = <<>> \/ t = <<"claim", "complete">> \/ t = <<"claim", "virtio_disk_intr", "complete">>
          \/ Draining(t)
      BY <3>1, Handlers
    <3>3. Draining(t)
      <4>1. ToSet(<<>>) = {}
        BY DEF ToSet
      <4>2. ToSet(<<"claim", "complete">>) = {"claim", "complete"}
        BY DEF ToSet
      <4>3. "status" \in ToSet(t)
        BY <2>3 DEF Drains
      <4>4. ToSet(<<"claim", "virtio_disk_intr", "complete">>) = {"claim", "virtio_disk_intr", "complete"}
        BY DEF ToSet
      <4> QED BY <3>2, <4>1, <4>2, <4>3, <4>4
    <3>4. ~Again
      <4> SUFFICES ASSUME Again PROVE FALSE
        OBVIOUS
      <4>1. pc[2] = "external_handler" /\ pc[3] = 4
        BY DEF Again
      <4>2. StepsOf("external_handler") = t
        BY DEF StepsOf
      <4>3. t[4] = "data_again"
        BY <3>3 DEF Draining
      <4> QED BY <2>3, <4>1, <4>2, <4>3 DEF InHandler
    <3>5. Len(hist.echoed) + (IF dev.dr THEN 1 ELSE 0) + (IF Again THEN 1 ELSE 0) = hist.typed
      BY <2>1, <2>3 DEF Echoed
    <3>6. (IF Again THEN 1 ELSE 0) = 0
      BY <3>4
    <3>7. Len(hist.echoed) \in Nat /\ (IF dev.dr THEN 1 ELSE 0) \in Nat
      BY <2>1
    <3>8. \A a, b \in Nat : \A t1 : a + b + 0 = t1 => a + b = t1
      OBVIOUS
    <3>9. Len(hist.echoed) + (IF dev.dr THEN 1 ELSE 0) + 0 = hist.typed
      BY <3>5, <3>6
    <3> QED BY <3>7, <3>8, <3>9
  <2> QED BY <2>2, <2>3 DEF EchoedInOrder
<1> QED BY <1>1, Invariance, PTL

\* From the last instruction of a handler only mret goes on.
LEMMA OnlyReturn ==
  ASSUME Inv, pc = Place("leave", 0), pc' # pc, Next
  PROVE  TrapReturn
<1>1. pc[2] = "leave"
  BY PlaceIs
<1>2. ~Ordinary /\ pc[2] \notin Stacks \cup {"sys_switch"}
  BY <1>1 DEF Ordinary, Stacks
<1>3. ~TakeInterrupt
  BY <1>2 DEF TakeInterrupt, Interruptible
<1>4. ~TimePasses /\ ~Type /\ ~DiskAnswers
  BY DEF TimePasses, Type, DiskAnswers
<1>5. ~Step
  <2>1. \A op : ~Doing(op)
    BY <1>2 DEF Doing
  <2>2. ~SwitchStep /\ ~Illegal
    BY <1>1, <1>2 DEF SwitchStep, Illegal
  <2> QED BY <2>1, <2>2 DEF Step, Plain, SetVector, EnableInterrupts, EnableSources, SetUpDevice, SetCpuProc, RequestDisk, WaitDisk,
                            WriteMepc, ReadMstatus, WriteMstatus, Mret, SystemCall, CallSwitch
<1>6. \A op : ~InHandler("timer_handler", op) /\ ~InHandler("external_handler", op)
  BY <1>1 DEF InHandler
<1>7. pc # Place("do_syscall", 0) /\ pc # Place("exception", 0)
  BY <1>1, PlaceIs
<1>8. Handling => TrapReturn
  BY <1>6, <1>7 DEF Handling, SetTick, TickSwitch, TickFaults, Claim, NoCharacter, HasCharacter, ReadData,
                    ReadAgain, VirtioDiskIntr, Complete, DoSyscall, Exception
<1> QED BY <1>3, <1>4, <1>5, <1>8 DEF Next, Hart

\* An interrupt is invisible: mret leads back to the interrupted place, mode and registers,
\* and a system call changes no more than a0 and the place.
THEOREM Invisible == Spec => InterruptInvisible
<1> DEFINE Unseen == (pc = Place("leave", 0) /\ pc' # pc) =>
        /\ hnd.cause \notin {8, 9, 11} => pc' = hist.pc
        /\ hnd.cause \in {8, 9, 11} => pc' = Following(hist.pc)
        /\ csr'.mode = hist.mode
        /\ \A r \in Regs \cup {"satp"} :
             regs'[r] = hist.regs[r] \/ (r = "a0" /\ hnd.cause = 11)
        /\ hnd.cause = 11 => regs'.a0 \in {Number(0)} \cup {<<"block", "", n>> : n \in heap}
        /\ frame'[regs'.sp[2]][FrameWords] = IF day = "6" THEN hist.pc ELSE hist.word
<1>1. ASSUME Inv, [Next]_vars
      PROVE  [Unseen]_vars
  <2> SUFFICES ASSUME pc = Place("leave", 0), pc' # pc
               PROVE  Unseen
    OBVIOUS
  <2>1. Next
    BY <1>1 DEF vars
  <2>2. TrapReturn
    BY <1>1, <2>1, OnlyReturn
  <2> QED BY <1>1, <2>2, TrapReturnInvisible
<1>2. Inv /\ [Next]_vars => [Unseen]_vars
  BY <1>1
<1> QED BY <1>2, Invariance, PTL DEF Spec, InterruptInvisible

============================================================================
