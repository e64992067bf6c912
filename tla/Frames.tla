------------------------------- MODULE Frames -------------------------------
(***************************************************************************)
(* The macros of sys.s, snapshot by snapshot: which register is stored in  *)
(* or loaded from which word of a context or of a trap frame.  Word w is   *)
(* at offset 8 * w.                                                        *)
(***************************************************************************)
EXTENDS Integers, Sequences, SequencesExt

\* The registers in the order of struct context from day 3-2 on, which is also
\* the order of a trap frame.
InOrder ==
  <<"ra", "sp", "gp", "tp", "t0", "t1", "t2", "s0", "s1",
    "a0", "a1", "a2", "a3", "a4", "a5", "a6", "a7",
    "s2", "s3", "s4", "s5", "s6", "s7", "s8", "s9", "s10", "s11",
    "t3", "t4", "t5", "t6">>

Regs == ToSet(InOrder)

\* What a called function leaves as it was, besides sp.
Saved == {"s0", "s1", "s2", "s3", "s4", "s5", "s6", "s7", "s8", "s9", "s10", "s11"}

SaveRegs == <<"ra", "sp", "s0", "s1", "s2", "s3", "s4", "s5", "s6", "s7", "s8",
              "s9", "s10", "s11">>

\* The word of a register in a frame.
WordOf == [r \in Regs |-> (CHOOSE k \in 1 .. Len(InOrder) : InOrder[k] = r) - 1]

\* The stores or loads of a context, one after the other: pairs <<register, word>>.
Packed(rs)  == [k \in 1 .. Len(rs) |-> <<rs[k], k - 1>>]
InFrame(rs) == [k \in 1 .. Len(rs) |-> <<rs[k], WordOf[rs[k]]>>]

-----------------------------------------------------------------------------
\* ctx_save and ctx_load.  The short struct context of days 2 is packed; later
\* a context has the shape of a frame, and a0 is loaded but never saved.
ctx_save21 == Packed(SaveRegs)
ctx_load21 == Packed(SaveRegs)
ctx_save22 == Packed(SaveRegs)
ctx_load22 == Packed(SaveRegs)

\* Variant: s1 is stored over s0.
ctx_save6Overlap == [InFrame(SaveRegs) EXCEPT ![4] = <<"s1", 7>>]
ctx_save6  == InFrame(SaveRegs)
ctx_load6  == InFrame(<<"ra", "sp", "s0", "s1", "a0">> \o SubSeq(SaveRegs, 5, 14))

\* reg_save and reg_load.  The frame has FrameWords words below the stack pointer
\* of the code that is interrupted.  reg_save puts a register into each word, and
\* reg_load takes all but tp, "in case we moved CPUs", from where they are.  Day 6
\* adds satp and mepc.
FrameWords == 32

reg_save22 == [w \in 0 .. 30 |-> InOrder[w + 1]]
reg_load22 == [r \in Regs \ {"tp"} |-> WordOf[r]]
\* Variant: t6 is left out.
reg_save23Short == [w \in 0 .. 29 |-> InOrder[w + 1]]
reg_save23 == reg_save22
reg_load23 == reg_load22
reg_save31 == reg_save22
reg_load31 == reg_load22
reg_save32 == reg_save22
reg_load32 == reg_load22
reg_save33 == reg_save22
reg_load33 == reg_load22
reg_save4  == reg_save22
reg_load4  == reg_load22
reg_save51 == reg_save22
reg_load51 == reg_load22
reg_save52 == reg_save22
reg_load52 == reg_load22
reg_save53 == reg_save22
reg_load53 == reg_load22
reg_save54 == reg_save22
reg_load54 == reg_load22
reg_save6  == [w \in 0 .. 32 |-> (InOrder \o <<"satp", "mepc">>)[w + 1]]
reg_load6  == [r \in (Regs \ {"tp"}) \cup {"satp", "mepc"} |->
                 CASE r = "satp" -> 31 [] r = "mepc" -> 32 [] OTHER -> WordOf[r]]

-----------------------------------------------------------------------------
\* The words that a list of stores leaves on top of what was there, and the
\* registers that a list of loads leaves.
Store(save, regs, words) ==
  [w \in DOMAIN words |-> IF w \in DOMAIN save THEN regs[save[w]] ELSE words[w]]

Load(load, words, regs) ==
  [r \in DOMAIN regs |-> IF r \in DOMAIN load THEN words[load[r]] ELSE regs[r]]
=============================================================================
