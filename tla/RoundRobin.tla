----------------------------- MODULE RoundRobin -----------------------------
(***************************************************************************)
(* What the scheduler promises once all processes are loaded: the kernel   *)
(* gives the hart to one process at a time, gets it back from that process *)
(* and gives it to the process that follows in the table.                  *)
(***************************************************************************)
EXTENDS Integers

CONSTANT N       \* the processes are 1 .. N

VARIABLES
  running,       \* the process that has the hart, 0 when the kernel has it
  turn           \* the process that gets it next

After(p) == (p % N) + 1

Init == running = 0 /\ turn = 1

Dispatch ==
  /\ running = 0
  /\ running' = turn
  /\ turn' = After(turn)

TakeBack ==
  /\ running # 0
  /\ running' = 0
  /\ UNCHANGED turn

Next == Dispatch \/ TakeBack

Spec == Init /\ [][Next]_<<running, turn>>
=============================================================================
