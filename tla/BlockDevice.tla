---------------------------- MODULE BlockDevice ----------------------------
(***************************************************************************)
(* What bread() and bwrite() promise to their callers: each call takes     *)
(* effect on the disk at one instant between its start and its end, and    *)
(* reports whether it took effect.  A read that succeeds leaves in the     *)
(* caller's memory what the disk held at that instant; a call that fails   *)
(* changes neither the disk nor the caller's memory.                       *)
(***************************************************************************)
CONSTANTS
  Threads,    \* callers
  BlockNos,   \* blocks of the disk
  Block0,     \* the block an idle caller is shown to name
  Values      \* what a block can hold

VARIABLES
  store,      \* contents of the disk
  client      \* for each caller: its call, its memory and the latest result

Clients ==
  [st : {"idle", "pending", "done"}, write : BOOLEAN, blockno : BlockNos,
   mem : Values, ok : BOOLEAN]

Init ==
  /\ store \in [BlockNos -> Values]
  /\ client \in [Threads -> {c \in Clients : c.st = "idle"}]

InvokeRead(t, n) ==
  /\ client[t].st = "idle"
  /\ client' = [client EXCEPT ![t] =
       [st |-> "pending", write |-> FALSE, blockno |-> n, mem |-> @.mem, ok |-> FALSE]]
  /\ UNCHANGED store

InvokeWrite(t, n, v) ==
  /\ client[t].st = "idle"
  /\ client' = [client EXCEPT ![t] =
       [st |-> "pending", write |-> TRUE, blockno |-> n, mem |-> v, ok |-> FALSE]]
  /\ UNCHANGED store

\* The call ends with the block m in the caller's memory and the result r.
Finish(t, m, r) ==
  client' = [client EXCEPT ![t] =
    [st |-> "done", write |-> @.write, blockno |-> @.blockno, mem |-> m, ok |-> r]]

PerformRead(t) ==
  /\ client[t].st = "pending" /\ ~client[t].write
  /\ Finish(t, store[client[t].blockno], TRUE)
  /\ UNCHANGED store

PerformWrite(t) ==
  /\ client[t].st = "pending" /\ client[t].write
  /\ store' = [store EXCEPT ![client[t].blockno] = client[t].mem]
  /\ Finish(t, client[t].mem, TRUE)

Fail(t) ==
  /\ client[t].st = "pending"
  /\ Finish(t, client[t].mem, FALSE)
  /\ UNCHANGED store

Respond(t) ==
  /\ client[t].st = "done"
  /\ client' = [client EXCEPT ![t] =
       [st |-> "idle", write |-> FALSE, blockno |-> Block0, mem |-> @.mem, ok |-> @.ok]]
  /\ UNCHANGED store

Next ==
  \E t \in Threads :
    \/ \E n \in BlockNos : InvokeRead(t, n)
    \/ \E n \in BlockNos, v \in Values : InvokeWrite(t, n, v)
    \/ PerformRead(t) \/ PerformWrite(t) \/ Fail(t) \/ Respond(t)

Spec == Init /\ [][Next]_<<store, client>>
=============================================================================
