----------------------------- MODULE LeaseQueue -----------------------------
(***************************************************************************)
(* What a slot lease promises to its users: operations enter one line, the *)
(* operation at the front holds the lease, nobody overtakes, and only the  *)
(* front leaves.  dsh-kv-persist/src/coordinator/slot-lease.ts says it in  *)
(* its doc comment: "every lease starts only after all previously queued   *)
(* leases finished".                                                       *)
(*                                                                         *)
(* SlotMutex implements this line with a chain of promises, and            *)
(* KvCoordinator runs every slot operation inside it; both state so with   *)
(* an INSTANCE of this module.                                             *)
(***************************************************************************)
EXTENDS Naturals, Sequences

VARIABLE line               \* the operations in it, the holder first

Init == line = <<>>

\* An operation joins behind everybody in the line.
Join == Len(line') = Len(line) + 1 /\ SubSeq(line', 1, Len(line)) = line

\* The holder gives the lease back; the next operation, if any, holds it.
Leave == line # <<>> /\ line' = Tail(line)

Next == Join \/ Leave

Spec == Init /\ [][Next]_line

\* The process that keeps the line dies, and the line with it.
Vanish == line' = <<>>

MortalSpec == Init /\ [][Next \/ Vanish]_line
=============================================================================
