---------------------------- MODULE DraftRegister ----------------------------
(***************************************************************************)
(* What the draft store promises to the browsers that share it: a table of *)
(* drafts in which each mutation happens at once or not at all, and counts *)
(* the draft's revision up by one.                                         *)
(*                                                                         *)
(* A mutation whose answer is an error has not happened, with one          *)
(* exception: it may come to light when the host restarts, if no later     *)
(* mutation has replaced it.  `doubt` holds the table of such a mutation.  *)
(***************************************************************************)
EXTENDS Naturals

CONSTANTS Drafts, NoDraft

VARIABLES drafts,           \* draft -> its record, or NoDraft
          doubt             \* tables that a restart may bring to light

Init == drafts = [d \in Drafts |-> NoDraft] /\ doubt = {}

\* One mutation turns table t into table u: a draft appears at revision 1,
\* changes and counts up, or disappears.
Mutation(t, u) ==
    \E d \in Drafts :
        /\ \A e \in Drafts \ {d} : u[e] = t[e]
        /\ \/ t[d] = NoDraft /\ u[d] # NoDraft /\ u[d].revision = 1
           \/ t[d] # NoDraft /\ u[d] # NoDraft /\ u[d].revision = t[d].revision + 1
           \/ t[d] # NoDraft /\ u[d] = NoDraft

\* A mutation is acknowledged.
Acknowledge == Mutation(drafts, drafts') /\ doubt' = {}

\* A mutation is under way or has failed after it reached the disk.
Waver == UNCHANGED drafts /\ \E u \in doubt' : doubt' = {u} /\ Mutation(drafts, u)

\* The host restarts from the disk.
Recover == drafts' \in {drafts} \union doubt /\ doubt' = {}

Next == Acknowledge \/ Waver \/ Recover

Spec == Init /\ [][Next]_<<drafts, doubt>>
=============================================================================
