------------------------------ MODULE SlotMutex ------------------------------
(***************************************************************************)
(* The lease of dsh-kv-persist/src/coordinator/slot-lease.ts: a mutex made *)
(* of a chain of promises.  Every call of acquire() creates a promise,     *)
(* makes it the new tail and awaits the previous tail; the function it     *)
(* returns resolves the caller's own promise, once.                        *)
(*                                                                         *)
(* A promise is a ticket number, its position in the chain.  Ticket 0 is   *)
(* the resolved promise the constructor starts from, so the promise that   *)
(* the caller of ticket t awaits is t - 1.                                 *)
(***************************************************************************)
EXTENDS Naturals, Sequences, FiniteSets

CONSTANTS Client,           \* who calls acquire(), one call at a time each
          MaxTickets        \* bound: calls of acquire() in a behaviour

ASSUME MaxTicketsNat == MaxTickets \in Nat

VARIABLES pc,               \* client -> where it is in acquire/release
          ticket,           \* client -> its promise, 0 before the first call
          callers,          \* callers[t]: the client that created promise t
          resolved,         \* the promises that have been resolved
          depth             \* the diagnostic counter behind `held`

vars == <<pc, ticket, callers, resolved, depth>>

\* The promise at the end of the chain.
tail == Len(callers)

Init == /\ pc = [c \in Client |-> "out"]
        /\ ticket = [c \in Client |-> 0]
        /\ callers = <<>>
        /\ resolved = {0}
        /\ depth = 0

------------------------------------------------------------------------------
(* The operations.                                                         *)

\* Mutant: everybody awaits the promise the constructor made.
AwaitedFirst(c) == 0

\* The promise acquire() awaits: the tail it found.
Awaited(c) == ticket[c] - 1

\* acquire(), up to `await previous`.
Acquire(c) ==
    /\ pc[c] = "out"
    /\ tail < MaxTickets
    /\ depth' = depth + 1
    /\ callers' = Append(callers, c)
    /\ ticket' = [ticket EXCEPT ![c] = tail + 1]
    /\ pc' = [pc EXCEPT ![c] = "awaiting"]
    /\ UNCHANGED resolved

\* The awaited promise is resolved: acquire() returns the release function.
Granted(c) ==
    /\ pc[c] = "awaiting"
    /\ Awaited(c) \in resolved
    /\ pc' = [pc EXCEPT ![c] = "holding"]
    /\ UNCHANGED <<ticket, callers, resolved, depth>>

\* Mutant: the caller leaves without resolving its promise.
ReleaseUnresolved(c) ==
    /\ pc[c] = "holding"
    /\ depth' = IF depth > 0 THEN depth - 1 ELSE 0
    /\ pc' = [pc EXCEPT ![c] = "out"]
    /\ UNCHANGED <<ticket, callers, resolved>>

\* The release function, called for the first time.
Release(c) ==
    /\ pc[c] = "holding"
    /\ depth' = IF depth > 0 THEN depth - 1 ELSE 0
    /\ resolved' = resolved \union {ticket[c]}
    /\ pc' = [pc EXCEPT ![c] = "out"]
    /\ UNCHANGED <<ticket, callers>>

\* The release function called again by a caller that has already left (the
\* catch of a request whose stream wrapper released first): nothing happens.
ReleaseAgain(c) ==
    /\ pc[c] = "out"
    /\ ticket[c] # 0
    /\ UNCHANGED vars

Next == \E c \in Client : Acquire(c) \/ Granted(c) \/ Release(c) \/ ReleaseAgain(c)

\* A resolved promise wakes whoever awaits it, and a holder lets go: the
\* second is the contract in the coordinator's comment on its returned stream.
Fairness == \A c \in Client : WF_vars(Granted(c)) /\ WF_vars(Release(c))

Spec == Init /\ [][Next]_vars

FairSpec == Spec /\ Fairness

------------------------------------------------------------------------------
(* Invariants.                                                             *)

TypeOK ==
    /\ pc \in [Client -> {"out", "awaiting", "holding"}]
    /\ ticket \in [Client -> Nat]
    /\ callers \in Seq(Client)
    /\ resolved \subseteq Nat
    /\ depth \in Nat

\* A client with a promise that it has not resolved.
Inside(c) == pc[c] # "out"

\* Two clients never hold the lease together ("No two operations may
\* concurrently mutate the same physical slot", slot-lease.ts:4).
MutualExclusion ==
    \A c, d \in Client : pc[c] = "holding" /\ pc[d] = "holding" => c = d

\* `held` tells the truth: the counter is the number of leases queued or
\* running, however often a release function is called.
DepthCountsLeases ==
    /\ depth = Cardinality({c \in Client : Inside(c)})
    /\ (depth > 0) <=> \E c \in Client : Inside(c)

\* Everybody that calls acquire() gets the lease if holders let go: no promise
\* of the chain is lost, so no caller behind it waits forever.
EveryCallerIsServed ==
    \A c \in Client : (pc[c] = "awaiting") ~> (pc[c] = "holding")

------------------------------------------------------------------------------
(* The chain implements the line of LeaseQueue.                            *)

\* In a chain of t promises of which r are resolved, how many are resolved in
\* a row from the start.
ServedOf(r, t) == CHOOSE n \in 0 .. t : 0 .. n \subseteq r /\ n + 1 \notin r

Served == ServedOf(resolved, tail)

Line == INSTANCE LeaseQueue WITH line <- SubSeq(callers, Served + 1, tail)

\* Calls are served in the order of arrival, one at a time.
ImplementsLine == Line!Spec
=============================================================================
