--------------------------- MODULE SlotMutexProofs ---------------------------
(***************************************************************************)
(* Proofs about SlotMutex, for every set of clients and every bound on the *)
(* calls: the chain of promises excludes, its counter counts, and it       *)
(* implements the line of LeaseQueue.                                      *)
(***************************************************************************)
EXTENDS SlotMutex, FiniteSetTheorems, TLAPS

\* The promises are resolved in the order of the chain: the resolved ones are
\* 0 .. Served.
ResolvedInOrder ==
    /\ Served \in 0 .. tail
    /\ resolved = 0 .. Served

\* A client that is waiting or holding has a promise of its own, unresolved.
OwnPromise ==
    \A c \in Client :
        Inside(c) => /\ ticket[c] \in 1 .. tail
                     /\ callers[ticket[c]] = c
                     /\ ticket[c] \notin resolved

\* A holder's predecessor has resolved its promise.
HolderIsNext == \A c \in Client : pc[c] = "holding" => ticket[c] = Served + 1

IInv == TypeOK /\ ResolvedInOrder /\ OwnPromise /\ HolderIsNext

------------------------------------------------------------------------------

\* If the promises up to n are the resolved ones, n have been served.
LEMMA ServedIs ==
    ASSUME NEW t \in Nat, NEW n \in 0 .. t
    PROVE  ServedOf(0 .. n, t) = n
<1>1. 0 .. n \subseteq 0 .. n /\ n + 1 \notin 0 .. n
    OBVIOUS
<1>2. ASSUME NEW k \in 0 .. t, 0 .. k \subseteq 0 .. n, k + 1 \notin 0 .. n PROVE k = n
    BY <1>2
<1> QED BY <1>1, <1>2 DEF ServedOf

\* The resolved promise of the constructor: nothing has been served.
LEMMA InitInv == Init => IInv
<1> SUFFICES ASSUME Init PROVE IInv
    OBVIOUS
<1>1. callers \in Seq(Client) /\ Len(callers) = 0
    BY DEF Init
<1>2. TypeOK
    BY <1>1 DEF Init, TypeOK
<1>3. resolved = 0 .. 0 /\ Served = 0
  <2>1. resolved = 0 .. 0 /\ tail = 0
      BY <1>1 DEF Init, tail
  <2>2. ServedOf(0 .. 0, 0) = 0
      BY ServedIs
  <2> QED BY <2>1, <2>2 DEF Served
<1>4. ResolvedInOrder
    BY <1>1, <1>3 DEF Init, ResolvedInOrder, Served, tail
<1>5. OwnPromise /\ HolderIsNext
    BY DEF Init, OwnPromise, HolderIsNext, Inside
<1> QED BY <1>2, <1>4, <1>5 DEF IInv

\* Appending to the chain keeps the promises that are in it.
LEMMA AppendKeeps ==
    ASSUME NEW S, NEW s \in Seq(S), NEW e \in S
    PROVE  /\ Append(s, e) \in Seq(S)
           /\ Len(Append(s, e)) = Len(s) + 1
           /\ \A i \in 1 .. Len(s) : Append(s, e)[i] = s[i]
           /\ Append(s, e)[Len(s) + 1] = e
OBVIOUS

\* The first release of a holder resolves the promise after the last one that
\* has been resolved.
LEMMA ReleaseServes ==
    ASSUME IInv, NEW c \in Client, Release(c)
    PROVE  /\ ticket[c] = Served + 1 /\ ticket[c] \in 1 .. tail
           /\ UNCHANGED <<ticket, callers>> /\ tail' = tail
           /\ resolved' = resolved \union {Served + 1}
           /\ Served' = Served + 1
<1>1. ticket[c] = Served + 1 /\ ticket[c] \in 1 .. tail /\ ticket[c] \notin resolved
    BY DEF IInv, Release, HolderIsNext, OwnPromise, Inside
<1>2. UNCHANGED <<ticket, callers>> /\ tail' = tail /\ resolved' = resolved \union {Served + 1}
    BY <1>1 DEF Release, tail
<1>3. tail \in Nat /\ Served \in Nat /\ resolved' = 0 .. (Served + 1)
    BY <1>1, <1>2 DEF IInv, ResolvedInOrder, TypeOK, tail
<1>4. Served' = Served + 1
  <2>1. ServedOf(0 .. (Served + 1), tail) = Served + 1
      BY <1>1, <1>3, ServedIs
  <2>2. Served' = ServedOf(resolved', tail')
      BY DEF Served
  <2> QED BY <1>2, <1>3, <2>1, <2>2
<1> QED BY <1>1, <1>2, <1>3, <1>4

\* Every operation of the lease preserves the invariant.
LEMMA NextInv == IInv /\ [Next]_vars => IInv'
<1> SUFFICES ASSUME IInv, [Next]_vars PROVE IInv'
    OBVIOUS
<1> USE DEF IInv
<1>0. Len(callers) \in Nat /\ Served \in Nat
    BY DEF TypeOK, ResolvedInOrder, tail
<1>1. ASSUME NEW c \in Client, Acquire(c) PROVE IInv'
  <2>1. callers' = Append(callers, c) /\ tail' = tail + 1 /\ resolved' = resolved
      BY <1>1, AppendKeeps DEF Acquire, tail, TypeOK
  <2>2. callers' \in Seq(Client)
      BY <2>1, AppendKeeps DEF TypeOK
  <2>3. Served' = Served
      BY <1>0, <2>1, ServedIs DEF Served, ResolvedInOrder, tail
  <2>4. TypeOK'
      BY <1>0, <1>1, <2>2 DEF Acquire, TypeOK, tail
  <2>5. ResolvedInOrder'
      BY <1>0, <2>1, <2>3 DEF ResolvedInOrder, tail
  <2>6. ASSUME NEW d \in Client, Inside(d)'
        PROVE  /\ ticket'[d] \in 1 .. tail'
               /\ callers'[ticket'[d]] = d
               /\ ticket'[d] \notin resolved'
    <3>1. CASE d = c
        BY <1>0, <1>1, <2>1, <3>1, AppendKeeps DEF Acquire, ResolvedInOrder, TypeOK, tail
    <3>2. CASE d # c
      <4>1. Inside(d) /\ ticket'[d] = ticket[d]
          BY <1>1, <2>6, <3>2 DEF Acquire, Inside, TypeOK
      <4>2. callers'[ticket[d]] = callers[ticket[d]]
          BY <4>1, <2>1, AppendKeeps DEF OwnPromise, TypeOK, tail
      <4> QED BY <1>0, <2>1, <4>1, <4>2 DEF OwnPromise, tail
    <3> QED BY <3>1, <3>2
  <2>7. HolderIsNext'
      BY <1>1, <2>3 DEF HolderIsNext, Acquire, TypeOK
  <2> QED BY <2>4, <2>5, <2>6, <2>7 DEF OwnPromise
<1>2. ASSUME NEW c \in Client, Granted(c) PROVE IInv'
  <2>1. UNCHANGED <<ticket, callers, resolved, depth>> /\ Served' = Served /\ tail' = tail
      BY <1>2 DEF Granted, Served, tail
  <2>2. TypeOK'
      BY <1>2 DEF Granted, TypeOK
  <2>3. ticket[c] = Served + 1
      BY <1>0, <1>2 DEF Granted, Awaited, OwnPromise, ResolvedInOrder, Inside, TypeOK, tail
  <2>4. \A d \in Client : Inside(d)' => Inside(d)
      BY <1>2 DEF Granted, Inside, TypeOK
  <2>5. ResolvedInOrder' /\ OwnPromise'
      BY <2>1, <2>4 DEF ResolvedInOrder, OwnPromise
  <2>6. HolderIsNext'
      BY <1>2, <2>1, <2>3 DEF Granted, HolderIsNext, TypeOK
  <2> QED BY <2>2, <2>5, <2>6
<1>3. ASSUME NEW c \in Client, Release(c) PROVE IInv'
  <2>1. /\ ticket[c] = Served + 1 /\ ticket[c] \in 1 .. tail
        /\ UNCHANGED <<ticket, callers>> /\ tail' = tail
        /\ resolved' = resolved \union {Served + 1}
        /\ Served' = Served + 1
      BY <1>3, ReleaseServes
  <2>5. TypeOK'
    <3>1. pc' \in [Client -> {"out", "awaiting", "holding"}] /\ depth' \in Nat
        BY <1>3 DEF Release, TypeOK
    <3>2. callers' \in Seq(Client) /\ ticket' \in [Client -> Nat]
        BY <2>1 DEF TypeOK
    <3>3. resolved' \subseteq Nat
        BY <1>0, <2>1 DEF TypeOK
    <3> QED BY <3>1, <3>2, <3>3 DEF TypeOK
  <2>6. ResolvedInOrder'
      BY <1>0, <2>1 DEF ResolvedInOrder, tail
  <2>7. ASSUME NEW d \in Client, Inside(d)' PROVE Inside(d) /\ d # c
      BY <1>3, <2>7 DEF Release, Inside, TypeOK
  <2>8. OwnPromise'
      BY <2>1, <2>7, <1>3 DEF OwnPromise, Inside, Release
  <2>9. \A d \in Client : pc'[d] # "holding"
    <3> SUFFICES ASSUME NEW d \in Client, pc'[d] = "holding" PROVE FALSE
        OBVIOUS
    <3>1. d # c /\ pc[d] = "holding"
        BY <1>3 DEF Release, TypeOK
    <3>2. ticket[d] = ticket[c] /\ callers[ticket[d]] = d /\ callers[ticket[c]] = c
        BY <1>3, <2>1, <3>1 DEF HolderIsNext, OwnPromise, Inside, Release
    <3> QED BY <3>1, <3>2
  <2> QED BY <2>5, <2>6, <2>8, <2>9 DEF HolderIsNext
<1>4. ASSUME NEW c \in Client, ReleaseAgain(c) PROVE IInv'
  <2>1. UNCHANGED vars
      BY <1>4 DEF ReleaseAgain
  <2> QED BY <2>1 DEF vars, TypeOK, ResolvedInOrder, OwnPromise, HolderIsNext, Inside, Served, tail
<1>5. CASE UNCHANGED vars
    BY <1>5 DEF vars, TypeOK, ResolvedInOrder, OwnPromise, HolderIsNext, Inside, Served, tail
<1> QED BY <1>1, <1>2, <1>3, <1>4, <1>5 DEF Next

\* The chain of SlotMutex.acquire keeps the inductive invariant.
THEOREM Invariance == Spec => []IInv
<1>1. Init => IInv
    BY InitInv
<1>2. IInv /\ [Next]_vars => IInv'
    BY NextInv
<1> QED BY <1>1, <1>2, PTL DEF Spec

\* Every value of the chain and the counter has its type.
THEOREM TypeCorrect == Spec => []TypeOK
<1>1. IInv => TypeOK
    BY DEF IInv
<1> QED BY <1>1, Invariance, PTL

\* Two callers of SlotMutex.acquire never hold the slot together, however many
\* call and in whatever order they release.
THEOREM Exclusion == Spec => []MutualExclusion
<1>1. IInv => MutualExclusion
  <2> SUFFICES ASSUME IInv, NEW c \in Client, NEW d \in Client,
                      pc[c] = "holding", pc[d] = "holding"
               PROVE  c = d
      BY DEF MutualExclusion
  <2>1. ticket[c] = ticket[d]
      BY DEF IInv, HolderIsNext
  <2>2. callers[ticket[c]] = c /\ callers[ticket[d]] = d
      BY DEF IInv, OwnPromise, Inside
  <2> QED BY <2>1, <2>2
<1> QED BY <1>1, Invariance, PTL

------------------------------------------------------------------------------
(* The counter.                                                            *)

InsideClients == {c \in Client : Inside(c)}

CounterInv ==
    /\ pc \in [Client -> {"out", "awaiting", "holding"}]
    /\ IsFiniteSet(InsideClients)
    /\ depth = Cardinality(InsideClients)

\* acquire() counts a caller in, its first release counts it out, a repeated
\* release counts nothing.
LEMMA CounterInvariance == Spec => []CounterInv
<1>1. Init => CounterInv
  <2> SUFFICES ASSUME Init PROVE CounterInv
      OBVIOUS
  <2>1. InsideClients = {}
      BY DEF Init, InsideClients, Inside
  <2> QED BY <2>1, FS_EmptySet DEF Init, CounterInv
<1>2. CounterInv /\ [Next]_vars => CounterInv'
  <2> SUFFICES ASSUME CounterInv, [Next]_vars PROVE CounterInv'
      OBVIOUS
  <2>0. Cardinality(InsideClients) \in Nat
      BY FS_CardinalityType DEF CounterInv
  <2>1. ASSUME NEW c \in Client, Acquire(c) PROVE CounterInv'
    <3>1. InsideClients' = InsideClients \union {c} /\ c \notin InsideClients
        BY <2>1 DEF Acquire, InsideClients, Inside, CounterInv
    <3>2. /\ IsFiniteSet(InsideClients')
          /\ Cardinality(InsideClients') = Cardinality(InsideClients) + 1
        BY <3>1, FS_AddElement DEF CounterInv
    <3>3. pc' \in [Client -> {"out", "awaiting", "holding"}]
        BY <2>1 DEF Acquire, CounterInv
    <3> QED BY <2>1, <3>2, <3>3 DEF Acquire, CounterInv
  <2>2. ASSUME NEW c \in Client, Granted(c) PROVE CounterInv'
    <3>1. InsideClients' = InsideClients
        BY <2>2 DEF Granted, InsideClients, Inside, CounterInv
    <3> QED BY <2>2, <3>1 DEF Granted, CounterInv
  <2>3. ASSUME NEW c \in Client, Release(c) PROVE CounterInv'
    <3>1. InsideClients' = InsideClients \ {c} /\ c \in InsideClients
        BY <2>3 DEF Release, InsideClients, Inside, CounterInv
    <3>2. /\ IsFiniteSet(InsideClients')
          /\ Cardinality(InsideClients') = Cardinality(InsideClients) - 1
        BY <3>1, FS_RemoveElement DEF CounterInv
    <3>3. Cardinality(InsideClients') \in Nat
        BY <3>2, FS_CardinalityType
    <3>4. depth > 0 /\ depth' = depth - 1
        BY <2>0, <2>3, <3>2, <3>3 DEF Release, CounterInv
    <3>5. pc' \in [Client -> {"out", "awaiting", "holding"}]
        BY <2>3 DEF Release, CounterInv
    <3> QED BY <3>2, <3>4, <3>5 DEF CounterInv
  <2>4. ASSUME UNCHANGED vars PROVE CounterInv'
    <3>1. InsideClients' = InsideClients
        BY <2>4 DEF vars, InsideClients, Inside
    <3> QED BY <2>4, <3>1 DEF vars, CounterInv
  <2>5. ASSUME NEW c \in Client, ReleaseAgain(c) PROVE CounterInv'
    <3>1. UNCHANGED vars
        BY <2>5 DEF ReleaseAgain
    <3> QED BY <2>4, <3>1
  <2> QED BY <2>1, <2>2, <2>3, <2>4, <2>5 DEF Next
<1> QED BY <1>1, <1>2, PTL DEF Spec

\* `held` and the counter behind it tell how many leases are queued or
\* running, for any number of callers.
THEOREM CounterIsExact == Spec => []DepthCountsLeases
<1>1. CounterInv => DepthCountsLeases
  <2> SUFFICES ASSUME CounterInv PROVE DepthCountsLeases
      OBVIOUS
  <2>1. depth = Cardinality({c \in Client : Inside(c)})
      BY DEF CounterInv, InsideClients
  <2>2. CASE InsideClients = {}
    <3>1. depth = 0
        BY <2>2, FS_EmptySet DEF CounterInv
    <3> QED BY <2>1, <2>2, <3>1 DEF DepthCountsLeases, InsideClients
  <2>3. CASE InsideClients # {}
    <3>1. depth \in Nat /\ depth # 0
        BY <2>3, FS_CardinalityType, FS_EmptySet DEF CounterInv
    <3> QED BY <2>1, <2>3, <3>1 DEF DepthCountsLeases, InsideClients
  <2> QED BY <2>2, <2>3
<1> QED BY <1>1, CounterInvariance, PTL

------------------------------------------------------------------------------
(* The refinement of the line.                                             *)

\* The clients that are waiting or holding, in the order they came.
waiting == SubSeq(callers, Served + 1, tail)

\* The promise chain is a first-in first-out line: calls of acquire() join at
\* the back, and only the resolution of the front promise removes anybody.
THEOREM Refinement == Spec => ImplementsLine
<1>1. Init => Line!Init
  <2> SUFFICES ASSUME Init PROVE waiting = << >>
      BY DEF Line!Init, waiting
  <2>1. callers = <<>> /\ Len(callers) = 0
      BY DEF Init
  <2>2. Served = 0
      BY InitInv DEF IInv, ResolvedInOrder, Init, tail
  <2> QED BY <2>1, <2>2 DEF waiting, tail
<1>2. IInv /\ [Next]_vars => [Line!Next]_waiting
  <2> SUFFICES ASSUME IInv, [Next]_vars PROVE [Line!Next]_waiting
      OBVIOUS
  <2>0. /\ callers \in Seq(Client) /\ tail \in Nat
        /\ Served \in Nat /\ Served <= tail
        /\ Len(waiting) = tail - Served
        /\ \A i \in 1 .. tail - Served : waiting[i] = callers[Served + i]
      BY DEF IInv, TypeOK, ResolvedInOrder, tail, waiting
  <2>1. ASSUME NEW c \in Client, Acquire(c) PROVE Line!Join
    <3>1. callers' = Append(callers, c) /\ tail' = tail + 1 /\ resolved' = resolved
        BY <2>0, <2>1, AppendKeeps DEF Acquire, tail
    <3>0. Served' = Served
        BY <2>0, <3>1, ServedIs DEF Served, IInv, ResolvedInOrder
    <3>2. /\ Len(waiting') = Len(waiting) + 1
          /\ \A i \in 1 .. Len(waiting) : waiting'[i] = waiting[i]
        BY <2>0, <3>0, <3>1 DEF waiting, tail
    <3>3. waiting \in Seq(Client) /\ waiting' \in Seq(Client)
        BY <2>0, <3>0, <3>1 DEF waiting, tail
    <3>4. SubSeq(waiting', 1, Len(waiting)) = waiting
        BY <3>2, <3>3
    <3> QED BY <3>2, <3>4 DEF Line!Join, waiting
  <2>2. ASSUME NEW c \in Client, Release(c) PROVE Line!Leave
    <3>1. Served' = Served + 1 /\ UNCHANGED callers /\ Served < tail
        BY <2>0, <2>2, ReleaseServes
    <3>2. waiting # <<>>
        BY <2>0, <3>1
    <3>3. waiting' = Tail(waiting)
        BY <2>0, <3>1 DEF waiting, tail
    <3> QED BY <3>2, <3>3 DEF Line!Leave, waiting
  <2>3. ASSUME UNCHANGED vars PROVE UNCHANGED waiting
      BY <2>3 DEF vars, waiting, Served, tail
  <2>4. ASSUME NEW c \in Client, Granted(c) PROVE UNCHANGED waiting
      BY <2>4 DEF Granted, waiting, Served, tail
  <2>5. ASSUME NEW c \in Client, ReleaseAgain(c) PROVE UNCHANGED waiting
      BY <2>3, <2>5 DEF ReleaseAgain
  <2> QED BY <2>1, <2>2, <2>3, <2>4, <2>5 DEF Next, Line!Next
<1>3. Line!Spec <=> Line!Init /\ [][Line!Next]_waiting
    BY DEF Line!Spec, waiting
<1> QED BY <1>1, <1>2, <1>3, Invariance, PTL DEF Spec, ImplementsLine
=============================================================================
