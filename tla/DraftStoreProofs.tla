--------------------------- MODULE DraftStoreProofs ---------------------------
(***************************************************************************)
(* Proofs about DraftStore, for any drafts, browsers' calls, failures and  *)
(* restarts: a revision names one content, what was shown is durable, what *)
(* was deleted stays so, no workspace exceeds its limit, and the store is  *)
(* the register of DraftRegister.                                          *)
(***************************************************************************)
EXTENDS DraftStore, FiniteSetTheorems, SequenceTheorems, TLAPS

Operations ==
    [kind : {"list"}]
    \union [kind : {"create"}, workspace : Workspaces, text : Texts,
            shell : Shells \union {NoShell}]
    \union [kind : {"update"}, draft : Drafts, expected : Nat, text : Texts]
    \union [kind : {"rebind"}, draft : Drafts, expected : Nat,
            shell : Shells \union {NoShell}]
    \union [kind : {"delete"}, draft : Drafts, expected : Nat]

QueueInv ==
    /\ queue \in Seq(Operations)
    /\ \A i \in 1 .. Len(queue) :
          queue[i].kind = "delete" => queue[i].draft \in deleting

\* Table u is table t after one mutation of draft d: a draft that was never
\* shown appears, one counts up, or one that somebody asked to delete is gone.
Follows(t, u, d) ==
    /\ \A e \in Drafts \ {d} : u[e] = t[e]
    /\ \/ /\ t[d] = NoDraft /\ u[d] # NoDraft /\ u[d].revision = 1
          /\ d \notin deleted /\ \A s \in seen : s.draft # d
       \/ t[d] # NoDraft /\ u[d] # NoDraft /\ u[d].revision = t[d].revision + 1
       \/ t[d] # NoDraft /\ u[d] = NoDraft /\ d \in deleting

\* Table t has what was shown, or what came after it.
Covered(t) ==
    \A s \in seen :
        \/ t[s.draft] = NoDraft /\ s.draft \in deleting
        \/ t[s.draft] # NoDraft /\ t[s.draft].revision > s.record.revision
        \/ t[s.draft] = s.record

\* A head past its first await works on a table that follows the one in memory.
HeadInv ==
    phase # "load" =>
        /\ memory \in Tables /\ queue # <<>> /\ target \in used
        /\ Follows(memory, next, target)
        /\ phase = "unlink" => file = next

\* The file is the table, or one mutation ahead of it.
DiskInv == file = Table \/ \E d \in used : Follows(Table, file, d)

UsedInv ==
    /\ \A s \in seen : s.draft \in used
    /\ \A d \in Drafts \ used : Table[d] = NoDraft
    /\ deleted \subseteq used

IInv ==
    /\ TypeOK /\ QueueInv /\ HeadInv /\ DiskInv /\ UsedInv
    /\ Covered(Table) /\ RevisionNamesContent /\ DeletedIsGone

------------------------------------------------------------------------------
(* The helpers.                                                            *)

\* A queue of calls without its head is one.
LEMMA TailKeeps ==
    ASSUME NEW S, NEW q \in Seq(S), q # <<>>
    PROVE  /\ Head(q) \in S /\ Tail(q) \in Seq(S)
           /\ Len(q) >= 1 /\ Head(q) = q[1]
           /\ Len(Tail(q)) = Len(q) - 1
           /\ \A i \in 1 .. Len(Tail(q)) : Tail(q)[i] = q[i + 1]
OBVIOUS

\* A queue of calls with one more is one.
LEMMA AppendKeeps ==
    ASSUME NEW S, NEW q \in Seq(S), NEW e \in S
    PROVE  /\ Append(q, e) \in Seq(S) /\ Append(q, e) # <<>>
           /\ Len(Append(q, e)) = Len(q) + 1
           /\ \A i \in 1 .. Len(q) : Append(q, e)[i] = q[i]
           /\ Append(q, e)[Len(q) + 1] = e
OBVIOUS

\* The empty table is a table, and callers are answered from one.
LEMMA TableTypes == TypeOK => Empty \in Tables /\ Table \in Tables
BY DEF TypeOK, Empty, Tables, Table

\* The head that settles leaves a queue of calls, and no mutation.
LEMMA SettleKeeps ==
    ASSUME QueueInv, Settle, queue # <<>>, UNCHANGED deleting
    PROVE  QueueInv' /\ phase' = "load" /\ target' = NoDraft /\ next' \in Tables
<1>1. /\ Tail(queue) \in Seq(Operations) /\ Len(queue) \in Nat
      /\ Len(Tail(queue)) = Len(queue) - 1
      /\ \A i \in 1 .. Len(Tail(queue)) : Tail(queue)[i] = queue[i + 1]
    BY TailKeeps DEF QueueInv
<1>2. queue' = Tail(queue) /\ next' = Empty
    BY DEF Settle
<1>3. ASSUME NEW i \in 1 .. Len(queue'), queue'[i].kind = "delete"
      PROVE  queue'[i].draft \in deleting'
  <2>1. i + 1 \in 1 .. Len(queue) /\ queue'[i] = queue[i + 1]
      BY <1>1, <1>2
  <2> QED BY <1>3, <2>1 DEF QueueInv
<1>4. QueueInv'
    BY <1>1, <1>2, <1>3 DEF QueueInv
<1> QED BY <1>2, <1>4 DEF Settle, Empty, Tables

\* What was shown is still there, or superseded, after one more mutation.
LEMMA FollowsCovers ==
    ASSUME seen \subseteq [draft : Drafts, record : Records],
           NEW t \in Tables, NEW u \in Tables, NEW d \in Drafts,
           Covered(t), Follows(t, u, d)
    PROVE  Covered(u)
<1> SUFFICES ASSUME NEW s \in seen
             PROVE  \/ u[s.draft] = NoDraft /\ s.draft \in deleting
                    \/ u[s.draft] # NoDraft /\ u[s.draft].revision > s.record.revision
                    \/ u[s.draft] = s.record
    BY DEF Covered
<1>1. s.draft \in Drafts /\ s.record \in Records
    OBVIOUS
<1>2. \/ t[s.draft] = NoDraft /\ s.draft \in deleting
      \/ t[s.draft] # NoDraft /\ t[s.draft].revision > s.record.revision
      \/ t[s.draft] = s.record
    BY DEF Covered
<1>3. CASE s.draft # d
    BY <1>1, <1>2, <1>3 DEF Follows
<1>4. CASE s.draft = d /\ t[d] # NoDraft /\ u[d] # NoDraft
  <2>1. t[d] \in Records /\ u[d].revision = t[d].revision + 1
      BY <1>4 DEF Follows, Tables
  <2>2. t[d].revision \in Nat /\ s.record.revision \in Nat
      BY <1>1, <2>1 DEF Records
  <2> QED BY <1>2, <1>4, <2>1, <2>2
<1>5. CASE s.draft = d /\ (t[d] = NoDraft \/ u[d] = NoDraft)
    BY <1>5 DEF Follows
<1> QED BY <1>3, <1>4, <1>5

\* A record with the next revision is a record.
LEMMA AdvancedKeeps ==
    ASSUME NEW r \in Records
    PROVE  Advanced(r) \in Records /\ Advanced(r).revision = r.revision + 1
BY DEF Records, Advanced

\* A record with another text is a record, of the same revision.
LEMMA TextKeeps ==
    ASSUME NEW r \in Records, NEW x \in Texts
    PROVE  /\ [r EXCEPT !.text = x] \in Records
           /\ [r EXCEPT !.text = x].revision = r.revision
BY DEF Records

\* A record with another shell is a record, of the same revision.
LEMMA ShellKeeps ==
    ASSUME NEW r \in Records, NEW s \in Shells \union {NoShell}
    PROVE  /\ [r EXCEPT !.shell = s] \in Records
           /\ [r EXCEPT !.shell = s].revision = r.revision
BY DEF Records

\* The mutation that the head computes: a table that follows the one it was
\* computed from.
LEMMA OutcomeFollows ==
    ASSUME TypeOK, QueueInv, UsedInv, queue # <<>>, Covered(Table),
           NEW d \in Targets(Table, Running)
    PROVE  /\ d \in Drafts
           /\ [Table EXCEPT ![d] = Outcome(Table, Running, d)] \in Tables
           /\ Follows(Table, [Table EXCEPT ![d] = Outcome(Table, Running, d)], d)
<1> DEFINE u == [Table EXCEPT ![d] = Outcome(Table, Running, d)]
<1>1. Running \in Operations /\ Running = queue[1] /\ Len(queue) >= 1
    BY TailKeeps DEF QueueInv, Running
<1>2. Table \in Tables
    BY TableTypes
<1>3. ASSUME Outcome(Table, Running, d) \in Records \union {NoDraft}, d \in Drafts
      PROVE  /\ u \in Tables /\ u[d] = Outcome(Table, Running, d)
             /\ \A e \in Drafts \ {d} : u[e] = Table[e]
    BY <1>2, <1>3 DEF Tables
<1>4. CASE Running.kind = "create"
  <2>1. d \in Drafts \ used
      BY <1>4 DEF Targets
  <2>2. /\ Running.workspace \in Workspaces /\ Running.text \in Texts
        /\ Running.shell \in Shells \union {NoShell}
      BY <1>1, <1>4 DEF Operations
  <2>3. Outcome(Table, Running, d) \in Records /\ Outcome(Table, Running, d).revision = 1
      BY <1>4, <2>2 DEF Outcome, Records
  <2>4. Table[d] = NoDraft /\ d \notin deleted /\ \A s \in seen : s.draft # d
      BY <2>1 DEF UsedInv
  <2>5. u[d] # NoDraft
      BY <1>3, <2>1, <2>3, ConstantsAssumption
  <2> QED BY <1>3, <2>1, <2>3, <2>4, <2>5 DEF Follows
<1>5. CASE Running.kind \in {"update", "rebind", "delete"}
  <2>1. d = Running.draft /\ Current(Table, Running)
      BY <1>5 DEF Targets
  <2>2. d \in Drafts /\ Table[d] # NoDraft
      BY <2>1 DEF Current, Existing
  <2>3. Table[d] \in Records /\ Table[d].revision \in Nat
      BY <1>2, <2>2 DEF Tables, Records
  <2>4. CASE Running.kind = "update"
    <3>1. Running.text \in Texts
        BY <1>1, <2>4 DEF Operations
    <3>2. /\ Outcome(Table, Running, d) \in Records
          /\ Outcome(Table, Running, d).revision = Table[d].revision + 1
      <4>1. Outcome(Table, Running, d)
                = Advanced([Table[d] EXCEPT !.text = Running.text])
          BY <2>4 DEF Outcome
      <4>2. /\ [Table[d] EXCEPT !.text = Running.text] \in Records
            /\ [Table[d] EXCEPT !.text = Running.text].revision = Table[d].revision
          BY <2>3, <3>1, TextKeeps
      <4> QED BY <4>1, <4>2, AdvancedKeeps
    <3> QED BY <1>3, <2>2, <3>2, ConstantsAssumption DEF Follows
  <2>5. CASE Running.kind = "rebind"
    <3>1. Running.shell \in Shells \union {NoShell}
        BY <1>1, <2>5 DEF Operations
    <3>2. /\ Outcome(Table, Running, d) \in Records
          /\ Outcome(Table, Running, d).revision = Table[d].revision + 1
      <4>1. Outcome(Table, Running, d)
                = Advanced([Table[d] EXCEPT !.shell = Running.shell])
          BY <2>5 DEF Outcome, Rebound
      <4>2. /\ [Table[d] EXCEPT !.shell = Running.shell] \in Records
            /\ [Table[d] EXCEPT !.shell = Running.shell].revision = Table[d].revision
          BY <2>3, <3>1, ShellKeeps
      <4> QED BY <4>1, <4>2, AdvancedKeeps
    <3> QED BY <1>3, <2>2, <3>2, ConstantsAssumption DEF Follows
  <2>6. CASE Running.kind = "delete"
    <3>1. Outcome(Table, Running, d) = NoDraft /\ d \in deleting
        BY <1>1, <2>1, <2>6 DEF Outcome, QueueInv
    <3> QED BY <1>3, <2>2, <3>1 DEF Follows
  <2> QED BY <1>5, <2>4, <2>5, <2>6
<1> QED BY <1>4, <1>5 DEF Targets

\* A head past its first await: the table callers are answered from is the one
\* in memory, and what was deleted stays so in the table it is about to commit.
LEMMA HeadFacts ==
    ASSUME IInv, phase # "load"
    PROVE  /\ memory \in Tables /\ Table = memory /\ queue # <<>>
           /\ target \in Drafts /\ target \in used /\ next \in Tables
           /\ Follows(Table, next, target) /\ Covered(next)
           /\ \A d \in deleted : d # target /\ next[d] = NoDraft
<1>1. /\ memory \in Tables /\ queue # <<>> /\ target \in used
      /\ Follows(memory, next, target)
    BY DEF IInv, HeadInv
<1>2. Table = memory
    BY <1>1, ConstantsAssumption DEF Table
<1>3. target \in Drafts /\ next \in Tables /\ deleted \subseteq Drafts
    BY <1>1 DEF IInv, TypeOK
<1>4. Covered(next)
    BY <1>1, <1>2, <1>3, FollowsCovers DEF IInv, TypeOK
<1>5. \A d \in deleted : d # target /\ next[d] = NoDraft
    BY <1>1, <1>2, <1>3 DEF IInv, DeletedIsGone, Follows
<1> QED BY <1>1, <1>2, <1>3, <1>4, <1>5

\* What an answer shows of a table that covers what was shown before.
LEMMA ShowKeeps ==
    ASSUME seen \subseteq [draft : Drafts, record : Records], RevisionNamesContent,
           NEW t \in Tables, Covered(t), NEW D \in SUBSET Existing(t),
           seen' = seen \union {Show(d, t[d]) : d \in D},
           UNCHANGED deleting
    PROVE  /\ seen' \subseteq [draft : Drafts, record : Records]
           /\ RevisionNamesContent'
           /\ \A s \in seen' :
                 \/ t[s.draft] = NoDraft /\ s.draft \in deleting
                 \/ t[s.draft] # NoDraft /\ t[s.draft].revision > s.record.revision
                 \/ t[s.draft] = s.record
<1>1. ASSUME NEW d \in D
      PROVE  /\ d \in Drafts /\ t[d] \in Records /\ t[d] # NoDraft
             /\ Show(d, t[d]) = [draft |-> d, record |-> t[d]]
    BY DEF Existing, Tables, Show
<1>2. ASSUME NEW a \in seen, NEW d \in D, a.draft = d, a.record.revision = t[d].revision
      PROVE  a = [draft |-> d, record |-> t[d]]
  <2>1. a.record \in Records /\ a = [draft |-> a.draft, record |-> a.record]
      OBVIOUS
  <2>2. t[d].revision \in Nat /\ a.record.revision \in Nat
      BY <1>1, <2>1 DEF Records
  <2>3. \/ t[d] = NoDraft
        \/ t[d].revision > a.record.revision
        \/ t[d] = a.record
      BY <1>2 DEF Covered
  <2>4. ~(t[d].revision > a.record.revision)
      BY <1>2, <2>2
  <2>5. t[d] = a.record
      BY <1>1, <2>3, <2>4
  <2> QED BY <1>2, <2>1, <2>5
<1>3. seen' \subseteq [draft : Drafts, record : Records]
  <2>1. ASSUME NEW d \in D
        PROVE  Show(d, t[d]) \in [draft : Drafts, record : Records]
    <3>1. d \in Drafts /\ t[d] \in Records
        BY <1>1
    <3> QED BY <3>1 DEF Show
  <2> QED BY <2>1
<1>4. ASSUME NEW a \in seen', NEW b \in seen',
             a.draft = b.draft, a.record.revision = b.record.revision
      PROVE  a = b
  <2>1. a \in seen \/ \E d \in D : a = [draft |-> d, record |-> t[d]]
      BY <1>1
  <2>2. b \in seen \/ \E d \in D : b = [draft |-> d, record |-> t[d]]
      BY <1>1
  <2>3. CASE a \in seen /\ b \in seen
      BY <1>4, <2>3 DEF RevisionNamesContent
  <2>4. CASE a \in seen /\ b \notin seen
      BY <1>2, <1>4, <2>2, <2>4
  <2>5. CASE a \notin seen /\ b \in seen
      BY <1>2, <1>4, <2>1, <2>5
  <2>6. CASE a \notin seen /\ b \notin seen
      BY <1>4, <2>1, <2>2, <2>6
  <2> QED BY <2>3, <2>4, <2>5, <2>6
<1>5. \A s \in seen' :
        \/ t[s.draft] = NoDraft /\ s.draft \in deleting
        \/ t[s.draft] # NoDraft /\ t[s.draft].revision > s.record.revision
        \/ t[s.draft] = s.record
  <2> TAKE s \in seen'
  <2>1. CASE s \in seen
      BY <2>1 DEF Covered
  <2>2. CASE \E d \in D : s = [draft |-> d, record |-> t[d]]
      BY <2>2
  <2> QED BY <1>1, <2>1, <2>2
<1>6. RevisionNamesContent'
    BY <1>4 DEF RevisionNamesContent
<1> QED BY <1>3, <1>5, <1>6

------------------------------------------------------------------------------
(* The inductive invariant, action by action.                              *)

\* At the start the store is empty and nothing was shown.
LEMMA InitHolds == Init => IInv
<1> SUFFICES ASSUME Init PROVE IInv
    OBVIOUS
<1>1. Empty \in Tables /\ \A d \in Drafts : Empty[d] = NoDraft
    BY DEF Empty, Tables
<1>2. Table = Empty
    BY DEF Init, Table
<1>3. TypeOK
    BY <1>1 DEF Init, TypeOK
<1>4. QueueInv
    BY DEF Init, QueueInv
<1> QED BY <1>1, <1>2, <1>3, <1>4
    DEF Init, IInv, HeadInv, DiskInv, UsedInv, Covered, RevisionNamesContent, DeletedIsGone

\* A call is appended: only a deletion adds to what the properties speak of.
LEMMA CallKeeps ==
    ASSUME IInv, NEW r \in Operations, Call(r),
           r.kind = "delete" => r.draft \in Drafts
    PROVE  IInv'
<1>1. /\ queue' = Append(queue, r) /\ calls' = calls + 1
      /\ UNCHANGED <<memory, file, phase, target, next, used, seen, deleted,
                     faults, restarts>>
    BY DEF Call
<1>2. /\ deleting \subseteq deleting' /\ deleting' \subseteq Drafts
      /\ r.kind = "delete" => r.draft \in deleting'
    BY DEF Call, IInv, TypeOK
<1>3. TypeOK'
    BY <1>1, <1>2 DEF IInv, TypeOK
<1>4. QueueInv'
  <2>1. /\ queue' \in Seq(Operations) /\ Len(queue') = Len(queue) + 1
        /\ Len(queue) \in Nat
        /\ \A i \in 1 .. Len(queue) : queue'[i] = queue[i]
        /\ queue'[Len(queue) + 1] = r
      BY <1>1, AppendKeeps DEF IInv, QueueInv
  <2>2. ASSUME NEW i \in 1 .. Len(queue'), queue'[i].kind = "delete"
        PROVE  queue'[i].draft \in deleting'
    <3>1. CASE i \in 1 .. Len(queue)
        BY <1>2, <2>1, <2>2, <3>1 DEF IInv, QueueInv
    <3>2. CASE i = Len(queue) + 1
        BY <1>2, <2>1, <2>2, <3>2
    <3> QED BY <2>1, <3>1, <3>2
  <2> QED BY <2>1, <2>2 DEF QueueInv
<1>5. queue' # <<>>
    BY <1>1, AppendKeeps DEF IInv, QueueInv
<1>6. Table' = Table
    BY <1>1 DEF Table
<1>7. HeadInv' /\ DiskInv'
    BY <1>1, <1>2, <1>5, <1>6 DEF IInv, HeadInv, DiskInv, Follows
<1>8. UsedInv' /\ Covered(Table)' /\ RevisionNamesContent' /\ DeletedIsGone'
    BY <1>1, <1>2, <1>6
    DEF IInv, UsedInv, Covered, RevisionNamesContent, DeletedIsGone
<1> QED BY <1>3, <1>4, <1>7, <1>8 DEF IInv

\* Every call that a browser may make keeps the invariant.
LEMMA ArrivalKeeps ==
    ASSUME IInv, Arrival PROVE IInv'
<1>1. \A e \in seen : e.draft \in Drafts /\ e.record.revision \in Nat
    BY DEF IInv, TypeOK, Records
<1>2. CASE Call([kind |-> "list"])
    BY <1>2, CallKeeps DEF Operations
<1>3. CASE \E w \in Workspaces, x \in Texts, s \in Shells \union {NoShell} :
             Call(Creation(w, x, s))
  <2>1. PICK w \in Workspaces, x \in Texts, s \in Shells \union {NoShell} :
             Call(Creation(w, x, s))
      BY <1>3
  <2>2. Creation(w, x, s) \in Operations /\ Creation(w, x, s).kind # "delete"
      BY DEF Creation, Operations
  <2> QED BY <2>1, <2>2, CallKeeps
<1>4. CASE \E e \in seen, x \in Texts : Call(Update(e.draft, e.record.revision, x))
  <2>1. PICK e \in seen, x \in Texts : Call(Update(e.draft, e.record.revision, x))
      BY <1>4
  <2>2. /\ Update(e.draft, e.record.revision, x) \in Operations
        /\ Update(e.draft, e.record.revision, x).kind # "delete"
      BY <1>1 DEF Update, Operations
  <2> QED BY <2>1, <2>2, CallKeeps
<1>5. CASE \E e \in seen, s \in Shells \union {NoShell} :
             Call(Rebinding(e.draft, e.record.revision, s))
  <2>1. PICK e \in seen, s \in Shells \union {NoShell} :
             Call(Rebinding(e.draft, e.record.revision, s))
      BY <1>5
  <2>2. /\ Rebinding(e.draft, e.record.revision, s) \in Operations
        /\ Rebinding(e.draft, e.record.revision, s).kind # "delete"
      BY <1>1 DEF Rebinding, Operations
  <2> QED BY <2>1, <2>2, CallKeeps
<1>6. CASE \E e \in seen : \E n \in {0, e.record.revision} : Call(Deletion(e.draft, n))
  <2>1. PICK e \in seen : \E n \in {0, e.record.revision} : Call(Deletion(e.draft, n))
      BY <1>6
  <2>2. PICK n \in {0, e.record.revision} : Call(Deletion(e.draft, n))
      BY <2>1
  <2>3. n \in Nat /\ e.draft \in Drafts
      BY <1>1
  <2>4. Deletion(e.draft, n) \in Operations /\ Deletion(e.draft, n).draft \in Drafts
      BY <2>3 DEF Deletion, Operations
  <2> QED BY <2>2, <2>4, CallKeeps
<1> QED BY <1>2, <1>3, <1>4, <1>5, <1>6 DEF Arrival

\* The table is loaded, which changes no answer; the head is answered, rejected,
\* or has a mutation in hand.
LEMMA BeginKeeps ==
    ASSUME IInv, Begin PROVE IInv' /\ Table' = Table /\ file' = file
<1>1. /\ memory' = Table /\ queue # <<>> /\ phase = "load"
      /\ UNCHANGED <<file, deleting, deleted, boundVars>>
    BY DEF Begin, Table
<1>2. Table \in Tables /\ Table' = Table
    BY <1>1, TableTypes, ConstantsAssumption DEF IInv, Table
<1>3. CASE \E d \in Targets(Table, Running) :
            /\ target' = d
            /\ next' = [Table EXCEPT ![d] = Outcome(Table, Running, d)]
            /\ used' = used \union {d}
            /\ phase' = "write"
            /\ UNCHANGED <<queue, seen>>
  <2>1. PICK d \in Targets(Table, Running) :
            /\ target' = d
            /\ next' = [Table EXCEPT ![d] = Outcome(Table, Running, d)]
            /\ used' = used \union {d}
            /\ phase' = "write"
            /\ UNCHANGED <<queue, seen>>
      BY <1>3
  <2>2. d \in Drafts /\ next' \in Tables /\ Follows(Table, next', d)
      BY <1>1, <2>1, OutcomeFollows DEF IInv
  <2>3. TypeOK'
      BY <1>1, <1>2, <2>1, <2>2 DEF IInv, TypeOK, boundVars
  <2>4. QueueInv'
      BY <1>1, <2>1 DEF IInv, QueueInv
  <2>5. Follows(memory, next, target)'
      BY <1>1, <2>1, <2>2 DEF Follows
  <2>6. HeadInv'
      BY <1>1, <1>2, <2>1, <2>5 DEF HeadInv
  <2>7. DiskInv' /\ UsedInv'
      BY <1>1, <1>2, <2>1 DEF IInv, DiskInv, UsedInv, Follows
  <2>8. Covered(Table)' /\ RevisionNamesContent' /\ DeletedIsGone'
      BY <1>1, <1>2, <2>1 DEF IInv, Covered, RevisionNamesContent, DeletedIsGone
  <2> QED BY <1>1, <1>2, <2>3, <2>4, <2>6, <2>7, <2>8 DEF IInv
<1>4. CASE Settle /\ UNCHANGED used
           /\ \/ seen' = seen \union {Show(d, Table[d]) : d \in Existing(Table)}
              \/ UNCHANGED seen
  <2>1. QueueInv' /\ phase' = "load" /\ target' = NoDraft /\ next' \in Tables
      BY <1>1, <1>4, SettleKeeps DEF IInv
  <2>2. PICK D \in SUBSET Existing(Table) :
            seen' = seen \union {Show(d, Table[d]) : d \in D}
    <3>1. CASE seen' = seen \union {Show(d, Table[d]) : d \in Existing(Table)}
        BY <3>1
    <3>2. CASE UNCHANGED seen
      <4>1. seen' = seen \union {Show(d, Table[d]) : d \in {}}
          BY <3>2
      <4> QED BY <4>1
    <3> QED BY <1>4, <3>1, <3>2
  <2>3. /\ seen' \subseteq [draft : Drafts, record : Records]
        /\ RevisionNamesContent'
        /\ \A s \in seen' :
              \/ Table[s.draft] = NoDraft /\ s.draft \in deleting
              \/ /\ Table[s.draft] # NoDraft
                 /\ Table[s.draft].revision > s.record.revision
              \/ Table[s.draft] = s.record
      BY <1>1, <1>2, <2>2, ShowKeeps DEF IInv, TypeOK
  <2>4. Covered(Table)'
      BY <1>1, <1>2, <2>3 DEF Covered
  <2>5. \A s \in seen' : s \in seen \/ s.draft \in Existing(Table)
      BY <2>2 DEF Show
  <2>6. UsedInv'
      BY <1>1, <1>2, <1>4, <2>5 DEF IInv, UsedInv, Existing
  <2>7. DiskInv'
    <3>1. CASE file = Table
        BY <1>1, <1>2, <3>1 DEF DiskInv
    <3>2. ASSUME NEW d \in used, Follows(Table, file, d)
          PROVE  Follows(Table, file, d)'
      <4>1. Table[d] = NoDraft => \A s \in seen' : s \in seen \/ s.draft # d
          BY <2>5 DEF Existing
      <4> QED BY <1>1, <1>2, <3>2, <4>1 DEF Follows
    <3> QED BY <1>1, <1>2, <1>4, <3>1, <3>2 DEF IInv, DiskInv
  <2>8. TypeOK'
      BY <1>1, <1>2, <1>4, <2>1, <2>3 DEF IInv, TypeOK, boundVars
  <2>9. HeadInv' /\ DeletedIsGone'
      BY <1>1, <1>2, <2>1 DEF IInv, HeadInv, DeletedIsGone
  <2> QED BY <1>1, <1>2, <2>1, <2>3, <2>4, <2>6, <2>7, <2>8, <2>9 DEF IInv
<1> QED BY <1>3, <1>4 DEF Begin, SettleWithError, Table

\* The head fails: nothing changes but that it settles.
LEMMA FailKeeps ==
    ASSUME IInv, LoadFails \/ CommitFails
    PROVE  IInv' /\ Table' = Table /\ file' = file
<1>1. /\ Fault /\ Settle
      /\ UNCHANGED <<memory, file, used, historyVars, calls, restarts>>
    BY DEF LoadFails, CommitFails, SettleWithError
<1>2. queue # <<>>
    BY DEF LoadFails, CommitFails, IInv, HeadInv
<1>3. QueueInv' /\ phase' = "load" /\ target' = NoDraft /\ next' \in Tables
    BY <1>1, <1>2, SettleKeeps DEF IInv, historyVars
<1>4. Table' = Table
    BY <1>1 DEF Table
<1>5. TypeOK'
    BY <1>1, <1>3 DEF IInv, TypeOK, Fault, historyVars
<1>6. HeadInv' /\ DiskInv' /\ UsedInv'
    BY <1>1, <1>3, <1>4 DEF IInv, HeadInv, DiskInv, UsedInv, Follows, historyVars
<1>7. Covered(Table)' /\ RevisionNamesContent' /\ DeletedIsGone'
    BY <1>1, <1>4
    DEF IInv, Covered, RevisionNamesContent, DeletedIsGone, historyVars
<1> QED BY <1>1, <1>3, <1>4, <1>5, <1>6, <1>7 DEF IInv

\* The temporary file is nobody's business yet.
LEMMA TemporaryWrittenKeeps ==
    ASSUME IInv, TemporaryWritten PROVE IInv' /\ Table' = Table /\ file' = file
<1>1. /\ phase = "write" /\ phase' = "rename"
      /\ UNCHANGED <<memory, file, queue, target, next, used, historyVars, boundVars>>
    BY DEF TemporaryWritten
<1>2. Table' = Table
    BY <1>1 DEF Table
<1>3. TypeOK' /\ QueueInv'
    BY <1>1 DEF IInv, TypeOK, QueueInv, historyVars, boundVars
<1>4. HeadInv' /\ DiskInv' /\ UsedInv'
    BY <1>1, <1>2 DEF IInv, HeadInv, DiskInv, UsedInv, Follows, historyVars
<1>5. Covered(Table)' /\ RevisionNamesContent' /\ DeletedIsGone'
    BY <1>1, <1>2
    DEF IInv, Covered, RevisionNamesContent, DeletedIsGone, historyVars
<1> QED BY <1>1, <1>2, <1>3, <1>4, <1>5 DEF IInv

\* The file is one mutation ahead of the table in memory.
LEMMA RenamedKeeps ==
    ASSUME IInv, Renamed
    PROVE  IInv' /\ Table' = Table /\ file' = next /\ Follows(Table, next, target)
<1>1. /\ phase = "rename" /\ phase' = "unlink" /\ file' = next
      /\ UNCHANGED <<memory, queue, target, next, used, historyVars, boundVars>>
    BY DEF Renamed
<1>2. /\ memory \in Tables /\ Table = memory /\ target \in used /\ next \in Tables
      /\ Follows(Table, next, target)
      /\ \A d \in deleted : d # target /\ next[d] = NoDraft
    BY <1>1, HeadFacts
<1>3. Table' = Table
    BY <1>1, <1>2, ConstantsAssumption DEF Table
<1>4. TypeOK' /\ QueueInv'
    BY <1>1, <1>2 DEF IInv, TypeOK, QueueInv, historyVars, boundVars
<1>5. Follows(Table, file, target)'
    BY <1>1, <1>2, <1>3 DEF Follows, historyVars
<1>6. HeadInv'
    BY <1>1, <1>2 DEF IInv, HeadInv, Follows, historyVars
<1>7. DiskInv' /\ UsedInv'
    BY <1>1, <1>2, <1>3, <1>5 DEF IInv, DiskInv, UsedInv, historyVars
<1>8. Covered(Table)' /\ RevisionNamesContent' /\ DeletedIsGone'
    BY <1>1, <1>2, <1>3
    DEF IInv, Covered, RevisionNamesContent, DeletedIsGone, historyVars
<1> QED BY <1>1, <1>2, <1>3, <1>4, <1>6, <1>7, <1>8 DEF IInv

\* The table in memory follows the file, and the answer shows what is there.
LEMMA CommittedKeeps ==
    ASSUME IInv, Committed
    PROVE  /\ IInv' /\ Table' = next /\ file' = next
           /\ target \in Drafts /\ Follows(Table, next, target)
<1>1. /\ phase = "unlink" /\ memory' = next /\ Settle
      /\ seen' = seen \union {Show(d, next[d]) : d \in {target} \cap Existing(next)}
      /\ deleted' = deleted \union ({target} \ Existing(next))
      /\ UNCHANGED <<file, used, deleting, boundVars>>
    BY DEF Committed
<1>2. /\ Table = memory /\ target \in Drafts /\ target \in used /\ next \in Tables
      /\ Follows(Table, next, target) /\ Covered(next) /\ queue # <<>>
      /\ \A d \in deleted : d # target /\ next[d] = NoDraft
    BY <1>1, HeadFacts
<1>3. file = next
    BY <1>1 DEF IInv, HeadInv
<1>4. Table' = next /\ file' = next
    BY <1>1, <1>2, <1>3, ConstantsAssumption DEF Table
<1>5. QueueInv' /\ phase' = "load" /\ target' = NoDraft /\ next' \in Tables
    BY <1>1, <1>2, SettleKeeps DEF IInv
<1>6. /\ seen' \subseteq [draft : Drafts, record : Records]
      /\ RevisionNamesContent'
      /\ \A s \in seen' :
            \/ next[s.draft] = NoDraft /\ s.draft \in deleting
            \/ next[s.draft] # NoDraft /\ next[s.draft].revision > s.record.revision
            \/ next[s.draft] = s.record
  <2>1. {target} \cap Existing(next) \in SUBSET Existing(next)
      OBVIOUS
  <2> QED BY <1>1, <1>2, <2>1, ShowKeeps DEF IInv, TypeOK
<1>7. Covered(Table)'
    BY <1>1, <1>4, <1>6 DEF Covered
<1>8. TypeOK'
    BY <1>1, <1>2, <1>4, <1>5, <1>6 DEF IInv, TypeOK, boundVars
<1>9. DeletedIsGone'
  <2>1. \A d \in deleted' : next[d] = NoDraft
      BY <1>1, <1>2 DEF Existing
  <2> QED BY <1>4, <2>1 DEF DeletedIsGone
<1>10. UsedInv'
  <2>1. \A s \in seen' : s \in seen \/ s.draft = target
      BY <1>1 DEF Show
  <2>2. \A d \in Drafts \ used : next[d] = NoDraft
      BY <1>2 DEF IInv, UsedInv, Follows
  <2>3. deleted' \subseteq used
      BY <1>1, <1>2 DEF IInv, UsedInv
  <2> QED BY <1>1, <1>2, <1>4, <2>1, <2>2, <2>3 DEF IInv, UsedInv
<1>11. HeadInv' /\ DiskInv'
    BY <1>4, <1>5 DEF HeadInv, DiskInv
<1> QED BY <1>2, <1>4, <1>5, <1>6, <1>7, <1>8, <1>9, <1>10, <1>11 DEF IInv

\* The next call loads the file, which covers what was shown.
LEMMA RestartKeeps ==
    ASSUME IInv, Restart PROVE IInv' /\ Table' = file /\ file' = file
<1>1. /\ memory' = NotLoaded /\ queue' = <<>> /\ phase' = "load"
      /\ target' = NoDraft /\ next' = Empty /\ restarts' = restarts + 1
      /\ UNCHANGED <<file, used, historyVars, calls, faults>>
    BY DEF Restart
<1>2. Table' = file
    BY <1>1 DEF Table
<1>3. Empty \in Tables /\ Table \in Tables /\ file \in Tables /\ used \subseteq Drafts
    BY TableTypes DEF IInv, TypeOK
<1>4. Covered(file)
    BY <1>3, FollowsCovers DEF IInv, DiskInv, TypeOK
<1>5. \A d \in Drafts \ used : file[d] = NoDraft
    BY DEF IInv, DiskInv, UsedInv, Follows
<1>6. TypeOK' /\ QueueInv'
    BY <1>1, <1>3 DEF IInv, TypeOK, QueueInv, historyVars
<1>7. HeadInv' /\ DiskInv' /\ UsedInv'
    BY <1>1, <1>2, <1>5 DEF IInv, HeadInv, DiskInv, UsedInv, historyVars
<1>8. Covered(Table)' /\ RevisionNamesContent' /\ DeletedIsGone'
    BY <1>1, <1>2, <1>4
    DEF IInv, Covered, RevisionNamesContent, DeletedIsGone, historyVars
<1> QED BY <1>1, <1>2, <1>6, <1>7, <1>8 DEF IInv

\* A step that changes none of the state.
LEMMA StutterKeeps ==
    ASSUME IInv, UNCHANGED vars PROVE IInv' /\ Table' = Table /\ file' = file
BY DEF vars, historyVars, boundVars, IInv, TypeOK, QueueInv, HeadInv, DiskInv,
       UsedInv, Covered, Follows, Table, RevisionNamesContent, DeletedIsGone

\* A call in the queue has changed nothing a caller is answered from.
LEMMA ArrivalIsSilent == Arrival => Table' = Table /\ file' = file
BY DEF Arrival, Call, Table

\* The invariant is inductive.
LEMMA StepKeeps == IInv /\ [Next]_vars => IInv'
BY ArrivalKeeps, BeginKeeps, FailKeeps, TemporaryWrittenKeeps, RenamedKeeps,
   CommittedKeeps, RestartKeeps, StutterKeeps
DEF Next, Serve

------------------------------------------------------------------------------
(* The limit.  It is looked at when the head begins, and holds of the table  *)
(* the head goes on with; a table that was renamed into place and then not   *)
(* acknowledged is one the limit was looked at for.                          *)

OfWorkspace(t, w) == {d \in Existing(t) : t[d].workspace = w}

Fits(t) ==
    \A w \in Workspaces :
        /\ IsFiniteSet(OfWorkspace(t, w))
        /\ Cardinality(OfWorkspace(t, w)) <= Limit

LimitInv == Fits(Table) /\ Fits(file) /\ (phase # "load" => Fits(next))

\* A table that has no draft of a workspace that another does not have fits if
\* the other does.
LEMMA FewerFit ==
    ASSUME NEW t, NEW u, Fits(t),
           \A w \in Workspaces : OfWorkspace(u, w) \subseteq OfWorkspace(t, w)
    PROVE  Fits(u)
<1> SUFFICES ASSUME NEW w \in Workspaces
             PROVE  /\ IsFiniteSet(OfWorkspace(u, w))
                    /\ Cardinality(OfWorkspace(u, w)) <= Limit
    BY DEF Fits
<1> DEFINE S == OfWorkspace(t, w)
           T == OfWorkspace(u, w)
<1>1. IsFiniteSet(S) /\ Cardinality(S) <= Limit
    BY DEF Fits
<1>2. T \in SUBSET S
    OBVIOUS
<1> HIDE DEF S, T
<1>3. IsFiniteSet(T) /\ Cardinality(T) <= Cardinality(S)
    BY <1>1, <1>2, FS_Subset
<1>4. Cardinality(S) \in Nat /\ Cardinality(T) \in Nat /\ Limit \in Nat
    BY <1>1, <1>3, FS_CardinalityType, ConstantsAssumption
<1>5. Cardinality(T) <= Limit
    BY <1>1, <1>3, <1>4
<1> QED BY <1>3, <1>5 DEF T

\* With room for one more, a table with one more fits.
LEMMA OneMoreFits ==
    ASSUME NEW t, NEW u, NEW d, NEW v \in Workspaces, Fits(t), Room(t, v),
           OfWorkspace(u, v) \subseteq OfWorkspace(t, v) \union {d},
           \A w \in Workspaces \ {v} : OfWorkspace(u, w) \subseteq OfWorkspace(t, w)
    PROVE  Fits(u)
<1> SUFFICES ASSUME NEW w \in Workspaces
             PROVE  /\ IsFiniteSet(OfWorkspace(u, w))
                    /\ Cardinality(OfWorkspace(u, w)) <= Limit
    BY DEF Fits
<1> DEFINE S == OfWorkspace(t, w)
           T == OfWorkspace(u, w)
           R == S \union {d}
<1>1. IsFiniteSet(S) /\ Cardinality(S) <= Limit
    BY DEF Fits
<1>2. w = v => Cardinality(S) < Limit
    BY DEF Room, OfWorkspace
<1>3. T \in SUBSET R /\ (w # v => T \in SUBSET S)
    OBVIOUS
<1> HIDE DEF S, T
<1>4. IsFiniteSet(R) /\ Cardinality(R) <= Cardinality(S) + 1
  <2>1. /\ IsFiniteSet(R)
        /\ Cardinality(R) = IF d \in S THEN Cardinality(S) ELSE Cardinality(S) + 1
      BY <1>1, FS_AddElement
  <2>2. Cardinality(S) \in Nat
      BY <1>1, FS_CardinalityType
  <2> QED BY <2>1, <2>2
<1>5. /\ IsFiniteSet(T) /\ Cardinality(T) <= Cardinality(R)
      /\ w # v => Cardinality(T) <= Cardinality(S)
  <2>1. IsFiniteSet(T) /\ Cardinality(T) <= Cardinality(R)
      BY <1>3, <1>4, FS_Subset
  <2>2. w # v => Cardinality(T) <= Cardinality(S)
      BY <1>1, <1>3, FS_Subset
  <2> QED BY <2>1, <2>2
<1>6. /\ Cardinality(S) \in Nat /\ Cardinality(R) \in Nat
      /\ Cardinality(T) \in Nat /\ Limit \in Nat
    BY <1>1, <1>4, <1>5, FS_CardinalityType, ConstantsAssumption
<1> HIDE DEF R
<1>7. Cardinality(T) <= Limit
    BY <1>1, <1>2, <1>4, <1>5, <1>6
<1> QED BY <1>5, <1>7 DEF T

\* The table that the head computes fits if the one it is computed from does:
\* only a creation adds to a workspace, and it asks for room there.
LEMMA OutcomeFits ==
    ASSUME TypeOK, QueueInv, UsedInv, queue # <<>>, Covered(Table), Fits(Table),
           NEW d \in Targets(Table, Running)
    PROVE  Fits([Table EXCEPT ![d] = Outcome(Table, Running, d)])
<1> DEFINE o == Outcome(Table, Running, d)
           u == [Table EXCEPT ![d] = o]
<1>1. Running \in Operations
    BY TailKeeps DEF QueueInv, Running
<1>2. Table \in Tables /\ d \in Drafts /\ u \in Tables
    BY TableTypes, OutcomeFollows
<1>3. u[d] = o /\ \A e \in Drafts \ {d} : u[e] = Table[e]
    BY <1>2 DEF Tables
<1> HIDE DEF u, o
<1>4. ASSUME NEW w \in Workspaces
      PROVE  OfWorkspace(u, w) \subseteq OfWorkspace(Table, w) \union {d}
    BY <1>2, <1>3 DEF OfWorkspace, Existing
<1>5. CASE Running.kind = "create"
  <2>1. d \in Drafts \ used /\ Room(Table, Running.workspace)
      BY <1>5 DEF Targets
  <2>2. Running.workspace \in Workspaces
      BY <1>1, <1>5 DEF Operations
  <2>3. o.workspace = Running.workspace
      BY <1>5 DEF o, Outcome
  <2>4. \A w \in Workspaces \ {Running.workspace} :
            OfWorkspace(u, w) \subseteq OfWorkspace(Table, w)
      BY <1>2, <1>3, <2>3 DEF OfWorkspace, Existing
  <2>5. Fits(u)
      BY <1>4, <2>1, <2>2, <2>4, OneMoreFits
  <2> QED BY <2>5 DEF u, o
<1>6. CASE Running.kind \in {"update", "rebind", "delete"}
  <2>1. d = Running.draft /\ Table[d] # NoDraft
      BY <1>6 DEF Targets, Current, Existing
  <2>2. Table[d] \in Records
      BY <1>2, <2>1 DEF Tables
  <2>3. o = NoDraft \/ o.workspace = Table[d].workspace
    <3>1. CASE Running.kind = "update"
        BY <2>2, <3>1 DEF o, Outcome, Advanced, Records
    <3>2. CASE Running.kind = "rebind"
        BY <2>2, <3>2 DEF o, Outcome, Rebound, Advanced, Records
    <3>3. CASE Running.kind = "delete"
        BY <3>3 DEF o, Outcome
    <3> QED BY <1>6, <3>1, <3>2, <3>3
  <2>4. \A w \in Workspaces : OfWorkspace(u, w) \subseteq OfWorkspace(Table, w)
      BY <1>2, <1>3, <2>1, <2>3 DEF OfWorkspace, Existing
  <2>5. Fits(u)
      BY <2>4, FewerFit
  <2> QED BY <2>5 DEF u, o
<1> QED BY <1>5, <1>6 DEF Targets

\* At the start there is no draft.
LEMMA LimitAtStart == Init => LimitInv
<1> SUFFICES ASSUME Init PROVE LimitInv
    OBVIOUS
<1>1. \A w : OfWorkspace(Empty, w) = {}
    BY DEF OfWorkspace, Existing, Empty
<1>2. Fits(Empty)
    BY <1>1, FS_EmptySet, ConstantsAssumption DEF Fits
<1> QED BY <1>2 DEF Init, LimitInv, Table

\* Every step keeps to the limit: a table comes from the head that looked.
LEMMA LimitKeeps == IInv /\ LimitInv /\ [Next]_vars => LimitInv'
<1> SUFFICES ASSUME IInv, LimitInv, [Next]_vars PROVE LimitInv'
    OBVIOUS
<1>1. CASE Arrival
  <2>1. Table' = Table /\ UNCHANGED <<file, phase, next>>
      BY <1>1 DEF Arrival, Call, Table
  <2> QED BY <2>1 DEF LimitInv, Fits
<1>2. CASE Begin
  <2>1. Table' = Table /\ file' = file
      BY <1>2, BeginKeeps
  <2>2. CASE phase' = "load"
      BY <2>1, <2>2 DEF LimitInv, Fits
  <2>3. CASE phase' # "load"
    <3>1. PICK d \in Targets(Table, Running) :
              next' = [Table EXCEPT ![d] = Outcome(Table, Running, d)]
        BY <1>2, <2>3 DEF Begin, Settle, SettleWithError, Table
    <3>2. Fits(next')
        BY <1>2, <3>1, OutcomeFits DEF Begin, IInv, LimitInv
    <3> QED BY <2>1, <3>2 DEF LimitInv, Fits
  <2> QED BY <2>2, <2>3
<1>3. CASE LoadFails \/ CommitFails
  <2>1. Table' = Table /\ file' = file
      BY <1>3, FailKeeps
  <2>2. phase' = "load"
      BY <1>3 DEF LoadFails, CommitFails, SettleWithError, Settle
  <2> QED BY <2>1, <2>2 DEF LimitInv, Fits
<1>4. CASE TemporaryWritten
  <2>1. Table' = Table /\ file' = file /\ next' = next /\ phase # "load"
      BY <1>4, TemporaryWrittenKeeps DEF TemporaryWritten
  <2> QED BY <2>1 DEF LimitInv, Fits
<1>5. CASE Renamed
  <2>1. Table' = Table /\ file' = next /\ next' = next /\ phase # "load"
      BY <1>5, RenamedKeeps DEF Renamed
  <2> QED BY <2>1 DEF LimitInv, Fits
<1>6. CASE Committed
  <2>1. Table' = next /\ file' = next /\ phase # "load" /\ phase' = "load"
      BY <1>6, CommittedKeeps DEF Committed, Settle
  <2> QED BY <2>1 DEF LimitInv, Fits
<1>7. CASE Restart
  <2>1. Table' = file /\ file' = file /\ phase' = "load"
      BY <1>7, RestartKeeps DEF Restart
  <2> QED BY <2>1 DEF LimitInv, Fits
<1>8. CASE UNCHANGED vars
  <2>1. Table' = Table /\ UNCHANGED <<file, phase, next>>
      BY <1>8 DEF vars, Table
  <2> QED BY <2>1 DEF LimitInv, Fits
<1> QED BY <1>1, <1>2, <1>3, <1>4, <1>5, <1>6, <1>7, <1>8 DEF Next, Serve

------------------------------------------------------------------------------
(* The theorems.                                                           *)

\* The inductive invariant: the table in memory is behind the file by at most
\* the mutation in hand, and covers everything that an answer has shown.
THEOREM Invariance == Spec => []IInv
BY InitHolds, StepKeeps, PTL DEF Spec

\* Every variable of DraftStore has its type (store.ts:107-122).
THEOREM TypeCorrect == Spec => []TypeOK
<1>1. IInv => TypeOK
    BY DEF IInv
<1> QED BY <1>1, Invariance, PTL

\* A revision names one content of its draft, for all browsers, failures and
\* restarts (commit, store.ts:338-358, behind the queue of store.ts:266-273).
THEOREM RevisionNames == Spec => []RevisionNamesContent
<1>1. IInv => RevisionNamesContent
    BY DEF IInv
<1> QED BY <1>1, Invariance, PTL

\* An acknowledged deletion is final (store.ts:227-240).
THEOREM Deleted == Spec => []DeletedIsGone
<1>1. IInv => DeletedIsGone
    BY DEF IInv
<1> QED BY <1>1, Invariance, PTL

\* What an answer has shown is on the disk, or superseded there, although
\* commit may fail after it has replaced the file (store.ts:346-357).
THEOREM Durable == Spec => []ShownIsDurable
<1>1. IInv => ShownIsDurable
  <2> SUFFICES ASSUME IInv PROVE ShownIsDurable
      OBVIOUS
  <2>1. Table \in Tables /\ file \in Tables /\ used \subseteq Drafts
      BY TableTypes DEF IInv, TypeOK
  <2>2. Covered(file)
      BY <2>1, FollowsCovers DEF IInv, DiskInv, TypeOK
  <2>3. ASSUME NEW s \in seen
        PROVE  \/ file[s.draft] # NoDraft
                  /\ file[s.draft].revision >= s.record.revision
               \/ s.draft \in deleting
    <3>1. s.draft \in Drafts /\ s.record \in Records
        BY DEF IInv, TypeOK
    <3>2. s.record # NoDraft /\ s.record.revision \in Nat
        BY <3>1, ConstantsAssumption DEF Records
    <3>3. \/ file[s.draft] = NoDraft /\ s.draft \in deleting
          \/ file[s.draft] # NoDraft /\ file[s.draft].revision > s.record.revision
          \/ file[s.draft] = s.record
        BY <2>2 DEF Covered
    <3>4. CASE file[s.draft] = s.record
        BY <3>2, <3>4
    <3>5. CASE file[s.draft] # NoDraft /\ file[s.draft].revision > s.record.revision
      <4>1. file[s.draft] \in Records
          BY <2>1, <3>1, <3>5 DEF Tables
      <4>2. file[s.draft].revision \in Nat
          BY <4>1 DEF Records
      <4> QED BY <3>2, <3>5, <4>2
    <3> QED BY <3>3, <3>4, <3>5
  <2> QED BY <2>3 DEF ShownIsDurable
<1> QED BY <1>1, Invariance, PTL

\* No workspace has more drafts than the limit, in memory or on the disk,
\* although a failed creation may stay on the disk and come back with a restart
\* (create, store.ts:138-148, looks at the limit once, before it commits).
THEOREM Limited == Spec => []LimitHolds
<1>1. LimitInv => LimitHolds
    BY DEF LimitInv, LimitHolds, Fits, OfWorkspace
<1> QED BY <1>1, LimitAtStart, LimitKeeps, Invariance, PTL DEF Spec

\* A table that follows another is one mutation of the register away.
LEMMA FollowsIsMutation ==
    ASSUME NEW t, NEW u, NEW d \in Drafts, Follows(t, u, d)
    PROVE  Register!Mutation(t, u)
BY DEF Follows, Register!Mutation

\* Seen through its table and its file, the store is the abstract register:
\* mutations are atomic, and a failed one stays without effect unless a restart
\* brings it to light (store.ts:338-358).
THEOREM Refinement == Spec => ImplementsRegister
<1> DEFINE in == IF file = Table THEN {} ELSE {file}
           Step == \/ Register!Next
                   \/ UNCHANGED <<Table, in>>
<1>1. Init => Register!Init
    BY DEF Init, Register!Init, Table, Empty
<1>2. IInv /\ [Next]_vars => [Register!Next]_<<Table, in>>
  <2> SUFFICES ASSUME IInv, [Next]_vars PROVE Step
      OBVIOUS
  <2>1. CASE Table' = Table /\ file' = file
      BY <2>1
  <2>2. CASE Renamed
    <3>1. Table' = Table /\ file' = next /\ Follows(Table, next, target)
        BY <2>2, RenamedKeeps
    <3>2. target \in Drafts
        BY <2>2, HeadFacts DEF Renamed
    <3>3. Register!Mutation(Table, next)
        BY <3>1, <3>2, FollowsIsMutation
    <3>4. CASE next = Table
        BY <3>1, <3>4 DEF Register!Next, Register!Recover
    <3>5. CASE next # Table
        BY <3>1, <3>3, <3>5 DEF Register!Next, Register!Waver
    <3> QED BY <3>4, <3>5
  <2>3. CASE Committed
    <3>1. /\ Table' = next /\ file' = next /\ target \in Drafts
          /\ Follows(Table, next, target)
        BY <2>3, CommittedKeeps
    <3>2. Register!Mutation(Table, next)
        BY <3>1, FollowsIsMutation
    <3> QED BY <3>1, <3>2 DEF Register!Next, Register!Acknowledge
  <2>4. CASE Restart
    <3>1. Table' = file /\ file' = file
        BY <2>4, RestartKeeps
    <3> QED BY <3>1 DEF Register!Next, Register!Recover
  <2>5. \/ Table' = Table /\ file' = file
        \/ Renamed \/ Committed \/ Restart
      BY ArrivalIsSilent, BeginKeeps, FailKeeps, TemporaryWrittenKeeps, StutterKeeps
      DEF Next, Serve
  <2> QED BY <2>1, <2>2, <2>3, <2>4, <2>5
<1> QED BY <1>1, <1>2, Invariance, PTL DEF Spec, ImplementsRegister, Register!Spec
=============================================================================
