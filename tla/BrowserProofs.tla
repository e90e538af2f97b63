---------------------------- MODULE BrowserProofs ----------------------------
(* What TLAPS proves of BrowserSessions, for any number of sessions, contexts, *)
(* tabs, tool calls and panels.                                               *)
EXTENDS BrowserSessions, SequenceTheorems, TLAPS

Queues == [Contexts -> [Tabs -> Seq(Callers)]]

LEMMA Nowhere == NoContext \notin Contexts
BY DistinctNames DEF Contexts

LEMMA JoinType ==
    ASSUME queue \in Queues, NEW p \in Callers, NEW c \in Contexts, NEW t \in Tabs,
           JoinQueue(p, c, t)
    PROVE  queue' \in Queues
<1>1. Append(queue[c][t], p) \in Seq(Callers)
    BY AppendProperties DEF Queues
<1> QED BY <1>1 DEF JoinQueue, Queues

\* Only a caller that is in front leaves a queue, so that the queue is not empty.
LEMMA LeaveType ==
    ASSUME queue \in Queues, NEW c \in Contexts, NEW t \in Tabs, queue[c][t] # <<>>,
           Leave(c, t)
    PROVE  queue' \in Queues
<1>1. Tail(queue[c][t]) \in Seq(Callers)
    BY HeadTailProperties DEF Queues
<1> QED BY <1>1 DEF Leave, Queues

\* A call at work on a queue is the one in front.
OneAtWork ==
    \A p \in Callers :
        call[p].step = "working" /\ call[p].op \in {"mutate", "observe"} => InFront(p)

\* A call that is under way has its session, and its tab unless it is opening one.
CallsArePlaced ==
    \A p \in Callers :
        /\ call[p].step = "idle" => call[p] = NoCall
        /\ call[p].step # "idle" => call[p].context \in Contexts /\ call[p].op # "none"
        /\ call[p].step = "queued" => call[p].op \in {"mutate", "observe"}
        /\ call[p].step = "waiting" => call[p].op = "closeTab"
        /\ call[p].step = "titling" => call[p].op = "open"
        /\ call[p].tab = NoTab /\ call[p].step # "idle" => call[p].op = "open"

LEMMA PlaceType ==
    ASSUME call \in [Callers -> Calls], NEW p \in Callers,
           NEW op \in {"mutate", "observe", "open", "closeTab"},
           NEW step \in {"queued", "waiting", "working", "titling"},
           NEW c \in Contexts, NEW t \in Tabs \cup {NoTab}, Place(p, op, step, c, t)
    PROVE  call' \in [Callers -> Calls]
BY DEF Place, Calls

LEMMA TypeInit == Init => TypeOK
<1> SUFFICES ASSUME Init PROVE TypeOK
    OBVIOUS
<1>1. /\ NoCreation \in Creations /\ NoCall \in Calls
    BY DEF NoCreation, Creations, NoCall, Calls
<1>2. queue \in [Contexts -> [Tabs -> Seq(Callers)]]
    BY DEF Init
<1>3. disposal \in [step : {"no", "joining", "closing", "stopping", "done"},
                    contexts : SUBSET Contexts]
    BY DEF Init
<1> QED BY <1>1, <1>2, <1>3 DEF Init, TypeOK

\* A creation that moves keeps the type of all of them.
LEMMA CreationType ==
    ASSUME creation \in [Sessions -> Creations], NEW s \in Sessions,
           NEW k \in Creations, creation' = [creation EXCEPT ![s] = k]
    PROVE  creation' \in [Sessions -> Creations]
OBVIOUS

LEMMA CreationStepType ==
    ASSUME creation \in [Sessions -> Creations], NEW s \in Sessions,
           NEW step \in {"start", "context", "doomed", "title"},
           creation' = [creation EXCEPT ![s].step = step]
    PROVE  creation' \in [Sessions -> Creations]
<1>1. [creation[s] EXCEPT !.step = step] \in Creations
    BY DEF Creations
<1>2. creation' = [creation EXCEPT ![s] = [creation[s] EXCEPT !.step = step]]
    OBVIOUS
<1> HIDE DEF Creations
<1> QED BY <1>1, <1>2, CreationType

\* The life of sessions: no call moves.
LEMMA LifeType ==
    ASSUME TypeOK, NEW s \in Sessions,
           EnsureSession(s) \/ Creating(s) \/ CloseSession(s) \/ IdleCloses(s)
    PROVE  TypeOK'
<1>1. CASE EnsureSession(s)
  <2>1. creation' \in [Sessions -> Creations]
    <3>1. CASE creation[s] = NoCreation
      <4> DEFINE step == IF link = "up" THEN "context" ELSE "start"
      <4>1. creation' = [creation EXCEPT ![s].step = step] /\ step \in {"context", "start"}
        BY <1>1, <3>1 DEF EnsureSession
      <4> HIDE DEF step
      <4> QED BY <4>1, CreationStepType DEF TypeOK
    <3>2. CASE creation[s] # NoCreation
      BY <1>1, <3>2 DEF EnsureSession, TypeOK
    <3> QED BY <3>1, <3>2
  <2>2. link' \in {"down", "starting", "up"}
    BY <1>1 DEF TypeOK, EnsureSession
  <2> QED BY <1>1, <2>1, <2>2 DEF TypeOK, EnsureSession, recordVars
<1>2. ASSUME NEW c \in Contexts, ContextBuilt(s, c) PROVE TypeOK'
    BY <1>2 DEF TypeOK, ContextBuilt, Creations
<1>3. CASE ContextFails(s)
    BY <1>3 DEF TypeOK, ContextFails, Creations, NoCreation, recordVars, providerVars
<1>4. ASSUME NEW t \in Tabs, FirstPageOpens(s, t) PROVE TypeOK'
  <2>1. creation' \in [Sessions -> Creations]
    BY <1>4, CreationStepType DEF TypeOK, FirstPageOpens
  <2>2. tabs' = [tabs EXCEPT ![creation[s].context] = {t}]
    BY <1>4 DEF FirstPageOpens
  <2>3. tabs' \in [Contexts -> SUBSET Tabs]
    BY <2>2 DEF TypeOK
  <2> QED BY <1>4, <2>1, <2>3 DEF TypeOK, FirstPageOpens, providerVars
<1>5. CASE FirstPageFails(s)
    BY <1>5 DEF TypeOK, FirstPageFails, CloseContext, Creations, NoCreation, recordVars
<1>6. CASE FirstTitleRead(s)
    BY <1>6 DEF TypeOK, FirstTitleRead, Creations, NoCreation, providerVars
<1>7. CASE CloseSession(s) \/ IdleCloses(s)
  <2> DEFINE c == current[s]
  <2>1. /\ current' = [current EXCEPT ![s] = NoContext]
        /\ status' = [status EXCEPT ![c] = "closed"] /\ tabs' = [tabs EXCEPT ![c] = {}]
        /\ CloseContext(c) /\ c # NoContext
        /\ UNCHANGED <<link, alive, creation, shut, queue, active, control, call, disposal>>
    BY <1>7 DEF CloseSession, IdleCloses
  <2>2. c \in Contexts
    BY <2>1 DEF TypeOK
  <2>3. contexts' \in SUBSET Contexts /\ closing' \in SUBSET Contexts
    BY <2>1, <2>2 DEF TypeOK, CloseContext
  <2>4. /\ current' \in [Sessions -> Contexts \cup {NoContext}]
        /\ status' \in [Contexts -> {"unused", "starting", "ready", "lost", "closed"}]
        /\ tabs' \in [Contexts -> SUBSET Tabs]
    BY <2>1 DEF TypeOK
  <2> QED BY <2>1, <2>3, <2>4 DEF TypeOK
<1> QED BY <1>1, <1>2, <1>3, <1>4, <1>5, <1>6, <1>7 DEF Creating

LEMMA EndsType ==
    ASSUME TypeOK, \/ LaunchReturns \/ Crash \/ Dispose \/ Disposing
                   \/ \E c \in Contexts : CloseReturns(c) \/ \E t \in Tabs : PageCloses(c, t)
    PROVE  TypeOK'
<1>1. CASE LaunchReturns
    BY <1>1 DEF TypeOK, LaunchReturns, Launched, Creations, recordVars
<1>2. CASE Crash
  <2>1. \A s \in Sessions : [creation[s] EXCEPT !.step = "doomed"] \in Creations
    <3>1. \A k \in Creations : [k EXCEPT !.step = "doomed"] \in Creations
      BY DEF Creations
    <3> QED BY <3>1 DEF TypeOK
  <2>2. creation' = [s \in Sessions |-> IF creation[s].step = "context"
                                          THEN [creation[s] EXCEPT !.step = "doomed"]
                                          ELSE creation[s]]
    BY <1>2 DEF Crash
  <2>3. creation' \in [Sessions -> Creations]
    BY <2>1, <2>2 DEF TypeOK
  <2>4. /\ status' \in [Contexts -> {"unused", "starting", "ready", "lost", "closed"}]
        /\ tabs' \in [Contexts -> SUBSET Tabs] /\ shut' \in [Contexts -> SUBSET Tabs]
    BY <1>2 DEF TypeOK, Crash
  <2>5. /\ link' = "down" /\ contexts' = {} /\ alive' = {}
        /\ UNCHANGED <<closing, current, queue, active, control, call, disposal>>
    BY <1>2 DEF Crash
  <2> QED BY <2>3, <2>4, <2>5 DEF TypeOK
<1>3. CASE Dispose
    BY <1>3 DEF TypeOK, Dispose, providerVars, recordVars
<1>4. CASE DisposeSweeps
    BY <1>4 DEF TypeOK, DisposeSweeps
<1>5. CASE DisposeStops
    BY <1>5 DEF TypeOK, DisposeStops, recordVars
<1>6. CASE StopReturns
    BY <1>6 DEF TypeOK, StopReturns, recordVars
<1>7. ASSUME NEW c \in Contexts, CloseReturns(c) PROVE TypeOK'
    BY <1>7 DEF TypeOK, CloseReturns, Creations, NoCreation, recordVars
<1>8. ASSUME NEW c \in Contexts, NEW t \in Tabs, PageCloses(c, t) PROVE TypeOK'
    BY <1>8 DEF TypeOK, PageCloses, providerVars
<1> QED BY <1>1, <1>2, <1>3, <1>4, <1>5, <1>6, <1>7, <1>8 DEF Disposing

LEMMA CallsType ==
    ASSUME TypeOK, CallsArePlaced, OneAtWork,
           Calling \/ Controlling \/ \E p \in Callers : Working(p)
    PROVE  TypeOK'
<1>0. /\ queue \in Queues /\ call \in [Callers -> Calls] /\ NoCall \in Calls
      /\ NoContext \notin Contexts
    BY Nowhere DEF TypeOK, Queues, NoCall, Calls
<1>1. ASSUME NEW p \in Callers, call[p].step # "idle"
      PROVE  /\ call[p].context \in Contexts /\ call[p].tab \in Tabs \cup {NoTab}
             /\ call[p].op \in {"mutate", "observe", "open", "closeTab"}
             /\ InFront(p) => queue[call[p].context][call[p].tab] # <<>>
             /\ call[p].op # "open" => call[p].tab \in Tabs
             /\ call[p].step \in {"queued", "waiting"} => call[p].tab \in Tabs
    BY <1>0, <1>1 DEF CallsArePlaced, Calls, InFront
<1>2. ASSUME NEW p \in Callers, NEW s \in Sessions, OpenTab(p, s) PROVE TypeOK'
  <2>1. call' \in [Callers -> Calls]
    BY <1>0, <1>2, PlaceType DEF OpenTab, TypeOK
  <2> QED BY <1>2, <2>1 DEF OpenTab, TypeOK, providerVars
<1>3. ASSUME NEW p \in Callers, NEW s \in Sessions, NEW t \in Tabs, CloseTab(p, s, t)
      PROVE  TypeOK'
  <2>1. current[s] \in Contexts
    BY <1>3 DEF CloseTab, Usable, TypeOK
  <2>2. call' \in [Callers -> Calls] /\ queue' \in Queues
    BY <1>0, <1>3, <2>1, PlaceType, JoinType DEF CloseTab
  <2> QED BY <1>3, <2>1, <2>2 DEF CloseTab, TypeOK, providerVars, Queues
<1>4. ASSUME NEW p \in Callers, NEW s \in Sessions, NEW t \in Tabs,
             NEW o \in {"mutate", "observe"}, Enqueue(p, o, s, t)
      PROVE  TypeOK'
  <2>1. current[s] \in Contexts
    BY <1>4 DEF Enqueue, Usable, TypeOK
  <2>2. call' \in [Callers -> Calls] /\ queue' \in Queues
    BY <1>0, <1>4, <2>1, PlaceType, JoinType DEF Enqueue
  <2> QED BY <1>4, <2>1, <2>2 DEF Enqueue, TypeOK, providerVars, Queues
<1>5. ASSUME NEW p \in Callers, NEW t \in Tabs, PageOpens(p, t) PROVE TypeOK'
  <2>1. call[p].context \in Contexts
    BY <1>1, <1>5 DEF PageOpens
  <2>2. call' \in [Callers -> Calls]
    BY <1>0, <1>5, <2>1, PlaceType DEF PageOpens
  <2> QED BY <1>5, <2>1, <2>2 DEF PageOpens, TypeOK, providerVars
<1>6. ASSUME NEW p \in Callers, ActionStarts(p) PROVE TypeOK'
  <2>1. call' \in [Callers -> Calls] /\ call[p].context \in Contexts
    BY <1>0, <1>1, <1>6, PlaceType DEF ActionStarts
  <2> QED BY <1>6, <2>1 DEF ActionStarts, TypeOK, providerVars
<1>7. ASSUME NEW p \in Callers, ActionRefused(p) PROVE TypeOK'
  <2>1. queue' \in Queues /\ call' \in [Callers -> Calls]
    BY <1>0, <1>1, <1>7, LeaveType DEF ActionRefused
  <2> QED BY <1>7, <2>1 DEF ActionRefused, TypeOK, providerVars, Queues
<1>8. ASSUME NEW p \in Callers, TabCloses(p) PROVE TypeOK'
  <2>1. queue' \in Queues /\ call' \in [Callers -> Calls]
    BY <1>0, <1>1, <1>8, LeaveType, PlaceType DEF TabCloses
  <2>2. call[p].context \in Contexts /\ call[p].tab \in Tabs
    BY <1>1, <1>8 DEF TabCloses
  <2> QED BY <1>8, <2>1, <2>2 DEF TabCloses, TypeOK, providerVars, Queues
<1>9. ASSUME NEW p \in Callers, CallReturns(p) PROVE TypeOK'
  <2>1. call[p].op \in {"mutate", "observe"} => InFront(p) /\ call[p].tab \in Tabs
    BY <1>1, <1>9 DEF OneAtWork, CallReturns, CallsArePlaced
  <2>2. queue' \in Queues /\ call' \in [Callers -> Calls]
    BY <1>0, <1>1, <1>9, <2>1, LeaveType DEF CallReturns
  <2> QED BY <1>1, <1>9, <2>2 DEF CallReturns, TypeOK, providerVars, Queues
<1>10. CASE Controlling
  <2>1. ASSUME NEW c \in Contexts, NEW o \in Panels \cup {Agent}, Lease(c, o) PROVE TypeOK'
    BY <2>1 DEF Lease, TypeOK, providerVars
  <2>2. \A s \in Sessions : Usable(s) => current[s] \in Contexts
    BY DEF Usable, TypeOK
  <2> QED BY <1>10, <2>1, <2>2 DEF Controlling, Acquire, Release, LeaseLapses
<1> QED BY <1>2, <1>3, <1>4, <1>5, <1>6, <1>7, <1>8, <1>9, <1>10 DEF Calling, Working

-----------------------------------------------------------------------------
(* Queues.  The one call at work on a queue is in front of it, so that it is *)
(* the one that leaves.                                                      *)

QueueInv == CallsArePlaced /\ OneAtWork /\ QueuesHoldTheirCalls

In(q, e) == \E i \in DOMAIN q : q[i] = e
Once(q)  == \A i, j \in DOMAIN q : q[i] = q[j] => i = j

Has(c, t, p) == OnQueue(p) /\ call[p].context = c /\ call[p].tab = t

LEMMA QueuesAre ==
    QueuesHoldTheirCalls <=>
        \A c \in Contexts, t \in Tabs :
            Once(queue[c][t]) /\ \A p \in Callers : In(queue[c][t], p) <=> Has(c, t, p)
BY DEF QueuesHoldTheirCalls, In, Once, Has

\* What joining and leaving does to a sequence without repetitions.
LEMMA AppendOnce ==
    ASSUME NEW S, NEW q \in Seq(S), NEW e \in S, ~In(q, e), Once(q)
    PROVE  /\ Once(Append(q, e))
           /\ \A x : In(Append(q, e), x) <=> x = e \/ In(q, x)
           /\ q # <<>> => Append(q, e) # <<>> /\ Head(Append(q, e)) = Head(q)
<1> DEFINE a == Append(q, e)
<1>1. /\ a \in Seq(S) /\ Len(a) = Len(q) + 1 /\ a # <<>>
      /\ \A i \in 1..Len(q) : a[i] = q[i]
      /\ a[Len(q) + 1] = e /\ Len(q) \in Nat
    BY AppendProperties, LenProperties
<1>2. DOMAIN a = 1..(Len(q) + 1) /\ DOMAIN q = 1..Len(q)
    BY <1>1, LenProperties
<1>3. q # <<>> => Head(a) = Head(q)
    BY HeadTailAppend
<1> HIDE DEF a
<1>4. Once(a)
    BY <1>1, <1>2 DEF Once, In
<1>5. \A x : In(a, x) <=> x = e \/ In(q, x)
    BY <1>1, <1>2 DEF In
<1> QED BY <1>1, <1>3, <1>4, <1>5 DEF a

LEMMA TailOnce ==
    ASSUME NEW S, NEW q \in Seq(S), q # <<>>, Once(q)
    PROVE  /\ Once(Tail(q)) /\ In(q, Head(q))
           /\ \A x : In(Tail(q), x) <=> x # Head(q) /\ In(q, x)
<1> DEFINE b == Tail(q)
<1>1. /\ b \in Seq(S) /\ Len(b) = Len(q) - 1 /\ Len(q) \in Nat /\ Len(q) > 0
      /\ \A i \in 1..Len(b) : b[i] = q[i + 1]
    BY HeadTailProperties, LenProperties, EmptySeq
<1>2. DOMAIN b = 1..(Len(q) - 1) /\ DOMAIN q = 1..Len(q) /\ Head(q) = q[1]
    BY <1>1, LenProperties
<1> HIDE DEF b
<1>3. Once(b)
    BY <1>1, <1>2 DEF Once
<1>4. ASSUME NEW x, NEW i \in DOMAIN b, b[i] = x
      PROVE  x # Head(q) /\ In(q, x)
    BY <1>1, <1>2, <1>4 DEF Once, In
<1>5. ASSUME NEW k \in DOMAIN q, q[k] # Head(q)
      PROVE  In(b, q[k])
  <2>1. k - 1 \in DOMAIN b /\ b[k - 1] = q[k]
    BY <1>1, <1>2, <1>5
  <2> QED BY <2>1 DEF In
<1>6. In(q, Head(q))
    BY <1>1, <1>2 DEF In
<1> QED BY <1>3, <1>4, <1>5, <1>6 DEF b, In

\* A call joins a queue.
LEMMA Joins ==
    ASSUME TypeOK, QueueInv, NEW p \in Callers, NEW c \in Contexts, NEW t \in Tabs,
           NEW o \in {"mutate", "observe", "closeTab"}, NEW step \in {"queued", "waiting"},
           step = "waiting" <=> o = "closeTab", call[p] = NoCall, JoinQueue(p, c, t), Place(p, o, step, c, t)
    PROVE  QueueInv'
<1> DEFINE q == queue[c][t]
           a == Append(q, p)
<1>1. /\ q \in Seq(Callers) /\ queue \in Queues /\ call \in [Callers -> Calls]
      /\ NoTab \notin Tabs
    BY DistinctNames DEF TypeOK, Queues
<1>2. /\ call'[p] = [op |-> o, step |-> step, context |-> c, tab |-> t]
      /\ \A r \in Callers : r # p => call'[r] = call[r]
    BY <1>1 DEF Place
<1>3. \A d \in Contexts, u \in Tabs : queue'[d][u] = IF d = c /\ u = t THEN a ELSE queue[d][u]
    BY <1>1 DEF JoinQueue, Queues
<1>4. /\ \A d \in Contexts, u \in Tabs :
             Once(queue[d][u]) /\ \A r \in Callers : In(queue[d][u], r) <=> Has(d, u, r)
      /\ \A d \in Contexts, u \in Tabs : ~Has(d, u, p)
    BY QueuesAre DEF QueueInv, Has, OnQueue, NoCall
<1>5. /\ Once(a) /\ \A x : In(a, x) <=> x = p \/ In(q, x)
      /\ q # <<>> => a # <<>> /\ Head(a) = Head(q)
    BY <1>1, <1>4, AppendOnce
<1>6. CallsArePlaced'
    BY <1>1, <1>2 DEF QueueInv, CallsArePlaced
<1>7. OneAtWork'
  <2> HIDE DEF a
  <2> SUFFICES ASSUME NEW r \in Callers, call'[r].step = "working",
                      call'[r].op \in {"mutate", "observe"}
               PROVE  InFront(r)'
    BY DEF OneAtWork
  <2>1. r # p /\ call'[r] = call[r]
    BY <1>2
  <2>2. InFront(r) /\ call[r].context \in Contexts /\ call[r].tab \in Tabs
    BY <2>1, <1>1 DEF QueueInv, OneAtWork, CallsArePlaced, Calls
  <2>3. LET f == queue[call[r].context][call[r].tab] IN
        f # <<>> /\ Head(f) = r
    BY <2>2 DEF InFront
  <2>4. LET g == queue'[call[r].context][call[r].tab] IN
        g # <<>> /\ Head(g) = r
    BY <1>3, <1>5, <2>2, <2>3
  <2> QED BY <2>1, <2>4 DEF InFront
<1>8. \A d \in Contexts, u \in Tabs, r \in Callers :
          Has(d, u, r)' <=> Has(d, u, r) \/ (r = p /\ d = c /\ u = t)
    BY <1>2 DEF Has, OnQueue, NoCall
<1>9. \A d \in Contexts, u \in Tabs :
          Once(queue'[d][u]) /\ \A r \in Callers : In(queue'[d][u], r) <=> Has(d, u, r)'
    BY <1>3, <1>4, <1>5, <1>8
<1>10. QueuesHoldTheirCalls'
    BY <1>9 DEF QueuesHoldTheirCalls, In, Once, Has
<1> QED BY <1>6, <1>7, <1>10 DEF QueueInv

\* The call in front leaves its queue.
LEMMA Leaves ==
    ASSUME TypeOK, QueueInv, NEW p \in Callers, call[p].context \in Contexts,
           call[p].tab \in Tabs, InFront(p), Leave(call[p].context, call[p].tab),
           NEW x \in Calls, call' = [call EXCEPT ![p] = x],
           \/ x = NoCall
           \/ /\ x.step = "working" /\ x.op = "closeTab"
              /\ x.context = call[p].context /\ x.tab = call[p].tab
    PROVE  QueueInv'
<1> DEFINE c == call[p].context
           t == call[p].tab
           q == queue[c][t]
           b == Tail(q)
<1>1. /\ q \in Seq(Callers) /\ queue \in Queues /\ call \in [Callers -> Calls]
      /\ NoTab \notin Tabs
    BY DistinctNames DEF TypeOK, Queues
<1>2. /\ call'[p] = x /\ \A r \in Callers : r # p => call'[r] = call[r]
    BY <1>1
<1>3. \A d \in Contexts, u \in Tabs : queue'[d][u] = IF d = c /\ u = t THEN b ELSE queue[d][u]
    BY <1>1 DEF Leave, Queues
<1>4. /\ q # <<>> /\ Head(q) = p
      /\ \A d \in Contexts, u \in Tabs :
             Once(queue[d][u]) /\ \A r \in Callers : In(queue[d][u], r) <=> Has(d, u, r)
    BY QueuesAre DEF QueueInv, InFront
<1>5. Once(b) /\ In(q, p) /\ \A y : In(b, y) <=> y # p /\ In(q, y)
    BY <1>1, <1>4, TailOnce
<1>6. CallsArePlaced'
    BY <1>1, <1>2 DEF QueueInv, CallsArePlaced, NoCall
<1>7. OneAtWork'
  <2> SUFFICES ASSUME NEW r \in Callers, call'[r].step = "working",
                      call'[r].op \in {"mutate", "observe"}
               PROVE  InFront(r)'
    BY DEF OneAtWork
  <2>1. r # p /\ call'[r] = call[r]
    BY <1>2 DEF NoCall
  <2>2. InFront(r) /\ call[r].context \in Contexts /\ call[r].tab \in Tabs
    BY <2>1, <1>1 DEF QueueInv, OneAtWork, CallsArePlaced, Calls
  <2>3. ~(call[r].context = c /\ call[r].tab = t)
    BY <1>4, <2>1, <2>2 DEF InFront
  <2> QED BY <1>3, <2>1, <2>2, <2>3 DEF InFront
<1>8. \A d \in Contexts, u \in Tabs, r \in Callers : Has(d, u, r)' <=> r # p /\ Has(d, u, r)
    BY <1>2 DEF Has, OnQueue, NoCall
<1>9. OnQueue(p)
    BY <1>4, <1>5 DEF Has
<1>10. \A d \in Contexts, u \in Tabs : Has(d, u, p) => d = c /\ u = t
    BY DEF Has
<1>11. \A d \in Contexts, u \in Tabs :
          Once(queue'[d][u]) /\ \A r \in Callers : In(queue'[d][u], r) <=> Has(d, u, r)'
  <2> HIDE DEF b, c, t
  <2> QED BY <1>3, <1>4, <1>5, <1>8, <1>10
<1>12. QueuesHoldTheirCalls'
    BY <1>11 DEF QueuesHoldTheirCalls, In, Once, Has
<1> QED BY <1>6, <1>7, <1>12 DEF QueueInv

\* A call goes on where it is.
LEMMA Moves ==
    ASSUME TypeOK, QueueInv, NEW p \in Callers, NEW x \in Calls,
           call' = [call EXCEPT ![p] = x], UNCHANGED queue,
           x = NoCall \/ (x.step \in {"working", "titling"} /\ x.context \in Contexts),
           x.step = "titling" => x.op = "open",
           x # NoCall => x.op # "none" /\ (x.tab = NoTab => x.op = "open"),
           \/ ~OnQueue(p) /\ x.op \notin {"mutate", "observe"}
           \/ /\ x.step = "working" /\ x.op \in {"mutate", "observe"} /\ OnQueue(p) /\ InFront(p)
              /\ x.context = call[p].context /\ x.tab = call[p].tab
    PROVE  QueueInv'
<1>1. call'[p] = x /\ (\A r \in Callers : r # p => call'[r] = call[r]) /\ queue' = queue
    BY DEF TypeOK
<1>2. CallsArePlaced'
    BY <1>1 DEF QueueInv, CallsArePlaced, NoCall
<1>3. OneAtWork'
  <2> SUFFICES ASSUME NEW r \in Callers, call'[r].step = "working",
                      call'[r].op \in {"mutate", "observe"}
               PROVE  InFront(r)'
    BY DEF OneAtWork
  <2>1. CASE r # p
    <3>1. call'[r] = call[r]
      BY <1>1, <2>1
    <3>2. InFront(r)
      BY <3>1 DEF QueueInv, OneAtWork
    <3> QED BY <1>1, <3>1, <3>2 DEF InFront
  <2>2. CASE r = p
    <3>1. x.step = "working" /\ x.op \in {"mutate", "observe"}
      BY <1>1, <2>2
    <3>2. InFront(p) /\ x.context = call[p].context /\ x.tab = call[p].tab
      BY <3>1
    <3> QED BY <1>1, <2>2, <3>2 DEF InFront
  <2> QED BY <2>1, <2>2
<1>4. \A d \in Contexts, u \in Tabs, r \in Callers : Has(d, u, r)' <=> Has(d, u, r)
    BY <1>1 DEF Has, OnQueue, NoCall
<1>5. QueuesHoldTheirCalls'
    BY <1>1, <1>4 DEF QueueInv, QueuesHoldTheirCalls, Has
<1> QED BY <1>2, <1>3, <1>5 DEF QueueInv

\* What touches neither a queue nor a call.
LEMMA QueueIdle ==
    ASSUME QueueInv, UNCHANGED <<queue, call>>
    PROVE  QueueInv'
BY DEF QueueInv, CallsArePlaced, OneAtWork, InFront, QueuesHoldTheirCalls, OnQueue

LEMMA CallsQueue ==
    ASSUME TypeOK, QueueInv, Calling \/ Controlling \/ \E p \in Callers : Working(p)
    PROVE  QueueInv'
<1>1. call \in [Callers -> Calls] /\ NoTab \notin Tabs
    BY DistinctNames DEF TypeOK
<1>2. ASSUME NEW p \in Callers, call[p].step # "idle"
      PROVE  /\ call[p].context \in Contexts
             /\ call[p].op \in {"mutate", "observe", "open", "closeTab"}
             /\ call[p].op # "open" => call[p].tab \in Tabs
             /\ call[p].step \in {"queued", "waiting"} => call[p].tab \in Tabs
    BY <1>1, <1>2 DEF QueueInv, CallsArePlaced, Calls
<1>3. ASSUME NEW p \in Callers, call[p] = NoCall PROVE ~OnQueue(p)
    BY <1>3 DEF OnQueue, NoCall
<1>4. NoCall \in Calls
    BY DEF NoCall, Calls
<1>5. ASSUME NEW p \in Callers, NEW s \in Sessions, OpenTab(p, s) PROVE QueueInv'
  <2> DEFINE x == [op |-> "open", step |-> "working", context |-> current[s], tab |-> NoTab]
  <2>1. /\ current[s] \in Contexts /\ call[p] = NoCall /\ UNCHANGED queue
        /\ call' = [call EXCEPT ![p] = x]
    BY <1>5 DEF OpenTab, Place, TypeOK
  <2>2. x \in Calls
    BY <2>1 DEF Calls
  <2> QED BY <1>3, <2>1, <2>2, Moves
<1>6. ASSUME NEW p \in Callers, NEW s \in Sessions, NEW t \in Tabs, CloseTab(p, s, t)
      PROVE  QueueInv'
  <2>1. current[s] \in Contexts
    BY <1>6 DEF CloseTab, Usable, TypeOK
  <2> QED BY <1>6, <2>1, Joins DEF CloseTab
<1>7. ASSUME NEW p \in Callers, NEW s \in Sessions, NEW t \in Tabs,
             NEW o \in {"mutate", "observe"}, Enqueue(p, o, s, t)
      PROVE  QueueInv'
  <2>1. current[s] \in Contexts
    BY <1>7 DEF Enqueue, Usable, TypeOK
  <2> QED BY <1>7, <2>1, Joins DEF Enqueue
<1>8. ASSUME NEW p \in Callers, NEW t \in Tabs, PageOpens(p, t) PROVE QueueInv'
  <2> DEFINE x == [op |-> "open", step |-> "titling", context |-> call[p].context, tab |-> t]
  <2>1. /\ UNCHANGED queue /\ call' = [call EXCEPT ![p] = x] /\ ~OnQueue(p)
    BY <1>8 DEF PageOpens, Place, OnQueue
  <2>2. x \in Calls /\ call[p].context \in Contexts
    BY <1>2, <1>8 DEF PageOpens, Calls
  <2> QED BY <1>1, <2>1, <2>2, Moves
<1>9. ASSUME NEW p \in Callers, ActionStarts(p) PROVE QueueInv'
  <2> DEFINE x == [op |-> call[p].op, step |-> "working", context |-> call[p].context,
                   tab |-> call[p].tab]
  <2>1. /\ UNCHANGED queue /\ call' = [call EXCEPT ![p] = x] /\ OnQueue(p) /\ InFront(p)
        /\ call[p].step = "queued"
    BY <1>9 DEF ActionStarts, Place, OnQueue
  <2>2. x \in Calls /\ call[p].context \in Contexts /\ call[p].tab \in Tabs
    BY <1>2, <2>1 DEF Calls
  <2>3. call[p].op \in {"mutate", "observe"}
    BY <1>2, <2>1 DEF QueueInv, CallsArePlaced
  <2> QED BY <1>1, <2>1, <2>2, <2>3, Moves
<1>10. ASSUME NEW p \in Callers, ActionRefused(p) PROVE QueueInv'
    BY <1>2, <1>4, <1>10, Leaves DEF ActionRefused
<1>11. ASSUME NEW p \in Callers, TabCloses(p) PROVE QueueInv'
  <2> DEFINE x == [op |-> "closeTab", step |-> "working", context |-> call[p].context,
                   tab |-> call[p].tab]
  <2>1. /\ Leave(call[p].context, call[p].tab) /\ call' = [call EXCEPT ![p] = x]
        /\ InFront(p) /\ call[p].step = "waiting"
    BY <1>11 DEF TabCloses, Place
  <2>2. x \in Calls /\ call[p].context \in Contexts /\ call[p].tab \in Tabs
    BY <1>2, <2>1 DEF Calls
  <2> QED BY <2>1, <2>2, Leaves
<1>12. ASSUME NEW p \in Callers, CallReturns(p) PROVE QueueInv'
  <2>1. call[p].context \in Contexts /\ call' = [call EXCEPT ![p] = NoCall]
    BY <1>2, <1>12 DEF CallReturns
  <2>2. CASE call[p].op \in {"mutate", "observe"}
    <3>1. call[p].step = "working"
      BY <1>12, <2>2 DEF CallReturns, QueueInv, CallsArePlaced
    <3>2. InFront(p) /\ call[p].tab \in Tabs /\ Leave(call[p].context, call[p].tab)
      BY <1>2, <1>12, <2>2, <3>1 DEF CallReturns, QueueInv, OneAtWork
    <3> QED BY <1>4, <2>1, <3>2, Leaves
  <2>3. CASE call[p].op \notin {"mutate", "observe"}
    <3>1. UNCHANGED queue /\ ~OnQueue(p)
      BY <1>12, <2>3 DEF CallReturns, OnQueue
    <3> QED BY <1>4, <2>1, <3>1, Moves DEF NoCall
  <2> QED BY <2>2, <2>3
<1>13. CASE Controlling
    BY <1>13, QueueIdle DEF Controlling, Acquire, Release, LeaseLapses, Lease
<1> QED BY <1>5, <1>6, <1>7, <1>8, <1>9, <1>10, <1>11, <1>12, <1>13 DEF Calling, Working

LEMMA QueueInit == Init => QueueInv
<1> SUFFICES ASSUME Init PROVE QueueInv
    OBVIOUS
<1>1. \A p \in Callers : call[p] = NoCall
    BY DEF Init
<1>2. \A c \in Contexts, t \in Tabs : queue[c][t] = <<>> /\ DOMAIN queue[c][t] = {}
    BY DEF Init
<1> QED BY <1>1, <1>2
       DEF QueueInv, CallsArePlaced, OneAtWork, QueuesHoldTheirCalls, OnQueue, NoCall

\* The life of sessions and the end of the manager.
LEMMA LifeQueue ==
    ASSUME QueueInv,
           \/ \E s \in Sessions :
                 EnsureSession(s) \/ Creating(s) \/ CloseSession(s) \/ IdleCloses(s)
           \/ LaunchReturns \/ Crash \/ Dispose \/ Disposing
           \/ \E c \in Contexts : CloseReturns(c) \/ \E t \in Tabs : PageCloses(c, t)
    PROVE  QueueInv'
<1>1. UNCHANGED <<queue, call>>
    BY DEF EnsureSession, Creating, ContextBuilt, ContextFails, FirstPageOpens,
           FirstPageFails, FirstTitleRead, CloseSession, IdleCloses, LaunchReturns, Crash,
           Dispose, Disposing, DisposeSweeps, DisposeStops, StopReturns, CloseReturns,
           PageCloses, recordVars
<1> QED BY <1>1, QueueIdle

-----------------------------------------------------------------------------
(* The agent yields.  A panel takes over when no call is counted, so that    *)
(* every call at work or let in must be counted in the record it works on,   *)
(* which no creation may take for a new one.                                 *)

Counted ==
    \A p \in Callers :
        call[p].step \in {"waiting", "working", "titling"} => p \in active[call[p].context]

RecordsAreUsed ==
    /\ \A p \in Callers : call[p].step # "idle" => status[call[p].context] # "unused"
    /\ \A s \in Sessions : current[s] # NoContext => status[current[s]] # "unused"

YieldInv == Counted /\ RecordsAreUsed /\ AgentYields

LEMMA YieldInit == Init => YieldInv
BY DEF Init, YieldInv, Counted, RecordsAreUsed, AgentYields, Driving, NoCall

LEMMA LifeYields ==
    ASSUME TypeOK, QueueInv, YieldInv,
           \/ \E s \in Sessions :
                 EnsureSession(s) \/ Creating(s) \/ CloseSession(s) \/ IdleCloses(s)
           \/ LaunchReturns \/ Crash \/ Dispose \/ Disposing
           \/ \E c \in Contexts : CloseReturns(c) \/ \E t \in Tabs : PageCloses(c, t)
    PROVE  YieldInv'
<1>1. \A p \in Callers : call[p].step # "idle" => call[p].context \in Contexts
    BY DEF QueueInv, CallsArePlaced
<1>2. ASSUME UNCHANGED <<call, active, control>>,
             \A c \in Contexts : status[c] # "unused" => status'[c] # "unused",
             \A s \in Sessions : current'[s] = current[s] \/ current'[s] = NoContext
      PROVE  YieldInv'
  <2>1. Counted' /\ AgentYields'
    BY <1>2 DEF YieldInv, Counted, AgentYields, Driving
  <2>2. \A s \in Sessions : current'[s] # NoContext => current[s] \in Contexts
    BY <1>2 DEF TypeOK
  <2>3. RecordsAreUsed'
    BY <1>1, <1>2, <2>2 DEF YieldInv, RecordsAreUsed
  <2> QED BY <2>1, <2>3 DEF YieldInv
<1>3. ASSUME NEW s \in Sessions, NEW c \in Contexts, ContextBuilt(s, c) PROVE YieldInv'
  <2>1. /\ UNCHANGED call /\ status[c] = "unused" /\ status'[c] = "starting"
        /\ current'[s] = c /\ control'[c] = Agent
        /\ \A d \in Contexts : d # c => /\ active'[d] = active[d] /\ control'[d] = control[d]
                                        /\ status'[d] = status[d]
        /\ \A z \in Sessions : z # s => current'[z] = current[z]
    BY <1>3 DEF ContextBuilt, FreshContext, TypeOK
  <2>2. \A p \in Callers : call[p].step # "idle" => call[p].context # c
    BY <2>1 DEF YieldInv, RecordsAreUsed
  <2>3. Counted'
    BY <1>1, <2>1, <2>2 DEF YieldInv, Counted
  <2>4. RecordsAreUsed'
    <3>1. \A p \in Callers : call'[p].step # "idle" => status'[call'[p].context] # "unused"
      BY <1>1, <2>1, <2>2 DEF YieldInv, RecordsAreUsed
    <3>2. ASSUME NEW z \in Sessions, current'[z] # NoContext
          PROVE  status'[current'[z]] # "unused"
      <4>1. CASE z = s
        BY <2>1, <4>1
      <4>2. CASE z # s
        <5>1. current'[z] = current[z] /\ current[z] \in Contexts
          BY <2>1, <3>2, <4>2 DEF TypeOK
        <5>2. status[current[z]] # "unused"
          BY <3>2, <5>1 DEF YieldInv, RecordsAreUsed
        <5> QED BY <2>1, <5>1, <5>2
      <4> QED BY <4>1, <4>2
    <3> QED BY <3>1, <3>2 DEF RecordsAreUsed
  <2>5. AgentYields'
    BY <2>1 DEF YieldInv, AgentYields, Driving
  <2> QED BY <2>3, <2>4, <2>5 DEF YieldInv
<1>4. ASSUME NEW s \in Sessions, EnsureSession(s) PROVE YieldInv'
    BY <1>2, <1>4 DEF EnsureSession, recordVars, TypeOK
<1>5. ASSUME NEW s \in Sessions, Creating(s), ~\E c \in Contexts : ContextBuilt(s, c)
      PROVE  YieldInv'
  <2>1. CASE ContextFails(s)
    BY <1>2, <2>1 DEF ContextFails, recordVars
  <2>2. ASSUME NEW t \in Tabs, FirstPageOpens(s, t) PROVE YieldInv'
    BY <1>2, <2>2 DEF FirstPageOpens
  <2>3. CASE FirstPageFails(s)
    BY <1>2, <2>3 DEF FirstPageFails, recordVars, TypeOK
  <2>4. CASE FirstTitleRead(s)
    BY <1>2, <2>4 DEF FirstTitleRead, TypeOK
  <2> QED BY <1>5, <2>1, <2>2, <2>3, <2>4 DEF Creating
<1>6. ASSUME NEW s \in Sessions, CloseSession(s) PROVE YieldInv'
    BY <1>2, <1>6 DEF CloseSession, TypeOK
<1>7. CASE LaunchReturns \/ Dispose \/ DisposeStops \/ StopReturns
    BY <1>2, <1>7 DEF LaunchReturns, Dispose, DisposeStops, StopReturns, recordVars
<1>8. CASE Crash
    BY <1>2, <1>8 DEF Crash, TypeOK
<1>9. CASE DisposeSweeps
    BY <1>2, <1>9 DEF DisposeSweeps, TypeOK
<1>10. ASSUME NEW c \in Contexts, CloseReturns(c) \/ \E t \in Tabs : PageCloses(c, t)
       PROVE  YieldInv'
    BY <1>2, <1>10 DEF CloseReturns, PageCloses, recordVars
<1> QED BY <1>3, <1>4, <1>5, <1>6, <1>7, <1>8, <1>9, <1>10 DEF IdleCloses, Disposing

LEMMA CallsYield ==
    ASSUME TypeOK, QueueInv, YieldInv,
           Calling \/ Controlling \/ \E p \in Callers : Working(p)
    PROVE  YieldInv'
<1>1. call \in [Callers -> Calls] /\ active \in [Contexts -> SUBSET Callers]
      /\ control \in [Contexts -> Panels \cup {Agent}] /\ Agent \notin Panels
      /\ Agents \cap Panels = {}
    BY DistinctNames DEF TypeOK
<1>2. \A p \in Callers : call[p].step # "idle" => call[p].context \in Contexts
    BY DEF QueueInv, CallsArePlaced
\* One call moves to a record in use, counted where it works, let in by who drives.
<1>3. ASSUME NEW p \in Callers, NEW x \in Calls, call' = [call EXCEPT ![p] = x],
             UNCHANGED <<status, current, control>>,
             \A c \in Contexts : active[c] \ {p} \subseteq active'[c],
             x.step # "idle" => x.context \in Contexts /\ status[x.context] # "unused",
             x.step \in {"waiting", "working", "titling"} => p \in active'[x.context],
             \/ x.step \notin {"waiting", "working", "titling"}
             \/ x.step = "working" /\ x.op = "observe"
             \/ MayDrive(p, x.context)
             \/ Driving(p) /\ call[p].context = x.context
      PROVE  YieldInv'
  <2>1. call'[p] = x /\ \A r \in Callers : r # p => call'[r] = call[r]
    BY <1>1, <1>3
  <2>2. Counted'
    BY <1>2, <1>3, <2>1 DEF YieldInv, Counted
  <2>3. RecordsAreUsed'
    BY <1>3, <2>1 DEF YieldInv, RecordsAreUsed
  <2>4. ASSUME NEW r \in Agents, NEW c \in Contexts, Driving(r)', call'[r].context = c
        PROVE  control'[c] = Agent
    BY <1>3, <2>1, <2>4 DEF YieldInv, AgentYields, Driving, MayDrive, Callers
  <2> QED BY <2>2, <2>3, <2>4 DEF YieldInv, AgentYields
<1>4. NoCall \in Calls /\ NoCall.step = "idle"
    BY DEF NoCall, Calls
<1>5. \A s \in Sessions : Usable(s) => /\ current[s] \in Contexts
                                       /\ status[current[s]] # "unused"
    BY DEF Usable, TypeOK, YieldInv, RecordsAreUsed
<1>6. ASSUME NEW p \in Callers, NEW s \in Sessions, OpenTab(p, s) PROVE YieldInv'
  <2> DEFINE x == [op |-> "open", step |-> "working", context |-> current[s], tab |-> NoTab]
  <2>1. current[s] \in Contexts /\ x \in Calls
    BY <1>6 DEF OpenTab, TypeOK, Calls
  <2> QED BY <1>1, <1>3, <1>6, <2>1 DEF OpenTab, Place
<1>7. ASSUME NEW p \in Callers, NEW s \in Sessions, NEW t \in Tabs, CloseTab(p, s, t)
      PROVE  YieldInv'
  <2> DEFINE x == [op |-> "closeTab", step |-> "waiting", context |-> current[s], tab |-> t]
  <2>1. current[s] \in Contexts /\ status[current[s]] # "unused" /\ x \in Calls
    BY <1>5, <1>7 DEF CloseTab, Calls
  <2> QED BY <1>1, <1>3, <1>7, <2>1 DEF CloseTab, Place
<1>8. ASSUME NEW p \in Callers, NEW s \in Sessions, NEW t \in Tabs,
             NEW o \in {"mutate", "observe"}, Enqueue(p, o, s, t)
      PROVE  YieldInv'
  <2> DEFINE x == [op |-> o, step |-> "queued", context |-> current[s], tab |-> t]
  <2>1. current[s] \in Contexts /\ status[current[s]] # "unused" /\ x \in Calls
    BY <1>5, <1>8 DEF Enqueue, Calls
  <2> QED BY <1>1, <1>3, <1>8, <2>1 DEF Enqueue, Place
<1>9. ASSUME NEW p \in Callers, NEW t \in Tabs, PageOpens(p, t) PROVE YieldInv'
  <2> DEFINE x == [op |-> "open", step |-> "titling", context |-> call[p].context, tab |-> t]
  <2>1. /\ call[p].step = "working" /\ call[p].op = "open"
        /\ UNCHANGED <<status, current, active, control>> /\ call' = [call EXCEPT ![p] = x]
    BY <1>9 DEF PageOpens, Place
  <2>2. /\ x \in Calls /\ call[p].context \in Contexts /\ Driving(p)
        /\ p \in active[call[p].context] /\ status[call[p].context] # "unused"
    BY <1>2, <2>1 DEF Calls, Driving, YieldInv, Counted, RecordsAreUsed
  <2> QED BY <1>3, <2>1, <2>2
<1>10. ASSUME NEW p \in Callers, ActionStarts(p) PROVE YieldInv'
  <2> DEFINE c == call[p].context
             x == [op |-> call[p].op, step |-> "working", context |-> c, tab |-> call[p].tab]
  <2>1. c \in Contexts /\ status[c] # "unused" /\ x \in Calls
    BY <1>1, <1>2, <1>10 DEF ActionStarts, Calls, YieldInv, RecordsAreUsed
  <2> QED BY <1>1, <1>3, <1>10, <2>1 DEF ActionStarts, Place
<1>11. ASSUME NEW p \in Callers, ActionRefused(p) PROVE YieldInv'
    BY <1>3, <1>4, <1>11 DEF ActionRefused
<1>12. ASSUME NEW p \in Callers, TabCloses(p) PROVE YieldInv'
  <2> DEFINE c == call[p].context
             x == [op |-> "closeTab", step |-> "working", context |-> c, tab |-> call[p].tab]
  <2>1. /\ c \in Contexts /\ status[c] # "unused" /\ x \in Calls /\ Driving(p)
        /\ p \in active[c]
    BY <1>1, <1>2, <1>12 DEF TabCloses, Calls, YieldInv, RecordsAreUsed, Counted, Driving
  <2> QED BY <1>1, <1>3, <1>12, <2>1 DEF TabCloses, Place
<1>13. ASSUME NEW p \in Callers, CallReturns(p) PROVE YieldInv'
  <2>1. \A c \in Contexts : active[c] \ {p} \subseteq active'[c]
    BY <1>1, <1>13 DEF CallReturns
  <2> QED BY <1>3, <1>4, <1>13, <2>1 DEF CallReturns
<1>14. ASSUME NEW c \in Contexts, NEW o, Lease(c, o),
              o = Agent \/ active[c] = {} \/ control[c] = o
       PROVE  YieldInv'
  <2>1. UNCHANGED <<status, current, active, call>>
        /\ control'[c] = o /\ \A d \in Contexts : d # c => control'[d] = control[d]
    BY <1>1, <1>14 DEF Lease
  <2>2. Counted' /\ RecordsAreUsed'
    BY <2>1 DEF YieldInv, Counted, RecordsAreUsed
  <2>3. AgentYields'
    BY <1>14, <2>1 DEF YieldInv, AgentYields, Driving, Counted, Callers
  <2> QED BY <2>2, <2>3 DEF YieldInv
<1>15. CASE Controlling
    BY <1>1, <1>5, <1>14, <1>15 DEF Controlling, Acquire, Release, LeaseLapses
<1> QED BY <1>6, <1>7, <1>8, <1>9, <1>10, <1>11, <1>12, <1>13, <1>15 DEF Calling, Working

-----------------------------------------------------------------------------
(* Nothing is left behind.  A creation that has a context is the one its     *)
(* session has, unless the session forgot it; one that has none yet finds no *)
(* record of its session to replace; what is lost is not alive; and once the *)
(* manager sweeps, nothing is created and no browser is started any more.    *)

CreationOwns ==
    \A s \in Sessions :
        /\ creation[s].step \in {"start", "context", "doomed"} => current[s] = NoContext
        /\ creation[s].step \in {"page", "title"} =>
              creation[s].context \in Contexts /\ current[s] \in {creation[s].context, NoContext}
        /\ creation[s].step = "closing" => current[s] = NoContext

LostIsDead == \A c \in alive : status[c] # "lost"

SweptIsOver ==
    /\ disposal.step \in {"closing", "stopping", "done"} =>
          \A s \in Sessions : creation[s] = NoCreation
    /\ disposal.step \in {"stopping", "done"} => link = "down"

LeftInv == CreationOwns /\ LostIsDead /\ SweptIsOver /\ NothingIsLeftBehind

LEMMA LeftInit == Init => LeftInv
BY DEF Init, LeftInv, CreationOwns, NoCreation, LostIsDead, SweptIsOver, NothingIsLeftBehind

\* What changes neither sessions nor contexts.
LEMMA LeftIdle ==
    ASSUME LeftInv, UNCHANGED <<providerVars, creation, current, status, disposal>>
    PROVE  LeftInv'
BY DEF LeftInv, CreationOwns, LostIsDead, SweptIsOver, NothingIsLeftBehind, providerVars

LEMMA CallsLeave ==
    ASSUME LeftInv, \/ Calling \/ Controlling \/ \E p \in Callers : Working(p)
                    \/ \E c \in Contexts, t \in Tabs : PageCloses(c, t)
    PROVE  LeftInv'
<1>1. UNCHANGED <<providerVars, creation, current, status, disposal>>
  <2>1. CASE Calling
    BY <2>1 DEF Calling, OpenTab, CloseTab, Enqueue, PageOpens
  <2>2. CASE Controlling
    BY <2>2 DEF Controlling, Acquire, Release, LeaseLapses, Lease
  <2>3. CASE \E p \in Callers : Working(p)
    BY <2>3 DEF Working, ActionStarts, ActionRefused, TabCloses, CallReturns
  <2>4. CASE \E c \in Contexts, t \in Tabs : PageCloses(c, t)
    BY <2>4 DEF PageCloses
  <2> QED BY <2>1, <2>2, <2>3, <2>4
<1> QED BY <1>1, LeftIdle

LEMMA CreatingLeaves ==
    ASSUME TypeOK, LeftInv, NEW s \in Sessions, EnsureSession(s) \/ Creating(s)
    PROVE  LeftInv'
<1>1. /\ creation \in [Sessions -> Creations] /\ NoContext \notin Contexts
      /\ current \in [Sessions -> Contexts \cup {NoContext}]
      /\ alive \in SUBSET Contexts /\ NoCreation.step = "none"
    BY Nowhere DEF TypeOK, NoCreation
<1>2. CASE EnsureSession(s)
  <2>1. /\ current' = [current EXCEPT ![s] = NoContext] /\ disposal.step = "no"
        /\ \A z \in Sessions : z # s => creation'[z] = creation[z]
        /\ creation[s] # NoCreation => creation'[s] = creation[s]
        /\ UNCHANGED <<contexts, alive, closing, status, disposal>>
    BY <1>1, <1>2 DEF EnsureSession, recordVars
  <2>2. creation[s] = NoCreation => creation'[s].step \in {"start", "context"}
    <3> SUFFICES ASSUME creation[s] = NoCreation PROVE creation'[s].step \in {"start", "context"}
      OBVIOUS
    <3> DEFINE step == IF link = "up" THEN "context" ELSE "start"
    <3>1. creation' = [creation EXCEPT ![s].step = step] /\ step \in {"start", "context"}
      BY <1>2 DEF EnsureSession
    <3> HIDE DEF step
    <3>2. creation'[s] = [NoCreation EXCEPT !.step = step]
      BY <1>1, <3>1
    <3> QED BY <3>1, <3>2 DEF NoCreation
  <2>3. CreationOwns'
    BY <1>1, <2>1, <2>2 DEF LeftInv, CreationOwns
  <2>4. \A c \in alive : current[s] # c
    BY <1>1, <1>2 DEF EnsureSession, LeftInv, LostIsDead
  <2>5. NothingIsLeftBehind'
    BY <1>1, <2>1, <2>4 DEF LeftInv, NothingIsLeftBehind
  <2> QED BY <2>1, <2>3, <2>5 DEF LeftInv, LostIsDead, SweptIsOver
<1>3. ASSUME NEW c \in Contexts, ContextBuilt(s, c) PROVE LeftInv'
  <2>1. /\ creation[s].step = "context" /\ creation'[s] = [step |-> "page", context |-> c]
        /\ \A z \in Sessions : z # s => creation'[z] = creation[z] /\ current'[z] = current[z]
        /\ current'[s] = c /\ contexts' = contexts \cup {c} /\ alive' = alive \cup {c}
        /\ \A d \in Contexts : d # c => status'[d] = status[d]
        /\ status'[c] = "starting"
        /\ UNCHANGED <<link, closing, disposal>>
    BY <1>1, <1>3 DEF ContextBuilt, TypeOK
  <2>2. current[s] = NoContext /\ disposal.step \notin {"closing", "stopping", "done"}
    BY <2>1, <1>1 DEF LeftInv, CreationOwns, SweptIsOver
  <2>3. CreationOwns'
    BY <2>1 DEF LeftInv, CreationOwns
  <2>4. LostIsDead'
    BY <1>1, <2>1 DEF LeftInv, LostIsDead
  <2>5. NothingIsLeftBehind'
    BY <1>1, <2>1, <2>2 DEF LeftInv, NothingIsLeftBehind
  <2> QED BY <2>1, <2>2, <2>3, <2>4, <2>5 DEF LeftInv, SweptIsOver
<1>4. CASE ContextFails(s)
  <2>1. /\ creation' = [creation EXCEPT ![s] = NoCreation]
        /\ UNCHANGED <<link, contexts, alive, closing, current, status, disposal>>
    BY <1>4 DEF ContextFails, providerVars, recordVars
  <2>2. CreationOwns' /\ SweptIsOver'
    BY <1>1, <2>1 DEF LeftInv, CreationOwns, SweptIsOver
  <2> QED BY <2>1, <2>2 DEF LeftInv, LostIsDead, NothingIsLeftBehind
<1>5. ASSUME NEW t \in Tabs, FirstPageOpens(s, t) PROVE LeftInv'
  <2>1. /\ creation' = [creation EXCEPT ![s].step = "title"] /\ creation[s].step = "page"
        /\ UNCHANGED <<link, contexts, alive, closing, current, status, disposal>>
    BY <1>5 DEF FirstPageOpens, providerVars
  <2>2. CreationOwns' /\ SweptIsOver'
    BY <1>1, <2>1 DEF LeftInv, CreationOwns, SweptIsOver, Creations
  <2> QED BY <2>1, <2>2 DEF LeftInv, LostIsDead, NothingIsLeftBehind
<1>6. CASE FirstPageFails(s)
  <2> DEFINE c == creation[s].context
  <2>1. /\ creation[s].step = "page" /\ c \in Contexts /\ current[s] \in {c, NoContext}
        /\ current' = [current EXCEPT ![s] = NoContext]
        /\ contexts' = contexts \ {c}
        /\ closing' = IF c \in contexts THEN closing \cup {c} ELSE closing
        /\ \A z \in Sessions : z # s => creation'[z] = creation[z]
        /\ creation'[s] = [step |-> "closing", context |-> c] \/ creation'[s] = NoCreation
        /\ UNCHANGED <<link, alive, status, disposal>>
    BY <1>1, <1>6 DEF FirstPageFails, CloseContext, LeftInv, CreationOwns, recordVars
  <2>2. CreationOwns'
    BY <1>1, <2>1 DEF LeftInv, CreationOwns
  <2>3. SweptIsOver'
    BY <1>1, <2>1 DEF LeftInv, SweptIsOver
  <2>4. NothingIsLeftBehind'
    BY <1>1, <2>1 DEF LeftInv, NothingIsLeftBehind
  <2> QED BY <2>1, <2>2, <2>3, <2>4 DEF LeftInv, LostIsDead
<1>7. CASE FirstTitleRead(s)
  <2>1. /\ creation' = [creation EXCEPT ![s] = NoCreation]
        /\ UNCHANGED <<link, contexts, alive, closing, current, disposal>>
        /\ \A d \in Contexts : status'[d] = status[d] \/ status'[d] = "ready"
    BY <1>7 DEF FirstTitleRead, providerVars, TypeOK
  <2>2. CreationOwns' /\ SweptIsOver'
    BY <1>1, <2>1 DEF LeftInv, CreationOwns, SweptIsOver
  <2>3. LostIsDead'
    BY <1>1, <2>1 DEF LeftInv, LostIsDead
  <2> QED BY <2>1, <2>2, <2>3 DEF LeftInv, NothingIsLeftBehind
<1> QED BY <1>2, <1>3, <1>4, <1>5, <1>6, <1>7 DEF Creating

LEMMA EndingLeaves ==
    ASSUME TypeOK, LeftInv,
           \/ \E s \in Sessions : CloseSession(s) \/ IdleCloses(s)
           \/ LaunchReturns \/ Crash \/ Dispose \/ Disposing
           \/ \E c \in Contexts : CloseReturns(c)
    PROVE  LeftInv'
<1>1. /\ creation \in [Sessions -> Creations] /\ NoContext \notin Contexts
      /\ current \in [Sessions -> Contexts \cup {NoContext}]
      /\ status \in [Contexts -> {"unused", "starting", "ready", "lost", "closed"}]
      /\ alive \in SUBSET Contexts /\ NoCreation.step = "none"
    BY Nowhere DEF TypeOK, NoCreation
<1>2. ASSUME NEW s \in Sessions, CloseSession(s) PROVE LeftInv'
  <2> DEFINE c == current[s]
  <2>1. /\ c \in Contexts /\ creation[s] = NoCreation
        /\ current' = [current EXCEPT ![s] = NoContext]
        /\ contexts' = contexts \ {c}
        /\ closing' = IF c \in contexts THEN closing \cup {c} ELSE closing
        /\ status' = [status EXCEPT ![c] = "closed"]
        /\ UNCHANGED <<link, alive, creation, disposal>>
    BY <1>1, <1>2 DEF CloseSession, CloseContext
  <2>2. CreationOwns'
    BY <1>1, <2>1 DEF LeftInv, CreationOwns
  <2>3. NothingIsLeftBehind'
    BY <1>1, <2>1 DEF LeftInv, NothingIsLeftBehind
  <2>4. LostIsDead'
    BY <1>1, <2>1 DEF LeftInv, LostIsDead
  <2> QED BY <2>1, <2>2, <2>3, <2>4 DEF LeftInv, SweptIsOver
<1>3. CASE LaunchReturns
  <2>1. /\ link = "starting"
        /\ UNCHANGED <<contexts, alive, closing, current, status, disposal>>
        /\ \E step \in {"context", "none"} : Launched(step)
    BY <1>3 DEF LaunchReturns, recordVars
  <2>2. ASSUME NEW s \in Sessions
        PROVE  \/ creation'[s] = creation[s]
               \/ creation[s].step = "start" /\ creation'[s].step \in {"context", "none"}
    BY <1>1, <2>1 DEF Launched, Creations
  <2>3. CreationOwns'
    BY <2>1, <2>2 DEF LeftInv, CreationOwns
  <2>4. SweptIsOver'
    BY <1>1, <2>1, <2>2 DEF LeftInv, SweptIsOver
  <2> QED BY <2>1, <2>3, <2>4 DEF LeftInv, LostIsDead, NothingIsLeftBehind, LaunchReturns
<1>4. CASE Crash
  <2>1. /\ alive' = {} /\ link' = "down" /\ UNCHANGED <<closing, current, disposal>>
    BY <1>4 DEF Crash
  <2>2. ASSUME NEW s \in Sessions
        PROVE  \/ creation'[s] = creation[s]
               \/ creation[s].step = "context" /\ creation'[s].step = "doomed"
    BY <1>1, <1>4 DEF Crash, Creations
  <2>3. CreationOwns'
    BY <2>1, <2>2 DEF LeftInv, CreationOwns
  <2>4. SweptIsOver'
    BY <1>1, <2>1, <2>2 DEF LeftInv, SweptIsOver
  <2> QED BY <2>1, <2>3, <2>4 DEF LeftInv, LostIsDead, NothingIsLeftBehind
<1>5. CASE Dispose
  <2>1. /\ disposal.step = "no" /\ disposal'.step = "joining"
        /\ UNCHANGED <<link, contexts, alive, closing, creation, current, status>>
    BY <1>5 DEF Dispose, providerVars, recordVars, TypeOK
  <2> QED BY <2>1 DEF LeftInv, CreationOwns, LostIsDead, SweptIsOver, NothingIsLeftBehind
<1>6. CASE DisposeSweeps
  <2>1. /\ \A s \in Sessions : creation[s] = NoCreation /\ current'[s] = NoContext
        /\ disposal.step = "joining" /\ disposal'.step = "closing"
        /\ UNCHANGED <<link, alive, creation>>
        /\ closing \subseteq closing'
        /\ \A s \in Sessions : current[s] \in contexts => current[s] \in closing'
    BY <1>1, <1>6 DEF DisposeSweeps, TypeOK
  <2>2. \A c \in Contexts : status'[c] = status[c] \/ status'[c] = "closed"
    BY <1>1, <1>6 DEF DisposeSweeps
  <2>3. CreationOwns' /\ SweptIsOver'
    BY <1>1, <2>1 DEF CreationOwns, SweptIsOver
  <2>4. LostIsDead'
    BY <1>1, <2>1, <2>2 DEF LeftInv, LostIsDead
  <2>5. NothingIsLeftBehind'
    BY <2>1 DEF LeftInv, NothingIsLeftBehind
  <2> QED BY <2>3, <2>4, <2>5 DEF LeftInv
<1>7. CASE DisposeStops
  <2>1. /\ disposal.step = "closing" /\ disposal'.step = "stopping" /\ link' = "down"
        /\ UNCHANGED <<alive, closing, creation, current, status>>
    BY <1>7 DEF DisposeStops, recordVars
  <2> QED BY <2>1 DEF LeftInv, CreationOwns, LostIsDead, SweptIsOver, NothingIsLeftBehind
<1>8. CASE StopReturns
  <2>1. /\ disposal.step = "stopping" /\ disposal'.step = "done" /\ alive' = {}
        /\ UNCHANGED <<link, creation, current, status>>
    BY <1>8 DEF StopReturns, recordVars, TypeOK
  <2> QED BY <2>1 DEF LeftInv, CreationOwns, LostIsDead, SweptIsOver, NothingIsLeftBehind
<1>9. ASSUME NEW c \in Contexts, CloseReturns(c) PROVE LeftInv'
  <2>1. /\ closing' = closing \ {c} /\ alive' = alive \ {c}
        /\ \A s \in Sessions : creation'[s] \in {creation[s], NoCreation}
        /\ UNCHANGED <<link, contexts, current, status, disposal>>
    BY <1>9 DEF CloseReturns, recordVars
  <2>2. CreationOwns' /\ SweptIsOver'
    BY <1>1, <2>1 DEF LeftInv, CreationOwns, SweptIsOver
  <2> QED BY <2>1, <2>2 DEF LeftInv, LostIsDead, NothingIsLeftBehind
<1> QED BY <1>2, <1>3, <1>4, <1>5, <1>6, <1>7, <1>8, <1>9 DEF IdleCloses, Disposing

-----------------------------------------------------------------------------
(* All of it together.                                                       *)

IInv == TypeOK /\ QueueInv /\ YieldInv /\ LeftInv

LEMMA Inductive == IInv /\ [Next]_vars => IInv'
<1> SUFFICES ASSUME IInv, [Next]_vars PROVE IInv'
    OBVIOUS
<1> USE DEF IInv
<1>1. ASSUME NEW s \in Sessions,
             EnsureSession(s) \/ Creating(s) \/ CloseSession(s) \/ IdleCloses(s)
      PROVE  IInv'
    BY <1>1, LifeType, LifeQueue, LifeYields, CreatingLeaves, EndingLeaves
<1>2. CASE LaunchReturns \/ Crash \/ Dispose \/ Disposing
    BY <1>2, EndsType, LifeQueue, LifeYields, EndingLeaves
<1>3. ASSUME NEW c \in Contexts, CloseReturns(c) PROVE IInv'
    BY <1>3, EndsType, LifeQueue, LifeYields, EndingLeaves
<1>4. ASSUME NEW c \in Contexts, NEW t \in Tabs, PageCloses(c, t) PROVE IInv'
    BY <1>4, EndsType, LifeQueue, LifeYields, CallsLeave
<1>5. CASE Calling \/ Controlling \/ \E p \in Callers : Working(p)
    BY <1>5, CallsType, CallsQueue, CallsYield, CallsLeave DEF QueueInv
<1>6. CASE UNCHANGED vars
  <2>1. TypeOK'
    BY <1>6 DEF vars, providerVars, recordVars, TypeOK
  <2>2. QueueInv' /\ LeftInv'
    BY <1>6, QueueIdle, LeftIdle DEF vars, recordVars
  <2>3. YieldInv'
    BY <1>6 DEF vars, recordVars, YieldInv, Counted, RecordsAreUsed, AgentYields, Driving
  <2> QED BY <2>1, <2>2, <2>3
<1> QED BY <1>1, <1>2, <1>3, <1>4, <1>5, <1>6 DEF Next

LEMMA Invariant == Spec => []IInv
<1>1. Init => IInv
    BY TypeInit, QueueInit, YieldInit, LeftInit DEF IInv
<1> QED BY <1>1, Inductive, PTL DEF Spec

\* Every variable of the browser's host has its type.
THEOREM TypeCorrect == Spec => []TypeOK
<1>1. IInv => TypeOK
    BY DEF IInv
<1> QED BY <1>1, Invariant, PTL

\* While a panel holds the control no mutation of the agent is under way
\* (panel-actions.ts: acquireHumanControl; transport.ts: enqueueMutation).
THEOREM Yields == Spec => []AgentYields
<1>1. IInv => AgentYields
    BY DEF IInv, YieldInv
<1> QED BY <1>1, Invariant, PTL

\* A tab's queue holds each call that waits for it or works on it once, and
\* nothing else (transport.ts: enqueue).
THEOREM QueuesHold == Spec => []QueuesHoldTheirCalls
<1>1. IInv => QueuesHoldTheirCalls
    BY DEF IInv, QueueInv
<1> QED BY <1>1, Invariant, PTL

\* No context outlives its session, its failed creation or the manager
\* (lifecycle.ts: createSession and its catch; manager.ts: dispose).
THEOREM LeavesNothing == Spec => []NothingIsLeftBehind
<1>1. IInv => NothingIsLeftBehind
    BY DEF IInv, LeftInv
<1> QED BY <1>1, Invariant, PTL
=============================================================================
