---------------------------- MODULE QaAsksProofs ----------------------------
(* What TLAPS proves of QaAsks, for any number of questions and failures.    *)
EXTENDS QaAsks, FiniteSetTheorems, SequenceTheorems, WellFoundedInduction, TLAPS

\* A question that is not in the agent's hands yet.
Before == {"out", "securing", "floor", "prompting"}

\* The questions that hold a slot are those the service counts.
Inside  == {a \in Asks : step[a] \notin {"out", "done"}}
Counted == IsFiniteSet(Inside) /\ inFlight = Cardinality(Inside)

\* Turns begin in the order of their numbers, each with the prompt it claims,
\* and the newest event is the prompt of the turn that runs.
TurnsInOrder ==
    /\ \A i \in 1..Len(log) : log[i].type = "start" => log[i].turn <= turn
    /\ \A i, j \in 1..Len(log) :
          log[i].type = "start" /\ log[j].type = "start" /\ i < j => log[i].turn < log[j].turn
    /\ \A i \in 1..Len(log) : log[i].type = "prompt" => i > 1 /\ log[i - 1].type = "start"
    /\ running # NoAsk =>
          /\ Len(log) > 0 /\ log[Len(log)].type = "prompt" /\ log[Len(log)].ask = running
          /\ running \in Asks

\* A question is queued once and has one row in the log.
AskedOnce ==
    /\ \A i \in 1..Len(log) :
          log[i].type = "prompt" => log[i].ask \in Asks /\ step[log[i].ask] \notin Before
    /\ \A i, j \in 1..Len(log) :
          log[i].type = "prompt" /\ log[j].type = "prompt" /\ log[i].ask = log[j].ask => i = j
    /\ \A q \in 1..Len(queue) :
          /\ step[queue[q]] \notin Before
          /\ \A i \in 1..Len(log) : log[i].type = "prompt" => log[i].ask # queue[q]
    /\ \A p, q \in 1..Len(queue) : queue[p] = queue[q] => p = q

\* Whoever is to be stopped has gone, and has been seen in the log.
StopsAreDue ==
    /\ \A a \in Asks : stop[a] # "no" => a \in left
    /\ \A a \in Asks : stop[a] = "stopping" => HasRow(a, Len(log))

\* What a question is answered with is the turn that its row was claimed into.
AnsweredOwn ==
    \A a \in reached :
        /\ step[a] = "done" /\ HasRow(a, Len(log))
        /\ \A i \in 1..Len(log) :
              log[i].type = "prompt" /\ log[i].ask = a => answer[a] \in {0, log[i - 1].turn}

IInv == TypeOK /\ Counted /\ TurnsInOrder /\ AskedOnce /\ StopsAreDue /\ AnsweredOwn

-----------------------------------------------------------------------------
(* The operators that read the log.                                         *)

\* Among numbered events one is the newest.
LEMMA NewestExists ==
    ASSUME NEW n \in Nat, NEW S, S \subseteq 0..n, S # {}
    PROVE  \E i \in S : \A j \in S : j <= i
<1> DEFINE T == {n - i : i \in S}
           R == OpToRel(<, Nat)
<1>1. T \subseteq Nat /\ T # {}
  <2>1. \A i \in S : n - i \in Nat
      OBVIOUS
  <2>2. PICK i \in S : TRUE
      OBVIOUS
  <2>3. n - i \in T
      BY <2>2
  <2> QED BY <2>1, <2>3
<1>2. IsWellFoundedOn(R, Nat)
    BY NatLessThanWellFounded
<1>3. \A x, y \in Nat : x < y => <<x, y>> \in R
    BY DEF OpToRel
<1> HIDE DEF T, R
<1>4. PICK x \in T : \A y \in T : ~(<<y, x>> \in R)
    BY <1>1, <1>2, WFMin
<1>5. PICK i \in S : x = n - i
    BY <1>4 DEF T
<1>6. ASSUME NEW j \in S PROVE j <= i
  <2>1. n - j \in T /\ n - j \in Nat /\ x \in Nat
      BY <1>1, <1>4 DEF T
  <2>2. ~(n - j < x)
      BY <1>3, <1>4, <2>1
  <2>3. i \in 0..n /\ j \in 0..n
      OBVIOUS
  <2> QED BY <1>5, <2>2, <2>3
<1> QED BY <1>6

\* An answer is the turn of one of the events it was read from.
LEMMA ProjectIs ==
    ASSUME log \in Seq(Events), NEW S, S \subseteq 1..Len(log)
    PROVE  /\ Project(S) \in Nat
           /\ Project(S) # 0 => \E i \in S : Project(S) = log[i].turn
<1> DEFINE said == {i \in S : log[i].type \in {"answer", "cut"}}
           P(i) == \A j \in said : j <= i
           last == CHOOSE i \in said : P(i)
<1>1. CASE said = {} \/ log[last].type = "cut"
    BY <1>1 DEF Project
<1>2. CASE ~(said = {} \/ log[last].type = "cut")
  <2>1. said \subseteq 0..Len(log) /\ said # {} /\ Len(log) \in Nat
    <3>1. Len(log) \in Nat
        BY LenProperties
    <3>2. 1..Len(log) \subseteq 0..Len(log)
        BY <3>1
    <3>3. said \subseteq S /\ said # {}
        BY <1>2
    <3> QED BY <3>1, <3>2, <3>3
  <2>2. \E i \in said : P(i)
    <3> HIDE DEF said
    <3> QED BY <2>1, NewestExists
  <2>3. last \in said
      BY <2>2
  <2>4. last \in S
      BY <2>3
  <2>5. Project(S) = log[last].turn
      BY <1>2 DEF Project
  <2>6. log[last] \in Events
      BY <2>4, ElementOfSeq
  <2>7. log[last].turn \in Nat
      BY <2>6 DEF Events
  <2> QED BY <2>4, <2>5, <2>7
<1> QED BY <1>1, <1>2

\* The row of a question, in any part of the log that has it, is its row, and
\* its turn the one that began right before.
LEMMA TurnIs ==
    ASSUME TurnsInOrder, AskedOnce, log \in Seq(Events),
           NEW i \in 1..Len(log), log[i].type = "prompt", NEW k \in i..Len(log)
    PROVE  /\ HasRow(log[i].ask, k) /\ Row(log[i].ask, k) = i
           /\ TurnOf(log[i].ask, k) = log[i - 1].turn
<1> DEFINE a == log[i].ask
           P(x) == log[x].type = "prompt" /\ log[x].ask = a
<1>1. Len(log) \in Nat /\ k \in Nat /\ i \in 1..k
    BY LenProperties
<1>2. \A x \in 1..k : P(x) => x = i
    BY <1>1 DEF AskedOnce
<1>3. i \in 1..k /\ P(i)
    BY <1>1
<1>4. HasRow(a, k)
    BY <1>3 DEF HasRow
<1>5. Row(a, k) = i
  <2> DEFINE r == CHOOSE x \in 1..k : P(x)
  <2>1. r \in 1..k /\ P(r)
      BY <1>3
  <2>2. r = i
      BY <1>2, <2>1
  <2> QED BY <2>2 DEF Row
<1>6. i > 1 /\ log[i - 1].type = "start"
    BY DEF TurnsInOrder
<1>7. NewestOf({"start"}, i) = i - 1
  <2> DEFINE found == {x \in 1..i : log[x].type \in {"start"}}
             Q(x)  == \A j \in found : j <= x
             c     == CHOOSE x \in found : Q(x)
  <2>1. i - 1 \in found
      BY <1>1, <1>6
  <2>2. \A x \in found : x \in Nat /\ x <= i - 1
    <3> SUFFICES ASSUME NEW x \in 1..i, log[x].type = "start" PROVE x \in Nat /\ x <= i - 1
        OBVIOUS
    <3>1. x # i
        OBVIOUS
    <3> QED BY <1>1, <3>1
  <2> HIDE DEF found
  <2>3. c \in found /\ Q(c)
      BY <2>1, <2>2
  <2>4. c = i - 1
      BY <1>1, <2>1, <2>2, <2>3
  <2>5. NewestOf({"start"}, i) = IF found = {} THEN 0 ELSE c
      BY DEF NewestOf, found
  <2> QED BY <2>1, <2>4, <2>5
<1>8. TurnOf(a, k) = log[i - 1].turn
    BY <1>5, <1>7 DEF TurnOf
<1> QED BY <1>4, <1>5, <1>8

\* What the question is answered with, once the log that is read has its row.
LEMMA AnswerIsOwn ==
    ASSUME TurnsInOrder, AskedOnce, log \in Seq(Events),
           NEW i \in 1..Len(log), log[i].type = "prompt", NEW k \in 0..Len(log),
           HasRow(log[i].ask, k)
    PROVE  AnswerFor(log[i].ask, k) \in {0, log[i - 1].turn}
<1> DEFINE a == log[i].ask
<1>1. Len(log) \in Nat
    BY LenProperties
<1>2. PICK x \in 1..k : log[x].type = "prompt" /\ log[x].ask = a
    BY DEF HasRow
<1>3. x = i /\ k \in i..Len(log)
    BY <1>1, <1>2 DEF AskedOnce
<1>4. Row(a, k) = i /\ TurnOf(a, k) = log[i - 1].turn
    BY <1>3, TurnIs
<1> DEFINE S == {j \in 1..k : j > Row(a, k) /\ log[j].turn = TurnOf(a, k)}
<1>5. AnswerFor(a, k) = Project(S)
    BY DEF AnswerFor
<1>6. S \subseteq 1..Len(log)
    BY <1>1
<1>7. \A j \in S : log[j].turn = log[i - 1].turn
    BY <1>4
<1> HIDE DEF S
<1>8. Project(S) # 0 => \E j \in S : Project(S) = log[j].turn
    BY <1>6, ProjectIs
<1> QED BY <1>5, <1>7, <1>8

\* An answer is a turn, or none.
LEMMA AnswerType ==
    ASSUME log \in Seq(Events), NEW a, NEW k \in 0..Len(log)
    PROVE  AnswerFor(a, k) \in Nat
<1>1. Len(log) \in Nat
    BY LenProperties
<1>2. \A S \in SUBSET (1..Len(log)) : Project(S) \in Nat
    BY ProjectIs
<1>3. \A i : {j \in 1..k : j > i} \in SUBSET (1..Len(log))
    BY <1>1
<1>4. \A i : AnswerAfter(k, i) \in Nat
    BY <1>2, <1>3 DEF AnswerAfter
<1>5. CASE HasRow(a, k)
  <2> DEFINE S == {j \in 1..k : j > Row(a, k) /\ log[j].turn = TurnOf(a, k)}
  <2>1. S \in SUBSET (1..Len(log))
      BY <1>1
  <2>2. AnswerFor(a, k) = Project(S)
      BY <1>5 DEF AnswerFor
  <2> HIDE DEF S
  <2> QED BY <1>2, <2>1, <2>2
<1>6. CASE ~HasRow(a, k)
    BY <1>4, <1>6 DEF AnswerFor
<1> QED BY <1>5, <1>6

\* A row stays where it is in a log that grows.
LEMMA RowStays ==
    ASSUME log \in Seq(Events), log' \in Seq(Events), Len(log') >= Len(log),
           \A i \in 1..Len(log) : log'[i] = log[i],
           NEW a, HasRow(a, Len(log))
    PROVE  HasRow(a, Len(log))'
<1>1. PICK i \in 1..Len(log) : log[i].type = "prompt" /\ log[i].ask = a
    BY DEF HasRow
<1>2. Len(log) \in Nat /\ Len(log') \in Nat
    BY LenProperties
<1>3. i \in 1..Len(log') /\ log'[i].type = "prompt" /\ log'[i].ask = a
    BY <1>1, <1>2
<1> QED BY <1>3 DEF HasRow

-----------------------------------------------------------------------------
(* Steps of a question.                                                     *)

StepNames == {"out", "securing", "floor", "prompting", "admitted", "waiting", "reading", "done"}

\* A question that goes on to a later await.
LEMMA Onward ==
    ASSUME IInv, NEW a \in Asks, NEW s \in StepNames, step[a] # "done",
           step' = [step EXCEPT ![a] = s], s \in Before => step[a] \in Before,
           UNCHANGED <<queue, turn, running, log>>
    PROVE  /\ step' \in [Asks -> StepNames]
           /\ TurnsInOrder' /\ AskedOnce'
           /\ reached' = reached /\ answer' = answer => AnsweredOwn'
<1>1. step \in [Asks -> StepNames]
    BY DEF IInv, TypeOK, StepNames
<1>2. step' \in [Asks -> StepNames]
    BY <1>1
<1>3. \A b \in Asks : step[b] \notin Before => step'[b] \notin Before
    BY <1>1
<1>4. TurnsInOrder'
    BY DEF IInv, TurnsInOrder
<1>5. AskedOnce'
  <2>1. \A q \in 1..Len(queue) : queue[q] \in Asks
      BY ElementOfSeq DEF IInv, TypeOK
  <2>2. \A i \in 1..Len(log) :
          log[i].type = "prompt" => log[i].ask \in Asks /\ step'[log[i].ask] \notin Before
      BY <1>3 DEF IInv, AskedOnce
  <2>3. \A q \in 1..Len(queue) : step'[queue[q]] \notin Before
      BY <1>3, <2>1 DEF IInv, AskedOnce
  <2> QED BY <2>2, <2>3 DEF IInv, AskedOnce
<1>6. ASSUME reached' = reached, answer' = answer PROVE AnsweredOwn'
  <2>1. \A b \in reached : b \in Asks /\ step[b] = "done"
      BY DEF IInv, AnsweredOwn, TypeOK
  <2>2. \A b \in reached : step'[b] = "done"
      BY <1>1, <2>1
  <2> QED BY <1>6, <2>2 DEF IInv, AnsweredOwn, HasRow
<1> QED BY <1>2, <1>4, <1>5, <1>6

\* ... inside ask() keeps its slot,
LEMMA SlotKept ==
    ASSUME IInv, NEW a \in Asks, NEW s \in StepNames \ {"out", "done"},
           step[a] \notin {"out", "done"}, step' = [step EXCEPT ![a] = s], inFlight' = inFlight
    PROVE  Counted'
<1>1. Inside' = Inside
    BY DEF Inside, IInv, TypeOK
<1> QED BY <1>1 DEF IInv, Counted

\* ... and gives it back at the end.
LEMMA SlotBack ==
    ASSUME IInv, NEW a \in Asks, step[a] \notin {"out", "done"}, Ends(a)
    PROVE  Counted' /\ inFlight' \in Nat /\ step' = [step EXCEPT ![a] = "done"]
<1>1. step' = [step EXCEPT ![a] = "done"] /\ inFlight' = inFlight - 1
    BY DEF Ends
<1>2. a \in Inside
    BY DEF Inside
<1>3. Inside' = Inside \ {a}
    BY <1>1 DEF Inside, IInv, TypeOK
<1>4. IsFiniteSet(Inside \ {a}) /\ Cardinality(Inside \ {a}) = Cardinality(Inside) - 1
    BY <1>2, FS_RemoveElement DEF IInv, Counted
<1>5. Cardinality(Inside \ {a}) \in Nat
    BY <1>4, FS_CardinalityType
<1>6. inFlight' = Cardinality(Inside') /\ inFlight' \in Nat
    BY <1>1, <1>3, <1>4, <1>5 DEF IInv, Counted
<1> QED BY <1>1, <1>3, <1>4, <1>6 DEF Counted

\* What is kept while nobody is told to stop.
LEMMA NoNewStop ==
    ASSUME IInv, UNCHANGED log, left \subseteq left',
           \A b \in Asks : stop'[b] # "no" => b \in left',
           \A b \in Asks : stop'[b] = "stopping" => stop[b] = "stopping"
    PROVE  StopsAreDue'
BY DEF IInv, StopsAreDue, HasRow

\* The end of a wait.
LEMMA WaitEndsKeeps ==
    ASSUME IInv, NEW a \in Asks, step[a] \in {"admitted", "waiting"}, NEW gone,
           WaitEnds(a, gone), left' \in SUBSET Asks, expired' \in SUBSET Asks,
           left \subseteq left', gone \subseteq left',
           UNCHANGED <<floor, answer, reached, agentVars, logVars, faults>>
    PROVE  IInv'
<1>1. UNCHANGED <<queue, turn, running, log>>
    BY DEF agentVars, logVars
<1>2. /\ Ends(a) /\ stop' = [stop EXCEPT ![a] = IF a \in gone THEN "reading" ELSE "no"]
      /\ looked' = looked
    BY DEF WaitEnds
<1>3. Counted' /\ inFlight' \in Nat /\ step' = [step EXCEPT ![a] = "done"]
    BY <1>2, SlotBack
<1>4. /\ step' \in [Asks -> StepNames] /\ TurnsInOrder' /\ AskedOnce' /\ AnsweredOwn'
    BY <1>1, <1>3, Onward DEF StepNames, Before
<1>5. stop \in [Asks -> {"no", "reading", "stopping"}]
    BY DEF IInv, TypeOK
<1>6. stop' \in [Asks -> {"no", "reading", "stopping"}]
    BY <1>2, <1>5
<1>7. StopsAreDue'
  <2>1. \A b \in Asks : stop'[b] # "no" => b \in left'
      BY <1>2, <1>5 DEF IInv, StopsAreDue
  <2>2. \A b \in Asks : stop'[b] = "stopping" => stop[b] = "stopping"
      BY <1>2, <1>5
  <2> QED BY <1>1, <2>1, <2>2, NoNewStop
<1> QED BY <1>2, <1>3, <1>4, <1>6, <1>7 DEF IInv, TypeOK, StepNames, agentVars, logVars

\* A step inside ask() of which only this question knows.
LEMMA StepKeeps ==
    ASSUME IInv, NEW a \in Asks, NEW s \in StepNames \ {"out", "done"},
           step[a] \notin {"out", "done"}, s \in Before => step[a] \in Before,
           step' = [step EXCEPT ![a] = s], inFlight' = inFlight,
           floor' \in [Asks -> Nat], faults' \in Nat,
           UNCHANGED <<left, expired, answer, reached, stop, looked, agentVars, logVars>>
    PROVE  IInv'
<1>1. UNCHANGED <<queue, turn, running, log>>
    BY DEF agentVars, logVars
<1>2. Counted'
    BY SlotKept
<1>3. /\ step' \in [Asks -> StepNames] /\ TurnsInOrder' /\ AskedOnce' /\ AnsweredOwn'
    BY <1>1, Onward
<1>4. StopsAreDue'
    BY <1>1, NoNewStop DEF IInv, StopsAreDue
<1> QED BY <1>2, <1>3, <1>4 DEF IInv, TypeOK, StepNames, agentVars, logVars

\* A question that ends without an answer.
LEMMA EndKeeps ==
    ASSUME IInv, NEW a \in Asks, step[a] \notin {"out", "done"}, Ends(a), faults' \in Nat,
           UNCHANGED <<left, expired, floor, answer, reached, stop, looked, agentVars, logVars>>
    PROVE  IInv'
<1>1. UNCHANGED <<queue, turn, running, log>>
    BY DEF agentVars, logVars
<1>2. Counted' /\ inFlight' \in Nat /\ step' = [step EXCEPT ![a] = "done"]
    BY SlotBack
<1>3. /\ step' \in [Asks -> StepNames] /\ TurnsInOrder' /\ AskedOnce' /\ AnsweredOwn'
    BY <1>1, <1>2, Onward DEF StepNames, Before
<1>4. StopsAreDue'
    BY <1>1, NoNewStop DEF IInv, StopsAreDue
<1> QED BY <1>2, <1>3, <1>4 DEF IInv, TypeOK, StepNames, agentVars, logVars

\* ask() takes a slot for a question that had none.
LEMMA BeginKeeps ==
    ASSUME IInv, NEW a \in Asks, Begin(a)
    PROVE  IInv'
<1>1. UNCHANGED <<queue, turn, running, log>>
    BY DEF Begin, agentVars, logVars
<1>2. /\ step[a] = "out" /\ step' = [step EXCEPT ![a] = "securing"] /\ inFlight' = inFlight + 1
      /\ UNCHANGED <<left, expired, floor, answer, reached, stop, looked, agentVars, logVars,
                     faults>>
    BY DEF Begin
<1>3. Inside' = Inside \cup {a} /\ a \notin Inside
    BY <1>2 DEF Inside, IInv, TypeOK
<1>4. Counted'
    BY <1>2, <1>3, FS_AddElement DEF IInv, Counted
<1>5. /\ step' \in [Asks -> StepNames] /\ TurnsInOrder' /\ AskedOnce' /\ AnsweredOwn'
    BY <1>1, <1>2, Onward DEF StepNames, Before
<1>6. StopsAreDue'
    BY <1>1, <1>2, NoNewStop DEF IInv, StopsAreDue
<1>7. inFlight' \in Nat
    BY <1>2 DEF IInv, TypeOK
<1> QED BY <1>2, <1>4, <1>5, <1>6, <1>7 DEF IInv, TypeOK, StepNames, agentVars, logVars

\* The host reads a part of the log.
LEMMA ReadableType ==
    ASSUME IInv
    PROVE  Readable \subseteq 0..Len(log) /\ Len(log) \in Nat
<1>1. Len(log) \in Nat
    BY LenProperties DEF IInv, TypeOK
<1> QED BY <1>1 DEF Readable, IInv, TypeOK

\* floorOf() notes an event of the log.
LEMMA FloorKeeps ==
    ASSUME IInv, NEW a \in Asks, FloorRead(a)
    PROVE  IInv'
<1>1. /\ step[a] = "floor" /\ step' = [step EXCEPT ![a] = "prompting"]
      /\ UNCHANGED <<inFlight, left, expired, answer, reached, stop, looked, agentVars, logVars>>
    BY DEF FloorRead
<1>2. floor' \in [Asks -> Nat] /\ faults' \in Nat
  <2>1. CASE \E k \in Readable : floor' = [floor EXCEPT ![a] = k] /\ UNCHANGED faults
      BY <2>1, ReadableType DEF IInv, TypeOK
  <2>2. CASE Fault /\ UNCHANGED floor
      BY <2>2 DEF Fault, IInv, TypeOK
  <2> QED BY <2>1, <2>2 DEF FloorRead
<1> QED BY <1>1, <1>2, StepKeeps DEF StepNames, Before

\* The prompt is the first of its question in the queue.
LEMMA PromptKeeps ==
    ASSUME IInv, NEW a \in Asks, Prompt(a)
    PROVE  IInv'
<1>1. /\ step[a] = "prompting"
      /\ UNCHANGED <<left, expired, floor, answer, reached, stop, looked, turn, running, stopping,
                     logVars, faults>>
    BY DEF Prompt
<1>2. CASE Aborted(a)
  <2>1. Ends(a) /\ UNCHANGED agentVars
      BY <1>1, <1>2 DEF Prompt, agentVars
  <2> QED BY <1>1, <2>1, EndKeeps DEF IInv, TypeOK
<1>3. CASE ~Aborted(a)
  <2>1. queue' = Append(queue, a) /\ step' = [step EXCEPT ![a] = "admitted"] /\ inFlight' = inFlight
      BY <1>3 DEF Prompt
  <2>2. Counted'
      BY <1>1, <2>1, SlotKept DEF StepNames
  <2>3. step \in [Asks -> StepNames] /\ queue \in Seq(Asks) /\ log' = log /\ stored' = stored
      BY <1>1 DEF IInv, TypeOK, StepNames, logVars
  <2>4. step' \in [Asks -> StepNames] /\ \A b \in Asks : step[b] \notin Before => step'[b] \notin Before
      BY <2>1, <2>3 DEF StepNames, Before
  <2>5. TurnsInOrder'
      BY <1>1, <2>3 DEF IInv, TurnsInOrder
  <2>6. AnsweredOwn'
    <3>1. \A b \in reached : b \in Asks /\ step[b] = "done"
        BY DEF IInv, AnsweredOwn, TypeOK
    <3>2. \A b \in reached : step'[b] = "done"
        BY <1>1, <2>1, <2>3, <3>1
    <3> QED BY <1>1, <2>3, <3>2 DEF IInv, AnsweredOwn, HasRow
  <2>7. StopsAreDue'
      BY <1>1, <2>3, NoNewStop DEF IInv, StopsAreDue
  <2>8. /\ queue' \in Seq(Asks) /\ Len(queue') = Len(queue) + 1 /\ Len(queue) \in Nat
        /\ \A q \in 1..Len(queue) : queue'[q] = queue[q]
        /\ queue'[Len(queue) + 1] = a
      BY <2>1, <2>3, AppendProperties, LenProperties
  <2>9. AskedOnce'
    <3>1. step[a] \in Before /\ step'[a] \notin Before
        BY <1>1, <2>1, <2>3 DEF Before
    <3>2. \A q \in 1..Len(queue) : queue[q] \in Asks /\ queue[q] # a
        BY <2>3, <3>1, ElementOfSeq DEF IInv, AskedOnce
    <3>3. \A i \in 1..Len(log) : log[i].type = "prompt" =>
             log[i].ask \in Asks /\ step'[log[i].ask] \notin Before /\ log[i].ask # a
        BY <2>4, <3>1 DEF IInv, AskedOnce
    <3>4. \A q \in 1..Len(queue') : q = Len(queue) + 1 \/ q \in 1..Len(queue)
        BY <2>8
    <3>5. \A q \in 1..Len(queue') :
            /\ step'[queue'[q]] \notin Before
            /\ \A i \in 1..Len(log) : log[i].type = "prompt" => log[i].ask # queue'[q]
      <4> TAKE q \in 1..Len(queue')
      <4>1. CASE q = Len(queue) + 1
          BY <2>8, <3>1, <3>3, <4>1
      <4>2. CASE q \in 1..Len(queue)
        <5>1. queue'[q] = queue[q] /\ queue[q] \in Asks /\ step[queue[q]] \notin Before
            BY <2>8, <3>2, <4>2 DEF IInv, AskedOnce
        <5> QED BY <2>4, <4>2, <5>1 DEF IInv, AskedOnce
      <4> QED BY <3>4, <4>1, <4>2
    <3>6. \A p, q \in 1..Len(queue') : queue'[p] = queue'[q] => p = q
      <4> SUFFICES ASSUME NEW p \in 1..Len(queue'), NEW q \in 1..Len(queue'), queue'[p] = queue'[q]
                   PROVE  p = q
          OBVIOUS
      <4>1. CASE p \in 1..Len(queue) /\ q \in 1..Len(queue)
          BY <2>8, <4>1 DEF IInv, AskedOnce
      <4>2. CASE p = Len(queue) + 1 /\ q \in 1..Len(queue)
          BY <2>8, <3>2, <4>2
      <4>3. CASE q = Len(queue) + 1 /\ p \in 1..Len(queue)
          BY <2>8, <3>2, <4>3
      <4> QED BY <3>4, <4>1, <4>2, <4>3
    <3> QED BY <2>3, <3>3, <3>5, <3>6 DEF IInv, AskedOnce
  <2> QED BY <1>1, <2>1, <2>2, <2>3, <2>4, <2>5, <2>6, <2>7, <2>8, <2>9
          DEF IInv, TypeOK, StepNames
<1> QED BY <1>2, <1>3

\* whenIdleOrAborted() goes on to the wait, the read or the end.
LEMMA WaitKeeps ==
    ASSUME IInv, NEW a \in Asks, Wait(a)
    PROVE  IInv'
<1>1. /\ step[a] = "admitted"
      /\ UNCHANGED <<left, expired, floor, answer, reached, agentVars, logVars, faults>>
    BY DEF Wait
<1>2. left' \in SUBSET Asks /\ expired' \in SUBSET Asks
    BY <1>1 DEF IInv, TypeOK
<1>3. CASE Aborted(a)
  <2>1. WaitEnds(a, left)
      BY <1>3 DEF Wait
  <2> QED BY <1>1, <1>2, <2>1, WaitEndsKeeps
<1>4. CASE ~Aborted(a)
  <2> DEFINE s == IF Idle THEN "reading" ELSE "waiting"
  <2>1. step' = [step EXCEPT ![a] = s] /\ UNCHANGED <<inFlight, stop, looked>>
      BY <1>4 DEF Wait
  <2>2. s \in StepNames \ {"out", "done"} /\ s \notin Before
      BY DEF StepNames, Before
  <2>3. floor' \in [Asks -> Nat] /\ faults' \in Nat
      BY <1>1 DEF IInv, TypeOK
  <2>4. step[a] \notin {"out", "done"}
      BY <1>1
  <2> HIDE DEF s
  <2> QED BY <1>1, <2>1, <2>2, <2>3, <2>4, StepKeeps
<1> QED BY <1>3, <1>4

\* The caller goes, or the time is over: whoever waits hears of it.
LEMMA AbortKeeps ==
    ASSUME IInv, NEW a \in Asks, Leave(a) \/ Expire(a)
    PROVE  IInv'
<1>1. /\ step[a] \notin {"out", "done"}
      /\ left' \in SUBSET Asks /\ expired' \in SUBSET Asks /\ left \subseteq left'
      /\ UNCHANGED <<floor, answer, reached, agentVars, logVars, faults>>
    BY DEF Leave, Expire, IInv, TypeOK
<1>2. CASE step[a] = "waiting"
  <2>1. WaitEnds(a, left') \/ (WaitEnds(a, left) /\ left' = left)
      BY <1>2 DEF Leave, Expire
  <2> QED BY <1>1, <1>2, <2>1, WaitEndsKeeps
<1>3. CASE step[a] # "waiting"
  <2>1. UNCHANGED <<step, inFlight, stop, looked>>
      BY <1>3 DEF Leave, Expire
  <2>2. TurnsInOrder' /\ AskedOnce' /\ AnsweredOwn' /\ Counted'
      BY <1>1, <2>1 DEF IInv, TurnsInOrder, AskedOnce, AnsweredOwn, Counted, Inside, HasRow,
                        agentVars, logVars
  <2>3. StopsAreDue'
      BY <1>1, <2>1, NoNewStop DEF IInv, StopsAreDue, logVars
  <2> QED BY <1>1, <2>1, <2>2, <2>3 DEF IInv, TypeOK, agentVars, logVars
<1> QED BY <1>2, <1>3

\* The log is read for the answer: if it has the row of the question, the answer
\* is of the turn the row was claimed into.
LEMMA AnsweredKeeps ==
    ASSUME IInv, NEW a \in Asks, Answered(a)
    PROVE  IInv'
<1>1. /\ step[a] = "reading" /\ Ends(a)
      /\ UNCHANGED <<left, expired, floor, stop, looked, agentVars, logVars, faults>>
    BY DEF Answered
<1>2. UNCHANGED <<queue, turn, running, log>>
    BY <1>1 DEF agentVars, logVars
<1>3. Counted' /\ inFlight' \in Nat /\ step' = [step EXCEPT ![a] = "done"]
    BY <1>1, SlotBack
<1>4. step' \in [Asks -> StepNames] /\ TurnsInOrder' /\ AskedOnce'
    BY <1>1, <1>2, <1>3, Onward DEF StepNames, Before
<1>5. StopsAreDue'
    BY <1>1, <1>2, NoNewStop DEF IInv, StopsAreDue
<1>6. PICK k \in Readable :
          /\ answer' = [answer EXCEPT ![a] = AnswerFor(a, k)]
          /\ reached' = IF HasRow(a, k) THEN reached \cup {a} ELSE reached
    BY DEF Answered
<1>7. log \in Seq(Events) /\ k \in 0..Len(log) /\ Len(log) \in Nat
    BY ReadableType DEF IInv, TypeOK
<1>8. AnswerFor(a, k) \in Nat
    BY <1>7, AnswerType
<1>9. answer' \in [Asks -> Nat] /\ reached' \in SUBSET Asks
    BY <1>6, <1>8 DEF IInv, TypeOK
<1>10. step \in [Asks -> StepNames] /\ answer \in [Asks -> Nat]
    BY DEF IInv, TypeOK, StepNames
<1>11. AnsweredOwn'
  <2> SUFFICES ASSUME NEW b \in reached'
               PROVE  /\ step'[b] = "done" /\ HasRow(b, Len(log))
                      /\ \A i \in 1..Len(log) :
                            log[i].type = "prompt" /\ log[i].ask = b =>
                                answer'[b] \in {0, log[i - 1].turn}
      BY <1>2 DEF AnsweredOwn, HasRow
  <2>1. CASE b = a
    <3>1. a \notin reached
        BY <1>1 DEF IInv, AnsweredOwn
    <3>2. HasRow(a, k)
        BY <1>6, <2>1, <3>1
    <3>3. HasRow(a, Len(log))
        BY <1>7, <3>2 DEF HasRow
    <3>4. ASSUME NEW i \in 1..Len(log), log[i].type = "prompt", log[i].ask = a
          PROVE  AnswerFor(a, k) \in {0, log[i - 1].turn}
      <4>1. HasRow(log[i].ask, k)
          BY <3>2, <3>4
      <4>2. AnswerFor(log[i].ask, k) \in {0, log[i - 1].turn}
          BY <1>7, <3>4, <4>1, AnswerIsOwn DEF IInv
      <4> QED BY <3>4, <4>2
    <3>5. answer'[a] = AnswerFor(a, k) /\ step'[a] = "done"
        BY <1>3, <1>6, <1>10
    <3> QED BY <2>1, <3>3, <3>4, <3>5
  <2>2. CASE b # a
    <3>1. b \in reached /\ b \in Asks
        BY <1>6, <2>2 DEF IInv, TypeOK
    <3>2. answer'[b] = answer[b] /\ step'[b] = step[b]
        BY <1>3, <1>6, <1>10, <2>2, <3>1
    <3> QED BY <3>1, <3>2 DEF IInv, AnsweredOwn
  <2> QED BY <2>1, <2>2
<1> QED BY <1>1, <1>3, <1>4, <1>5, <1>9, <1>11
        DEF IInv, TypeOK, StepNames, agentVars, logVars

\* abandonTurn() goes on only if the log it reads has the question.
LEMMA StopKeeps ==
    ASSUME IInv, NEW a \in Asks, Stop(a)
    PROVE  IInv'
<1>1. /\ UNCHANGED <<askVars, queue, turn, running, logVars>>
    BY DEF Stop, StopReads, Stops, agentVars
<1>2. step' = step /\ reached' = reached /\ answer' = answer /\ left' = left /\ log' = log
    BY <1>1 DEF askVars, logVars
<1>3. TurnsInOrder' /\ AskedOnce' /\ AnsweredOwn' /\ Counted'
    BY <1>1, <1>2 DEF IInv, TurnsInOrder, AskedOnce, AnsweredOwn, Counted, Inside, HasRow, askVars
<1>4. stop \in [Asks -> {"no", "reading", "stopping"}]
    BY DEF IInv, TypeOK
<1>5. stop[a] # "no" /\ a \in left
    BY DEF Stop, StopReads, Stops, IInv, StopsAreDue
<1>6. faults' \in Nat /\ stopping' \in BOOLEAN
  <2>1. CASE StopReads(a)
    <3>1. stopping' = stopping
        BY <2>1 DEF StopReads, agentVars
    <3>2. faults' = faults \/ faults' = faults + 1
        BY <2>1 DEF StopReads, Fault
    <3>3. faults' \in Nat
        BY <3>2 DEF IInv, TypeOK
    <3> QED BY <3>1, <3>3 DEF IInv, TypeOK
  <2>2. CASE Stops(a)
    <3>1. stopping' = (running # NoAsk) /\ faults' = faults
        BY <2>2 DEF Stops
    <3>2. stopping' \in BOOLEAN
        BY <3>1, Zenon
    <3> QED BY <3>1, <3>2 DEF IInv, TypeOK
  <2> QED BY <2>1, <2>2 DEF Stop
<1>7. PICK s \in {"no", "stopping"} : /\ stop' = [stop EXCEPT ![a] = s]
                                      /\ s = "stopping" => HasRow(a, Len(log))
  <2>1. CASE StopReads(a)
    <3>1. CASE \E k \in Readable : /\ OwnTurnStillRunning(a, k)
                                   /\ stop' = [stop EXCEPT ![a] = "stopping"]
      <4>1. PICK k \in Readable : /\ OwnTurnStillRunning(a, k)
                                 /\ stop' = [stop EXCEPT ![a] = "stopping"]
          BY <3>1
      <4>2. HasRow(a, k)
          BY <4>1 DEF OwnTurnStillRunning
      <4>3. HasRow(a, Len(log))
          BY <4>2, ReadableType DEF HasRow
      <4> QED BY <4>1, <4>3
    <3>2. CASE stop' = [stop EXCEPT ![a] = "no"]
        BY <3>2
    <3> QED BY <2>1, <3>1, <3>2 DEF StopReads
  <2>2. CASE Stops(a)
      BY <2>2 DEF Stops
  <2> QED BY <2>1, <2>2 DEF Stop
<1>8. StopsAreDue'
  <2>1. \A b \in Asks : stop'[b] # "no" => b \in left
      BY <1>4, <1>5, <1>7 DEF IInv, StopsAreDue
  <2>2. \A b \in Asks : stop'[b] = "stopping" => HasRow(b, Len(log))
      BY <1>4, <1>7 DEF IInv, StopsAreDue
  <2> QED BY <1>2, <2>1, <2>2 DEF StopsAreDue, HasRow
<1>9. stop' \in [Asks -> {"no", "reading", "stopping"}]
    BY <1>4, <1>7
<1>10. looked' \in [Asks -> Nat]
  <2>1. \A k \in Readable : k \in Nat
      BY ReadableType
  <2>2. looked' = looked \/ \E k \in Nat : looked' = [looked EXCEPT ![a] = k]
      BY <2>1 DEF Stop, StopReads, Stops
  <2> QED BY <2>2 DEF IInv, TypeOK
<1> QED BY <1>1, <1>3, <1>6, <1>8, <1>9, <1>10 DEF IInv, TypeOK, askVars, logVars

-----------------------------------------------------------------------------
(* Steps of the agent.                                                      *)

\* Two events at the end of the log.
LEMMA Longer ==
    ASSUME NEW s \in Seq(Events), NEW e \in Events, NEW f \in Events
    PROVE  LET l == s \o <<e, f>> IN
           /\ l \in Seq(Events) /\ Len(s) \in Nat /\ Len(l) = Len(s) + 2
           /\ \A i \in 1..Len(s) : l[i] = s[i]
           /\ l[Len(s) + 1] = e /\ l[Len(s) + 2] = f
<1>1. <<e, f>> \in Seq(Events) /\ Len(<<e, f>>) = 2 /\ <<e, f>>[1] = e /\ <<e, f>>[2] = f
    OBVIOUS
<1>2. Len(s) \in Nat
    BY LenProperties
<1>3. /\ s \o <<e, f>> \in Seq(Events) /\ Len(s \o <<e, f>>) = Len(s) + 2
      /\ \A i \in 1..(Len(s) + 2) :
            (s \o <<e, f>>)[i] = IF i <= Len(s) THEN s[i] ELSE <<e, f>>[i - Len(s)]
    BY <1>1, ConcatProperties
<1> DEFINE l == s \o <<e, f>>
<1> HIDE DEF l
<1>4. /\ l \in Seq(Events) /\ Len(l) = Len(s) + 2
      /\ \A i \in 1..(Len(s) + 2) : l[i] = IF i <= Len(s) THEN s[i] ELSE <<e, f>>[i - Len(s)]
    BY <1>3 DEF l
<1>5. \A i \in 1..Len(s) : l[i] = s[i]
    BY <1>2, <1>4
<1>6. l[Len(s) + 1] = e /\ l[Len(s) + 2] = f
    BY <1>1, <1>2, <1>4
<1> QED BY <1>2, <1>4, <1>5, <1>6 DEF l

\* What was said of the log before is still so.
LEMMA StopsInLonger ==
    ASSUME IInv, log' \in Seq(Events), Len(log') >= Len(log),
           \A i \in 1..Len(log) : log'[i] = log[i], stop' = stop, left' = left
    PROVE  StopsAreDue'
<1>1. \A a \in Asks : HasRow(a, Len(log)) => HasRow(a, Len(log))'
    BY RowStays DEF IInv, TypeOK
<1> QED BY <1>1 DEF IInv, StopsAreDue

\* ... and every answer is still of the turn its question was claimed into.
LEMMA AnswersInLonger ==
    ASSUME IInv, log' \in Seq(Events), Len(log') >= Len(log),
           \A i \in 1..Len(log) : log'[i] = log[i], reached' = reached, answer' = answer,
           \A b \in Asks : step[b] = "done" => step'[b] = "done", AskedOnce'
    PROVE  AnsweredOwn'
<1> SUFFICES ASSUME NEW b \in reached
             PROVE  /\ step'[b] = "done" /\ HasRow(b, Len(log))'
                    /\ \A i \in 1..Len(log') :
                          log'[i].type = "prompt" /\ log'[i].ask = b =>
                              answer[b] \in {0, log'[i - 1].turn}
    BY DEF AnsweredOwn
<1>1. step[b] = "done" /\ HasRow(b, Len(log)) /\ b \in Asks
    BY DEF IInv, AnsweredOwn, TypeOK
<1>2. HasRow(b, Len(log))'
    BY <1>1, RowStays DEF IInv, TypeOK
<1>3. PICK i \in 1..Len(log) : log[i].type = "prompt" /\ log[i].ask = b
    BY <1>1 DEF HasRow
<1>4. Len(log) \in Nat /\ Len(log') \in Nat
    BY LenProperties DEF IInv, TypeOK
<1>5. i > 1 /\ i - 1 \in 1..Len(log) /\ i \in 1..Len(log')
    BY <1>3, <1>4 DEF IInv, TurnsInOrder
<1>6. log'[i] = log[i] /\ log'[i - 1] = log[i - 1]
    BY <1>5
<1>7. \A x \in 1..Len(log') : log'[x].type = "prompt" /\ log'[x].ask = b => x = i
    BY <1>3, <1>5, <1>6 DEF AskedOnce
<1>8. answer[b] \in {0, log[i - 1].turn}
    BY <1>3 DEF IInv, AnsweredOwn
<1> QED BY <1>1, <1>2, <1>6, <1>7, <1>8

\* The agent claims the oldest prompt into a turn of its own.
LEMMA ClaimKeeps ==
    ASSUME IInv, Claim
    PROVE  IInv'
<1> DEFINE n == Len(log)
           a == Head(queue)
<1>1. /\ running = NoAsk /\ queue # <<>> /\ running' = a /\ queue' = Tail(queue)
      /\ turn' = turn + 1
      /\ log' = log \o <<Event("start", turn + 1, NoAsk), Event("prompt", 0, a)>>
      /\ UNCHANGED <<askVars, stop, looked, stopping, stored, faults>>
    BY DEF Claim
<1>2. /\ step' = step /\ reached' = reached /\ answer' = answer /\ left' = left
    BY <1>1 DEF askVars
<1>3. /\ log \in Seq(Events) /\ queue \in Seq(Asks) /\ turn \in Nat
    BY DEF IInv, TypeOK
<1>4. /\ a \in Asks /\ Tail(queue) \in Seq(Asks) /\ Len(Tail(queue)) = Len(queue) - 1
      /\ \A q \in 1..Len(Tail(queue)) : Tail(queue)[q] = queue[q + 1]
    BY <1>1, <1>3, HeadTailProperties
<1>5. Len(queue) \in Nat /\ Len(queue) > 0 /\ a = queue[1]
    BY <1>1, <1>3, LenProperties
<1>6. /\ Event("start", turn + 1, NoAsk) \in Events /\ Event("prompt", 0, a) \in Events
    BY <1>3, <1>4 DEF Event, Events
<1>7. /\ log' \in Seq(Events) /\ n \in Nat /\ Len(log') = n + 2
      /\ \A i \in 1..n : log'[i] = log[i]
      /\ log'[n + 1] = Event("start", turn + 1, NoAsk) /\ log'[n + 2] = Event("prompt", 0, a)
    BY <1>1, <1>3, <1>6, Longer
<1>8. /\ log'[n + 1].type = "start" /\ log'[n + 1].turn = turn + 1
      /\ log'[n + 2].type = "prompt" /\ log'[n + 2].ask = a
    BY <1>7 DEF Event
<1>9. \A i \in 1..Len(log') : i \in 1..n \/ i = n + 1 \/ i = n + 2
    BY <1>7
<1> HIDE DEF n, a
<1>10. Counted' /\ StopsAreDue'
  <2>1. Len(log') >= Len(log)
      BY <1>7 DEF n
  <2>2. StopsAreDue'
      BY <1>1, <1>2, <1>7, <2>1, StopsInLonger DEF n
  <2> QED BY <1>1, <2>2 DEF IInv, Counted, Inside, askVars
<1>11. TurnsInOrder'
  <2>1. \A i \in 1..n : log[i].type = "start" => log[i].turn <= turn /\ log[i].turn \in Nat
    <3>1. \A i \in 1..n : log[i] \in Events
        BY <1>3, ElementOfSeq DEF n
    <3>2. \A i \in 1..n : log[i].turn \in Nat
        BY <3>1 DEF Events
    <3>3. \A i \in 1..n : log[i].type = "start" => log[i].turn <= turn
        BY DEF IInv, TurnsInOrder, n
    <3> QED BY <3>2, <3>3
  <2>2. \A i \in 1..Len(log') : log'[i].type = "start" => log'[i].turn <= turn'
    <3> SUFFICES ASSUME NEW i \in 1..Len(log'), log'[i].type = "start" PROVE log'[i].turn <= turn'
        OBVIOUS
    <3>1. turn' = turn + 1
        BY <1>1
    <3>2. CASE i = n + 1
        BY <1>3, <1>8, <3>1, <3>2
    <3>3. CASE i \in 1..n
      <4>1. log'[i] = log[i]
          BY <1>7, <3>3
      <4>2. log[i].turn <= turn /\ log[i].turn \in Nat
          BY <2>1, <3>3, <4>1
      <4> QED BY <1>3, <3>1, <4>1, <4>2
    <3>4. i # n + 2
        BY <1>8
    <3> QED BY <1>9, <3>2, <3>3, <3>4
  <2>3. \A i, j \in 1..Len(log') :
          log'[i].type = "start" /\ log'[j].type = "start" /\ i < j => log'[i].turn < log'[j].turn
    <3> SUFFICES ASSUME NEW i \in 1..Len(log'), NEW j \in 1..Len(log'),
                        log'[i].type = "start", log'[j].type = "start", i < j
                 PROVE  log'[i].turn < log'[j].turn
        OBVIOUS
    <3>1. i # n + 2 /\ j # n + 2
        BY <1>8
    <3>2. i \in 1..n
        BY <1>7, <1>9, <3>1
    <3>3. CASE j = n + 1
        BY <1>3, <1>7, <1>8, <2>1, <3>2, <3>3
    <3>4. CASE j \in 1..n
        BY <1>7, <3>2, <3>4 DEF IInv, TurnsInOrder, n
    <3> QED BY <1>9, <3>1, <3>3, <3>4
  <2>4. \A i \in 1..Len(log') : log'[i].type = "prompt" => i > 1 /\ log'[i - 1].type = "start"
    <3> SUFFICES ASSUME NEW i \in 1..Len(log'), log'[i].type = "prompt"
                 PROVE  i > 1 /\ log'[i - 1].type = "start"
        OBVIOUS
    <3>1. CASE i = n + 2
        BY <1>7, <1>8, <3>1
    <3>2. CASE i \in 1..n
      <4>1. i > 1 /\ log[i - 1].type = "start"
          BY <1>7, <3>2 DEF IInv, TurnsInOrder, n
      <4>2. i - 1 \in 1..n
          BY <1>7, <3>2, <4>1
      <4> QED BY <1>7, <4>1, <4>2
    <3>3. i # n + 1
        BY <1>8
    <3> QED BY <1>9, <3>1, <3>2, <3>3
  <2>5. Len(log') > 0 /\ log'[Len(log')].type = "prompt" /\ log'[Len(log')].ask = running'
      BY <1>1, <1>7, <1>8
  <2> QED BY <1>1, <1>4, <2>2, <2>3, <2>4, <2>5 DEF TurnsInOrder
<1>12. AskedOnce'
  <2>1. \A i \in 1..n : log[i].type = "prompt" => log[i].ask # a
      BY <1>5 DEF IInv, AskedOnce, n
  <2>2. step[a] \notin Before
      BY <1>5 DEF IInv, AskedOnce
  <2>3. \A q \in 1..Len(Tail(queue)) : q + 1 \in 1..Len(queue) /\ q + 1 # 1
      BY <1>4, <1>5
  <2>4. \A i \in 1..Len(log') :
          log'[i].type = "prompt" => log'[i].ask \in Asks /\ step[log'[i].ask] \notin Before
    <3> SUFFICES ASSUME NEW i \in 1..Len(log'), log'[i].type = "prompt"
                 PROVE  log'[i].ask \in Asks /\ step[log'[i].ask] \notin Before
        OBVIOUS
    <3>1. CASE i = n + 2
        BY <1>4, <1>8, <2>2, <3>1
    <3>2. CASE i \in 1..n
        BY <1>7, <3>2 DEF IInv, AskedOnce, n
    <3>3. i # n + 1
        BY <1>8
    <3> QED BY <1>9, <3>1, <3>2, <3>3
  <2>5. \A i, j \in 1..Len(log') :
          log'[i].type = "prompt" /\ log'[j].type = "prompt" /\ log'[i].ask = log'[j].ask => i = j
    <3> SUFFICES ASSUME NEW i \in 1..Len(log'), NEW j \in 1..Len(log'), log'[i].type = "prompt",
                        log'[j].type = "prompt", log'[i].ask = log'[j].ask
                 PROVE  i = j
        OBVIOUS
    <3>1. i # n + 1 /\ j # n + 1
        BY <1>8
    <3>2. CASE i \in 1..n /\ j \in 1..n
        BY <1>7, <3>2 DEF IInv, AskedOnce, n
    <3>3. CASE i \in 1..n /\ j = n + 2
        BY <1>7, <1>8, <2>1, <3>3
    <3>4. CASE i = n + 2 /\ j \in 1..n
        BY <1>7, <1>8, <2>1, <3>4
    <3> QED BY <1>9, <3>1, <3>2, <3>3, <3>4
  <2>6. \A q \in 1..Len(Tail(queue)) :
          /\ step[Tail(queue)[q]] \notin Before
          /\ \A i \in 1..Len(log') : log'[i].type = "prompt" => log'[i].ask # Tail(queue)[q]
    <3> TAKE q \in 1..Len(Tail(queue))
    <3>1. Tail(queue)[q] = queue[q + 1] /\ q + 1 \in 1..Len(queue)
        BY <1>4, <2>3
    <3>2. queue[q + 1] # a
        BY <1>5, <2>3, <3>1 DEF IInv, AskedOnce
    <3>3. step[queue[q + 1]] \notin Before
        BY <3>1 DEF IInv, AskedOnce
    <3>4. ASSUME NEW i \in 1..Len(log'), log'[i].type = "prompt" PROVE log'[i].ask # queue[q + 1]
      <4>1. CASE i = n + 2
          BY <1>8, <3>2, <4>1
      <4>2. CASE i \in 1..n
          BY <1>7, <3>1, <3>4, <4>2 DEF IInv, AskedOnce, n
      <4>3. i # n + 1
          BY <1>8, <3>4
      <4> QED BY <1>9, <4>1, <4>2, <4>3
    <3> QED BY <3>1, <3>3, <3>4
  <2>7. \A p, q \in 1..Len(Tail(queue)) : Tail(queue)[p] = Tail(queue)[q] => p = q
    <3> SUFFICES ASSUME NEW p \in 1..Len(Tail(queue)), NEW q \in 1..Len(Tail(queue)),
                        Tail(queue)[p] = Tail(queue)[q]
                 PROVE  p = q
        OBVIOUS
    <3>1. queue[p + 1] = queue[q + 1] /\ p + 1 \in 1..Len(queue) /\ q + 1 \in 1..Len(queue)
        BY <1>4, <2>3
    <3>2. p + 1 = q + 1
        BY <3>1 DEF IInv, AskedOnce
    <3>3. p \in Nat /\ q \in Nat
        BY <1>4, <1>5
    <3> QED BY <3>2, <3>3
  <2> QED BY <1>1, <1>2, <2>4, <2>5, <2>6, <2>7 DEF AskedOnce
<1>13. AnsweredOwn'
  <2>1. Len(log') >= Len(log)
      BY <1>7 DEF n
  <2> QED BY <1>2, <1>7, <1>12, <2>1, AnswersInLonger DEF n
<1>14. stored' \in 0..Len(log')
    BY <1>1, <1>7 DEF IInv, TypeOK, n
<1>15. running' \in Asks \cup {NoAsk} /\ queue' \in Seq(Asks) /\ turn' \in Nat
    BY <1>1, <1>3, <1>4
<1> QED BY <1>1, <1>7, <1>10, <1>11, <1>12, <1>13, <1>14, <1>15 DEF IInv, TypeOK, askVars

\* The turn that runs ends; whoever waits for the agent to be idle goes on.
LEMMA TurnEndsKeeps ==
    ASSUME IInv, NEW said \in {"answer", "cut"}, TurnEnds(said)
    PROVE  IInv'
<1> DEFINE n == Len(log)
<1>1. /\ running # NoAsk /\ running' = NoAsk /\ stopping' = FALSE
      /\ log' = log \o <<Event(said, turn, NoAsk), Event("end", turn, NoAsk)>>
      /\ step' = [a \in Asks |-> IF step[a] = "waiting" /\ queue = <<>> THEN "reading" ELSE step[a]]
      /\ UNCHANGED <<inFlight, left, expired, floor, answer, reached, stop, looked, queue, turn,
                     stored, faults>>
    BY DEF TurnEnds
<1>2. /\ log \in Seq(Events) /\ queue \in Seq(Asks) /\ turn \in Nat /\ step \in [Asks -> StepNames]
    BY DEF IInv, TypeOK, StepNames
<1>3. Event(said, turn, NoAsk) \in Events /\ Event("end", turn, NoAsk) \in Events
    BY <1>2 DEF Event, Events
<1>4. /\ log' \in Seq(Events) /\ n \in Nat /\ Len(log') = n + 2
      /\ \A i \in 1..n : log'[i] = log[i]
      /\ log'[n + 1] = Event(said, turn, NoAsk) /\ log'[n + 2] = Event("end", turn, NoAsk)
    BY <1>1, <1>2, <1>3, Longer
<1>5. /\ log'[n + 1].type \notin {"start", "prompt"} /\ log'[n + 2].type \notin {"start", "prompt"}
    BY <1>4 DEF Event
<1>6. \A i \in 1..Len(log') : log'[i].type \in {"start", "prompt"} => i \in 1..n
  <2> SUFFICES ASSUME NEW i \in 1..Len(log'), log'[i].type \in {"start", "prompt"} PROVE i \in 1..n
      OBVIOUS
  <2>1. i # n + 1 /\ i # n + 2
      BY <1>5
  <2> QED BY <1>4, <2>1
<1>7. \A a \in Asks : /\ step'[a] \in StepNames
                      /\ step[a] \in {"out", "done"} \cup Before => step'[a] = step[a]
                      /\ step[a] \notin {"out", "done"} => step'[a] \notin {"out", "done"}
                      /\ step[a] \notin Before => step'[a] \notin Before
    BY <1>1, <1>2 DEF StepNames, Before
<1>8. step' \in [Asks -> StepNames]
    BY <1>1, <1>7
<1> HIDE DEF n
<1>9. Inside' = Inside
    BY <1>7 DEF Inside
<1>10. StopsAreDue'
  <2>1. Len(log') >= Len(log)
      BY <1>4 DEF n
  <2> QED BY <1>1, <1>4, <2>1, StopsInLonger DEF n
<1>11. TurnsInOrder'
  <2>1. \A i \in 1..Len(log') : log'[i].type = "prompt" => i > 1 /\ log'[i - 1].type = "start"
    <3> SUFFICES ASSUME NEW i \in 1..Len(log'), log'[i].type = "prompt"
                 PROVE  i > 1 /\ log'[i - 1].type = "start"
        OBVIOUS
    <3>1. i \in 1..n
        BY <1>6
    <3>2. i > 1 /\ log[i - 1].type = "start"
        BY <1>4, <3>1 DEF IInv, TurnsInOrder, n
    <3>3. i - 1 \in 1..n
        BY <1>4, <3>1, <3>2
    <3> QED BY <1>4, <3>2, <3>3
  <2>2. \A i \in 1..Len(log') : log'[i].type = "start" => i \in 1..n /\ log'[i] = log[i]
      BY <1>4, <1>6
  <2>3. \A i \in 1..Len(log') : log'[i].type = "start" => log'[i].turn <= turn'
      BY <1>1, <2>2 DEF IInv, TurnsInOrder, n
  <2>4. \A i, j \in 1..Len(log') :
          log'[i].type = "start" /\ log'[j].type = "start" /\ i < j => log'[i].turn < log'[j].turn
      BY <2>2 DEF IInv, TurnsInOrder, n
  <2> QED BY <1>1, <2>1, <2>3, <2>4 DEF TurnsInOrder
<1>12. AskedOnce'
  <2>1. \A i \in 1..Len(log') : log'[i].type = "prompt" => i \in 1..n /\ log'[i] = log[i]
      BY <1>4, <1>6
  <2>2. \A i \in 1..Len(log') :
          log'[i].type = "prompt" => log'[i].ask \in Asks /\ step'[log'[i].ask] \notin Before
      BY <1>7, <2>1 DEF IInv, AskedOnce, n
  <2>3. \A i, j \in 1..Len(log') :
          log'[i].type = "prompt" /\ log'[j].type = "prompt" /\ log'[i].ask = log'[j].ask => i = j
      BY <2>1 DEF IInv, AskedOnce, n
  <2>4. \A q \in 1..Len(queue) :
          /\ step'[queue[q]] \notin Before
          /\ \A i \in 1..Len(log') : log'[i].type = "prompt" => log'[i].ask # queue[q]
    <3> TAKE q \in 1..Len(queue)
    <3>1. queue[q] \in Asks
        BY <1>2, ElementOfSeq
    <3>2. step'[queue[q]] \notin Before
        BY <1>7, <3>1 DEF IInv, AskedOnce
    <3>3. \A i \in 1..Len(log') : log'[i].type = "prompt" => log'[i].ask # queue[q]
        BY <2>1 DEF IInv, AskedOnce, n
    <3> QED BY <3>2, <3>3
  <2> QED BY <1>1, <2>2, <2>3, <2>4 DEF IInv, AskedOnce
<1>13. AnsweredOwn'
  <2>1. Len(log') >= Len(log)
      BY <1>4 DEF n
  <2>2. \A b \in Asks : step[b] = "done" => step'[b] = "done"
      BY <1>7
  <2> QED BY <1>1, <1>4, <1>12, <2>1, <2>2, AnswersInLonger DEF n
<1>14. stored' \in 0..Len(log')
    BY <1>1, <1>4 DEF IInv, TypeOK, n
<1>15. Counted'
    BY <1>1, <1>9 DEF IInv, Counted
<1>16. running' \in Asks \cup {NoAsk} /\ stopping' \in BOOLEAN
    BY <1>1
<1> QED BY <1>1, <1>4, <1>8, <1>10, <1>11, <1>12, <1>13, <1>14, <1>15, <1>16
        DEF IInv, TypeOK, StepNames

\* Storage follows the log.
LEMMA FlushKeeps ==
    ASSUME IInv, Flush
    PROVE  IInv'
<1>1. /\ stored' \in (stored + 1)..Len(log)
      /\ UNCHANGED <<askVars, stop, looked, agentVars, log, faults>>
    BY DEF Flush
<1>2. stored' \in 0..Len(log)
  <2>1. Len(log) \in Nat /\ stored \in Nat
      BY LenProperties DEF IInv, TypeOK
  <2> QED BY <1>1, <2>1
<1>3. TurnsInOrder' /\ AskedOnce' /\ AnsweredOwn' /\ Counted' /\ StopsAreDue'
    BY <1>1 DEF IInv, TurnsInOrder, AskedOnce, AnsweredOwn, Counted, Inside, HasRow, StopsAreDue,
                askVars, agentVars
<1> QED BY <1>1, <1>2, <1>3 DEF IInv, TypeOK, askVars, agentVars

-----------------------------------------------------------------------------
(* Theorems.                                                                *)

\* The invariant holds before the first question.
LEMMA InitHolds == Init => IInv
<1> SUFFICES ASSUME Init PROVE IInv
    OBVIOUS
<1>1. log = <<>> /\ Len(log) = 0 /\ queue = <<>> /\ Len(queue) = 0
    BY DEF Init
<1>2. TypeOK
  <2>1. stopping = FALSE /\ running = NoAsk /\ left = {} /\ expired = {} /\ reached = {}
      BY DEF Init
  <2>2. stopping \in BOOLEAN
      BY <2>1, Zenon
  <2>3. inFlight = 0 /\ turn = 0 /\ stored = 0 /\ faults = 0
      BY DEF Init
  <2>4. /\ step \in [Asks -> {"out", "securing", "floor", "prompting", "admitted", "waiting",
                              "reading", "done"}]
        /\ stop \in [Asks -> {"no", "reading", "stopping"}]
        /\ floor \in [Asks -> Nat] /\ answer \in [Asks -> Nat] /\ looked \in [Asks -> Nat]
      BY DEF Init
  <2>5. log \in Seq(Events) /\ queue \in Seq(Asks)
      BY <1>1
  <2>6. /\ inFlight \in Nat /\ turn \in Nat /\ stored \in 0..Len(log) /\ faults \in Nat
      BY <1>1, <2>3
  <2> QED BY <2>1, <2>2, <2>4, <2>5, <2>6 DEF TypeOK
<1>3. Counted
  <2>1. Inside = {}
      BY DEF Init, Inside
  <2> QED BY <2>1, FS_EmptySet DEF Init, Counted
<1>4. TurnsInOrder /\ AskedOnce
    BY <1>1 DEF Init, TurnsInOrder, AskedOnce
<1>5. StopsAreDue /\ AnsweredOwn
    BY DEF Init, StopsAreDue, AnsweredOwn
<1> QED BY <1>2, <1>3, <1>4, <1>5 DEF IInv

\* Every step keeps the invariant.
LEMMA NextKeeps == IInv /\ [Next]_vars => IInv'
<1> SUFFICES ASSUME IInv, [Next]_vars PROVE IInv'
    OBVIOUS
<1>1. ASSUME NEW a \in Asks, Begin(a) \/ Serve(a) \/ HostFails(a) \/ Leave(a) \/ Expire(a) \/ Stop(a)
      PROVE  IInv'
  <2>1. CASE Begin(a)
      BY <2>1, BeginKeeps
  <2>2. CASE Secured(a)
    <3>1. /\ step[a] = "securing" /\ step' = [step EXCEPT ![a] = "floor"]
          /\ UNCHANGED <<inFlight, left, expired, floor, answer, reached, stop, looked, agentVars,
                         logVars, faults>>
        BY <2>2 DEF Secured, To
    <3>2. floor' \in [Asks -> Nat] /\ faults' \in Nat
        BY <3>1 DEF IInv, TypeOK
    <3> QED BY <3>1, <3>2, StepKeeps DEF StepNames, Before
  <2>3. CASE FloorRead(a)
      BY <2>3, FloorKeeps
  <2>4. CASE Prompt(a)
      BY <2>4, PromptKeeps
  <2>5. CASE Wait(a)
      BY <2>5, WaitKeeps
  <2>6. CASE Answered(a)
      BY <2>6, AnsweredKeeps
  <2>7. CASE HostFails(a)
    <3>1. /\ step[a] \in {"securing", "prompting", "admitted", "reading"} /\ Ends(a)
          /\ faults' = faults + 1
          /\ UNCHANGED <<left, expired, floor, answer, reached, stop, looked, agentVars, logVars>>
        BY <2>7 DEF HostFails, Fault
    <3>2. faults' \in Nat
        BY <3>1 DEF IInv, TypeOK
    <3> QED BY <3>1, <3>2, EndKeeps
  <2>8. CASE Leave(a) \/ Expire(a)
      BY <2>8, AbortKeeps
  <2>9. CASE Stop(a)
      BY <2>9, StopKeeps
  <2> QED BY <1>1, <2>1, <2>2, <2>3, <2>4, <2>5, <2>6, <2>7, <2>8, <2>9 DEF Serve
<1>2. CASE Claim
    BY <1>2, ClaimKeeps
<1>3. CASE Completes \/ CutOff
    BY <1>3, TurnEndsKeeps DEF Completes, CutOff
<1>4. CASE Flush
    BY <1>4, FlushKeeps
<1>5. CASE UNCHANGED vars
  <2>1. UNCHANGED <<step, inFlight, left, expired, floor, answer, reached, stop, looked, queue,
                    turn, running, stopping, log, stored, faults>>
      BY <1>5 DEF vars, askVars, agentVars, logVars
  <2>2. TypeOK'
      BY <2>1 DEF IInv, TypeOK
  <2>3. TurnsInOrder' /\ AskedOnce'
      BY <2>1 DEF IInv, TurnsInOrder, AskedOnce
  <2>4. AnsweredOwn' /\ Counted' /\ StopsAreDue'
      BY <2>1 DEF IInv, AnsweredOwn, Counted, Inside, HasRow, StopsAreDue
  <2> QED BY <2>2, <2>3, <2>4 DEF IInv
<1> QED BY <1>1, <1>2, <1>3, <1>4, <1>5 DEF Next

\* Every variable of the questions, the agent and the log keeps its type; the
\* counter of service.ts, which is decremented in a finally, never gets below 0.
THEOREM TypeCorrect == Spec => []TypeOK
<1>1. IInv => TypeOK
    BY DEF IInv
<1> QED BY <1>1, InitHolds, NextKeeps, PTL DEF Spec

\* answerForRequest() never returns another question's turn: once the log that
\* is read has the row of a question, its answer is of the turn that claimed it.
THEOREM Own == Spec => []AnswersOwn
<1>1. IInv => AnswersOwn
  <2> SUFFICES ASSUME IInv, NEW a \in reached, answer[a] # 0
               PROVE  answer[a] = TurnOf(a, Len(log))
      BY DEF AnswersOwn
  <2>1. HasRow(a, Len(log)) /\ log \in Seq(Events)
      BY DEF IInv, AnsweredOwn, TypeOK
  <2>2. PICK i \in 1..Len(log) : log[i].type = "prompt" /\ log[i].ask = a
      BY <2>1 DEF HasRow
  <2>3. Len(log) \in i..Len(log)
      BY <2>1, LenProperties
  <2>4. TurnOf(log[i].ask, Len(log)) = log[i - 1].turn
      BY <2>1, <2>2, <2>3, TurnIs DEF IInv
  <2>5. answer[a] \in {0, log[i - 1].turn}
      BY <2>2 DEF IInv, AnsweredOwn
  <2> QED BY <2>2, <2>4, <2>5
<1> QED BY <1>1, InitHolds, NextKeeps, PTL DEF Spec

-----------------------------------------------------------------------------
(* What the log says of the turn that runs.                                 *)

\* A turn begins with its prompt, it ends after it began and before the next one
\* does, and the turn that runs is the last that began.
TurnsEnd ==
    /\ \A i \in 1..Len(log) :
          log[i].type = "start" => i + 1 \in 1..Len(log) /\ log[i + 1].type = "prompt"
    /\ \A i \in 1..Len(log) : log[i].type = "end" =>
          /\ \E j \in 1..(i - 1) : log[j].type = "start" /\ log[j].turn = log[i].turn
          /\ \A x \in 1..(i - 1) : log[x].type = "start" => log[x].turn <= log[i].turn
    /\ running # NoAsk => log[Len(log) - 1].turn = turn

\* The row r is the last of the first k events to begin a turn, and none has
\* ended after it.
RunsFrom(r, k) ==
    /\ r > 1 /\ log[r - 1].type = "start" /\ log[r].type = "prompt"
    /\ \A i \in (r + 1)..k : log[i].type \notin {"start", "end"}

\* Whoever is to cancel has read a log at whose end its own turn ran.
RanWhenRead ==
    \A a \in Asks : stop[a] = "stopping" =>
        /\ looked[a] \in 1..Len(log)
        /\ \E r \in 1..looked[a] : RunsFrom(r, looked[a]) /\ log[r].ask = a

\* RanAt() finds the question of that row.
LEMMA RanAtIs ==
    ASSUME log \in Seq(Events), NEW k \in 1..Len(log), NEW r \in 1..k, RunsFrom(r, k)
    PROVE  RanAt(k) = log[r].ask
<1> DEFINE found == {i \in 1..k : log[i].type \in {"start", "end"}}
           P(i)  == \A j \in found : j <= i
           c     == CHOOSE i \in found : P(i)
<1>1. Len(log) \in Nat /\ k \in Nat /\ r \in Nat /\ r > 1
    BY LenProperties DEF RunsFrom
<1>2. log[r - 1].type = "start" /\ r - 1 \in found
    BY <1>1 DEF RunsFrom
<1>3. \A j \in found : j \in Nat /\ j <= r - 1
  <2> SUFFICES ASSUME NEW j \in 1..k, log[j].type \in {"start", "end"} PROVE j \in Nat /\ j <= r - 1
      OBVIOUS
  <2>1. j # r
      BY DEF RunsFrom
  <2>2. j \notin (r + 1)..k
      BY DEF RunsFrom
  <2> QED BY <1>1, <2>1, <2>2
<1>4. NewestOf({"start", "end"}, k) = IF found = {} THEN 0 ELSE c
    BY DEF NewestOf, found
<1> HIDE DEF found
<1>5. c \in found /\ P(c)
    BY <1>2, <1>3
<1>6. c = r - 1
    BY <1>1, <1>2, <1>3, <1>5
<1>7. NewestOf({"start", "end"}, k) = r - 1
    BY <1>2, <1>4, <1>6
<1>8. r - 1 # 0 /\ r - 1 + 1 = r
    BY <1>1
<1> QED BY <1>2, <1>7, <1>8 DEF RanAt

\* ownTurnStillRunning(): a log with the row of a question, with no other turn
\* begun and its own turn not ended after it, is one at whose end its turn ran.
LEMMA OwnTurnRuns ==
    ASSUME IInv, TurnsEnd, NEW a \in Asks, NEW k \in 0..Len(log), OwnTurnStillRunning(a, k)
    PROVE  k \in 1..Len(log) /\ \E r \in 1..k : RunsFrom(r, k) /\ log[r].ask = a
<1>1. log \in Seq(Events) /\ Len(log) \in Nat /\ k \in Nat
    BY LenProperties DEF IInv, TypeOK
<1>2. PICK r \in 1..k : log[r].type = "prompt" /\ log[r].ask = a
    BY DEF OwnTurnStillRunning, HasRow
<1>3. r \in 1..Len(log) /\ k \in r..Len(log) /\ k \in 1..Len(log)
    BY <1>1, <1>2
<1>4. Row(a, k) = r /\ TurnOf(a, k) = log[r - 1].turn
    BY <1>1, <1>2, <1>3, TurnIs DEF IInv
<1>5. r > 1 /\ log[r - 1].type = "start" /\ r - 1 \in 1..Len(log)
    BY <1>2, <1>3 DEF IInv, TurnsInOrder
<1>6. \A i \in 1..Len(log) : log[i].turn \in Nat
  <2>1. \A i \in 1..Len(log) : log[i] \in Events
      BY <1>1, ElementOfSeq
  <2> QED BY <2>1 DEF Events
<1>7. \A i \in (r + 1)..k : log[i].type # "start"
  <2> SUFFICES ASSUME NEW i \in (r + 1)..k, log[i].type = "start" PROVE FALSE
      OBVIOUS
  <2>1. log[i].turn = log[r - 1].turn
      BY <1>4 DEF OwnTurnStillRunning
  <2>2. i \in 1..Len(log) /\ r - 1 < i
      BY <1>1, <1>2, <1>3
  <2>3. log[r - 1].turn < log[i].turn
      BY <1>5, <2>2 DEF IInv, TurnsInOrder
  <2> QED BY <1>5, <1>6, <2>1, <2>3
<1>8. \A i \in (r + 1)..k : log[i].type # "end"
  <2> SUFFICES ASSUME NEW i \in (r + 1)..k, log[i].type = "end" PROVE FALSE
      OBVIOUS
  <2>1. i \in 1..Len(log) /\ r - 1 \in 1..(i - 1)
      BY <1>1, <1>3, <1>5
  <2>2. PICK j \in 1..(i - 1) : log[j].type = "start" /\ log[j].turn = log[i].turn
      BY <2>1 DEF TurnsEnd
  <2>3. log[r - 1].turn <= log[i].turn
      BY <1>5, <2>1 DEF TurnsEnd
  <2>4. j \in 1..Len(log) /\ j # r
      BY <1>1, <1>2, <2>1, <2>2
  <2>5. j \notin (r + 1)..k
      BY <1>7, <2>2
  <2>6. j <= r - 1
      BY <1>1, <1>3, <2>1, <2>4, <2>5
  <2>7. log[j].turn <= log[r - 1].turn
    <3>1. CASE j = r - 1
        BY <1>5, <1>6, <3>1
    <3>2. CASE j < r - 1
        BY <1>5, <1>6, <2>2, <2>4, <3>2 DEF IInv, TurnsInOrder
    <3> QED BY <1>5, <2>4, <2>6, <3>1, <3>2
  <2>8. log[i].turn = log[r - 1].turn
      BY <1>5, <1>6, <2>1, <2>2, <2>3, <2>7
  <2>9. log[i].turn # log[r - 1].turn
      BY <1>4 DEF OwnTurnStillRunning
  <2> QED BY <2>8, <2>9
<1>9. RunsFrom(r, k)
    BY <1>2, <1>5, <1>7, <1>8 DEF RunsFrom
<1> QED BY <1>2, <1>3, <1>9

\* A turn begins: its two events are the newest.
LEMMA ClaimEnds ==
    ASSUME IInv, TurnsEnd, Claim
    PROVE  /\ TurnsEnd' /\ Len(log) \in Nat /\ Len(log') = Len(log) + 2
           /\ \A i \in 1..Len(log) : log'[i] = log[i]
<1> DEFINE n == Len(log)
           a == Head(queue)
<1>1. /\ log \in Seq(Events) /\ queue \in Seq(Asks) /\ turn \in Nat /\ queue # <<>>
      /\ turn' = turn + 1
      /\ log' = log \o <<Event("start", turn + 1, NoAsk), Event("prompt", 0, a)>>
    BY DEF Claim, IInv, TypeOK
<1>2. a \in Asks
    BY <1>1, HeadTailProperties
<1>3. Event("start", turn + 1, NoAsk) \in Events /\ Event("prompt", 0, a) \in Events
    BY <1>1, <1>2 DEF Event, Events
<1>4. /\ n \in Nat /\ Len(log') = n + 2 /\ \A i \in 1..n : log'[i] = log[i]
      /\ log'[n + 1] = Event("start", turn + 1, NoAsk) /\ log'[n + 2] = Event("prompt", 0, a)
    BY <1>1, <1>3, Longer
<1> HIDE DEF a
<1>5. /\ log'[n + 1].type = "start" /\ log'[n + 1].turn = turn + 1 /\ log'[n + 2].type = "prompt"
    BY <1>4 DEF Event
<1> HIDE DEF n
<1>6. \A i \in 1..Len(log') : i \in 1..n \/ i = n + 1 \/ i = n + 2
    BY <1>4
<1>7. ASSUME NEW i \in 1..Len(log'), log'[i].type = "start"
      PROVE  i + 1 \in 1..Len(log') /\ log'[i + 1].type = "prompt"
  <2>1. CASE i \in 1..n
    <3>1. i + 1 \in 1..n /\ log[i + 1].type = "prompt"
        BY <1>4, <1>7, <2>1 DEF TurnsEnd, n
    <3> QED BY <1>4, <3>1
  <2>2. CASE i = n + 1
    <3>1. i + 1 = n + 2 /\ n + 2 \in 1..Len(log')
        BY <1>4, <2>2
    <3> QED BY <1>5, <3>1
  <2>3. i # n + 2
      BY <1>5, <1>7
  <2> QED BY <1>6, <2>1, <2>2, <2>3
<1>8. ASSUME NEW i \in 1..Len(log'), log'[i].type = "end"
      PROVE  /\ \E j \in 1..(i - 1) : log'[j].type = "start" /\ log'[j].turn = log'[i].turn
             /\ \A x \in 1..(i - 1) : log'[x].type = "start" => log'[x].turn <= log'[i].turn
  <2>1. i # n + 1 /\ i # n + 2
      BY <1>5, <1>8
  <2>2. i \in 1..n /\ log'[i] = log[i]
      BY <1>4, <1>6, <2>1
  <2>3. \A j \in 1..(i - 1) : log'[j] = log[j]
      BY <1>4, <2>2
  <2>4. /\ \E j \in 1..(i - 1) : log[j].type = "start" /\ log[j].turn = log[i].turn
        /\ \A x \in 1..(i - 1) : log[x].type = "start" => log[x].turn <= log[i].turn
      BY <1>8, <2>2 DEF TurnsEnd, n
  <2> QED BY <2>2, <2>3, <2>4
<1>9. log'[Len(log') - 1].turn = turn'
  <2>1. Len(log') - 1 = n + 1
      BY <1>4
  <2> QED BY <1>1, <1>5, <2>1
<1> QED BY <1>4, <1>7, <1>8, <1>9 DEF TurnsEnd, n

\* The turn that ends is the last that began.
LEMMA TurnEndsEnds ==
    ASSUME IInv, TurnsEnd, NEW said \in {"answer", "cut"}, TurnEnds(said)
    PROVE  /\ TurnsEnd' /\ Len(log) \in Nat /\ Len(log') = Len(log) + 2
           /\ \A i \in 1..Len(log) : log'[i] = log[i]
<1> DEFINE n == Len(log)
<1>1. /\ log \in Seq(Events) /\ turn \in Nat /\ running # NoAsk /\ running' = NoAsk
      /\ log' = log \o <<Event(said, turn, NoAsk), Event("end", turn, NoAsk)>>
    BY DEF TurnEnds, IInv, TypeOK
<1>2. Event(said, turn, NoAsk) \in Events /\ Event("end", turn, NoAsk) \in Events
    BY <1>1 DEF Event, Events
<1>3. /\ n \in Nat /\ Len(log') = n + 2 /\ \A i \in 1..n : log'[i] = log[i]
      /\ log'[n + 1] = Event(said, turn, NoAsk) /\ log'[n + 2] = Event("end", turn, NoAsk)
    BY <1>1, <1>2, Longer
<1>4. /\ log'[n + 1].type \notin {"start", "end"}
      /\ log'[n + 2].type = "end" /\ log'[n + 2].turn = turn
    BY <1>3 DEF Event
<1>5. /\ n > 0 /\ log[n].type = "prompt" /\ log[n - 1].turn = turn
      /\ \A i \in 1..n : log[i].type = "start" => log[i].turn <= turn
    BY <1>1 DEF IInv, TurnsInOrder, TurnsEnd
<1>6. n > 1 /\ log[n - 1].type = "start"
    BY <1>3, <1>5 DEF IInv, TurnsInOrder
<1> HIDE DEF n
<1>7. \A i \in 1..Len(log') : i \in 1..n \/ i = n + 1 \/ i = n + 2
    BY <1>3
<1>8. ASSUME NEW i \in 1..Len(log'), log'[i].type = "start"
      PROVE  i + 1 \in 1..Len(log') /\ log'[i + 1].type = "prompt"
  <2>1. i # n + 1 /\ i # n + 2
      BY <1>4, <1>8
  <2>2. i \in 1..n /\ log'[i] = log[i]
      BY <1>3, <1>7, <2>1
  <2>3. i + 1 \in 1..n /\ log[i + 1].type = "prompt"
      BY <1>8, <2>2 DEF TurnsEnd, n
  <2> QED BY <1>3, <2>3
<1>9. ASSUME NEW i \in 1..Len(log'), log'[i].type = "end"
      PROVE  /\ \E j \in 1..(i - 1) : log'[j].type = "start" /\ log'[j].turn = log'[i].turn
             /\ \A x \in 1..(i - 1) : log'[x].type = "start" => log'[x].turn <= log'[i].turn
  <2>1. CASE i \in 1..n
    <3>1. log'[i] = log[i] /\ \A j \in 1..(i - 1) : log'[j] = log[j]
        BY <1>3, <2>1
    <3>2. /\ \E j \in 1..(i - 1) : log[j].type = "start" /\ log[j].turn = log[i].turn
          /\ \A x \in 1..(i - 1) : log[x].type = "start" => log[x].turn <= log[i].turn
        BY <1>9, <2>1, <3>1 DEF TurnsEnd, n
    <3> QED BY <3>1, <3>2
  <2>2. CASE i = n + 2
    <3>1. log'[i].turn = turn
        BY <1>4, <2>2
    <3>2. n - 1 \in 1..(i - 1) /\ n - 1 \in 1..n
        BY <1>3, <1>6, <2>2
    <3>3. log'[n - 1].type = "start" /\ log'[n - 1].turn = turn
        BY <1>3, <1>5, <1>6, <3>2
    <3>4. ASSUME NEW x \in 1..(i - 1), log'[x].type = "start" PROVE log'[x].turn <= turn
      <4>1. x # n + 1
          BY <1>4, <3>4
      <4>2. x \in 1..n
          BY <1>3, <2>2, <4>1
      <4> QED BY <1>3, <1>5, <3>4, <4>2
    <3> QED BY <3>1, <3>2, <3>3, <3>4
  <2>3. i # n + 1
      BY <1>4, <1>9
  <2> QED BY <1>7, <2>1, <2>2, <2>3
<1> QED BY <1>1, <1>3, <1>8, <1>9 DEF TurnsEnd, n

\* What an abandonment has read stays in a log that grows.
LEMMA ReadStays ==
    ASSUME RanWhenRead, Len(log) \in Nat, Len(log') \in Nat, Len(log') >= Len(log),
           \A i \in 1..Len(log) : log'[i] = log[i], UNCHANGED <<stop, looked>>
    PROVE  RanWhenRead'
<1> SUFFICES ASSUME NEW a \in Asks, stop[a] = "stopping"
             PROVE  /\ looked[a] \in 1..Len(log')
                    /\ \E r \in 1..looked[a] : RunsFrom(r, looked[a])' /\ log'[r].ask = a
    BY DEF RanWhenRead
<1>1. looked[a] \in 1..Len(log)
    BY DEF RanWhenRead
<1>2. PICK r \in 1..looked[a] : RunsFrom(r, looked[a]) /\ log[r].ask = a
    BY DEF RanWhenRead
<1>3. r > 1 /\ r \in 1..Len(log) /\ r - 1 \in 1..Len(log)
    BY <1>1, <1>2 DEF RunsFrom
<1>4. \A i \in (r + 1)..looked[a] : i \in 1..Len(log)
    BY <1>1, <1>3
<1>5. log'[r - 1] = log[r - 1] /\ log'[r] = log[r]
      /\ \A i \in (r + 1)..looked[a] : log'[i] = log[i]
    BY <1>3, <1>4
<1>6. RunsFrom(r, looked[a])'
    BY <1>2, <1>5 DEF RunsFrom
<1> QED BY <1>1, <1>2, <1>5, <1>6

\* An abandonment that goes on has seen its own turn run.
LEMMA StopRan ==
    ASSUME IInv, TurnsEnd, RanWhenRead, NEW a \in Asks, Stop(a)
    PROVE  RanWhenRead'
<1>1. log' = log /\ stop \in [Asks -> {"no", "reading", "stopping"}] /\ looked \in [Asks -> Nat]
    BY DEF Stop, StopReads, Stops, logVars, IInv, TypeOK
<1>2. \A b \in Asks \ {a} : stop'[b] = stop[b] /\ looked'[b] = looked[b]
    BY <1>1 DEF Stop, StopReads, Stops
<1>3. stop'[a] = "stopping" => looked'[a] \in Readable /\ OwnTurnStillRunning(a, looked'[a])
    BY <1>1 DEF Stop, StopReads, Stops
<1>4. stop'[a] = "stopping" =>
          /\ looked'[a] \in 1..Len(log)
          /\ \E r \in 1..looked'[a] : RunsFrom(r, looked'[a]) /\ log[r].ask = a
    BY <1>3, OwnTurnRuns, ReadableType
<1>5. ASSUME NEW b \in Asks, stop'[b] = "stopping"
      PROVE  /\ looked'[b] \in 1..Len(log)
             /\ \E r \in 1..looked'[b] : RunsFrom(r, looked'[b]) /\ log[r].ask = b
  <2>1. CASE b = a
      BY <1>4, <1>5, <2>1
  <2>2. CASE b # a
      BY <1>2, <1>5, <2>2 DEF RanWhenRead
  <2> QED BY <2>1, <2>2
<1> QED BY <1>1, <1>5 DEF RanWhenRead, RunsFrom

\* Nothing else makes an abandonment go on.
LEMMA ServeRan ==
    ASSUME RanWhenRead, IInv, NEW a \in Asks,
           Begin(a) \/ Serve(a) \/ HostFails(a) \/ Leave(a) \/ Expire(a)
    PROVE  RanWhenRead' /\ UNCHANGED <<log, running, turn, stopping>>
<1>1. UNCHANGED <<log, running, turn, stopping, looked>>
  <2>1. CASE Begin(a) \/ HostFails(a)
      BY <2>1 DEF Begin, HostFails, agentVars, logVars
  <2>2. CASE Serve(a)
      BY <2>2 DEF Serve, Secured, FloorRead, Prompt, Wait, WaitEnds, Answered, agentVars, logVars
  <2>3. CASE Leave(a) \/ Expire(a)
      BY <2>3 DEF Leave, Expire, WaitEnds, agentVars, logVars
  <2> QED BY <2>1, <2>2, <2>3
<1>2. UNCHANGED stop \/ \E gone : WaitEnds(a, gone)
  <2>1. CASE Begin(a) \/ HostFails(a)
      BY <2>1 DEF Begin, HostFails
  <2>2. CASE Serve(a)
      BY <2>2 DEF Serve, Secured, FloorRead, Prompt, Wait, Answered
  <2>3. CASE Leave(a) \/ Expire(a)
      BY <2>3 DEF Leave, Expire
  <2> QED BY <2>1, <2>2, <2>3
<1>3. stop \in [Asks -> {"no", "reading", "stopping"}]
    BY DEF IInv, TypeOK
<1>4. \A b \in Asks : stop'[b] = "stopping" => stop[b] = "stopping"
    BY <1>2, <1>3 DEF WaitEnds
<1> QED BY <1>1, <1>4 DEF RanWhenRead, RunsFrom

\* Every step keeps what the log says of the turn that runs.
LEMMA RanKeeps == IInv /\ TurnsEnd /\ RanWhenRead /\ [Next]_vars => TurnsEnd' /\ RanWhenRead'
<1> SUFFICES ASSUME IInv, TurnsEnd, RanWhenRead, [Next]_vars PROVE TurnsEnd' /\ RanWhenRead'
    OBVIOUS
<1>1. CASE \E a \in Asks : Begin(a) \/ Serve(a) \/ HostFails(a) \/ Leave(a) \/ Expire(a)
  <2>1. RanWhenRead' /\ UNCHANGED <<log, running, turn>>
      BY <1>1, ServeRan
  <2> QED BY <2>1 DEF TurnsEnd
<1>2. CASE \E a \in Asks : Stop(a)
  <2>1. RanWhenRead'
      BY <1>2, StopRan
  <2>2. UNCHANGED <<log, running, turn>>
      BY <1>2 DEF Stop, StopReads, Stops, agentVars, logVars
  <2> QED BY <2>1, <2>2 DEF TurnsEnd
<1>3. CASE Claim
  <2>1. UNCHANGED <<stop, looked>>
      BY <1>3 DEF Claim
  <2>2. /\ TurnsEnd' /\ Len(log) \in Nat /\ Len(log') = Len(log) + 2
        /\ \A i \in 1..Len(log) : log'[i] = log[i]
      BY <1>3, ClaimEnds
  <2> QED BY <2>1, <2>2, ReadStays
<1>4. CASE Completes \/ CutOff
  <2>1. PICK said \in {"answer", "cut"} : TurnEnds(said)
      BY <1>4 DEF Completes, CutOff
  <2>2. UNCHANGED <<stop, looked>>
      BY <2>1 DEF TurnEnds
  <2>3. /\ TurnsEnd' /\ Len(log) \in Nat /\ Len(log') = Len(log) + 2
        /\ \A i \in 1..Len(log) : log'[i] = log[i]
      BY <2>1, TurnEndsEnds
  <2> QED BY <2>2, <2>3, ReadStays
<1>5. CASE Flush \/ UNCHANGED vars
  <2>1. UNCHANGED <<log, running, turn, stop, looked>>
      BY <1>5 DEF Flush, vars, agentVars, logVars
  <2> QED BY <2>1 DEF TurnsEnd, RanWhenRead, RunsFrom
<1> QED BY <1>1, <1>2, <1>3, <1>4, <1>5 DEF Next

\* abandonTurn() cancels only for a caller that has gone and whose own turn was
\* running at the end of the log it had read; if that log is still complete, the
\* turn it cancels is the caller's.
THEOREM StopsAbandoned == Spec => StopsOnlyAbandoned
<1>1. IInv /\ TurnsEnd /\ RanWhenRead /\ [Next]_vars =>
        [stopping' /\ ~stopping =>
            \E a \in left : /\ stop[a] = "stopping" /\ RanAt(looked[a]) = a
                            /\ looked[a] = Len(log) => running = a]_vars
  <2> SUFFICES ASSUME IInv, TurnsEnd, RanWhenRead, [Next]_vars, stopping', ~stopping
               PROVE  \E a \in left : /\ stop[a] = "stopping" /\ RanAt(looked[a]) = a
                                      /\ looked[a] = Len(log) => running = a
      OBVIOUS
  <2>1. PICK a \in Asks : Stops(a)
    <3>1. CASE UNCHANGED vars
        BY <3>1 DEF vars, agentVars
    <3>2. CASE Claim \/ Completes \/ CutOff \/ Flush
        BY <3>2 DEF Claim, Completes, CutOff, TurnEnds, Flush, agentVars
    <3>3. CASE \E a \in Asks : Begin(a) \/ Serve(a) \/ HostFails(a) \/ Leave(a) \/ Expire(a)
        BY <3>3, ServeRan
    <3>4. CASE \E a \in Asks : Stop(a)
        BY <3>4 DEF Stop, StopReads, agentVars
    <3> QED BY <3>1, <3>2, <3>3, <3>4 DEF Next
  <2>2. stop[a] = "stopping" /\ running # NoAsk
      BY <2>1 DEF Stops
  <2>3. a \in left /\ looked[a] \in 1..Len(log)
      BY <2>2 DEF IInv, StopsAreDue, RanWhenRead
  <2>4. PICK r \in 1..looked[a] : RunsFrom(r, looked[a]) /\ log[r].ask = a
      BY <2>2 DEF RanWhenRead
  <2>5. log \in Seq(Events) /\ Len(log) \in Nat
      BY LenProperties DEF IInv, TypeOK
  <2>6. RanAt(looked[a]) = a
      BY <2>3, <2>4, <2>5, RanAtIs
  <2>7. ASSUME looked[a] = Len(log) PROVE running = a
    <3> DEFINE n == Len(log)
    <3>1. n > 0 /\ log[n].type = "prompt" /\ log[n].ask = running
        BY <2>2 DEF IInv, TurnsInOrder
    <3>2. n > 1 /\ log[n - 1].type = "start"
        BY <2>5, <3>1 DEF IInv, TurnsInOrder
    <3>3. RunsFrom(n, n) /\ n \in 1..n
        BY <2>5, <3>1, <3>2 DEF RunsFrom
    <3>4. RanAt(n) = log[n].ask
        BY <2>5, <3>3, RanAtIs
    <3> QED BY <2>6, <2>7, <3>1, <3>4
  <2> QED BY <2>2, <2>3, <2>6, <2>7
<1>2. Init => TurnsEnd /\ RanWhenRead
  <2> SUFFICES ASSUME Init PROVE TurnsEnd /\ RanWhenRead
      OBVIOUS
  <2>1. log = <<>> /\ Len(log) = 0 /\ running = NoAsk /\ \A a \in Asks : stop[a] = "no"
      BY DEF Init
  <2> QED BY <2>1 DEF TurnsEnd, RanWhenRead
<1> QED BY <1>1, <1>2, InitHolds, NextKeeps, RanKeeps, PTL DEF Spec, StopsOnlyAbandoned

=============================================================================
