------------------------------- MODULE QaAsks -------------------------------
(* Questions asked through the integration API of dsh-qa-surface: ask() of  *)
(* service.ts with its concurrency slot and its budget, run() of            *)
(* host-runner.ts with the wait, the abandonment and the answer read back   *)
(* from the session log (answer.ts), and as external the agent of the chat, *)
(* which runs one turn at a time, and a log of which storage may lag behind *)
(* the memory.                                                              *)
(*                                                                          *)
(* All questions continue one chat, where they meet.  A turn is named by    *)
(* its number, a question's prompt row by the question.                     *)
EXTENDS Naturals, Sequences, FiniteSets

CONSTANTS Asks,          \* questions; each is asked once
          NoAsk,
          MaxConcurrent, \* integration.maxConcurrent
          MaxFaults      \* bound: calls of the host that fail

ASSUME AsksAssumption == NoAsk \notin Asks /\ MaxConcurrent \in Nat /\ MaxFaults \in Nat

VARIABLES
    step,     \* question -> the await it is at
    inFlight, \* questions inside ask(), as the service counts them
    left,     \* questions whose caller has gone
    expired,  \* questions whose budget is over
    floor,    \* question -> the newest event before it, as it read it
    answer,   \* question -> the turn it was answered with, 0 for none
    reached,  \* ... and whether the log it read had its own prompt row
    stop,     \* question -> what abandonTurn() is at
    looked,   \* history: question -> how many events abandonTurn() read before
    queue,    \* prompts the agent has admitted
    turn,     \* turns begun
    running,  \* the question whose turn runs
    stopping, \* ... and has been cancelled
    log,      \* the events of the session
    stored,   \* ... how many of them storage has
    faults

askVars   == <<step, inFlight, left, expired, floor, answer, reached>>
agentVars == <<queue, turn, running, stopping>>
logVars   == <<log, stored>>
vars      == <<askVars, stop, looked, agentVars, logVars, faults>>

Event(type, t, a) == [type |-> type, turn |-> t, ask |-> a]
Events == [type : {"start", "prompt", "answer", "cut", "end"}, turn : Nat, ask : Asks \cup {NoAsk}]

TypeOK ==
    /\ step \in [Asks -> {"out", "securing", "floor", "prompting", "admitted", "waiting",
                          "reading", "done"}]
    /\ inFlight \in Nat
    /\ left \subseteq Asks /\ expired \subseteq Asks
    /\ floor \in [Asks -> Nat] /\ answer \in [Asks -> Nat] /\ reached \subseteq Asks
    /\ stop \in [Asks -> {"no", "reading", "stopping"}] /\ looked \in [Asks -> Nat]
    /\ queue \in Seq(Asks) /\ turn \in Nat
    /\ running \in Asks \cup {NoAsk} /\ stopping \in BOOLEAN
    /\ log \in Seq(Events) /\ stored \in 0..Len(log)
    /\ faults \in Nat

Init ==
    /\ step = [a \in Asks |-> "out"] /\ inFlight = 0
    /\ left = {} /\ expired = {}
    /\ floor = [a \in Asks |-> 0] /\ answer = [a \in Asks |-> 0] /\ reached = {}
    /\ stop = [a \in Asks |-> "no"] /\ looked = [a \in Asks |-> 0]
    /\ queue = <<>> /\ turn = 0 /\ running = NoAsk /\ stopping = FALSE
    /\ log = <<>> /\ stored = 0 /\ faults = 0

-----------------------------------------------------------------------------
(* Reading the log.                                                         *)

\* What read() of session-log.ts may return: storage, or memory when storage has
\* nothing or does not answer in time.
Readable == {Len(log)} \cup ({stored} \ {0})

\* The prompt row of a question among the first k events.
HasRow(a, k) == \E i \in 1..k : log[i].type = "prompt" /\ log[i].ask = a
Row(a, k)    == CHOOSE i \in 1..k : log[i].type = "prompt" /\ log[i].ask = a

\* The newest of the first k events of a type, 0 if there is none.
NewestOf(types, k) ==
    LET found == {i \in 1..k : log[i].type \in types} IN
    IF found = {} THEN 0 ELSE CHOOSE i \in found : \A j \in found : j <= i

\* The turn a row was claimed into.
TurnOf(a, k) == log[NewestOf({"start"}, Row(a, k))].turn

\* projectTurn(): the turn of the answer among some events, 0 if there is none or
\* the last message was cut off.
Project(S) ==
    LET said == {i \in S : log[i].type \in {"answer", "cut"}}
        last == CHOOSE i \in said : \A j \in said : j <= i
    IN IF said = {} \/ log[last].type = "cut" THEN 0 ELSE log[last].turn

AnswerAfter(k, i) == Project({j \in 1..k : j > i})

\* Mutant: the newest prompt is taken for the question's own.
AnswerForNewest(a, k) == AnswerAfter(k, NewestOf({"prompt"}, k))

\* answerForRequest(); without the row, answerAfter() the newest prompt.
AnswerFor(a, k) ==
    IF HasRow(a, k)
      THEN Project({j \in 1..k : j > Row(a, k) /\ log[j].turn = TurnOf(a, k)})
      ELSE AnswerAfter(k, IF NewestOf({"prompt"}, k) > floor[a] THEN NewestOf({"prompt"}, k)
                                                                ELSE floor[a])

\* Mutant: the turns before the question count as well.
OwnTurnIsFirst(a, k) ==
    /\ HasRow(a, k)
    /\ \A i \in 1..k :
          /\ log[i].type = "start" => log[i].turn = TurnOf(a, k)
          /\ log[i].type = "end" => log[i].turn # TurnOf(a, k)

\* Mutant: a turn counts as running until another one starts.
OwnTurnUnfollowed(a, k) ==
    /\ HasRow(a, k)
    /\ \A i \in (Row(a, k) + 1)..k : log[i].type = "start" => log[i].turn = TurnOf(a, k)

\* ownTurnStillRunning().
OwnTurnStillRunning(a, k) ==
    /\ HasRow(a, k)
    /\ \A i \in (Row(a, k) + 1)..k :
          /\ log[i].type = "start" => log[i].turn = TurnOf(a, k)
          /\ log[i].type = "end" => log[i].turn # TurnOf(a, k)

-----------------------------------------------------------------------------
(* A question.                                                              *)

Aborted(a) == a \in left \cup expired

Fault == faults < MaxFaults /\ faults' = faults + 1

To(a, s) ==
    /\ step' = [step EXCEPT ![a] = s]
    /\ UNCHANGED <<inFlight, left, expired, floor, answer, reached>>

\* The finally of ask(): its slot comes back, however it ends.
Ends(a) ==
    /\ step' = [step EXCEPT ![a] = "done"]
    /\ inFlight' = inFlight - 1

\* A question is refused while all slots are taken.
Begin(a) ==
    /\ step[a] = "out" /\ inFlight < MaxConcurrent
    /\ step' = [step EXCEPT ![a] = "securing"] /\ inFlight' = inFlight + 1
    /\ UNCHANGED <<left, expired, floor, answer, reached, stop, looked, agentVars, logVars, faults>>

\* A call of the host fails or refuses: ask() ends.
HostFails(a) ==
    /\ step[a] \in {"securing", "prompting", "admitted", "reading"}
    /\ Fault /\ Ends(a)
    /\ UNCHANGED <<left, expired, floor, answer, reached, stop, looked, agentVars, logVars>>

Secured(a) ==
    /\ step[a] = "securing" /\ To(a, "floor")
    /\ UNCHANGED <<stop, looked, agentVars, logVars, faults>>

\* floorOf(): an unreadable log counts as empty.
FloorRead(a) ==
    /\ step[a] = "floor"
    /\ step' = [step EXCEPT ![a] = "prompting"]
    /\ \/ \E k \in Readable : floor' = [floor EXCEPT ![a] = k] /\ UNCHANGED faults
       \/ Fault /\ UNCHANGED floor
    /\ UNCHANGED <<inFlight, left, expired, answer, reached, stop, looked, agentVars, logVars>>

\* The agent admits the prompt, unless it is too late for it.
Prompt(a) ==
    /\ step[a] = "prompting"
    /\ IF Aborted(a)
         THEN /\ Ends(a) /\ UNCHANGED queue
         ELSE /\ queue' = Append(queue, a)
              /\ step' = [step EXCEPT ![a] = "admitted"] /\ UNCHANGED inFlight
    /\ UNCHANGED <<left, expired, floor, answer, reached, stop, looked, turn, running, stopping,
                   logVars, faults>>

\* Mutant: the turn is abandoned when only the budget is over.
WaitEndsBudget(a, gone) ==
    /\ Ends(a)
    /\ stop' = [stop EXCEPT ![a] = "reading"] /\ UNCHANGED looked

\* The wait ends early: abandonTurn() begins if the caller has gone, and is not
\* waited for.
WaitEnds(a, gone) ==
    /\ Ends(a)
    /\ stop' = [stop EXCEPT ![a] = IF a \in gone THEN "reading" ELSE "no"]
    /\ UNCHANGED looked

Idle == running = NoAsk /\ queue = <<>>

\* whenIdleOrAborted() after the prompt was admitted.
Wait(a) ==
    /\ step[a] = "admitted"
    /\ IF Aborted(a)
         THEN WaitEnds(a, left)
         ELSE /\ step' = [step EXCEPT ![a] = IF Idle THEN "reading" ELSE "waiting"]
              /\ UNCHANGED <<inFlight, stop, looked>>
    /\ UNCHANGED <<left, expired, floor, answer, reached, agentVars, logVars, faults>>

\* The connection drops.
Leave(a) ==
    /\ step[a] \notin {"out", "done"} /\ a \notin left
    /\ left' = left \cup {a}
    /\ IF step[a] = "waiting" THEN WaitEnds(a, left')
                              ELSE UNCHANGED <<step, inFlight, stop, looked>>
    /\ UNCHANGED <<expired, floor, answer, reached, agentVars, logVars, faults>>

\* Mutant: the end of the budget does not reach the wait.
ExpireUnheard(a) ==
    /\ step[a] \notin {"out", "done"} /\ a \notin expired
    /\ expired' = expired \cup {a}
    /\ UNCHANGED <<step, inFlight, stop, looked, left, floor, answer, reached, agentVars,
                   logVars, faults>>

\* requestTimeoutMs have passed.
Expire(a) ==
    /\ step[a] \notin {"out", "done"} /\ a \notin expired
    /\ expired' = expired \cup {a}
    /\ IF step[a] = "waiting" THEN WaitEnds(a, left)
                              ELSE UNCHANGED <<step, inFlight, stop, looked>>
    /\ UNCHANGED <<left, floor, answer, reached, agentVars, logVars, faults>>

\* The log is read for the answer.
Answered(a) ==
    /\ step[a] = "reading" /\ Ends(a)
    /\ \E k \in Readable :
          /\ answer' = [answer EXCEPT ![a] = AnswerFor(a, k)]
          /\ reached' = IF HasRow(a, k) THEN reached \cup {a} ELSE reached
    /\ UNCHANGED <<left, expired, floor, stop, looked, agentVars, logVars, faults>>

\* abandonTurn(): what the log says of the turn is found out now ...
StopReads(a) ==
    /\ stop[a] = "reading"
    /\ \/ \E k \in Readable :
             /\ OwnTurnStillRunning(a, k)
             /\ stop' = [stop EXCEPT ![a] = "stopping"] /\ looked' = [looked EXCEPT ![a] = k]
             /\ UNCHANGED faults
       \/ /\ stop' = [stop EXCEPT ![a] = "no"] /\ UNCHANGED looked
          /\ \/ \E k \in Readable : ~OwnTurnStillRunning(a, k) /\ UNCHANGED faults
             \/ Fault
    /\ UNCHANGED <<askVars, agentVars, logVars>>

\* ... and acted upon later: cancel() aborts the turn that runs then.
Stops(a) ==
    /\ stop[a] = "stopping" /\ stop' = [stop EXCEPT ![a] = "no"]
    /\ looked' = [looked EXCEPT ![a] = 0]
    /\ stopping' = (running # NoAsk)
    /\ UNCHANGED <<askVars, queue, turn, running, logVars, faults>>

-----------------------------------------------------------------------------
(* The agent and its log.                                                   *)

Claim ==
    /\ running = NoAsk /\ queue # <<>>
    /\ running' = Head(queue) /\ queue' = Tail(queue) /\ turn' = turn + 1
    /\ log' = log \o <<Event("start", turn + 1, NoAsk), Event("prompt", 0, Head(queue))>>
    /\ UNCHANGED <<askVars, stop, looked, stopping, stored, faults>>

\* A turn ends, with an answer or cut off.  Once the agent is idle, whoever waits
\* for that reads the log.
TurnEnds(said) ==
    /\ running # NoAsk
    /\ log' = log \o <<Event(said, turn, NoAsk), Event("end", turn, NoAsk)>>
    /\ running' = NoAsk /\ stopping' = FALSE
    /\ step' = [a \in Asks |-> IF step[a] = "waiting" /\ queue = <<>> THEN "reading"
                                                                     ELSE step[a]]
    /\ UNCHANGED <<inFlight, left, expired, floor, answer, reached, stop, looked, queue, turn,
                   stored, faults>>

Completes == ~stopping /\ TurnEnds("answer")
CutOff    == TurnEnds("cut")

Flush ==
    /\ stored < Len(log) /\ stored' \in (stored + 1)..Len(log)
    /\ UNCHANGED <<askVars, stop, looked, agentVars, log, faults>>

-----------------------------------------------------------------------------
Serve(a) == Secured(a) \/ FloorRead(a) \/ Prompt(a) \/ Wait(a) \/ Answered(a)
Stop(a)  == StopReads(a) \/ Stops(a)

Next ==
    \/ \E a \in Asks : Begin(a) \/ Serve(a) \/ HostFails(a) \/ Leave(a) \/ Expire(a) \/ Stop(a)
    \/ Claim \/ Completes \/ CutOff \/ Flush

Spec == Init /\ [][Next]_vars

\* The host's calls return, the budget's timer fires, and a turn that is
\* cancelled ends.  Another turn may run for ever.
FairSpec ==
    /\ Spec
    /\ \A a \in Asks : WF_vars(Serve(a)) /\ WF_vars(Expire(a)) /\ WF_vars(Stop(a))
    /\ WF_vars(stopping /\ CutOff)

-----------------------------------------------------------------------------
(* Properties.                                                              *)

\* Two questions in one chat are never answered with each other's turn, provided
\* the log read for the answer had reached the question (host-runner.ts: "this
\* request's own turn answers it").
AnswersOwn ==
    \A a \in reached : answer[a] # 0 => answer[a] = TurnOf(a, Len(log))

\* The question whose turn was running when the log had k events.
RanAt(k) ==
    LET i == NewestOf({"start", "end"}, k) IN
    IF i = 0 \/ log[i].type = "end" THEN NoAsk ELSE log[i + 1].ask

\* abandonTurn() cancels only for a caller that has gone and whose own turn was
\* running at the end of the log it had read; and if nothing has been written
\* since, and nothing was missing from what it read, it is that turn.
StopsOnlyAbandoned ==
    [][stopping' /\ ~stopping =>
         \E a \in left : /\ stop[a] = "stopping" /\ RanAt(looked[a]) = a
                         /\ looked[a] = Len(log) => running = a]_vars

\* Every slot comes back, though no turn may ever end.
SlotsComeBack == inFlight > 0 ~> inFlight = 0

\* The turn of a caller that has gone ends, if the log in storage has its prompt
\* and can be read.
AbandonedTurnEnds ==
    \A a \in Asks :
        stop[a] = "reading" /\ running = a /\ HasRow(a, stored) ~> running # a \/ faults > 0
=============================================================================
