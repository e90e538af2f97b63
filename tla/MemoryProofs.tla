----------------------------- MODULE MemoryProofs -----------------------------
(* What TLAPS proves of MemoryQueue, for any number of messages, retries,    *)
(* other processes and events.                                               *)
EXTENDS MemoryQueue, TLAPS

Record == [step : Steps, list : SUBSET Names, name : Names, left : 0..ReplayLimit]
Operation == [kind : {"none", "message", "commit", "final"}, write : Writes,
              step : {"idle", "ensure", "send", "find", "write", "uncommit", "unlink"},
              list : SUBSET Names]

\* What is sent or tried again has retries left.
Claimable ==
    \A r \in Replayers :
        rep[r].step \in {"send", "retry"} => rep[r].name.retries < MaxRetries

\* A record that moves one replayer keeps the type of all of them.
LEMMA StepType ==
    ASSUME rep \in [Replayers -> Record], NEW r \in Replayers, NEW s \in Steps, Step(r, s)
    PROVE  rep' \in [Replayers -> Record]
BY DEF Step, Record

LEMMA MoveType ==
    ASSUME rep \in [Replayers -> Record], NEW r \in Replayers, NEW x \in Record,
           rep' = [rep EXCEPT ![r] = x]
    PROVE  rep' \in [Replayers -> Record]
OBVIOUS

LEMMA IdleType == Idle \in Record
BY QueueAssumption DEF Idle, At, Record, NoName, Names, Writes, Messages, Steps

LEMMA FilesType ==
    ASSUME TypeOK
    PROVE  /\ Listing \in SUBSET Names
           /\ List => /\ json' \in SUBSET Names /\ claimed' \in SUBSET Names
                      /\ stale' \in SUBSET Names /\ recovered' \in SUBSET Messages
                      /\ owed' = owed
           /\ \A n \in Names : (Unlink(n) \/ UnlinkClaimed(n) \/ WriteFile(n)) =>
                  /\ json' \in SUBSET Names /\ claimed' \in SUBSET Names
                  /\ stale' \in SUBSET Names
BY DEF TypeOK, Listing, List, Unlink, UnlinkClaimed, WriteFile

LEMMA NoOpType == NoOp \in Operation
BY DEF NoOp, Operation, Writes

\* The initial state.
LEMMA TypeInit == Init => TypeOK
<1> SUFFICES ASSUME Init PROVE TypeOK
    OBVIOUS
<1>1. rep \in [Replayers -> Record]
    BY IdleType DEF Init
<1>2. op \in Operation
    BY NoOpType DEF Init
<1>3. captured \in 0..MaxMessages /\ events \in Nat
    BY QueueAssumption DEF Init
<1>4. /\ json \in SUBSET Names /\ claimed \in SUBSET Names /\ stale \in SUBSET Names
      /\ owed \in SUBSET Messages /\ recovered \in SUBSET Messages
    BY DEF Init
<1>5. /\ open \in BOOLEAN /\ ready \in BOOLEAN /\ retryable \in BOOLEAN
      /\ latch \in BOOLEAN /\ up \in BOOLEAN
    BY DEF Init
<1> QED BY <1>1, <1>2, <1>3, <1>4, <1>5 DEF TypeOK, Record, Operation

LEMMA OpType ==
    ASSUME op \in Operation, NEW s \in {"idle", "ensure", "send", "find", "write", "uncommit", "unlink"},
           OpTo(s)
    PROVE  op' \in Operation
BY DEF OpTo, Operation

\* The steps of a replayer.
LEMMA ReplayType ==
    ASSUME TypeOK, Claimable, NEW r \in Replayers, Replay(r)
    PROVE  TypeOK'
<1>1. /\ rep \in [Replayers -> Record] /\ Idle \in Record /\ rep[r] \in Record
    BY IdleType DEF TypeOK, Record
<1>2. /\ NoName \in Names /\ 0 \in 0..ReplayLimit /\ ReplayLimit \in 0..ReplayLimit
      /\ AfterReplay(r) \in Steps
    BY QueueAssumption DEF NoName, Names, Writes, AfterReplay, Steps
<1>t. ASSUME NEW s \in Steps, NEW l \in SUBSET Names, NEW n \in Names, NEW k \in 0..ReplayLimit
      PROVE  At(s, l, n, k) \in Record
    BY DEF At, Record
<1>3. CASE Probes(r)
  <2>1. rep' \in [Replayers -> Record]
    BY <1>1, <1>3, StepType DEF Probes, Steps
  <2> QED BY <1>3, <2>1 DEF Probes, TypeOK, Record, files, history
<1>4. CASE Lists(r)
  <2>1. /\ At(AfterReplay(r), {}, NoName, 0) \in Record
        /\ At("next", Listing, NoName, ReplayLimit) \in Record
    BY <1>2, <1>t, FilesType DEF Steps
  <2>2. rep' \in [Replayers -> Record]
    BY <1>1, <1>4, <2>1, MoveType DEF Lists
  <2> QED BY <1>4, <2>2, FilesType DEF Lists, TypeOK, Record, stateVars
<1>5. CASE Answered(r)
  <2>1. rep[r].name \in Names /\ rep[r].left \in 0..ReplayLimit /\ rep[r].list \in SUBSET Names
    BY <1>1 DEF Record
  <2>2. ASSUME NEW l \in SUBSET Names, NEW s \in {"release", "retry"}
        PROVE  At(s, l, rep[r].name, rep[r].left) \in Record
    BY <2>1, <1>t DEF Steps
  <2>3. rep' \in [Replayers -> Record]
    BY <1>1, <1>5, <2>1, <2>2, StepType, MoveType DEF Answered, Steps
  <2> QED BY <1>5, <2>3 DEF Answered, TypeOK, Record, stateVars, files
<1>6. ASSUME Settled(r) PROVE rep' \in [Replayers -> Record]
  <2>1. At("next", rep[r].list, NoName, rep[r].left) \in Record
    BY <1>1, <1>2, <1>t DEF Record, Steps
  <2> QED BY <1>1, <1>6, <2>1 DEF Settled
<1>7. CASE Removes(r)
    BY <1>1, <1>6, <1>7, FilesType DEF Removes, TypeOK, Record, stateVars, history
<1>8. CASE Releases(r)
    BY <1>1, <1>6, <1>8 DEF Releases, TypeOK, Record, stateVars, history
<1>9. CASE Retries(r)
  <2> DEFINE n == rep[r].name
  <2>1. n \in Names /\ n.retries < MaxRetries
    BY <1>1, <1>9 DEF Record, Retries, Claimable
  <2>2. [n EXCEPT !.retries = @ + 1] \in Names
    BY <2>1, QueueAssumption DEF Names
  <2>3. rep' \in [Replayers -> Record]
    BY <1>1, <1>9, StepType DEF Retries, Steps
  <2> QED BY <1>9, <2>2, <2>3, FilesType DEF Retries, TypeOK, Record, stateVars, history
<1>10. CASE Cleans(r)
  <2>1. ASSUME NEW gone \in SUBSET (Listing \cap stale)
        PROVE  At("expire", gone, NoName, 0) \in Record
    BY <1>2, <1>t, FilesType DEF Steps
  <2>2. rep' \in [Replayers -> Record]
    BY <1>1, <1>10, <2>1, MoveType DEF Cleans
  <2> QED BY <1>10, <2>2, FilesType DEF Cleans, TypeOK, Record, stateVars
<1>11. CASE Expires(r)
  <2>1. ASSUME NEW n \in rep[r].list, rep' = [rep EXCEPT ![r].list = @ \ {n}]
        PROVE  rep' \in [Replayers -> Record]
    BY <1>1, <2>1 DEF Record
  <2>2. rep[r].list \subseteq Names
    BY <1>1 DEF Record
  <2>3. rep' \in [Replayers -> Record]
    BY <1>1, <1>2, <1>11, <2>1, StepType DEF Expires
  <2>4. owed' \in SUBSET Messages
    BY <1>11 DEF Expires, TypeOK
  <2> QED BY <1>11, <2>2, <2>3, <2>4, FilesType DEF Expires, TypeOK, Record, stateVars, files
<1>12. CASE Refreshes(r)
  <2>1. At("note", Listing, NoName, 0) \in Record
    BY <1>2, <1>t, FilesType DEF Steps
  <2>2. rep' \in [Replayers -> Record]
    BY <1>1, <1>12, <2>1, MoveType, StepType DEF Refreshes, Steps
  <2> QED BY <1>12, <2>2, FilesType DEF Refreshes, TypeOK, Record, stateVars, files, history
<1>13. CASE Notes(r)
  <2>1. rep' \in [Replayers -> Record]
    BY <1>1, <1>13, MoveType DEF Notes
  <2>2. latch' \in BOOLEAN /\ ready' \in BOOLEAN
    BY <1>13 DEF Notes
  <2> QED BY <1>13, <2>1, <2>2 DEF Notes, TypeOK, Record, files, history
<1>14. ASSUME NEW n \in Names, Drops(r, n) PROVE TypeOK'
  <2>1. rep' \in [Replayers -> Record]
    BY <1>1, <1>14 DEF Drops, Record
  <2>2. owed' \in SUBSET Messages
    BY <1>14 DEF Drops, TypeOK
  <2> QED BY <1>14, <2>1, <2>2, FilesType DEF Drops, TypeOK, Record, stateVars
<1>15. ASSUME NEW n \in Names, Claims(r, n) PROVE TypeOK'
  <2>1. rep[r].left > 0 /\ rep[r].left - 1 \in 0..ReplayLimit /\ rep[r].list \ {n} \in SUBSET Names
    BY <1>1, <1>15, QueueAssumption DEF Claims, Due, Record
  <2>2. At("send", rep[r].list \ {n}, n, rep[r].left - 1) \in Record
    BY <2>1, <1>t DEF Steps
  <2>3. rep' \in [Replayers -> Record]
    <3>1. CASE n \in json
      BY <1>1, <1>15, <2>2, <3>1 DEF Claims
    <3>2. CASE n \notin json
      BY <1>1, <1>15, <3>2 DEF Claims, Record
    <3> QED BY <3>1, <3>2
  <2> QED BY <1>15, <2>3 DEF Claims, TypeOK, Record, stateVars, history
<1> QED BY <1>3, <1>4, <1>5, <1>7, <1>8, <1>9, <1>10, <1>11, <1>12, <1>13, <1>14, <1>15
       DEF Replay

\* The steps of the write chain.
LEMMA OperateType ==
    ASSUME TypeOK, Operate
    PROVE  TypeOK'
<1>1. /\ rep \in [Replayers -> Record] /\ Idle \in Record /\ op \in Operation
    BY IdleType DEF TypeOK, Record, Operation
<1>2. ASSUME OpEnds
      PROVE  /\ rep' \in [Replayers -> Record] /\ op' \in Operation
             /\ open' \in BOOLEAN /\ ready' \in BOOLEAN /\ latch' \in BOOLEAN
    BY <1>1, <1>2, NoOpType DEF OpEnds, TypeOK
<1>3. ASSUME Queued
      PROVE  /\ rep' \in [Replayers -> Record] /\ op' \in Operation
             /\ open' \in BOOLEAN /\ ready' \in BOOLEAN /\ latch' \in BOOLEAN
    BY <1>1, <1>2, <1>3, NoOpType, OpType DEF Queued, TypeOK
<1>4. CASE Ensured
  <2>1. op' \in Operation
    BY <1>1, <1>2, <1>4, OpType DEF Ensured
  <2> QED BY <1>1, <1>2, <1>4, <2>1 DEF Ensured, TypeOK, Record, Operation, files, history
<1>5. CASE Sent
  <2>1. op' \in Operation
    BY <1>1, <1>2, <1>5, OpType DEF Sent
  <2> QED BY <1>1, <1>2, <1>5, <2>1 DEF Sent, TypeOK, Record, Operation, files, history
<1>6. CASE Finds
  <2>1. op' \in Operation
    BY <1>1, <1>3, <1>6, OpType DEF Finds
  <2> QED BY <1>1, <1>3, <1>6, <2>1 DEF Finds, TypeOK, Record, Operation, files, history
<1>7. CASE WritesFile
  <2>1. [write |-> op.write, retries |-> 0] \in Names
    BY <1>1, QueueAssumption DEF Operation, Names
  <2> QED BY <1>1, <1>3, <1>7, <2>1, FilesType DEF WritesFile, TypeOK, Record, Operation
<1>8. CASE Uncommits
  <2>1. op' \in Operation
    BY <1>1, <1>8, FilesType DEF Uncommits, Operation
  <2> QED BY <1>8, <2>1, FilesType DEF Uncommits, TypeOK, Record, Operation, stateVars
<1>9. CASE UnlinksCommit
  <2>1. ASSUME NEW n \in op.list, op' = [op EXCEPT !.list = @ \ {n}]
        PROVE  op' \in Operation /\ n \in Names
    BY <1>1, <2>1 DEF Operation
  <2>2. op' \in Operation
    BY <1>1, <1>2, <1>9, <2>1, OpType DEF UnlinksCommit
  <2>3. json' \in SUBSET Names /\ claimed' \in SUBSET Names /\ stale' \in SUBSET Names
    BY <1>9, <2>1, FilesType DEF UnlinksCommit, TypeOK, files
  <2> QED BY <1>1, <1>2, <1>9, <2>2, <2>3 DEF UnlinksCommit, TypeOK, Record, Operation, history
<1> QED BY <1>4, <1>5, <1>6, <1>7, <1>8, <1>9 DEF Operate

\* Everything else.
LEMMA OthersType ==
    ASSUME TypeOK,
           \/ DrainTick \/ Initialize \/ Ages \/ Capture \/ TurnEnds \/ SessionEnds
           \/ \E r \in Replayers : OtherStarts(r)
           \/ ServerFails \/ ServerReturns \/ HostCrashes \/ Reopens
    PROVE  TypeOK'
<1>1. /\ rep \in [Replayers -> Record] /\ Idle \in Record /\ op \in Operation
    BY IdleType DEF TypeOK, Record, Operation
<1>2. Drainer \in Replayers /\ Starter \in Replayers
    BY DEF Replayers
<1>3. ASSUME NEW kind \in {"message", "commit", "final"}, NEW write \in Writes,
             NEW queued \in {"find", "idle", "uncommit"}, Begins(kind, write, queued),
             captured' \in 0..MaxMessages, events' \in Nat
      PROVE  TypeOK'
  <2>1. op' \in Operation
    BY <1>3 DEF Begins, Operation
  <2>2. rep' \in [Replayers -> Record] /\ retryable' \in BOOLEAN
    BY <1>1, <1>2, <1>3, StepType DEF Begins, Ensure, TypeOK, Steps
  <2> QED BY <1>3, <2>1, <2>2 DEF Begins, TypeOK, Record, Operation, files, history
<1>4. CASE DrainTick
  <2>1. rep' \in [Replayers -> Record]
    BY <1>1, <1>2, <1>4, StepType DEF DrainTick, Steps
  <2> QED BY <1>4, <2>1, FilesType DEF DrainTick, TypeOK, Record, stateVars
<1>5. CASE Initialize
  <2>1. rep' \in [Replayers -> Record] /\ retryable' \in BOOLEAN
    BY <1>1, <1>2, <1>5, StepType DEF Initialize, Ensure, TypeOK, Steps
  <2> QED BY <1>5, <2>1 DEF Initialize, TypeOK, Record, files, history
<1>6. CASE Ages
    BY <1>6 DEF Ages, TypeOK, stateVars, history
<1>7. CASE Capture
  <2>1. captured + 1 \in Writes /\ captured' \in 0..MaxMessages
    BY <1>7, QueueAssumption DEF Capture, TypeOK, Writes, Messages
  <2> QED BY <1>3, <1>7, <2>1 DEF Capture, TypeOK
<1>8. CASE TurnEnds
    BY <1>3, <1>8 DEF TurnEnds, TypeOK, Writes
<1>9. CASE SessionEnds
    BY <1>3, <1>9 DEF SessionEnds, OneMoreEvent, TypeOK, Writes
<1>10. ASSUME NEW r \in Replayers, OtherStarts(r) PROVE TypeOK'
  <2>1. rep' \in [Replayers -> Record]
    BY <1>1, <1>10, StepType DEF OtherStarts, Steps
  <2> QED BY <1>10, <2>1 DEF OtherStarts, OneMoreEvent, TypeOK, Record, files, history, stateVars
<1>11. CASE ServerFails \/ ServerReturns
  <2>1. up' \in BOOLEAN
    BY <1>11 DEF ServerFails, ServerReturns
  <2>2. events' \in Nat
    BY <1>11 DEF ServerFails, ServerReturns, OneMoreEvent, TypeOK
  <2> QED BY <1>11, <2>1, <2>2 DEF ServerFails, ServerReturns, TypeOK, files, history, stateVars
<1>12. CASE HostCrashes
  <2>1. rep' \in [Replayers -> Record] /\ op' \in Operation
    BY <1>1, <1>2, <1>12, NoOpType DEF HostCrashes
  <2>2. events' \in Nat
    BY <1>12 DEF HostCrashes, OneMoreEvent, TypeOK
  <2>3. /\ open' \in BOOLEAN /\ ready' \in BOOLEAN /\ retryable' \in BOOLEAN
        /\ latch' \in BOOLEAN /\ up' \in BOOLEAN
    BY <1>12 DEF HostCrashes, TypeOK
  <2> QED BY <1>12, <2>1, <2>2, <2>3 DEF HostCrashes, TypeOK, Record, Operation, files, history
<1>13. CASE Reopens
    BY <1>13 DEF Reopens, TypeOK, files, history
<1> QED BY <1>4, <1>5, <1>6, <1>7, <1>8, <1>9, <1>10, <1>11, <1>12, <1>13

-----------------------------------------------------------------------------
(* A queued message is kept.  The invariant says besides of a message that   *)
(* is not queued yet that nothing on the disk or in a replayer's hands is    *)
(* its, of one that was answered that nobody waits for it, and of a file     *)
(* that a retry is about to remove that a younger one stands for it.         *)

Files   == json \cup claimed
Holding == {"send", "remove", "unlink", "release", "retry"}

\* What the write chain is at: only messages are named by a number.
OpKnown ==
    /\ op.write \in Messages => op.kind = "message" /\ op.write <= captured
    /\ \A n \in op.list : n.write = Commit

\* The message is not captured, or its operation has not queued it yet.
Unqueued(m) ==
    \/ m > captured
    \/ op.write = m /\ op.step \in {"ensure", "send", "find", "write"}

UnqueuedIsNowhere ==
    \A m \in Messages : Unqueued(m) =>
        /\ \A f \in Files : f.write # m
        /\ \A r \in Replayers : rep[r].step \in Holding => rep[r].name.write # m

AnsweredIsSettled ==
    \A r \in Replayers : rep[r].step = "remove" => rep[r].name.write \notin owed

RetryIsWritten ==
    \A r \in Replayers :
        (rep[r].step = "unlink" /\ rep[r].name.write \in owed) =>
            \E f \in Files : f.write = rep[r].name.write /\ f.retries > rep[r].name.retries

KeptInv ==
    OpKnown /\ Claimable /\ UnqueuedIsNowhere /\ AnsweredIsSettled /\ RetryIsWritten
       /\ QueuedIsKept

\* Steps that add neither a file nor a message to wait for, remove files only of
\* what nobody waits for, and give a replayer a file it can take or keeps the
\* one in its hands.
Careful(q) ==
    rep'[q].step \in Holding =>
       \/ rep'[q].step = rep[q].step /\ rep'[q].name = rep[q].name
       \/ /\ rep'[q].step \in {"send", "release", "retry"}
          /\ rep'[q].name.retries < MaxRetries
          /\ rep'[q].name \in Files \/ (rep[q].step \in Holding /\ rep'[q].name = rep[q].name)
       \/ /\ rep'[q].step = "remove" /\ rep[q].step \in Holding
          /\ rep'[q].name = rep[q].name /\ rep'[q].name.write \notin owed'

LEMMA CarefulStep ==
    ASSUME TypeOK, KeptInv, OpKnown',
           Files' \subseteq Files, owed' \subseteq owed,
           \A f \in Files : f \in Files' \/ f.write \notin owed',
           \A q \in Replayers : Careful(q),
           \A m \in Messages : Unqueued(m)' => Unqueued(m)
    PROVE  KeptInv'
<1> USE DEF Holding
<1>1. Claimable'
    BY DEF KeptInv, Claimable, Careful
<1>2. UnqueuedIsNowhere'
    BY DEF KeptInv, UnqueuedIsNowhere, Careful
<1>3. AnsweredIsSettled'
    BY DEF KeptInv, AnsweredIsSettled, Careful
<1>4. RetryIsWritten'
    BY DEF KeptInv, RetryIsWritten, Careful
<1>5. QueuedIsKept'
    BY DEF KeptInv, QueuedIsKept, Files
<1> QED BY <1>1, <1>2, <1>3, <1>4, <1>5 DEF KeptInv

\* Listing moves files back, but loses none.
LEMMA ListKeeps == List => Files' = Files /\ owed' = owed
BY DEF List, Listing, Files

LEMMA ReplayKept ==
    ASSUME TypeOK, TypeOK', KeptInv, NEW r \in Replayers, Replay(r)
    PROVE  KeptInv'
<1>1. rep \in [Replayers -> Record] /\ rep[r] \in Record
    BY DEF TypeOK, Record
<1>2. UNCHANGED <<op, captured>>
    BY DEF Replay, Probes, Lists, Answered, Removes, Releases, Retries, Cleans,
           Expires, Refreshes, Notes, Drops, Claims
<1>3. OpKnown' /\ \A m \in Messages : Unqueued(m)' => Unqueued(m)
    BY <1>2 DEF KeptInv, OpKnown, Unqueued
<1>4. ASSUME Files' = Files, owed' = owed, NEW x \in Record, x.step \notin Holding,
             rep' = [rep EXCEPT ![r] = x]
      PROVE  KeptInv'
  <2>1. \A q \in Replayers : Careful(q)
    BY <1>1, <1>4 DEF Careful
  <2> QED BY <1>3, <1>4, <2>1, CarefulStep
<1>5. ASSUME Files' = Files, owed' = owed, NEW s \in Steps, s \notin Holding, Step(r, s)
      PROVE  KeptInv'
  <2>1. \A q \in Replayers : Careful(q)
    BY <1>1, <1>5 DEF Careful, Step, Record
  <2> QED BY <1>3, <1>5, <2>1, CarefulStep
<1>6. CASE Probes(r)
  <2>1. \E s \in {"replay", "refresh", "idle"} : Step(r, s)
    BY <1>6 DEF Probes
  <2> QED BY <1>5, <1>6, <2>1 DEF Probes, Steps, Holding, Files, files, history
<1>7. CASE Lists(r)
  <2>1. rep'[r] \in Record
    BY DEF TypeOK, Record
  <2>2. rep' = [rep EXCEPT ![r] = rep'[r]] /\ rep'[r].step \in {"idle", "refresh", "next"}
    BY <1>1, <1>7 DEF Lists, At, AfterReplay
  <2> QED BY <1>4, <1>7, <2>1, <2>2, ListKeeps DEF Lists, Holding
<1>8. CASE Cleans(r)
  <2>1. rep'[r] \in Record
    BY DEF TypeOK, Record
  <2>2. rep' = [rep EXCEPT ![r] = rep'[r]] /\ rep'[r].step = "expire"
    BY <1>1, <1>8 DEF Cleans, At
  <2> QED BY <1>4, <1>8, <2>1, <2>2, ListKeeps DEF Cleans, Holding
<1>9. CASE Refreshes(r)
  <2>1. rep'[r] \in Record
    BY DEF TypeOK, Record
  <2>2. rep' = [rep EXCEPT ![r] = rep'[r]] /\ rep'[r].step \in {"idle", "note"}
    BY <1>1, <1>9 DEF Refreshes, At, Step, Record
  <2>3. Files' = Files /\ owed' = owed
    BY <1>9, ListKeeps DEF Refreshes, Files, files, history
  <2> QED BY <1>4, <2>1, <2>2, <2>3 DEF Holding
<1>10. CASE Notes(r)
    BY <1>4, <1>10, IdleType DEF Notes, Idle, At, Holding, Files, files, history
<1>11. CASE Releases(r)
  <2>1. rep'[r] \in Record
    BY DEF TypeOK, Record
  <2>2. rep' = [rep EXCEPT ![r] = rep'[r]] /\ rep'[r].step = "next"
    BY <1>1, <1>11 DEF Releases, Settled, At
  <2>3. Files' = Files /\ owed' = owed
    BY <1>11 DEF Releases, Files, history
  <2> QED BY <1>4, <2>1, <2>2, <2>3 DEF Holding
<1>12. CASE Answered(r)
  <2>1. rep[r].step = "send" /\ Files' = Files /\ owed' \subseteq owed
    BY <1>12 DEF Answered, Files, files
  <2>2. rep[r].name.retries < MaxRetries
    BY <2>1 DEF KeptInv, Claimable
  <2>3. \A q \in Replayers : q # r => rep'[q] = rep[q]
    BY <1>1, <1>12 DEF Answered, Step
  <2>4. /\ rep'[r].name = rep[r].name
        /\ \/ rep'[r].step = "remove" /\ rep[r].name.write \notin owed'
           \/ rep'[r].step \in {"release", "retry"}
    BY <1>1, <1>12 DEF Answered, Step, At, Record
  <2>5. \A q \in Replayers : Careful(q)
    BY <2>1, <2>2, <2>3, <2>4 DEF Careful, Holding
  <2>6. \A f \in Files : f \in Files' \/ f.write \notin owed'
    BY <2>1
  <2> QED BY <1>3, <2>1, <2>5, <2>6, CarefulStep
<1>13. CASE Removes(r)
  <2> DEFINE n == rep[r].name
  <2>1. /\ rep[r].step \in {"remove", "unlink"} /\ owed' = owed
        /\ json' = json /\ claimed' = claimed \ {n}
    BY <1>13 DEF Removes, UnlinkClaimed, history
  <2>2. /\ rep' = [rep EXCEPT ![r] = rep'[r]] /\ rep'[r].step = "next"
    BY <1>1, <1>13 DEF Removes, Settled, At
  <2>3. \A q \in Replayers : Careful(q)
    BY <1>1, <2>2 DEF Careful, Holding
  <2>4. CASE rep[r].step = "remove"
    <3>1. Files' \subseteq Files /\ \A f \in Files : f \in Files' \/ f.write \notin owed'
      BY <2>1, <2>4 DEF Files, KeptInv, AnsweredIsSettled
    <3> QED BY <1>3, <2>1, <2>3, <3>1, CarefulStep
  <2>5. CASE rep[r].step = "unlink"
    <3>1. Files' \subseteq Files /\ \A f \in Files : f \in Files' \/ f = n
      BY <2>1 DEF Files
    <3>2. Files \subseteq Names /\ n \in Names
      BY <1>1 DEF Files, TypeOK, Record
    <3>3. n.write \in owed => \E f \in Files' : f.write = n.write /\ f.retries > n.retries
      <4>1. ASSUME n.write \in owed
            PROVE  \E f \in Files' : f.write = n.write /\ f.retries > n.retries
        <5>1. PICK f \in Files : f.write = n.write /\ f.retries > n.retries
          BY <2>5, <4>1 DEF KeptInv, RetryIsWritten
        <5>2. f # n
          BY <3>2, <5>1 DEF Names
        <5> QED BY <3>1, <5>1, <5>2
      <4> QED BY <4>1
    <3>4. Claimable' /\ AnsweredIsSettled'
      BY <2>1, <2>3 DEF KeptInv, Claimable, AnsweredIsSettled, Careful, Holding
    <3>5. UnqueuedIsNowhere'
      BY <1>3, <2>3, <3>1 DEF KeptInv, UnqueuedIsNowhere, Careful, Holding
    <3>6. QueuedIsKept'
      <4>1. \A m \in owed : \E f \in Files : f.write = m
        BY DEF KeptInv, QueuedIsKept, Files
      <4>2. \A m \in owed' : \E f \in Files' : f.write = m
        BY <2>1, <3>1, <3>3, <4>1
      <4> QED BY <4>2 DEF QueuedIsKept, Files
    <3>7. RetryIsWritten'
      <4> SUFFICES ASSUME NEW q \in Replayers, rep'[q].step = "unlink",
                          rep'[q].name.write \in owed'
                   PROVE  \E f \in Files' : /\ f.write = rep'[q].name.write
                                           /\ f.retries > rep'[q].name.retries
        BY DEF RetryIsWritten
      <4>1. rep[q].step = "unlink" /\ rep'[q].name = rep[q].name /\ rep[q].name \in Names
        BY <1>1, <2>2, <2>3 DEF Careful, Holding, Record
      <4>2. PICK f \in Files : f.write = rep[q].name.write /\ f.retries > rep[q].name.retries
        BY <2>1, <4>1 DEF KeptInv, RetryIsWritten
      <4>3. CASE f \in Files'
        BY <4>1, <4>2, <4>3
      <4>4. CASE f = n
        <5>1. PICK g \in Files' : g.write = n.write /\ g.retries > n.retries
          BY <2>1, <3>3, <4>1, <4>2, <4>4
        <5>2. g \in Names
          BY <3>1, <3>2, <5>1
        <5>3. g.retries > rep[q].name.retries
          <6>1. g.retries \in Nat /\ n.retries \in Nat /\ rep[q].name.retries \in Nat
            BY <3>2, <4>1, <5>2 DEF Names
          <6> QED BY <4>2, <4>4, <5>1, <6>1
        <5> QED BY <4>1, <4>2, <4>4, <5>1, <5>3
      <4> QED BY <3>1, <4>2, <4>3, <4>4
    <3> QED BY <1>3, <3>4, <3>5, <3>6, <3>7 DEF KeptInv
  <2> QED BY <2>1, <2>4, <2>5
<1>14. CASE Retries(r)
  <2> DEFINE n == rep[r].name
             next == [n EXCEPT !.retries = @ + 1]
  <2>1. /\ rep[r].step = "retry" /\ owed' = owed /\ Files' = Files \cup {next}
    BY <1>14 DEF Retries, WriteFile, Files, history
  <2>2. /\ n \in Names /\ next.write = n.write /\ next.retries = n.retries + 1
        /\ next.retries > n.retries
    BY <1>1 DEF Record, Names
  <2>3. /\ \A q \in Replayers : q # r => rep'[q] = rep[q]
        /\ rep'[r].step = "unlink" /\ rep'[r].name = n
    BY <1>1, <1>14 DEF Retries, Step, Record
  <2>4. Claimable' /\ AnsweredIsSettled'
    BY <2>1, <2>3 DEF KeptInv, Claimable, AnsweredIsSettled
  <2>5. UnqueuedIsNowhere'
    <3>1. \A m \in Messages : Unqueued(m) => n.write # m
      BY <1>14 DEF KeptInv, UnqueuedIsNowhere, Holding, Retries
    <3>2. \A m \in Messages : Unqueued(m) => \A f \in Files' : f.write # m
      BY <2>1, <2>2, <3>1 DEF KeptInv, UnqueuedIsNowhere
    <3> HIDE DEF n, next
    <3>3. \A m \in Messages : Unqueued(m) =>
             \A q \in Replayers : rep'[q].step \in Holding => rep'[q].name.write # m
      BY <2>3, <3>1 DEF KeptInv, UnqueuedIsNowhere
    <3> QED BY <1>3, <3>2, <3>3 DEF UnqueuedIsNowhere
  <2>6. QueuedIsKept'
    <3>1. \A m \in owed : \E f \in Files : f.write = m
      BY DEF KeptInv, QueuedIsKept, Files
    <3>2. \A m \in owed' : \E f \in Files' : f.write = m
      BY <2>1, <3>1
    <3> QED BY <3>2 DEF QueuedIsKept, Files
  <2>7. RetryIsWritten'
    <3> SUFFICES ASSUME NEW q \in Replayers, rep'[q].step = "unlink", rep'[q].name.write \in owed'
                 PROVE  \E f \in Files' : /\ f.write = rep'[q].name.write
                                          /\ f.retries > rep'[q].name.retries
      BY DEF RetryIsWritten
    <3> HIDE DEF n, next
    <3>1. CASE q = r
      BY <2>1, <2>2, <2>3, <3>1
    <3>2. CASE q # r
      <4>1. rep'[q] = rep[q] /\ rep[q].step = "unlink" /\ rep[q].name.write \in owed
        BY <2>1, <2>3, <3>2
      <4>2. \E f \in Files : f.write = rep[q].name.write /\ f.retries > rep[q].name.retries
        BY <4>1 DEF KeptInv, RetryIsWritten
      <4> QED BY <2>1, <4>1, <4>2
    <3> QED BY <3>1, <3>2
  <2> QED BY <1>3, <2>4, <2>5, <2>6, <2>7 DEF KeptInv
<1>15. CASE Expires(r)
  <2>1. ASSUME NEW n \in rep[r].list, Unlink(n), rep' = [rep EXCEPT ![r].list = @ \ {n}],
               owed' = IF n \in json THEN owed \ {n.write} ELSE owed
        PROVE  KeptInv'
    <3>1. \A q \in Replayers : Careful(q)
      BY <1>1, <2>1 DEF Careful, Record
    <3>2. /\ Files' \subseteq Files /\ owed' \subseteq owed
          /\ \A f \in Files : f \in Files' \/ f.write \notin owed'
      BY <2>1 DEF Unlink, Files
    <3> QED BY <1>3, <3>1, <3>2, CarefulStep
  <2>2. ASSUME Step(r, AfterReplay(r)), UNCHANGED <<files, owed>> PROVE KeptInv'
    BY <1>5, <2>2 DEF AfterReplay, Steps, Holding, Files, files
  <2> QED BY <1>15, <2>1, <2>2 DEF Expires
<1>16. ASSUME NEW n \in Names, Drops(r, n) PROVE KeptInv'
  <2>1. \A q \in Replayers : Careful(q)
    BY <1>1, <1>16 DEF Careful, Drops, Record
  <2>2. /\ Files' \subseteq Files /\ owed' \subseteq owed
        /\ \A f \in Files : f \in Files' \/ f.write \notin owed'
    BY <1>16 DEF Drops, Unlink, Files
  <2> QED BY <1>3, <2>1, <2>2, CarefulStep
<1>17. ASSUME NEW n \in Names, Claims(r, n) PROVE KeptInv'
  <2>1. Files' = Files /\ owed' = owed
    BY <1>17 DEF Claims, Files, history
  <2>2. /\ \A q \in Replayers : q # r => rep'[q] = rep[q]
        /\ \/ n \in json /\ rep'[r].step = "send" /\ rep'[r].name = n
           \/ rep'[r].step = rep[r].step /\ rep'[r].name = rep[r].name
    BY <1>1, <1>17 DEF Claims, At, Record
  <2>3. \A q \in Replayers : Careful(q)
    BY <1>17, <2>2 DEF Careful, Holding, Claims, Files
  <2> QED BY <1>3, <2>1, <2>3, CarefulStep
<1> QED BY <1>6, <1>7, <1>8, <1>9, <1>10, <1>11, <1>12, <1>13, <1>14, <1>15, <1>16, <1>17
       DEF Replay

\* A step that leaves the files alone, and lets go of them if it moves a replayer.
LEMMA AloofStep ==
    ASSUME TypeOK, KeptInv, OpKnown', Files' = Files, owed' = owed,
           \A q \in Replayers : \/ rep'[q] = rep[q]
                               \/ rep'[q].step \notin Holding,
           \A m \in Messages : Unqueued(m)' => Unqueued(m)
    PROVE  KeptInv'
<1>1. \A q \in Replayers : Careful(q)
    BY DEF Careful
<1> QED BY <1>1, CarefulStep

LEMMA OperateKept ==
    ASSUME TypeOK, TypeOK', KeptInv, Operate
    PROVE  KeptInv'
<1>1. rep \in [Replayers -> Record] /\ op \in Operation /\ OpKnown
    BY DEF TypeOK, Record, Operation, KeptInv
<1>2. captured' = captured
    BY DEF Operate, Ensured, Sent, Finds, WritesFile, Uncommits, UnlinksCommit, OpEnds
<1>3. Commit \notin Messages
    BY QueueAssumption DEF Messages
\* What the operation does next: it stays early only if it was, or if it is no
\* message's.
<1>4. ASSUME NEW s \in {"ensure", "send", "find", "write", "uncommit", "unlink"}, OpTo(s),
             s \in {"uncommit", "unlink"} \/ op.write \notin Messages
                \/ op.step \in {"ensure", "send", "find", "write"}
      PROVE  OpKnown' /\ \A m \in Messages : Unqueued(m)' => Unqueued(m)
  <2>1. op'.write = op.write /\ op'.kind = op.kind /\ op'.list = op.list /\ op'.step = s
    BY <1>1, <1>4 DEF OpTo, Operation
  <2> QED BY <1>1, <1>2, <1>4, <2>1 DEF OpKnown, Unqueued
<1>5. ASSUME OpEnds
      PROVE  /\ OpKnown' /\ \A m \in Messages : Unqueued(m)' => Unqueued(m)
             /\ \A q \in Replayers : rep'[q] = rep[q] \/ rep'[q].step \notin Holding
  <2>1. op'.write = Commit /\ op'.list = {} /\ op'.step = "idle"
    BY <1>5 DEF OpEnds, NoOp
  <2> QED BY <1>1, <1>2, <1>3, <1>5, <2>1 DEF OpKnown, Unqueued, OpEnds, Idle, At, Holding
<1>6. ASSUME Queued
      PROVE  /\ OpKnown' /\ \A m \in Messages : Unqueued(m)' => m > captured
             /\ \A q \in Replayers : rep'[q] = rep[q] \/ rep'[q].step \notin Holding
  <2>1. CASE op' = NoOp /\ UNCHANGED rep
    BY <1>2, <1>3, <2>1 DEF OpKnown, Unqueued, NoOp
  <2>2. CASE OpTo("uncommit") /\ UNCHANGED rep
    <3>1. op'.write = op.write /\ op'.kind = op.kind /\ op'.list = op.list /\ op'.step = "uncommit"
      BY <1>1, <2>2 DEF OpTo, Operation
    <3> QED BY <1>1, <1>2, <2>2, <3>1 DEF OpKnown, Unqueued
  <2>3. CASE OpEnds
    <3>1. op'.write = Commit
      BY <2>3 DEF OpEnds, NoOp
    <3> QED BY <1>2, <1>3, <1>5, <2>3, <3>1 DEF Unqueued
  <2> QED BY <1>6, <2>1, <2>2, <2>3 DEF Queued
<1>7. CASE Ensured
  <2>1. Files' = Files /\ owed' = owed
    BY <1>7 DEF Ensured, Files, files, history
  <2>2. CASE OpEnds
    BY <1>5, <2>1, <2>2, AloofStep
  <2>3. CASE OpTo("find") /\ UNCHANGED rep
    BY <1>4, <1>7, <2>1, <2>3, AloofStep DEF Ensured
  <2>4. CASE OpTo("send") /\ UNCHANGED rep
    BY <1>4, <1>7, <2>1, <2>4, AloofStep DEF Ensured
  <2> QED BY <1>7, <2>2, <2>3, <2>4 DEF Ensured
<1>8. CASE Sent
  <2>1. Files' = Files /\ owed' = owed
    BY <1>8 DEF Sent, Files, files, history
  <2>2. CASE OpEnds
    BY <1>5, <2>1, <2>2, AloofStep
  <2>3. CASE OpTo("find") /\ UNCHANGED rep
    BY <1>4, <1>8, <2>1, <2>3, AloofStep DEF Sent
  <2>4. CASE OpTo("uncommit") /\ UNCHANGED rep
    BY <1>4, <1>8, <2>1, <2>4, AloofStep DEF Sent
  <2> QED BY <1>8, <2>2, <2>3, <2>4 DEF Sent
<1>9. CASE Finds
  <2>1. Files' = Files /\ owed' = owed
    BY <1>9 DEF Finds, Files, files, history
  <2>2. CASE Queued
    BY <1>6, <2>1, <2>2, AloofStep DEF Unqueued
  <2>3. CASE OpTo("write") /\ UNCHANGED rep
    BY <1>4, <1>9, <2>1, <2>3, AloofStep DEF Finds
  <2> QED BY <1>9, <2>2, <2>3 DEF Finds
<1>10. CASE Uncommits
  <2>1. Files' = Files /\ owed' = owed /\ rep' = rep
    BY <1>10, ListKeeps DEF Uncommits
  <2>2. /\ op'.kind = op.kind /\ op'.write = op.write /\ op'.step = "unlink"
        /\ \A n \in op'.list : n.write = Commit
    BY <1>10 DEF Uncommits
  <2>3. OpKnown' /\ \A m \in Messages : Unqueued(m)' => Unqueued(m)
    BY <1>1, <1>2, <2>2 DEF OpKnown, Unqueued
  <2> QED BY <2>1, <2>3, AloofStep
<1>11. CASE UnlinksCommit
  <2>1. ASSUME NEW n \in op.list, Unlink(n), op' = [op EXCEPT !.list = @ \ {n}],
               UNCHANGED rep, UNCHANGED owed
        PROVE  KeptInv'
    <3>1. n.write \notin owed
      BY <1>1, <1>3 DEF OpKnown, TypeOK
    <3>2. Files' \subseteq Files /\ \A f \in Files : f \in Files' \/ f.write \notin owed'
      BY <2>1, <3>1 DEF Unlink, Files
    <3>3. OpKnown' /\ \A m \in Messages : Unqueued(m)' => Unqueued(m)
      BY <1>1, <1>2, <2>1 DEF OpKnown, Unqueued, Operation
    <3>4. \A q \in Replayers : Careful(q)
      BY <2>1 DEF Careful
    <3> QED BY <2>1, <3>2, <3>3, <3>4, CarefulStep
  <2>2. ASSUME UNCHANGED files, UNCHANGED owed, OpEnds PROVE KeptInv'
    BY <1>5, <2>2, AloofStep DEF Files, files
  <2>3. ASSUME UNCHANGED files, UNCHANGED owed, op.kind # "message", OpTo("find"), UNCHANGED rep
        PROVE KeptInv'
    BY <1>1, <1>4, <2>3, AloofStep DEF Files, files, OpKnown
  <2> QED BY <1>11, <2>1, <2>2, <2>3 DEF UnlinksCommit, history
<1>12. CASE WritesFile
  <2> DEFINE n == [write |-> op.write, retries |-> 0]
  <2>1. /\ op.step = "write" /\ Files' = Files \cup {n} /\ n.write = op.write
        /\ owed' = owed \cup ({op.write} \cap Messages) /\ Queued
    BY <1>12 DEF WritesFile, WriteFile, Files
  <2>2. op.write \in Messages => /\ Unqueued(op.write) /\ ~(op.write > captured)
                                /\ UnqueuedIsNowhere
    BY <1>1, <2>1 DEF OpKnown, Unqueued, KeptInv, TypeOK, Messages
  <2>3. \A q \in Replayers : rep'[q].step \in Holding => rep'[q] = rep[q]
    BY <1>6, <2>1
  <2>4. \A q \in Replayers : rep'[q].step \in Holding => rep'[q].name.write # op.write
                                                       \/ op.write \notin Messages
    BY <2>2, <2>3 DEF UnqueuedIsNowhere
  <2>5. Claimable'
    BY <2>3 DEF KeptInv, Claimable, Holding
  <2>6. AnsweredIsSettled'
    BY <2>1, <2>3, <2>4 DEF KeptInv, AnsweredIsSettled, Holding
  <2>7. RetryIsWritten'
    BY <2>1, <2>3, <2>4 DEF KeptInv, RetryIsWritten, Holding
  <2>8. UnqueuedIsNowhere'
    BY <1>6, <2>1, <2>2, <2>3 DEF KeptInv, UnqueuedIsNowhere, Unqueued
  <2>9. QueuedIsKept'
    <3>1. \A m \in owed : \E f \in Files : f.write = m
      BY DEF KeptInv, QueuedIsKept, Files
    <3>2. \A m \in owed' : \E f \in Files' : f.write = m
      BY <2>1, <3>1
    <3> QED BY <3>2 DEF QueuedIsKept, Files
  <2> QED BY <1>6, <2>1, <2>5, <2>6, <2>7, <2>8, <2>9 DEF KeptInv
<1> QED BY <1>7, <1>8, <1>9, <1>10, <1>11, <1>12 DEF Operate

LEMMA OthersKept ==
    ASSUME TypeOK, TypeOK', KeptInv,
           \/ DrainTick \/ Initialize \/ Ages \/ Capture \/ TurnEnds \/ SessionEnds
           \/ \E r \in Replayers : OtherStarts(r)
           \/ ServerFails \/ ServerReturns \/ HostCrashes \/ Reopens
    PROVE  KeptInv'
<1>1. /\ rep \in [Replayers -> Record] /\ op \in Operation /\ OpKnown
      /\ Drainer \in Replayers /\ Starter \in Replayers
    BY DEF TypeOK, Record, Operation, KeptInv, Replayers
<1>2. Commit \notin Messages
    BY QueueAssumption DEF Messages
<1>3. ASSUME UNCHANGED <<op, captured>>
      PROVE  OpKnown' /\ \A m \in Messages : Unqueued(m)' => Unqueued(m)
    BY <1>1, <1>3 DEF OpKnown, Unqueued
<1>4. ASSUME NEW r \in Replayers, NEW s \in Steps, s \notin Holding, Step(r, s)
      PROVE  \A q \in Replayers : rep'[q] = rep[q] \/ rep'[q].step \notin Holding
    BY <1>1, <1>4 DEF Step, Record
<1>5. ASSUME Ensure \/ UNCHANGED rep
      PROVE  \A q \in Replayers : rep'[q] = rep[q] \/ rep'[q].step \notin Holding
    BY <1>1, <1>4, <1>5 DEF Ensure, Steps, Holding
<1>6. ASSUME NEW kind \in {"commit", "final"}, NEW queued, Begins(kind, Commit, queued),
             captured' = captured
      PROVE  KeptInv'
  <2>1. op'.write = Commit /\ op'.list = {}
    BY <1>6 DEF Begins
  <2>2. OpKnown' /\ \A m \in Messages : Unqueued(m)' => Unqueued(m)
    BY <1>2, <1>6, <2>1 DEF OpKnown, Unqueued
  <2> QED BY <1>5, <1>6, <2>2, AloofStep DEF Begins, Files, files, history
<1>7. CASE DrainTick
    BY <1>1, <1>3, <1>4, <1>7, ListKeeps, AloofStep DEF DrainTick, Steps, Holding
<1>8. CASE Initialize
    BY <1>3, <1>5, <1>8, AloofStep DEF Initialize, Files, files, history
<1>9. CASE Ages
    BY <1>3, <1>9, AloofStep DEF Ages, Files, history
<1>10. CASE Capture
  <2>1. /\ op'.write = captured + 1 /\ op'.kind = "message" /\ op'.list = {}
        /\ captured' = captured + 1 /\ captured \in Nat
    BY <1>10, QueueAssumption DEF Capture, Begins, TypeOK
  <2>2. OpKnown' /\ \A m \in Messages : Unqueued(m)' => Unqueued(m)
    BY <2>1 DEF OpKnown, Unqueued, Messages
  <2> QED BY <1>5, <1>10, <2>2, AloofStep DEF Capture, Begins, Files, files, history
<1>11. CASE TurnEnds
    BY <1>6, <1>11 DEF TurnEnds
<1>12. CASE SessionEnds
    BY <1>6, <1>12 DEF SessionEnds
<1>13. ASSUME NEW r \in Replayers, OtherStarts(r) PROVE KeptInv'
    BY <1>3, <1>4, <1>13, AloofStep DEF OtherStarts, Steps, Holding, Files, files, history
<1>14. CASE ServerFails \/ ServerReturns \/ Reopens
    BY <1>3, <1>14, AloofStep DEF ServerFails, ServerReturns, Reopens, Files, files, history
<1>15. CASE HostCrashes
  <2>1. \A q \in Replayers : rep'[q] = rep[q] \/ rep'[q].step \notin Holding
    BY <1>1, <1>15 DEF HostCrashes, Idle, At, Holding
  <2>2. OpKnown' /\ \A m \in Messages : Unqueued(m)' => Unqueued(m)
    BY <1>2, <1>15 DEF HostCrashes, NoOp, OpKnown, Unqueued
  <2> QED BY <1>15, <2>1, <2>2, AloofStep DEF HostCrashes, Files, files, history
<1> QED BY <1>7, <1>8, <1>9, <1>10, <1>11, <1>12, <1>13, <1>14, <1>15

LEMMA KeptInit == Init => KeptInv
<1> SUFFICES ASSUME Init PROVE KeptInv
    OBVIOUS
<1>1. \A r \in Replayers : rep[r].step = "idle"
    BY DEF Init, Idle, At
<1>2. Files = {} /\ owed = {}
    BY DEF Init, Files
<1>3. OpKnown
    BY QueueAssumption DEF Init, OpKnown, NoOp, Messages
<1> QED BY <1>1, <1>2, <1>3
       DEF KeptInv, Claimable, UnqueuedIsNowhere, AnsweredIsSettled, RetryIsWritten,
           QueuedIsKept, Holding

-----------------------------------------------------------------------------
(* One sender.  As long as no claim on a message was taken back, it is in    *)
(* one queued file or in one replayer's hands, and not in both.              *)

InHand == {"send", "remove", "release", "retry"}

HasInHand(r, m) == rep[r].step \in InHand /\ rep[r].name.write = m

SoleInv ==
    \A m \in Messages \ recovered :
        /\ \A r, q \in Replayers : HasInHand(r, m) /\ HasInHand(q, m) => r = q
        /\ \A r \in Replayers, f \in json : HasInHand(r, m) => f.write # m
        /\ \A f, g \in json : f.write = m /\ g.write = m => f = g

\* Steps that queue nothing but what was taken back, and hand nothing out.
LEMMA SoleStep ==
    ASSUME SoleInv, recovered \subseteq recovered',
           \A f \in json' : f.write \in Messages \ recovered' => f \in json,
           \A r \in Replayers : rep'[r].step \in InHand =>
               rep[r].step \in InHand /\ rep'[r].name = rep[r].name
    PROVE  SoleInv'
BY DEF SoleInv, HasInHand

LEMMA ListSole ==
    ASSUME TypeOK, List
    PROVE  /\ recovered \subseteq recovered'
           /\ \A f \in json' : f.write \in Messages \ recovered' => f \in json
BY DEF List, Listing

\* A step that leaves the directory alone, or lists it, and does not hand out.
LEMMA QuietSole ==
    ASSUME TypeOK, SoleInv, List \/ (UNCHANGED json /\ UNCHANGED recovered),
           \A r \in Replayers : rep'[r] = rep[r] \/ rep'[r].step \notin InHand
    PROVE  SoleInv'
BY ListSole, SoleStep

LEMMA ReplaySole ==
    ASSUME TypeOK, TypeOK', SoleInv, NEW r \in Replayers, Replay(r)
    PROVE  SoleInv'
<1>1. rep \in [Replayers -> Record] /\ rep[r] \in Record
    BY DEF TypeOK, Record
<1>2. ASSUME NEW s \in Steps \ InHand, Step(r, s)
      PROVE  \A q \in Replayers : rep'[q] = rep[q] \/ rep'[q].step \notin InHand
    BY <1>1, <1>2 DEF Step, Record
<1>3. ASSUME NEW x \in Record, x.step \notin InHand, rep' = [rep EXCEPT ![r] = x]
      PROVE  \A q \in Replayers : rep'[q] = rep[q] \/ rep'[q].step \notin InHand
    BY <1>1, <1>3
<1>4. ASSUME Settled(r)
      PROVE  \A q \in Replayers : rep'[q] = rep[q] \/ rep'[q].step \notin InHand
    BY <1>1, <1>4 DEF Settled, At, InHand
<1>5. CASE Probes(r)
    BY <1>2, <1>5, QuietSole DEF Probes, Steps, InHand, files, history
<1>6. CASE Lists(r)
  <2>1. \A q \in Replayers : rep'[q] = rep[q] \/ rep'[q].step \notin InHand
    BY <1>1, <1>6 DEF Lists, At, AfterReplay, InHand
  <2> QED BY <1>6, <2>1, QuietSole DEF Lists
<1>7. CASE Cleans(r)
  <2>1. \A q \in Replayers : rep'[q] = rep[q] \/ rep'[q].step \notin InHand
    BY <1>1, <1>7 DEF Cleans, At, InHand
  <2> QED BY <1>7, <2>1, QuietSole DEF Cleans
<1>8. CASE Refreshes(r)
  <2>1. \A q \in Replayers : rep'[q] = rep[q] \/ rep'[q].step \notin InHand
    BY <1>1, <1>2, <1>8 DEF Refreshes, At, InHand, Steps
  <2>2. List \/ (UNCHANGED json /\ UNCHANGED recovered)
    BY <1>8 DEF Refreshes, files, history
  <2> QED BY <2>1, <2>2, QuietSole
<1>9. CASE Notes(r)
    BY <1>1, <1>9, QuietSole DEF Notes, Idle, At, InHand, files, history
<1>10. CASE Removes(r)
    BY <1>4, <1>10, QuietSole DEF Removes, UnlinkClaimed, history
<1>11. CASE Answered(r)
  <2>1. /\ \A q \in Replayers : q # r => rep'[q] = rep[q]
        /\ rep'[r].name = rep[r].name /\ rep[r].step = "send"
    BY <1>1, <1>11 DEF Answered, Step, At, Record
  <2>2. UNCHANGED json /\ UNCHANGED recovered
    BY <1>11 DEF Answered, files
  <2> QED BY <2>1, <2>2, SoleStep DEF InHand
<1>12. CASE Expires(r)
  <2>1. json' \subseteq json /\ UNCHANGED recovered
    BY <1>12 DEF Expires, Unlink, files
  <2>2. \A q \in Replayers : q # r => rep'[q] = rep[q]
    BY <1>1, <1>12 DEF Expires, Step
  <2>3. rep'[r].step \notin InHand
    BY <1>1, <1>12 DEF Expires, Step, AfterReplay, InHand, Record
  <2> QED BY <2>1, <2>2, <2>3, SoleStep
<1>13. ASSUME NEW n \in Names, Drops(r, n) PROVE SoleInv'
  <2>1. json' \subseteq json /\ UNCHANGED recovered
    BY <1>13 DEF Drops, Unlink
  <2>2. \A q \in Replayers : q # r => rep'[q] = rep[q]
    BY <1>1, <1>13 DEF Drops
  <2>3. rep'[r].step \notin InHand
    BY <1>1, <1>13 DEF Drops, Due, InHand, Record
  <2> QED BY <2>1, <2>2, <2>3, SoleStep
<1>14. ASSUME NEW n \in Names, Claims(r, n) PROVE SoleInv'
  <2>1. rep[r].step = "next" /\ UNCHANGED recovered
    BY <1>14 DEF Claims, Due, history
  <2>2. CASE n \in json
    <3>1. /\ \A q \in Replayers : q # r => rep'[q] = rep[q]
          /\ rep'[r].name = n /\ json' = json \ {n}
      BY <1>1, <1>14, <2>2 DEF Claims, At
    <3>2. \A q \in Replayers, m \in Messages : HasInHand(q, m)' =>
             \/ q # r /\ HasInHand(q, m)
             \/ q = r /\ m = n.write
      BY <3>1 DEF HasInHand
    <3> QED BY <2>1, <2>2, <3>1, <3>2 DEF SoleInv
  <2>3. CASE n \notin json
    <3>1. /\ \A q \in Replayers : q # r => rep'[q] = rep[q]
          /\ rep'[r].step = "next" /\ UNCHANGED json
      BY <1>1, <1>14, <2>1, <2>3 DEF Claims, Record
    <3> QED BY <2>1, <3>1, SoleStep DEF InHand
  <2> QED BY <2>2, <2>3
<1>15. CASE Releases(r)
  <2> DEFINE n == rep[r].name
  <2>1. /\ rep[r].step = "release" /\ UNCHANGED recovered /\ json' \subseteq json \cup {n}
        /\ \A q \in Replayers : q # r => rep'[q] = rep[q]
        /\ rep'[r].step = "next"
    BY <1>1, <1>15 DEF Releases, Settled, At, history
  <2>2. \A q \in Replayers, m \in Messages : HasInHand(q, m)' => q # r /\ HasInHand(q, m)
    BY <2>1 DEF HasInHand, InHand
  <2>3. HasInHand(r, n.write)
    BY <2>1 DEF HasInHand, InHand
  <2> QED BY <2>1, <2>2, <2>3 DEF SoleInv
<1>16. CASE Retries(r)
  <2> DEFINE n == rep[r].name
             next == [n EXCEPT !.retries = @ + 1]
  <2>1. /\ rep[r].step = "retry" /\ UNCHANGED recovered /\ json' = json \cup {next}
        /\ \A q \in Replayers : q # r => rep'[q] = rep[q]
        /\ rep'[r].step = "unlink"
    BY <1>1, <1>16 DEF Retries, WriteFile, Step, Record, history
  <2>2. \A q \in Replayers, m \in Messages : HasInHand(q, m)' => q # r /\ HasInHand(q, m)
    BY <2>1 DEF HasInHand, InHand
  <2>3. HasInHand(r, n.write) /\ next.write = n.write
    BY <1>1, <2>1 DEF HasInHand, InHand, Record, Names
  <2> HIDE DEF next
  <2> QED BY <2>1, <2>2, <2>3 DEF SoleInv
<1> QED BY <1>5, <1>6, <1>7, <1>8, <1>9, <1>10, <1>11, <1>12, <1>13, <1>14, <1>15, <1>16
       DEF Replay

LEMMA OperateSole ==
    ASSUME TypeOK, KeptInv, SoleInv, Operate
    PROVE  SoleInv'
<1>1. rep \in [Replayers -> Record]
    BY DEF TypeOK, Record
<1>2. ASSUME OpEnds \/ Queued \/ UNCHANGED rep
      PROVE  \A q \in Replayers : rep'[q] = rep[q] \/ rep'[q].step \notin InHand
    BY <1>1, <1>2 DEF OpEnds, Queued, Idle, At, InHand
<1>3. CASE Ensured \/ Sent \/ Finds
  <2>1. (OpEnds \/ Queued \/ UNCHANGED rep) /\ UNCHANGED json /\ UNCHANGED recovered
    BY <1>3 DEF Ensured, Sent, Finds, files, history
  <2> QED BY <1>2, <2>1, QuietSole
<1>4. CASE Uncommits
    BY <1>4, QuietSole DEF Uncommits
<1>5. CASE UnlinksCommit
  <2>1. (OpEnds \/ UNCHANGED rep) /\ json' \subseteq json /\ UNCHANGED recovered
    BY <1>5 DEF UnlinksCommit, Unlink, files, history
  <2> QED BY <1>2, <2>1, SoleStep
<1>6. CASE WritesFile
  <2> DEFINE n == [write |-> op.write, retries |-> 0]
  <2>1. /\ op.step = "write" /\ json' = json \cup {n} /\ n.write = op.write
        /\ UNCHANGED recovered /\ Queued
    BY <1>6 DEF WritesFile, WriteFile
  <2>2. op.write \in Messages => /\ \A f \in json : f.write # op.write
                                 /\ \A q \in Replayers : ~HasInHand(q, op.write)
    BY <2>1 DEF KeptInv, UnqueuedIsNowhere, Unqueued, Files, Holding, HasInHand, InHand
  <2>3. \A q \in Replayers : rep'[q] = rep[q] \/ rep'[q].step \notin InHand
    BY <1>2, <2>1
  <2>4. \A q \in Replayers, m \in Messages : HasInHand(q, m)' => HasInHand(q, m)
    BY <2>3 DEF HasInHand
  <2> HIDE DEF n
  <2> QED BY <2>1, <2>2, <2>4 DEF SoleInv
<1> QED BY <1>3, <1>4, <1>5, <1>6 DEF Operate

LEMMA OthersSole ==
    ASSUME TypeOK, SoleInv,
           \/ DrainTick \/ Initialize \/ Ages \/ Capture \/ TurnEnds \/ SessionEnds
           \/ \E r \in Replayers : OtherStarts(r)
           \/ ServerFails \/ ServerReturns \/ HostCrashes \/ Reopens
    PROVE  SoleInv'
<1>1. /\ rep \in [Replayers -> Record]
      /\ Drainer \in Replayers /\ Starter \in Replayers
    BY DEF TypeOK, Record, Replayers
<1>2. ASSUME NEW r \in Replayers, NEW s \in Steps \ InHand, Step(r, s)
      PROVE  \A q \in Replayers : rep'[q] = rep[q] \/ rep'[q].step \notin InHand
    BY <1>1, <1>2 DEF Step, Record
<1>3. ASSUME Ensure \/ UNCHANGED rep
      PROVE  \A q \in Replayers : rep'[q] = rep[q] \/ rep'[q].step \notin InHand
    BY <1>1, <1>2, <1>3 DEF Ensure, Steps, InHand
<1>4. CASE DrainTick
    BY <1>1, <1>2, <1>4, QuietSole DEF DrainTick, Steps, InHand
<1>5. CASE Initialize
    BY <1>3, <1>5, QuietSole DEF Initialize, files, history
<1>6. CASE Capture \/ TurnEnds \/ SessionEnds
  <2>1. (Ensure \/ UNCHANGED rep) /\ UNCHANGED json /\ UNCHANGED recovered
    BY <1>6 DEF Capture, TurnEnds, SessionEnds, Begins, files, history
  <2> QED BY <1>3, <2>1, QuietSole
<1>7. ASSUME NEW r \in Replayers, OtherStarts(r) PROVE SoleInv'
    BY <1>2, <1>7, QuietSole DEF OtherStarts, Steps, InHand, files, history
<1>8. CASE Ages \/ ServerFails \/ ServerReturns \/ Reopens
  <2>1. UNCHANGED rep /\ UNCHANGED json /\ UNCHANGED recovered
    BY <1>8 DEF Ages, ServerFails, ServerReturns, Reopens, files, history
  <2> QED BY <2>1, QuietSole
<1>9. CASE HostCrashes
  <2>1. \A q \in Replayers : rep'[q] = rep[q] \/ rep'[q].step \notin InHand
    BY <1>1, <1>9 DEF HostCrashes, Idle, At, InHand
  <2> QED BY <1>9, <2>1, QuietSole DEF HostCrashes, files, history
<1> QED BY <1>4, <1>5, <1>6, <1>7, <1>8, <1>9

LEMMA SoleInit == Init => SoleInv
BY DEF Init, SoleInv, HasInHand, InHand, Idle, At

LEMMA SoleInductive ==
    ASSUME TypeOK, TypeOK', KeptInv, SoleInv, [Next]_vars
    PROVE  SoleInv'
<1>1. CASE \E r \in Replayers : Replay(r)
    BY <1>1, ReplaySole
<1>2. CASE Operate
    BY <1>2, OperateSole
<1>3. CASE \/ DrainTick \/ Initialize \/ Ages \/ Capture \/ TurnEnds \/ SessionEnds
           \/ \E r \in Replayers : OtherStarts(r)
           \/ ServerFails \/ ServerReturns \/ HostCrashes \/ Reopens
    BY <1>3, OthersSole
<1>4. CASE UNCHANGED vars
    BY <1>4, QuietSole DEF vars, files, history
<1> QED BY <1>1, <1>2, <1>3, <1>4 DEF Next

\* Types and the invariant are kept by every step.
LEMMA Inductive ==
    ASSUME TypeOK, KeptInv, [Next]_vars
    PROVE  TypeOK' /\ KeptInv'
<1>1. CASE \E r \in Replayers : Replay(r)
    BY <1>1, ReplayType, ReplayKept DEF KeptInv
<1>2. CASE Operate
    BY <1>2, OperateType, OperateKept
<1>3. CASE \/ DrainTick \/ Initialize \/ Ages \/ Capture \/ TurnEnds \/ SessionEnds
           \/ \E r \in Replayers : OtherStarts(r)
           \/ ServerFails \/ ServerReturns \/ HostCrashes \/ Reopens
    BY <1>3, OthersType, OthersKept
<1>4. CASE UNCHANGED vars
  <2>1. TypeOK'
    BY <1>4 DEF vars, files, stateVars, history, TypeOK
  <2>2. OpKnown' /\ Claimable' /\ AnsweredIsSettled' /\ QueuedIsKept'
    BY <1>4 DEF vars, files, stateVars, history, KeptInv, OpKnown, Claimable,
                AnsweredIsSettled, QueuedIsKept
  <2>3. UnqueuedIsNowhere' /\ RetryIsWritten'
    BY <1>4 DEF vars, files, stateVars, history, KeptInv, UnqueuedIsNowhere, Unqueued,
                RetryIsWritten, Files
  <2> QED BY <2>1, <2>2, <2>3 DEF KeptInv
<1> QED BY <1>1, <1>2, <1>3, <1>4 DEF Next

\* Every variable of the queue and its runtime has its type.
THEOREM TypeCorrect == Spec => []TypeOK
<1>1. Init => TypeOK /\ KeptInv
    BY TypeInit, KeptInit
<1>2. TypeOK /\ KeptInv /\ [Next]_vars => (TypeOK /\ KeptInv)'
    BY Inductive
<1> QED BY <1>1, <1>2, PTL DEF Spec

\* A message that was queued has a file until the server took or refused it, its
\* retries were used up or it expired (pending-queue.ts: the claims and
\* incrementRetry).
THEOREM Kept == Spec => []QueuedIsKept
<1>1. Init => TypeOK /\ KeptInv
    BY TypeInit, KeptInit
<1>2. TypeOK /\ KeptInv /\ [Next]_vars => (TypeOK /\ KeptInv)'
    BY Inductive
<1>3. KeptInv => QueuedIsKept
    BY DEF KeptInv
<1> QED BY <1>1, <1>2, <1>3, PTL DEF Spec

\* No two replayers send one message unless a claim on it was taken back as
\* stale (pending-queue.ts: claimForReplay, releaseClaim and incrementRetry).
THEOREM OneSends == Spec => []OneSender
<1>1. Init => TypeOK /\ KeptInv /\ SoleInv
    BY TypeInit, KeptInit, SoleInit
<1>2. TypeOK /\ KeptInv /\ SoleInv /\ [Next]_vars => (TypeOK /\ KeptInv /\ SoleInv)'
    BY Inductive, SoleInductive
<1>3. TypeOK /\ SoleInv => OneSender
  <2>1. ASSUME TypeOK, NEW r \in Replayers PROVE rep[r].name.write \in Messages \cup {Commit}
    BY <2>1 DEF TypeOK, Names, Writes
  <2> QED BY <2>1 DEF SoleInv, OneSender, HasInHand, InHand
<1> QED BY <1>1, <1>2, <1>3, PTL DEF Spec
=============================================================================
