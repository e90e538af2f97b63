----------------------------- MODULE MemoryQueue -----------------------------
(* The pending queue of dsh-openviking-memory and the runtime that fills and *)
(* empties it.  Writes the memory server did not take become files of a      *)
(* directory that several processes share.  They are sent again by the       *)
(* host's drainer, when a session of the host is initialized (its starter)   *)
(* and by other processes.  One session is modelled; a step is what happens  *)
(* between two awaits, one file operation at most; a listing counts as one,  *)
(* with the stale claims it gives back.                                      *)
EXTENDS Naturals, FiniteSets

CONSTANTS MaxMessages,       \* bound: messages captured in all
          MaxRetries,        \* OPENVIKING_PENDING_MAX_RETRIES
          ReplayLimit,       \* OPENVIKING_PENDING_REPLAY_LIMIT
          Commit,            \* the session's commit, one payload for all
          Drainer, Starter,  \* the host's two replayers
          Others,            \* replayers of other processes, at their start
          MaxEvents          \* bound: outages, crashes, session ends, starts of others

Messages  == 1..MaxMessages
Writes    == Messages \cup {Commit}
Replayers == {Drainer, Starter} \cup Others

\* A file is named by the write (dedupKey) and its retry count.
Names == [write : Writes, retries : 0..MaxRetries]

ASSUME QueueAssumption ==
    /\ MaxMessages \in Nat /\ MaxRetries \in Nat /\ ReplayLimit \in Nat
    /\ Commit \notin Nat /\ Drainer # Starter /\ {Drainer, Starter} \cap Others = {}

VARIABLES
    json, claimed,  \* the files that end in .json and in .processing
    stale,          \* names whose file was written over ten minutes ago
    rep,            \* replayer -> its step, listing, entry and remaining limit
    open,           \* the host has a state for the session
    ready,          \* ... and has initialized it
    retryable,      \* initializationRetryable
    latch,          \* hasPendingWrites
    op,             \* the operation the session's write chain is at
    captured,       \* messages captured so far
    up,             \* the server can be reached
    events,         \* events so far
    owed,           \* history: messages queued and not settled since
    recovered       \* history: messages whose claim was taken back as stale

files     == <<json, claimed, stale>>
stateVars == <<open, ready, retryable, latch>>
history   == <<owed, recovered>>
vars == <<files, rep, stateVars, op, captured, up, events, history>>

NoName == [write |-> Commit, retries |-> 0]
At(step, list, name, left) == [step |-> step, list |-> list, name |-> name, left |-> left]
Idle   == At("idle", {}, NoName, 0)
NoOp   == [kind |-> "none", step |-> "idle", write |-> Commit, list |-> {}]

Steps == {"idle", "probe", "replay", "next", "send", "remove", "unlink", "release",
          "retry", "expire", "refresh", "note"}

TypeOK ==
    /\ json \in SUBSET Names /\ claimed \in SUBSET Names /\ stale \in SUBSET Names
    /\ rep \in [Replayers -> [step : Steps, list : SUBSET Names, name : Names,
                             left : 0..ReplayLimit]]
    /\ open \in BOOLEAN /\ ready \in BOOLEAN /\ retryable \in BOOLEAN /\ latch \in BOOLEAN
    /\ op \in [kind : {"none", "message", "commit", "final"}, write : Writes,
               step : {"idle", "ensure", "send", "find", "write", "uncommit", "unlink"},
               list : SUBSET Names]
    /\ captured \in 0..MaxMessages /\ up \in BOOLEAN /\ events \in Nat
    /\ owed \in SUBSET Messages /\ recovered \in SUBSET Messages

Init ==
    /\ json = {} /\ claimed = {} /\ stale = {}
    /\ rep = [r \in Replayers |-> Idle]
    /\ open = TRUE /\ ready = FALSE /\ retryable = FALSE /\ latch = FALSE
    /\ op = NoOp /\ captured = 0
    /\ up \in BOOLEAN /\ events = 0
    /\ owed = {} /\ recovered = {}

-----------------------------------------------------------------------------
(* The directory.                                                           *)

\* listPending() first gives stale claims back; what it returns.
Listing == json \cup (claimed \cap stale)

List ==
    /\ json' = Listing /\ claimed' = claimed \ stale
    /\ recovered' = recovered \cup (Messages \cap {n.write : n \in claimed \cap stale})
    /\ UNCHANGED <<stale, owed>>

\* dequeue() of a .json file; a missing one is no error.
Unlink(n) ==
    /\ json' = json \ {n}
    /\ stale' = IF n \in claimed THEN stale ELSE stale \ {n}
    /\ UNCHANGED claimed

\* dequeue() of a .processing file.
UnlinkClaimed(n) ==
    /\ claimed' = claimed \ {n}
    /\ stale' = IF n \in json THEN stale ELSE stale \ {n}
    /\ UNCHANGED json

WriteFile(n) ==
    /\ json' = json \cup {n} /\ stale' = stale \ {n}
    /\ UNCHANGED claimed

\* Ten minutes pass for a file.  Renaming it does not make it young again.
Ages ==
    \E n \in (json \cup claimed) \ stale :
        /\ stale' = stale \cup {n}
        /\ UNCHANGED <<json, claimed, rep, stateVars, op, captured, up, events, history>>

-----------------------------------------------------------------------------
(* Replaying.                                                               *)

Step(r, step)  == rep' = [rep EXCEPT ![r].step = step]
Settled(r)     == rep' = [rep EXCEPT ![r] = At("next", @.list, NoName, @.left)]
AfterReplay(r) == IF r \in Others THEN "idle" ELSE "refresh"

\* drainTick(), one at a time.
DrainTick ==
    /\ rep[Drainer].step = "idle"
    /\ List /\ Step(Drainer, IF Listing = {} THEN "refresh" ELSE "probe")
    /\ UNCHANGED <<stateVars, op, captured, up, events>>

\* ensureState() of a session that is not ready, with the initialization that
\* is under way if there is one.
Ensure ==
    IF rep[Starter].step = "idle"
      THEN Step(Starter, "probe") /\ retryable' = FALSE
      ELSE UNCHANGED <<rep, retryable>>

\* A recall or a profile asks for the session.
Initialize ==
    /\ open /\ ~ready /\ rep[Starter].step = "idle"
    /\ Ensure
    /\ UNCHANGED <<files, open, ready, latch, op, captured, up, events, history>>

OneMoreEvent == events < MaxEvents /\ events' = events + 1

OtherStarts(r) ==
    /\ OneMoreEvent /\ r \in Others /\ rep[r].step = "idle"
    /\ Step(r, "replay")
    /\ UNCHANGED <<files, stateVars, op, captured, up, history>>

\* The health check, and for an initialization the session's creation, which
\* the server may also refuse for good.
Probes(r) ==
    /\ rep[r].step = "probe"
    /\ \/ up /\ Step(r, "replay") /\ UNCHANGED retryable
       \/ r = Drainer /\ ~up /\ Step(r, "refresh") /\ UNCHANGED retryable
       \/ r = Starter /\ Step(r, "idle") /\ retryable' = ~up
    /\ UNCHANGED <<files, open, ready, latch, op, captured, up, events, history>>

Lists(r) ==
    /\ rep[r].step = "replay"
    /\ List
    /\ rep' = [rep EXCEPT ![r] =
                 IF Listing = {} THEN At(AfterReplay(r), {}, NoName, 0)
                                 ELSE At("next", Listing, NoName, ReplayLimit)]
    /\ UNCHANGED <<stateVars, op, captured, up, events>>

\* The entry whose turn it is: messages in the order they were queued, the
\* commit anywhere, since it may have been queued between any two.
Due(r, n) ==
    /\ rep[r].step = "next" /\ rep[r].left > 0 /\ n \in rep[r].list
    /\ n.write \in Messages =>
         \A m \in rep[r].list : m.write \in Messages => n.write <= m.write

\* Its retries are used up: it is dropped without being sent.
Drops(r, n) ==
    /\ Due(r, n) /\ n.retries >= MaxRetries
    /\ Unlink(n)
    /\ owed' = IF n \in json THEN owed \ {n.write} ELSE owed
    /\ rep' = [rep EXCEPT ![r].list = @ \ {n}]
    /\ UNCHANGED <<stateVars, op, captured, up, events, recovered>>

\* Mutant: the entry is sent whether or not its file could be renamed.
ClaimsUnchecked(r, n) ==
    /\ Due(r, n) /\ n.retries < MaxRetries
    /\ json' = json \ {n} /\ claimed' = claimed \cup {n}
    /\ rep' = [rep EXCEPT ![r] = At("send", @.list \ {n}, n, @.left - 1)]
    /\ UNCHANGED <<stale, stateVars, op, captured, up, events, history>>

\* claimForReplay(): the rename that decides who sends.
Claims(r, n) ==
    /\ Due(r, n) /\ n.retries < MaxRetries
    /\ IF n \in json
         THEN /\ json' = json \ {n} /\ claimed' = claimed \cup {n}
              /\ rep' = [rep EXCEPT ![r] = At("send", @.list \ {n}, n, @.left - 1)]
         ELSE rep' = [rep EXCEPT ![r].list = @ \ {n}] /\ UNCHANGED <<json, claimed>>
    /\ UNCHANGED <<stale, stateVars, op, captured, up, events, history>>

\* The server takes the write or refuses it for good; otherwise a message also
\* ends the run, so that no later one overtakes it.
Answered(r) ==
    LET w == rep[r].name.write IN
    /\ rep[r].step = "send"
    /\ \/ up /\ Step(r, "remove") /\ owed' = owed \ {w}
       \/ /\ ~up /\ UNCHANGED owed
          /\ rep' = [rep EXCEPT ![r] = At(IF r = Drainer THEN "release" ELSE "retry",
                                          IF w = Commit THEN @.list ELSE {}, @.name, @.left)]
    /\ UNCHANGED <<files, stateVars, op, captured, up, events, recovered>>

Removes(r) ==
    /\ rep[r].step \in {"remove", "unlink"}
    /\ UnlinkClaimed(rep[r].name) /\ Settled(r)
    /\ UNCHANGED <<stateVars, op, captured, up, events, history>>

\* releaseClaim(), unless the claim is no longer there.
Releases(r) ==
    LET n == rep[r].name IN
    /\ rep[r].step = "release"
    /\ IF n \in claimed
         THEN json' = json \cup {n} /\ claimed' = claimed \ {n}
         ELSE UNCHANGED <<json, claimed>>
    /\ Settled(r)
    /\ UNCHANGED <<stale, stateVars, op, captured, up, events, history>>

\* Mutant: incrementRetry() removes the old file first.
RetriesLate(r) ==
    LET n == rep[r].name IN
    /\ rep[r].step = "retry"
    /\ IF n \in claimed THEN UnlinkClaimed(n) /\ Step(r, "retry")
       ELSE WriteFile([n EXCEPT !.retries = @ + 1]) /\ Settled(r)
    /\ UNCHANGED <<stateVars, op, captured, up, events, history>>

\* incrementRetry(): the entry under its next name, then (Removes) the old file
\* away.
Retries(r) ==
    LET n == rep[r].name IN
    /\ rep[r].step = "retry"
    /\ WriteFile([n EXCEPT !.retries = @ + 1]) /\ Step(r, "unlink")
    /\ UNCHANGED <<stateVars, op, captured, up, events, history>>

\* cleanStale(): of what it lists, entries may be past their TTL, all of them
\* long past the ten minutes.
Cleans(r) ==
    /\ rep[r].step = "next" /\ (rep[r].list = {} \/ rep[r].left = 0)
    /\ List
    /\ \E gone \in SUBSET (Listing \cap stale) :
          rep' = [rep EXCEPT ![r] = At("expire", gone, NoName, 0)]
    /\ UNCHANGED <<stateVars, op, captured, up, events>>

Expires(r) ==
    /\ rep[r].step = "expire"
    /\ \/ \E n \in rep[r].list :
             /\ Unlink(n) /\ rep' = [rep EXCEPT ![r].list = @ \ {n}]
             /\ owed' = IF n \in json THEN owed \ {n.write} ELSE owed
       \/ /\ rep[r].list = {} /\ Step(r, AfterReplay(r))
          /\ UNCHANGED <<files, owed>>
    /\ UNCHANGED <<stateVars, op, captured, up, events, recovered>>

\* refreshPendingState(): the listing now, the latch later.  The drainer has no
\* session to refresh any more, or the starter one nobody asks, once it ended.
Refreshes(r) ==
    /\ rep[r].step = "refresh"
    /\ IF open
         THEN List /\ rep' = [rep EXCEPT ![r] = At("note", Listing, NoName, 0)]
         ELSE /\ Step(r, "idle")
              /\ IF r = Starter THEN List ELSE UNCHANGED <<files, history>>
    /\ UNCHANGED <<stateVars, op, captured, up, events>>

\* Mutant: a refresh only ever closes the latch.
NotesPending(r) ==
    /\ rep[r].step = "note"
    /\ latch' = (latch \/ rep[r].list # {})
    /\ ready' = (ready \/ r = Starter)
    /\ rep' = [rep EXCEPT ![r] = Idle]
    /\ UNCHANGED <<files, open, retryable, op, captured, up, events, history>>

Notes(r) ==
    /\ rep[r].step = "note"
    /\ latch' = (rep[r].list # {})
    /\ ready' = (ready \/ r = Starter)
    /\ rep' = [rep EXCEPT ![r] = Idle]
    /\ UNCHANGED <<files, open, retryable, op, captured, up, events, history>>

Replay(r) ==
    \/ Probes(r) \/ Lists(r) \/ Answered(r) \/ Removes(r) \/ Releases(r)
    \/ Retries(r) \/ Cleans(r) \/ Expires(r) \/ Refreshes(r) \/ Notes(r)
    \/ \E n \in Names : Drops(r, n) \/ Claims(r, n)

-----------------------------------------------------------------------------
(* The write chain of the session.                                          *)

\* An operation begins: it joins the queue behind pending writes, or asks for
\* the session first, or goes to the server.
Begins(kind, write, queued) ==
    /\ op = NoOp /\ open
    /\ op' = [kind |-> kind, write |-> write, list |-> {},
              step |-> IF latch THEN queued ELSE IF ready THEN "send" ELSE "ensure"]
    /\ IF ~latch /\ ~ready THEN Ensure ELSE UNCHANGED <<rep, retryable>>
    /\ UNCHANGED <<files, open, ready, latch, up, history>>

Capture ==
    /\ captured < MaxMessages /\ captured' = captured + 1
    /\ Begins("message", captured + 1, "find") /\ UNCHANGED events

\* maybeCommit() at the end of a turn: nothing while writes are pending.
TurnEnds == ~latch /\ Begins("commit", Commit, "idle") /\ UNCHANGED <<captured, events>>

\* dispose() of the session.
SessionEnds == OneMoreEvent /\ Begins("final", Commit, "uncommit") /\ UNCHANGED captured

OpTo(step) == op' = [op EXCEPT !.step = step]

\* The end of an operation; that of the final commit drops the session's state,
\* and with it what a refresh under way would note in it.
OpEnds ==
    /\ op' = NoOp
    /\ IF op.kind = "final"
         THEN /\ open' = FALSE /\ ready' = FALSE /\ latch' = FALSE
              /\ rep' = [r \in Replayers |-> IF rep[r].step = "note" THEN Idle ELSE rep[r]]
         ELSE UNCHANGED <<open, ready, latch, rep>>

Ensured ==
    /\ op.step = "ensure" /\ rep[Starter].step = "idle"
    /\ \/ /\ ready /\ OpTo(IF latch /\ op.kind = "message" THEN "find" ELSE "send")
          /\ UNCHANGED <<rep, open, ready, latch>>
       \/ /\ ~ready /\ retryable /\ op.kind = "message" /\ OpTo("find")
          /\ UNCHANGED <<rep, open, ready, latch>>
       \/ ~ready /\ (~retryable \/ op.kind # "message") /\ OpEnds
    /\ UNCHANGED <<files, retryable, captured, up, events, history>>

\* The server's answer.  A turn's commit is not even sent below the threshold.
Sent ==
    /\ op.step = "send"
    /\ \/ (up \/ op.kind = "commit") /\ OpEnds
       \/ /\ ~up /\ OpTo(IF op.kind = "message" THEN "find" ELSE "uncommit")
          /\ UNCHANGED <<rep, open, ready, latch>>
    /\ UNCHANGED <<files, retryable, captured, up, events, history>>

\* What follows a write that is queued: a message takes back the commits queued
\* before it.
Queued ==
    IF op.kind = "message"
      THEN OpTo("uncommit") /\ latch' = TRUE /\ UNCHANGED <<rep, open, ready>>
      ELSE IF op.kind = "commit"
             THEN op' = NoOp /\ latch' = TRUE /\ UNCHANGED <<rep, open, ready>>
             ELSE OpEnds

\* enqueue(): a file of the same write, claimed or not, stands for this one.
Finds ==
    /\ op.step = "find"
    /\ IF \E n \in json \cup claimed : n.write = op.write
         THEN Queued
         ELSE OpTo("write") /\ UNCHANGED <<rep, open, ready, latch>>
    /\ UNCHANGED <<files, retryable, captured, up, events, history>>

\* The file is created.  It never exists: nobody else makes a first file of this
\* session's writes, and they are made one after another.
WritesFile ==
    /\ op.step = "write"
    /\ WriteFile([write |-> op.write, retries |-> 0]) /\ Queued
    /\ owed' = owed \cup ({op.write} \cap Messages)
    /\ UNCHANGED <<retryable, captured, up, events, recovered>>

\* removePendingCommits(): a listing, then one file after another.
Uncommits ==
    /\ op.step = "uncommit"
    /\ List
    /\ op' = [kind |-> op.kind, step |-> "unlink", write |-> op.write,
              list |-> {n \in Listing : n.write = Commit}]
    /\ UNCHANGED <<rep, stateVars, captured, up, events>>

UnlinksCommit ==
    /\ op.step = "unlink"
    /\ \/ /\ \E n \in op.list : Unlink(n) /\ op' = [op EXCEPT !.list = @ \ {n}]
          /\ UNCHANGED <<rep, open, ready, latch>>
       \/ /\ op.list = {} /\ UNCHANGED files
          /\ IF op.kind = "message" THEN OpEnds
             ELSE OpTo("find") /\ UNCHANGED <<rep, open, ready, latch>>
    /\ UNCHANGED <<retryable, captured, up, events, history>>

Operate == Ensured \/ Sent \/ Finds \/ WritesFile \/ Uncommits \/ UnlinksCommit

-----------------------------------------------------------------------------
(* The world around.                                                        *)

ServerFails ==
    /\ OneMoreEvent /\ up /\ up' = FALSE
    /\ UNCHANGED <<files, rep, stateVars, op, captured, history>>

ServerReturns ==
    /\ ~up /\ up' = TRUE
    /\ UNCHANGED <<files, rep, stateVars, op, captured, events, history>>

\* The host dies and resumes the session; the files stay as they are.
HostCrashes ==
    /\ OneMoreEvent
    /\ rep' = [rep EXCEPT ![Drainer] = Idle, ![Starter] = Idle]
    /\ open' = TRUE /\ ready' = FALSE /\ retryable' = FALSE /\ latch' = FALSE
    /\ op' = NoOp
    /\ UNCHANGED <<files, captured, up, history>>

\* The session is opened again in the same host, after its old initialization.
Reopens ==
    /\ ~open /\ rep[Starter].step = "idle" /\ open' = TRUE
    /\ UNCHANGED <<files, rep, ready, retryable, latch, op, captured, up, events, history>>

Next ==
    \/ DrainTick \/ Initialize \/ Ages
    \/ Capture \/ TurnEnds \/ SessionEnds \/ Operate
    \/ \E r \in Replayers : OtherStarts(r) \/ Replay(r)
    \/ ServerFails \/ ServerReturns \/ HostCrashes \/ Reopens

\* The drainer's timer fires again and again, requests and file operations
\* return, files grow old and an outage ends.  Another process may die at any
\* step: it is one that takes no further step.
Spec ==
    /\ Init /\ [][Next]_vars
    /\ WF_vars(DrainTick) /\ WF_vars(Ages) /\ WF_vars(ServerReturns)
    /\ WF_vars(Operate)
    /\ WF_vars(Replay(Drainer)) /\ WF_vars(Replay(Starter))

-----------------------------------------------------------------------------
(* Properties.                                                              *)

\* A message that was queued has a file until the server took or refused it,
\* its retries were used up or it expired: neither two replayers, a claim taken
\* back, a crash nor a retry loses it.
QueuedIsKept ==
    \A m \in owed : \E n \in json \cup claimed : n.write = m

\* Only who renamed the file sends a message (pending-queue.ts, claimForReplay),
\* as long as no claim on it was taken back as stale.
OneSender ==
    \A r, q \in Replayers :
        (r # q /\ rep[r].step = "send" /\ rep[q].step = "send"
           /\ rep[r].name.write = rep[q].name.write /\ rep[r].name.write # Commit)
        => rep[r].name.write \in recovered

\* Once an outage is over, every queued message leaves the queue, and the
\* session sends directly again without a restart.
OutageEnds ==
    /\ \A m \in Messages : m \in owed ~> m \notin owed
    /\ latch ~> ~latch
=============================================================================
