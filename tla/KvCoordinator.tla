---------------------------- MODULE KvCoordinator ----------------------------
(***************************************************************************)
(* The single-slot coordinator of plugins/dsh-kv-persist: which            *)
(* conversation's KV cache is in the one slot of a llama.cpp server, when  *)
(* it is saved to a file of that server, and when it is restored.          *)
(*                                                                         *)
(* Every operation runs inside the slot lease, so the operations form a    *)
(* line (LeaseQueue; SlotMutex is the lease itself) whose head is running. *)
(* `phase` says which await the head is suspended at: everything between   *)
(* two awaits is one action.  Outside the lease run only the synchronous   *)
(* prefixes of the calls, the timers, the backend probe and dispose().     *)
(*                                                                         *)
(* The llama.cpp server and the metadata directory are external.  What the *)
(* slot really holds, `cell`, is invisible to the coordinator, which       *)
(* believes `owner`: the properties relate the two.                        *)
(***************************************************************************)
EXTENDS Integers, Sequences, FiniteSets

CONSTANTS
    Sessions,         \* conversation sessions
    Models,           \* models a request may be routed to
    RuntimeKeys,      \* values of the configuration's runtimeKey
    NoSession,        \* null, where the code has a session id or null
    Auxiliary,        \* whose KV an auxiliary request leaves in the slot
    NoModel,          \* the model of an empty slot
    NoKey,            \* the runtime key of an empty slot
    Triggers,         \* checkpoint triggers the configuration enables
    RestoreEnabled,   \* config.restore.enabled
    Verify,           \* config.restore.verify
    Strict,           \* config.failure.strict
    MaxFailures,      \* config.failure.maxConsecutiveFailures
    Calls,            \* kinds of call the host makes in this instance
    Faults,           \* kinds of fault the environment produces
    MaxCalls,         \* bound: calls in a behaviour
    MaxLine,          \* bound: operations standing in the line when one calls
    MaxFaults,        \* bound: faults in a behaviour
    MaxRestarts       \* bound: restarts of the host process

CallKinds == {"request", "auxiliary", "checkpoint", "disposed", "flush",
              "restoreNow", "saveNow", "invalidate", "purge", "dispose"}

FaultKinds == {"backend", "late", "metadata", "abort", "serverRestart"}

AllTriggers == {"switch", "idle", "session-flush", "turn-end", "shutdown"}

ASSUME ConstantsAssumption ==
    /\ NoSession \notin Sessions /\ Auxiliary \notin Sessions
    /\ NoSession # Auxiliary
    /\ NoModel \notin Models /\ Models # {}
    /\ NoKey \notin RuntimeKeys /\ RuntimeKeys # {}
    /\ Triggers \subseteq AllTriggers
    /\ {RestoreEnabled, Verify, Strict} \subseteq BOOLEAN
    /\ MaxFailures \in Nat \ {0}
    /\ Calls \subseteq CallKinds /\ Faults \subseteq FaultKinds
    /\ {MaxCalls, MaxLine, MaxFaults, MaxRestarts} \subseteq Nat

VARIABLES
    line,        \* the operations in the lease's line; the head is running
    phase,       \* where the head is suspended ("free": the line is empty)
    saving,      \* the save the head began: session, model, generation
    wanted,      \* the model of the identity the head prepares the slot for
    known,       \* sessions that have a runtime in #sessions
    runtime,     \* session -> route's model, dirty and persisted revision
    owner,       \* #slot.ownerSessionId
    slotState,   \* #slot.state
    failures,    \* the breaker's consecutive failures
    isOpen,      \* the breaker is open and its cooldown has not run out
    idleTimer,   \* the session whose idle checkpoint is scheduled
    disposal,    \* progress of dispose()
    runtimeKey,  \* the configuration's runtimeKey in this process
    manifests,   \* the metadata directory: snapshot -> state and runtime key
    cell,        \* external: the KV content of the server's slot
    written,     \* external: snapshot files that exist on the server
    files,       \* external: their content
    late,        \* external: timed-out slot operations still to be executed
    turns,       \* history: turns of a session completed so far
    calls,       \* bound counter
    faults,      \* bound counter
    restarts     \* bound counter

holderVars == <<phase, saving, wanted>>
sessionVars == <<known, runtime>>
slotVars == <<owner, slotState>>
breakerVars == <<failures, isOpen>>
lifeVars == <<idleTimer, disposal, runtimeKey>>
serverVars == <<cell, written, files, late>>
boundVars == <<calls, faults, restarts>>

\* What only the server, the metadata directory and the bounds are about.
outside == <<manifests, serverVars, turns, boundVars>>

vars == <<line, holderVars, sessionVars, slotVars, breakerVars, lifeVars, outside>>

------------------------------------------------------------------------------
(* Data.                                                                   *)

\* One rolling snapshot file and manifest per session and route.  The runtime
\* key is not part of the name.
Snapshots == Sessions \X Models

\* An operation in the line: a call, with its session and its model or its
\* trigger where it has one.
Operations ==
    [kind : CallKinds \union {"idle"}, session : Sessions \union {NoSession},
     model : Models \union {NoModel}, trigger : AllTriggers \union {"manual"}]

Operation(k, s, m, t) == [kind |-> k, session |-> s, model |-> m, trigger |-> t]

\* KV content: whose conversation, computed by which model under which
\* runtime key, and how many of its turns.
EmptyKv == [session |-> NoSession, model |-> NoModel, key |-> NoKey, turns |-> 0]

AuxiliaryKv == [EmptyKv EXCEPT !.session = Auxiliary]

NoSave == [session |-> NoSession, model |-> NoModel, generation |-> 0]

NewRuntime(m) == [model |-> m, dirtyRevision |-> 0, persistedRevision |-> 0]

NoManifest == [state |-> "none", key |-> NoKey]

AnyModel == CHOOSE m \in Models : TRUE

Phases == {"free", "granted", "save", "put", "saved", "find", "restore",
           "markInvalid", "erase", "eraseFallback", "stream", "eraseOwned",
           "manifests"}

Init ==
    /\ line = <<>>
    /\ phase = "free"
    /\ saving = NoSave
    /\ wanted = NoModel
    /\ known = {}
    /\ runtime = [s \in Sessions |-> NewRuntime(AnyModel)]
    /\ owner = NoSession
    /\ slotState = "unknown"
    /\ failures = 0
    /\ isOpen = FALSE
    /\ idleTimer = NoSession
    /\ disposal = "running"
    /\ runtimeKey \in RuntimeKeys
    /\ manifests = [f \in Snapshots |-> NoManifest]
    /\ cell = EmptyKv
    /\ written = {}
    /\ files = [f \in Snapshots |-> EmptyKv]
    /\ late = {}
    /\ turns = [s \in Sessions |-> 0]
    /\ calls = 0
    /\ faults = 0
    /\ restarts = 0

------------------------------------------------------------------------------
(* Helpers of the coordinator, the policy, the breaker and the lease.      *)

\* The operation that holds the lease.
Running == Head(line)

Disposed == disposal # "running"

Dirty(s) == runtime[s].dirtyRevision > runtime[s].persistedRevision

\* checkpoint-policy.ts: is the trigger enabled, and does the session need it?
TriggerEnabled(t) ==
    CASE t = "manual" -> TRUE
      [] t = "session-disposed" -> {"switch", "shutdown"} \cap Triggers # {}
      [] OTHER -> t \in Triggers

ShouldCheckpoint(s, t) == s \in known /\ Dirty(s) /\ TriggerEnabled(t)

RecordSuccess == failures' = 0 /\ isOpen' = FALSE

\* The counter stops at the limit: beyond it nothing distinguishes its values.
RecordFailures(n) ==
    LET total == failures + n IN
    /\ failures' = IF total < MaxFailures THEN total ELSE MaxFailures
    /\ isOpen' = (total >= MaxFailures)

\* Mutant: a call overtakes the operations that are waiting.
EnqueueBehindHead(op) ==
    /\ line' = IF line = <<>> THEN <<op>> ELSE <<Head(line), op>> \o Tail(line)
    /\ phase' = IF line = <<>> THEN "granted" ELSE phase
    /\ UNCHANGED <<saving, wanted>>

\* A call takes its place in the lease's line; it runs at once if alone.
Enqueue(op) ==
    /\ line' = Append(line, op)
    /\ phase' = IF line = <<>> THEN "granted" ELSE phase
    /\ UNCHANGED <<saving, wanted>>

\* The head releases the lease: the next operation is granted it.
Release ==
    /\ line' = Tail(line)
    /\ phase' = IF Len(line) = 1 THEN "free" ELSE "granted"
    /\ saving' = NoSave
    /\ wanted' = NoModel

\* The head goes on to its next await.
GoTo(p) == phase' = p /\ UNCHANGED <<line, saving, wanted>>

\* Mutant: the manifest is written first, the snapshot is left to the server.
BeginSaveAtManifest(s) ==
    /\ saving' = [session |-> s, model |-> runtime[s].model,
                  generation |-> runtime[s].dirtyRevision]
    /\ slotState' = "saving"
    /\ phase' = "put"
    /\ UNCHANGED <<line, owner>>

\* Mutant: the generation is counted from one too many.
BeginSaveAhead(s) ==
    /\ saving' = [session |-> s, model |-> runtime[s].model,
                  generation |-> runtime[s].dirtyRevision + 1]
    /\ slotState' = "saving"
    /\ phase' = "save"
    /\ UNCHANGED <<line, owner>>

\* #saveOwnedSession up to its first await, for a dirty session that owns the
\* slot; the identity is the session's current route.
BeginSave(s) ==
    /\ saving' = [session |-> s, model |-> runtime[s].model,
                  generation |-> runtime[s].dirtyRevision]
    /\ slotState' = "saving"
    /\ phase' = "save"
    /\ UNCHANGED <<line, owner>>

\* Forget a session's runtime; what the map no longer holds is reset.
Forget(s) ==
    /\ known' = known \ {s}
    /\ runtime' = [runtime EXCEPT ![s] = NewRuntime(AnyModel)]

\* #loseSlotTracking
LoseSlotTracking == owner' = NoSession /\ slotState' = "unknown"

\* Clear the ownership bookkeeping of the slot.
ClearOwner == owner' = NoSession /\ slotState' = "idle"

\* A fault of the given kind happens now.
Fault(kind) ==
    /\ kind \in Faults
    /\ faults < MaxFaults
    /\ faults' = faults + 1

\* A slot operation is reported as failed.  If it timed out, the server may
\* still execute it later.
BackendFault(kind, f) ==
    /\ Fault("backend")
    /\ \/ UNCHANGED late
       \/ "late" \in Faults /\ late' = late \union {[kind |-> kind, file |-> f]}

\* Mutant: the file is named after the session that is about to get the slot.
SavedFileOfRunning ==
    <<IF Running.session \in Sessions THEN Running.session ELSE saving.session,
      saving.model>>

SavedFile == <<saving.session, saving.model>>

WantedFile == <<Running.session, wanted>>

------------------------------------------------------------------------------
(* Arrivals: the synchronous prefix of each entry point, up to the lease.  *)

Call(kind) ==
    /\ kind \in Calls
    /\ calls < MaxCalls
    /\ Len(line) < MaxLine
    /\ calls' = calls + 1

\* Mutant: every request starts from a new runtime.
EnsureRuntimeAnew(s, m) ==
    known' = known \union {s} /\ runtime' = [runtime EXCEPT ![s] = NewRuntime(m)]

\* #ensureRuntime: an existing runtime takes the new route at once.
EnsureRuntime(s, m) ==
    /\ known' = known \union {s}
    /\ runtime' = IF s \in known THEN [runtime EXCEPT ![s].model = m]
                  ELSE [runtime EXCEPT ![s] = NewRuntime(m)]

\* runSessionRequest of a conversation, until it awaits the lease.
CallRequest(s, m) ==
    /\ Call("request")
    /\ ~Disposed
    /\ EnsureRuntime(s, m)
    /\ Enqueue(Operation("request", s, m, "manual"))
    /\ UNCHANGED <<idleTimer, disposal>>

\* The calls that do nothing before they await the lease.  checkpoint comes
\* from session/flush and turn/end.  After dispose() a checkpoint, a session's
\* disposal, a flush and an auxiliary request end at once; the rest of the
\* service API does not look.
CallOperation(op) ==
    /\ Call(op.kind)
    /\ op.kind \in {"auxiliary", "checkpoint", "disposed", "flush"} => ~Disposed
    /\ Enqueue(op)
    /\ UNCHANGED <<sessionVars, idleTimer, disposal>>

PlainOperations ==
    {Operation(k, s, NoModel, "manual") :
        k \in {"disposed", "restoreNow", "saveNow", "invalidate", "purge"},
        s \in Sessions}
    \union {Operation("checkpoint", s, NoModel, t) :
        s \in Sessions, t \in {"session-flush", "turn-end"} \cap Triggers}
    \union {Operation(k, NoSession, NoModel, "manual") : k \in {"auxiliary", "flush"}}

\* dispose(): refuse new work, cancel the timer, and let the final checkpoint
\* join the line if the configuration wants one.
Dispose ==
    /\ Call("dispose")
    /\ ~Disposed
    /\ idleTimer' = NoSession
    /\ IF "shutdown" \in Triggers
         THEN /\ disposal' = "flushing"
              /\ Enqueue(Operation("flush", NoSession, NoModel, "shutdown"))
         ELSE /\ disposal' = "settled"
              /\ UNCHANGED <<line, holderVars>>
    /\ UNCHANGED sessionVars

Arrival ==
    /\ \/ \E s \in Sessions, m \in Models : CallRequest(s, m)
       \/ \E op \in PlainOperations : CallOperation(op)
       \/ Dispose
    /\ UNCHANGED <<slotVars, breakerVars, runtimeKey, manifests, serverVars,
                   turns, faults, restarts>>

\* The idle timer's callback: it clears the timer and joins the line.
IdleTimerFires ==
    /\ idleTimer # NoSession
    /\ idleTimer' = NoSession
    /\ Enqueue(Operation("idle", idleTimer, NoModel, "idle"))
    /\ UNCHANGED <<sessionVars, slotVars, breakerVars, disposal, runtimeKey,
                   outside>>

\* Mutant: the grace only runs while nothing is in front of the checkpoint.
GraceExpiresAtFront ==
    /\ disposal = "flushing" /\ Len(line) = 1
    /\ disposal' = "abandoned"
    /\ UNCHANGED <<line, holderVars, sessionVars, slotVars, breakerVars,
                   idleTimer, runtimeKey, outside>>

\* dispose() stops waiting for its checkpoint after shutdownGraceMs; the
\* checkpoint stays in the line.
GraceExpires ==
    /\ disposal = "flushing"
    /\ disposal' = "abandoned"
    /\ UNCHANGED <<line, holderVars, sessionVars, slotVars, breakerVars,
                   idleTimer, runtimeKey, outside>>

------------------------------------------------------------------------------
(* Admission: what the head does between getting the lease and its first   *)
(* await.                                                                  *)

Granted(kinds) == phase = "granted" /\ Running.kind \in kinds

\* A request that got the lease looks again whether it is still welcome.
Welcome(kinds) == Granted(kinds) /\ ~Disposed

\* #prepareSession, first step: the session is resident; no disk, no server.
Resident(s) == owner = s /\ slotState # "unknown"

\* Mutant: the policy is asked about the session that comes in.
MustSaveFirstIncoming(s) ==
    owner \notin {s, NoSession} /\ s \in Sessions /\ ShouldCheckpoint(s, "switch")

\* Mutant: a save in front of an auxiliary request is left to the idle timer.
MustSaveFirstForSessions(s) ==
    /\ owner \notin {s, NoSession} /\ s # NoSession
    /\ ShouldCheckpoint(owner, "switch")

\* #prepareSession, second step: another session owns the slot and has turns
\* that no snapshot covers.
MustSaveFirst(s) ==
    owner \notin {s, NoSession} /\ ShouldCheckpoint(owner, "switch")

\* Where preparing goes on once the slot may be given to the session.
LookUp == IF RestoreEnabled THEN "find" ELSE "erase"

\* The preparation ends: a request opens its stream on the slot, an explicit
\* restore is over.
EndPreparation(state) ==
    \/ Running.kind = "request" /\ slotState' = "inference" /\ GoTo("stream")
    \/ Running.kind = "restoreNow" /\ slotState' = state /\ Release

\* #prepareSession up to its first await.
Prepare(s, m) ==
    \/ /\ Resident(s)
       /\ EndPreparation(slotState)
       /\ UNCHANGED owner
    \/ /\ ~Resident(s) /\ MustSaveFirst(s)
       /\ BeginSave(owner)
       /\ wanted' = m
    \/ /\ ~Resident(s) /\ ~MustSaveFirst(s)
       /\ phase' = LookUp
       /\ wanted' = m
       /\ UNCHANGED <<line, saving, slotVars>>

\* A request that was waiting when the coordinator was disposed is refused.
RefuseRequest ==
    /\ Granted({"request", "auxiliary"}) /\ ~Welcome({"request", "auxiliary"})
    /\ Release
    /\ UNCHANGED <<sessionVars, slotVars, idleTimer, disposal>>

\* While the breaker is open a request goes straight to inference.
BypassRequest ==
    /\ Welcome({"request", "auxiliary"}) /\ isOpen
    /\ idleTimer' = NoSession
    /\ LoseSlotTracking
    /\ GoTo("stream")
    /\ UNCHANGED <<sessionVars, disposal>>

\* Mutant: the error path returns without releasing the lease.
LoseRequestHolding == FALSE

\* The runtime was deleted while the request waited: #requireRuntime throws.
LoseRequest ==
    /\ Welcome({"request"}) /\ ~isOpen
    /\ Running.session \notin known
    /\ idleTimer' = NoSession
    /\ Release
    /\ UNCHANGED <<sessionVars, slotVars, disposal>>

AdmitRequest ==
    /\ Welcome({"request"}) /\ ~isOpen
    /\ Running.session \in known
    /\ idleTimer' = NoSession
    /\ Prepare(Running.session, Running.model)
    /\ UNCHANGED <<sessionVars, disposal>>

\* restoreNow: without a runtime or with an open breaker there is no restore.
AdmitRestoreNow ==
    /\ Granted({"restoreNow"})
    /\ \/ /\ Running.session \notin known \/ isOpen
          /\ Release
          /\ UNCHANGED slotVars
       \/ /\ Running.session \in known /\ ~isOpen
          /\ Prepare(Running.session, runtime[Running.session].model)
    /\ UNCHANGED <<sessionVars, idleTimer, disposal>>

\* An auxiliary request takes the slot from its owner, saved first.
AdmitAuxiliary ==
    /\ Welcome({"auxiliary"}) /\ ~isOpen
    /\ idleTimer' = NoSession
    /\ \/ owner = NoSession /\ GoTo("stream") /\ UNCHANGED slotVars
       \/ MustSaveFirst(NoSession) /\ BeginSave(owner) /\ UNCHANGED wanted
       \/ owner # NoSession /\ ~MustSaveFirst(NoSession) /\ ClearOwner /\ GoTo("stream")
    /\ UNCHANGED <<sessionVars, disposal>>

CheckpointKinds == {"checkpoint", "flush", "idle", "saveNow"}

\* The session a checkpoint operation is about.
Checkpointed == IF Running.kind = "flush" THEN owner ELSE Running.session

\* Mutant: the final flush goes through the gate of flushOwned().
CheckpointSavesGated ==
    /\ ShouldCheckpoint(Checkpointed, Running.trigger)
    /\ owner = Checkpointed
    /\ Running.kind # "saveNow" => ~isOpen
    /\ Running.kind \in {"idle", "flush"} => ~Disposed

\* Mutant: the idle checkpoint rechecks the timer's session, already cleared.
CheckpointSavesTimed ==
    /\ ShouldCheckpoint(Checkpointed, Running.trigger)
    /\ owner = Checkpointed
    /\ Running.kind # "saveNow" => ~isOpen
    /\ Running.kind = "idle" => ~Disposed /\ idleTimer = Running.session

\* Whether the checkpoint saves: the policy and the breaker are asked (an
\* explicit save skips the breaker, an idle one is void after dispose()), and
\* only the owner of the slot is ever saved.
CheckpointSaves ==
    /\ ShouldCheckpoint(Checkpointed, Running.trigger)
    /\ owner = Checkpointed
    /\ Running.kind # "saveNow" => ~isOpen
    /\ Running.kind = "idle" => ~Disposed

\* The end of a checkpoint; dispose() sees the end of its final one.
EndCheckpoint ==
    /\ disposal' = IF Running.trigger = "shutdown" /\ disposal = "flushing"
                   THEN "settled" ELSE disposal
    /\ Release
    /\ UNCHANGED slotVars

AdmitCheckpoint ==
    /\ Granted(CheckpointKinds)
    /\ \/ CheckpointSaves /\ BeginSave(owner) /\ UNCHANGED <<wanted, disposal>>
       \/ ~CheckpointSaves /\ EndCheckpoint
    /\ UNCHANGED <<sessionVars, idleTimer>>

DisposalSaves ==
    /\ owner = Running.session
    /\ ShouldCheckpoint(owner, "session-disposed")
    /\ ~isOpen

\* The end of handleSessionDisposed: release the slot and forget the session.
EndSession ==
    /\ IF owner = Running.session THEN ClearOwner ELSE UNCHANGED slotVars
    /\ Forget(Running.session)
    /\ idleTimer' = IF idleTimer = Running.session THEN NoSession ELSE idleTimer
    /\ Release

AdmitDisposed ==
    /\ Granted({"disposed"})
    /\ \/ DisposalSaves /\ BeginSave(owner) /\ UNCHANGED <<wanted, sessionVars, idleTimer>>
       \/ ~DisposalSaves /\ EndSession
    /\ UNCHANGED disposal

\* invalidate and purge: the slot is erased if the session is in it.
AdmitRemoval ==
    /\ Granted({"invalidate", "purge"})
    /\ GoTo(IF owner = Running.session THEN "eraseOwned" ELSE "manifests")
    /\ UNCHANGED <<sessionVars, slotVars, idleTimer, disposal>>

\* Mutant: strict mode fails the request for a failed save, too.
ResumePrepareStrict ==
    /\ phase = "saved" /\ Running.kind \in {"request", "restoreNow"}
    /\ IF Strict /\ slotState = "dirty" THEN Release ELSE GoTo(LookUp)
    /\ UNCHANGED <<sessionVars, slotVars, idleTimer, disposal>>

\* What each operation does once its save is over.
ResumePrepare ==
    /\ phase = "saved" /\ Running.kind \in {"request", "restoreNow"}
    /\ GoTo(LookUp)
    /\ UNCHANGED <<sessionVars, slotVars, idleTimer, disposal>>

ResumeAuxiliary ==
    /\ phase = "saved" /\ Running.kind = "auxiliary"
    /\ ClearOwner
    /\ GoTo("stream")
    /\ UNCHANGED <<sessionVars, idleTimer, disposal>>

ResumeDisposed ==
    /\ phase = "saved" /\ Running.kind = "disposed"
    /\ EndSession
    /\ UNCHANGED disposal

ResumeCheckpoint ==
    /\ phase = "saved" /\ Running.kind \in CheckpointKinds
    /\ EndCheckpoint
    /\ UNCHANGED <<sessionVars, idleTimer>>

Admission ==
    /\ \/ RefuseRequest \/ BypassRequest \/ LoseRequest \/ AdmitRequest
       \/ AdmitRestoreNow \/ AdmitAuxiliary \/ AdmitCheckpoint
       \/ AdmitDisposed \/ AdmitRemoval
       \/ ResumePrepare \/ ResumeAuxiliary \/ ResumeDisposed \/ ResumeCheckpoint
    /\ UNCHANGED <<breakerVars, runtimeKey, outside>>

------------------------------------------------------------------------------
(* The save: backend.saveSlot, then repository.put.                        *)

SaveSlotReturns ==
    /\ phase = "save"
    /\ written' = written \union {SavedFile}
    /\ files' = [files EXCEPT ![SavedFile] = cell]
    /\ GoTo("put")
    /\ UNCHANGED <<runtime, slotState, breakerVars, manifests, late, faults>>

PutReturns ==
    /\ phase = "put"
    /\ manifests' = [manifests EXCEPT ![SavedFile] =
                        [state |-> "ready", key |-> runtimeKey]]
    /\ runtime' = [runtime EXCEPT ![saving.session].persistedRevision =
                      IF @ < saving.generation THEN saving.generation ELSE @]
    /\ slotState' = IF owner = saving.session THEN "ready" ELSE slotState
    /\ RecordSuccess
    /\ GoTo("saved")
    /\ UNCHANGED <<written, files, late, faults>>

\* The catch of the save: the session stays dirty, nothing else fails.
SaveFails ==
    /\ \/ phase = "save" /\ BackendFault("save", SavedFile)
       \/ phase = "put" /\ Fault("metadata") /\ UNCHANGED late
    /\ RecordFailures(1)
    /\ slotState' = IF owner = saving.session THEN "dirty" ELSE slotState
    /\ GoTo("saved")
    /\ UNCHANGED <<runtime, manifests, written, files>>

Saving ==
    /\ SaveSlotReturns \/ PutReturns \/ SaveFails
    /\ UNCHANGED <<known, owner, lifeVars, cell, turns, calls, restarts>>

------------------------------------------------------------------------------
(* The rest of the preparation: find, restore, erase, assign.              *)

Compatible(f) == manifests[f] = [state |-> "ready", key |-> runtimeKey]

FindsSnapshot ==
    /\ phase = "find"
    /\ Compatible(WantedFile)
    /\ slotState' = "restoring"
    /\ GoTo("restore")
    /\ UNCHANGED <<owner, breakerVars, manifests, cell, late, faults>>

\* Mutant: a manifest of another runtime key is skipped but stays ready.
FindsNoneLeaves ==
    /\ phase = "find"
    /\ ~Compatible(WantedFile)
    /\ GoTo("erase")
    /\ UNCHANGED <<slotVars, breakerVars, manifests, cell, late, faults>>

\* No usable manifest.  One of another runtime key is flipped to invalid on the
\* way, unless that write fails; a manifest that cannot be read counts as none.
FindsNone ==
    /\ phase = "find"
    /\ \/ /\ ~Compatible(WantedFile)
          /\ manifests' = IF manifests[WantedFile].state = "ready"
                          THEN [manifests EXCEPT ![WantedFile].state = "invalid"]
                          ELSE manifests
          /\ UNCHANGED faults
       \/ Fault("metadata") /\ UNCHANGED manifests
    /\ GoTo("erase")
    /\ UNCHANGED <<slotVars, breakerVars, cell, late>>

\* The server loads the file and reports how many tokens it restored, none for
\* the file of an empty slot: the verification refuses that.
Restorable(f) == f \in written /\ (Verify => files[f] # EmptyKv)

RestoreReturns ==
    /\ phase = "restore"
    /\ Restorable(WantedFile)
    /\ cell' = files[WantedFile]
    /\ owner' = Running.session
    /\ RecordSuccess
    /\ EndPreparation("ready")
    /\ UNCHANGED <<manifests, late, faults>>

RestoreFails ==
    /\ phase = "restore"
    /\ \/ BackendFault("restore", WantedFile) /\ UNCHANGED cell
       \/ /\ ~Restorable(WantedFile)
          /\ cell' = IF WantedFile \in written THEN EmptyKv ELSE cell
          /\ UNCHANGED <<late, faults>>
    /\ GoTo("markInvalid")
    /\ UNCHANGED <<slotVars, breakerVars, manifests>>

MarkInvalidReturns ==
    /\ phase = "markInvalid"
    /\ \/ /\ manifests' = [manifests EXCEPT ![WantedFile].state =
                              IF @ = "none" THEN "none" ELSE "invalid"]
          /\ UNCHANGED faults
       \/ Fault("metadata") /\ UNCHANGED manifests
    /\ GoTo("eraseFallback")
    /\ UNCHANGED <<slotVars, breakerVars, cell, late>>

\* #eraseSlotBestEffort's call of the server, and whether it failed.
EraseSlot ==
    \/ cell' = EmptyKv /\ UNCHANGED <<late, faults>>
    \/ BackendFault("erase", <<Running.session, AnyModel>>) /\ UNCHANGED cell

EraseFailures == IF faults' = faults THEN 0 ELSE 1

\* The cold assignment of a slot without a usable snapshot.
EraseReturns ==
    /\ phase = "erase"
    /\ EraseSlot
    /\ IF EraseFailures = 0 THEN UNCHANGED breakerVars ELSE RecordFailures(1)
    /\ owner' = Running.session
    /\ EndPreparation("idle")
    /\ UNCHANGED manifests

\* In strict mode, and only there, a failed restore fails the request.
FailsRequest == Strict /\ Running.kind = "request"

\* The cold fallback after a failed restore.
EraseFallbackReturns ==
    /\ phase = "eraseFallback"
    /\ EraseSlot
    /\ RecordFailures(1 + EraseFailures)
    /\ owner' = Running.session
    /\ \/ ~FailsRequest /\ EndPreparation("idle")
       \/ FailsRequest /\ slotState' = "idle" /\ Release
    /\ UNCHANGED manifests

Preparing ==
    /\ \/ FindsSnapshot \/ FindsNone \/ RestoreReturns \/ RestoreFails
       \/ MarkInvalidReturns \/ EraseReturns \/ EraseFallbackReturns
    /\ UNCHANGED <<sessionVars, lifeVars, written, files, turns, calls, restarts>>

------------------------------------------------------------------------------
(* The inference stream and its end.                                       *)

\* What the slot holds after the running conversation used it.
ConversationKv(n) ==
    [session |-> Running.session, model |-> Running.model, key |-> runtimeKey,
     turns |-> n]

AuxiliaryStreamSucceeds ==
    /\ phase = "stream" /\ Running.kind = "auxiliary"
    /\ cell' = AuxiliaryKv
    /\ Release
    /\ UNCHANGED <<runtime, slotState, idleTimer, turns>>

\* The end of a conversation's stream, with #onInferenceSuccess.
StreamSucceeds ==
    LET s == Running.session IN
    /\ phase = "stream" /\ Running.kind = "request"
    /\ cell' = ConversationKv(turns[s] + 1)
    /\ turns' = [turns EXCEPT ![s] = @ + 1]
    /\ runtime' = IF s \in known
                  THEN [runtime EXCEPT ![s].dirtyRevision = @ + 1] ELSE runtime
    /\ IF owner = s
       THEN /\ slotState' = "dirty"
            /\ idleTimer' = IF "idle" \in Triggers THEN s ELSE NoSession
       ELSE UNCHANGED <<slotState, idleTimer>>
    /\ Release

\* What remains of the conversation when only a part of a request is computed.
PartialKv ==
    IF Running.kind = "auxiliary" THEN AuxiliaryKv
    ELSE ConversationKv(IF <<cell.session, cell.model>> = <<Running.session, Running.model>>
                        THEN cell.turns ELSE 0)

\* An error, an abort or an early close: the server may or may not have begun.
StreamFails ==
    /\ phase = "stream"
    /\ "abort" \in Faults
    /\ cell' \in {cell, PartialKv}
    /\ Release
    /\ UNCHANGED <<runtime, slotState, idleTimer, turns>>

Streaming ==
    /\ AuxiliaryStreamSucceeds \/ StreamSucceeds \/ StreamFails
    /\ UNCHANGED <<known, owner, breakerVars, disposal, runtimeKey, manifests,
                   written, files, late, boundVars>>

------------------------------------------------------------------------------
(* invalidate and purge.                                                   *)

EraseOwnedReturns ==
    /\ phase = "eraseOwned"
    /\ EraseSlot
    /\ IF EraseFailures = 0 THEN UNCHANGED breakerVars ELSE RecordFailures(1)
    /\ ClearOwner
    /\ GoTo("manifests")
    /\ UNCHANGED <<sessionVars, manifests>>

\* The session's manifests, one file after another.
SessionSnapshots(s) == {f \in Snapshots : f[1] = s /\ manifests[f].state # "none"}

Removed(fs) ==
    [f \in Snapshots |->
        IF f \notin fs THEN manifests[f]
        ELSE IF Running.kind = "purge" THEN NoManifest
        ELSE [manifests[f] EXCEPT !.state = "invalid"]]

ManifestsReturn ==
    /\ phase = "manifests"
    /\ manifests' = Removed(SessionSnapshots(Running.session))
    /\ IF Running.kind = "purge" THEN Forget(Running.session) ELSE UNCHANGED sessionVars
    /\ Release
    /\ UNCHANGED <<slotVars, breakerVars, cell, late, faults>>

\* A file operation fails on the way: the call throws after some of them.
ManifestsFail ==
    /\ phase = "manifests"
    /\ Fault("metadata")
    /\ \E fs \in SUBSET SessionSnapshots(Running.session) : manifests' = Removed(fs)
    /\ Release
    /\ UNCHANGED <<sessionVars, slotVars, breakerVars, cell, late>>

Removing ==
    /\ EraseOwnedReturns \/ ManifestsReturn \/ ManifestsFail
    /\ UNCHANGED <<lifeVars, written, files, turns, calls, restarts>>

------------------------------------------------------------------------------
(* Beside the lease: the breaker's clock, the probe, the server, a restart. *)

CooldownExpires ==
    /\ isOpen
    /\ isOpen' = FALSE
    /\ UNCHANGED <<failures, serverVars, faults>>

\* probeBackend, which does not take the lease; a failed probe changes nothing.
ProbeSucceeds == RecordSuccess /\ UNCHANGED <<serverVars, faults>>

\* The server executes an operation whose caller has given up.
LateOperation ==
    \E o \in late :
        /\ late' = late \ {o}
        /\ \/ /\ o.kind = "save"
              /\ written' = written \union {o.file}
              /\ files' = [files EXCEPT ![o.file] = cell]
              /\ UNCHANGED cell
           \/ /\ o.kind = "restore"
              /\ cell' = IF o.file \in written THEN files[o.file] ELSE cell
              /\ UNCHANGED <<written, files>>
           \/ /\ o.kind = "erase"
              /\ cell' = EmptyKv
              /\ UNCHANGED <<written, files>>
        /\ UNCHANGED <<breakerVars, faults>>

\* The server restarts: the slot is empty, the snapshot files stay.
ServerRestarts ==
    /\ Fault("serverRestart")
    /\ cell' = EmptyKv
    /\ late' = {}
    /\ UNCHANGED <<breakerVars, written, files>>

Beside ==
    /\ CooldownExpires \/ ProbeSucceeds \/ LateOperation \/ ServerRestarts
    /\ UNCHANGED <<line, holderVars, sessionVars, slotVars, lifeVars, manifests,
                   turns, calls, restarts>>

\* The slot operation a dying process leaves behind at the server.
InFlight ==
    CASE phase = "save" -> {[kind |-> "save", file |-> SavedFile]}
      [] phase = "restore" -> {[kind |-> "restore", file |-> WantedFile]}
      [] phase \in {"erase", "eraseFallback", "eraseOwned"} ->
            {[kind |-> "erase", file |-> <<Running.session, AnyModel>>]}
      [] OTHER -> {}

\* The host process dies or reloads the plugin, and starts again with the same
\* or another runtimeKey.
Restart ==
    /\ restarts < MaxRestarts
    /\ restarts' = restarts + 1
    /\ line' = <<>> /\ phase' = "free" /\ saving' = NoSave /\ wanted' = NoModel
    /\ known' = {} /\ runtime' = [s \in Sessions |-> NewRuntime(AnyModel)]
    /\ owner' = NoSession /\ slotState' = "unknown"
    /\ failures' = 0 /\ isOpen' = FALSE
    /\ idleTimer' = NoSession /\ disposal' = "running"
    /\ runtimeKey' \in RuntimeKeys
    /\ \/ UNCHANGED late
       \/ "late" \in Faults /\ late' = late \union InFlight
    /\ UNCHANGED <<manifests, cell, written, files, turns, calls, faults>>

------------------------------------------------------------------------------

Next ==
    \/ Arrival \/ IdleTimerFires \/ GraceExpires
    \/ Admission \/ Saving \/ Preparing \/ Streaming \/ Removing
    \/ Beside \/ Restart

Spec == Init /\ [][Next]_vars

\* The awaits of the head settle and the timers fire, but a consumer may keep
\* its stream open forever; nobody has to call, to fail or to restart.
OpenStreamSpec ==
    /\ Spec
    /\ WF_vars(Admission \/ Saving \/ Preparing \/ Removing)
    /\ WF_vars(IdleTimerFires) /\ WF_vars(GraceExpires)

------------------------------------------------------------------------------
(* Invariants.                                                             *)

Contents ==
    [session : Sessions \union {NoSession, Auxiliary},
     model : Models \union {NoModel}, key : RuntimeKeys \union {NoKey}, turns : Nat]

Saves ==
    [session : Sessions \union {NoSession}, model : Models \union {NoModel},
     generation : Nat]

Runtimes == [model : Models, dirtyRevision : Nat, persistedRevision : Nat]

Manifests ==
    [state : {"none", "ready", "invalid"}, key : RuntimeKeys \union {NoKey}]

SlotStates ==
    {"unknown", "idle", "restoring", "ready", "inference", "dirty", "saving"}

TypeOK ==
    /\ line \in Seq(Operations)
    /\ phase \in Phases
    /\ saving \in Saves
    /\ wanted \in Models \union {NoModel}
    /\ known \subseteq Sessions
    /\ runtime \in [Sessions -> Runtimes]
    /\ owner \in Sessions \union {NoSession}
    /\ slotState \in SlotStates
    /\ failures \in 0 .. MaxFailures
    /\ isOpen \in BOOLEAN
    /\ idleTimer \in Sessions \union {NoSession}
    /\ disposal \in {"running", "flushing", "settled", "abandoned"}
    /\ runtimeKey \in RuntimeKeys
    /\ manifests \in [Snapshots -> Manifests]
    /\ cell \in Contents
    /\ written \subseteq Snapshots
    /\ files \in [Snapshots -> Contents]
    /\ late \subseteq [kind : {"save", "restore", "erase"}, file : Snapshots]
    /\ turns \in [Sessions -> Nat]
    /\ calls \in Nat /\ faults \in Nat /\ restarts \in Nat

\* While a snapshot is being written, the session being saved still owns the
\* slot, still has its runtime, and has completed no further turn: the
\* generation that will be marked persisted is the one in the slot.
SaveCoversOwner ==
    phase \in {"save", "put"} =>
        /\ owner = saving.session
        /\ saving.session \in known
        /\ saving.generation = runtime[saving.session].dirtyRevision

\* A manifest that may be restored from refers to a snapshot file that the
\* server has written, across failures, timeouts and restarts.
ReadyHasFile ==
    \A f \in Snapshots : manifests[f].state = "ready" => f \in written

\* The slot holds no other conversation, and no auxiliary request, while the
\* coordinator believes it belongs to its owner.
OwnerIsInSlot ==
    owner # NoSession /\ phase \in {"free", "granted", "save", "put", "stream"}
        => cell.session \in {owner, NoSession}

\* A session with turns that no snapshot covers is the one in the slot, unless
\* it is just being purged.
UnsavedIsInSlot ==
    \A s \in known :
        Dirty(s) => owner = s \/ (phase = "manifests" /\ Running.session = s)

\* What the coordinator believes of the slot is so: its owner's conversation is
\* in it and so is every turn that no snapshot covers, in any order of requests,
\* checkpoints, restores and disposals (design.md, Invariants 2 and 7).
SlotIsAsBelieved == OwnerIsInSlot /\ UnsavedIsInSlot

\* A snapshot that may be restored holds nobody else's conversation.
SnapshotsHoldOwnSession ==
    \A f \in Snapshots :
        manifests[f].state = "ready" => files[f].session \in {f[1], NoSession}

\* A clean session's snapshot holds its last completed turn (state-machine.ts:
\* "Generation covered by the latest durable snapshot").
PersistedIsCovered ==
    \A s \in known :
        runtime[s].persistedRevision > 0 /\ ~Dirty(s)
            => \E m \in Models : /\ manifests[<<s, m>>].state = "ready"
                                 /\ files[<<s, m>>].turns = turns[s]

------------------------------------------------------------------------------
(* Action properties.                                                      *)

\* A dirty owner loses the slot only after this lease tried to save its last
\* generation, or because the breaker is open, or by an explicit invalidation
\* or purge (design.md, Invariant 3).
SaveBeforeEvict ==
    [][\A s \in known :
         owner = s /\ owner' # s /\ Dirty(s) /\ "switch" \in Triggers
           => \/ restarts' # restarts
              \/ isOpen
              \/ /\ saving.session = s
                 /\ saving.generation = runtime[s].dirtyRevision
              \/ Running.kind \in {"invalidate", "purge"}]_vars

\* The runtime of the request's session was deleted in front of it.
SessionHasEnded == Running.kind = "request" /\ Running.session \notin known

\* Persistence never fails a request: one that leaves the line without having
\* been served was refused by dispose(), came behind the end of its own session,
\* or was failed by strict mode, which does so for nothing but a failed restore
\* (design.md, Invariants 1 and 5).
RequestsAreServed ==
    [][line # <<>> /\ line' = Tail(line) /\ Running.kind \in {"request", "auxiliary"}
         => \/ phase = "stream" \/ Disposed \/ SessionHasEnded \/ restarts' # restarts
            \/ Strict /\ phase = "eraseFallback"]_vars

\* When dispose() reports its final checkpoint as done, no turn in the slot is
\* unsaved, unless saving it failed.
SettledIsSaved ==
    [][disposal = "flushing" /\ disposal' = "settled" /\ owner # NoSession
         => \/ ~Dirty(owner) \/ isOpen \/ saving.session = owner]_vars

\* What a restore puts in the slot was computed by the model and under the
\* runtime key it is restored for (design.md, Invariant 4).
RestoresOwnRuntime ==
    [][phase = "restore" /\ cell' # cell /\ owner' = Running.session
         => cell'.model = wanted /\ cell'.key = runtimeKey]_vars

\* The lease's line is the one SlotMutex implements, for as long as the process
\* lives.
Line == INSTANCE LeaseQueue

ImplementsLine == Line!MortalSpec

------------------------------------------------------------------------------
(* Liveness.                                                               *)

\* Whatever fails, an operation either gives the lease back or is streaming:
\* the line is emptied or stands behind an open stream again and again.
LineMoves == (line # <<>>) ~> (line = <<>> \/ phase = "stream")

\* dispose() returns even if a stream in front of its checkpoint never ends.
DisposeReturns == (disposal = "flushing") ~> (disposal # "flushing")

\* The slot holds turns of the session that no snapshot covers, and the idle
\* checkpoint is scheduled: so each completed turn leaves it.
AwaitsIdleSave(s) == owner = s /\ s \in known /\ Dirty(s) /\ idleTimer = s

\* The session is being invalidated or purged: its turns are given up.
GivenUp(s) == phase = "manifests" /\ Running.session = s

\* A request that waits behind the end of its own session will be lost, after
\* it cancelled the idle checkpoint (LoseRequest).
RequestWillBeLost ==
    \E i \in DOMAIN line : line[i].kind = "request" /\ line[i].session \notin known

\* How the wait of unsaved turns may end: they are saved, given up, left to the
\* final checkpoint or to a fault, or the slot is in use for ever.
WaitIsOver(s) ==
    \/ ~Dirty(s) \/ GivenUp(s) \/ Disposed \/ faults > 0 \/ RequestWillBeLost
    \/ [](phase = "stream")

\* A stream of the owner broke off and nobody waits: the request cancelled the
\* idle checkpoint, and only a stream that succeeds sets it again.
BrokenOff(s) == phase = "free" /\ owner = s /\ slotState = "inference"

\* Turns in the slot that no snapshot covers are saved when nobody uses the slot
\* ("Save dirty state after N seconds without another request", design.md:1144),
\* whatever cancels the idle timer or comes before it in the line.
UnsavedIsSaved == \A s \in Sessions : AwaitsIdleSave(s) ~> WaitIsOver(s)

\* The same for a slot that no broken stream has left behind: every other way to
\* cancel the idle checkpoint saves the slot itself or sets the timer again.
DirtySlotIsSaved == \A s \in Sessions : AwaitsIdleSave(s) ~> (WaitIsOver(s) \/ BrokenOff(s))
=============================================================================
